----------------------------- MODULE HwBarrier ------------------------------
(***************************************************************************)
(* The hardware barrier of a cluster: hw/snitch_cluster/src/               *)
(* snitch_barrier.sv (one arrival bit per core) and its two ends in        *)
(* hw/snitch/src/snitch.sv (a read of CSR_BARRIER stalls the core until    *)
(* the barrier fires).  One instance per cluster, all in one state.        *)
(***************************************************************************)
CONSTANTS
    Clusters,       \* the clusters
    CoreIds         \* the cores of a cluster

VARIABLES
    arrival,        \* arrival[c]: the cores whose arrival bit is set
    csr_stall       \* csr_stall[c]: the cores stalled at the barrier

hwvars == <<arrival, csr_stall>>

HwInit ==
    /\ arrival = [c \in Clusters |-> {}]
    /\ csr_stall = [c \in Clusters |-> {}]

HwTypeOK ==
    /\ arrival \in [Clusters -> SUBSET CoreIds]
    /\ csr_stall \in [Clusters -> SUBSET CoreIds]

(* barrier_o = &arrival_q *)
Fires(c) == arrival[c] = CoreIds

(* Mutant: the arrival bits of the other cores are not held. *)
ReadBarrierCsrNotHeld(c, i) ==
    /\ i \notin csr_stall[c]
    /\ arrival' = [arrival EXCEPT ![c] = {i}]
    /\ csr_stall' = [csr_stall EXCEPT ![c] = @ \cup {i}]

(* Core i of cluster c executes "csrr x0, 0x7C2": the request pulse sets   *)
(* its arrival bit, unless the barrier fires in the same cycle, and the    *)
(* core stalls.                                                            *)
ReadBarrierCsr(c, i) ==
    /\ i \notin csr_stall[c]
    /\ arrival' = [arrival EXCEPT ![c] = IF Fires(c) THEN {} ELSE @ \cup {i}]
    /\ csr_stall' = [csr_stall EXCEPT ![c] = @ \cup {i}]

(* The cycle in which the barrier fires: all arrival bits are cleared and  *)
(* every core continues.                                                   *)
Fire(c) ==
    /\ Fires(c)
    /\ arrival' = [arrival EXCEPT ![c] = {}]
    /\ csr_stall' = [csr_stall EXCEPT ![c] = {}]
=============================================================================
