------------------------------- MODULE AddrGen -------------------------------
(***************************************************************************)
(* The address generation units of the SNAX streamer                       *)
(* (hw/chisel/.../streamer/TemporalAddrGenUnit.scala and                   *)
(* SpatialAddrGenUnit.scala) as synchronous circuits: the registers of a   *)
(* unit are a record, its wires are operators of the registers and the     *)
(* inputs, and AguNext gives the registers after the clock edge.           *)
(***************************************************************************)
EXTENDS Naturals, Functions

CONSTANTS
    LoopDim,            \* params.loopDim, the nested temporal loops
    LoopBoundWidth,     \* params.loopBoundWidth, bits of a loop counter
    AddrWidth           \* params.addrWidth, bits of an address

ASSUME AddrGenAssumption ==
    /\ LoopDim \in Nat \ {0} /\ LoopBoundWidth \in Nat \ {0} /\ AddrWidth \in Nat

(* Consequences of the widths being natural numbers: the provers know no   *)
(* more of ^ than that a power is an integer.                              *)
ASSUME PowersAssumption ==
    2^LoopBoundWidth \in Nat \ {0, 1} /\ 2^AddrWidth \in Nat \ {0}

(* Loop 1 is the innermost one. *)
Dims == 1..LoopDim

(* A configuration: loop bounds, strides and start pointer. *)
AguInit ==
    [busy |-> FALSE,
     loopBounds |-> [i \in Dims |-> 1],
     strides |-> [i \in Dims |-> 0],
     ptr |-> 0,
     loop_counters |-> [i \in Dims |-> 0]]

CounterNext(agu, i) == (agu.loop_counters[i] + 1) % 2^LoopBoundWidth

CounterLast(agu, i) == CounterNext(agu, i) = agu.loopBounds[i]

(* io.ptr_o.valid and io.ptr_o.bits *)
PtrValid(agu) == agu.busy

PtrOut(agu) ==
    (agu.ptr + SumFunction([i \in Dims |-> agu.loop_counters[i] * agu.strides[i]]))
        % 2^AddrWidth

(* Mutant: an inner counter is not reset when it hands over the carry. *)
CountersNextNoReset(agu) ==
    [i \in Dims |->
        IF \A j \in 1..(i - 1) : CounterLast(agu, j)
        THEN CounterNext(agu, i) ELSE agu.loop_counters[i]]

(* The carry chain: a counter advances when all counters inside it are at  *)
(* their last value.                                                       *)
CountersNext(agu) ==
    [i \in Dims |->
        IF \A j \in 1..(i - 1) : CounterLast(agu, j)
        THEN IF CounterLast(agu, i) THEN 0 ELSE CounterNext(agu, i)
        ELSE agu.loop_counters[i]]

(* io.done: the last pointer of all loops is accepted. *)
AddrGenDone(agu, ptr_ready) ==
    /\ agu.busy /\ ptr_ready
    /\ \A i \in Dims : CounterLast(agu, i)

(* One clock cycle. *)
AguNext(agu, config_valid, config, ptr_ready) ==
    CASE ~agu.busy /\ config_valid ->
            [busy |-> TRUE, loopBounds |-> config.loopBounds,
             strides |-> config.strides, ptr |-> config.ptr,
             loop_counters |-> [i \in Dims |-> 0]]
      [] ~agu.busy /\ ~config_valid ->
            [agu EXCEPT !.loop_counters = [i \in Dims |-> 0]]
      [] agu.busy /\ ptr_ready ->
            [agu EXCEPT !.busy = ~AddrGenDone(agu, ptr_ready),
                        !.loop_counters = CountersNext(agu)]
      [] OTHER -> agu

(* The iterations of the n innermost loops. *)
Volume(bounds, n) ==
    LET vol[i \in 0..n] == IF i = 0 THEN 1 ELSE vol[i - 1] * bounds[i]
    IN  vol[n]

(* Element i of the spatially unrolled loops: its indices and its address. *)
(* The spatial unit is combinational.                                      *)
SpatialLoopIndex(bounds, i, j) == (i \div Volume(bounds, j - 1)) % bounds[j]

SpatialAddr(bounds, strides, ptr, i) ==
    (ptr + SumFunction([j \in DOMAIN bounds |->
                           SpatialLoopIndex(bounds, i, j) * strides[j]]))
        % 2^AddrWidth

(* What the temporal unit should compute, without counters: the k-th       *)
(* address of a configuration.                                             *)
NestedLoopAddr(config, k) ==
    (config.ptr + SumFunction([i \in Dims |->
        ((k \div Volume(config.loopBounds, i - 1)) % config.loopBounds[i])
            * config.strides[i]]))
        % 2^AddrWidth
=============================================================================
