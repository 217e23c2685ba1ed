--------------------------- MODULE EpisodeBarrier ---------------------------
(***************************************************************************)
(* What every barrier of the system promises, whatever it is built from:   *)
(* the participants meet in numbered episodes, and nobody leaves an        *)
(* episode before everybody has entered it.  PartialBarrier (the software  *)
(* barrier of sync.h) and GlobalBarrier (hardware and software barriers    *)
(* composed) are shown to implement this specification.                    *)
(***************************************************************************)
EXTENDS Naturals

CONSTANTS
    Procs,          \* the participants
    MaxEpisodes     \* how often each of them meets the others (a model bound)

VARIABLES
    entered,        \* entered[p]: number of calls p has begun
    left            \* left[p]: number of calls p has returned from

evars == <<entered, left>>

EInit ==
    /\ entered = [p \in Procs |-> 0]
    /\ left = [p \in Procs |-> 0]

(* p calls the barrier. *)
Enter(p) ==
    /\ entered[p] = left[p]
    /\ entered[p] < MaxEpisodes
    /\ entered' = [entered EXCEPT ![p] = @ + 1]
    /\ UNCHANGED left

(* p returns: everybody has begun the call that p returns from. *)
Leave(p) ==
    /\ left[p] < entered[p]
    /\ \A q \in Procs : left[p] < entered[q]
    /\ left' = [left EXCEPT ![p] = @ + 1]
    /\ UNCHANGED entered

ENext == \E p \in Procs : Enter(p) \/ Leave(p)

(* A participant that everybody waits for may stay away for ever, but who  *)
(* may leave does leave.                                                   *)
EFairness == \A p \in Procs : WF_evars(Leave(p))

ESafe == EInit /\ [][ENext]_evars

ESpec == ESafe /\ EFairness
=============================================================================
