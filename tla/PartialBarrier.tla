--------------------------- MODULE PartialBarrier ---------------------------
(***************************************************************************)
(* snrt_partial_barrier of sw/snRuntime/src/sync.h: the sense-counting     *)
(* barrier over one snrt_barrier_t {cnt, iteration} in shared memory.  The *)
(* software part of snrt_global_barrier is the same code over              *)
(* _snrt_barrier, entered by one core of each cluster.                     *)
(*                                                                         *)
(* One action per shared-memory access: the read of iteration, the atomic  *)
(* increment of cnt, the store that resets cnt, the atomic increment of    *)
(* iteration, the read that ends the spin loop.                            *)
(***************************************************************************)
EXTENDS Naturals, FiniteSets

CONSTANTS
    Procs,          \* the harts that call the barrier with n = |Procs|
    IterMod,        \* iteration is an unsigned word: it counts modulo IterMod
    MaxEpisodes     \* model bound: calls made by each hart

ASSUME ProcsAssumption == IsFiniteSet(Procs) /\ Procs # {}

(* The code has IterMod = 2^32; two values are enough for it to be right.  *)
ASSUME IterModAssumption == IterMod \in Nat \ {0, 1}

ASSUME MaxEpisodesAssumption == MaxEpisodes \in Nat

VARIABLES
    cnt,            \* barr->cnt
    iteration,      \* barr->iteration
    pc,             \* where each hart is in the function
    prev_it,        \* its local copy of iteration
    entered,        \* number of calls begun (history)
    left            \* number of calls returned from (history)

vars == <<cnt, iteration, pc, prev_it, entered, left>>

n == Cardinality(Procs)

Init ==
    /\ cnt = 0
    /\ iteration = 0
    /\ pc = [p \in Procs |-> "out"]
    /\ prev_it = [p \in Procs |-> 0]
    /\ entered = [p \in Procs |-> 0]
    /\ left = [p \in Procs |-> 0]

(* The call, and "uint32_t prev_it = barr->iteration". *)
ReadIteration(p) ==
    /\ pc[p] = "out"
    /\ entered[p] < MaxEpisodes
    /\ entered' = [entered EXCEPT ![p] = @ + 1]
    /\ prev_it' = [prev_it EXCEPT ![p] = iteration]
    /\ pc' = [pc EXCEPT ![p] = "add"]
    /\ UNCHANGED <<cnt, iteration, left>>

(* Mutant: the branch tests the count before the increment. *)
AddCntTestsOld(p) ==
    /\ pc[p] = "add"
    /\ cnt' = cnt + 1
    /\ pc' = [pc EXCEPT ![p] = IF cnt = n THEN "reset" ELSE "spin"]
    /\ UNCHANGED <<iteration, prev_it, entered, left>>

(* Mutant: the caller is not counted in n. *)
AddCntOffByOne(p) ==
    /\ pc[p] = "add"
    /\ cnt' = cnt + 1
    /\ pc' = [pc EXCEPT ![p] = IF cnt + 1 = n - 1 THEN "reset" ELSE "spin"]
    /\ UNCHANGED <<iteration, prev_it, entered, left>>

(* "cnt = __atomic_add_fetch(&barr->cnt, 1)" and the branch on cnt == n. *)
AddCnt(p) ==
    /\ pc[p] = "add"
    /\ cnt' = cnt + 1
    /\ pc' = [pc EXCEPT ![p] = IF cnt + 1 = n THEN "reset" ELSE "spin"]
    /\ UNCHANGED <<iteration, prev_it, entered, left>>

(* Mutant: the counter is not reset for the next episode. *)
ResetCntForgotten(p) ==
    /\ pc[p] = "reset"
    /\ pc' = [pc EXCEPT ![p] = "bump"]
    /\ UNCHANGED <<cnt, iteration, prev_it, entered, left>>

(* The last to arrive: "barr->cnt = 0". *)
ResetCnt(p) ==
    /\ pc[p] = "reset"
    /\ cnt' = 0
    /\ pc' = [pc EXCEPT ![p] = "bump"]
    /\ UNCHANGED <<iteration, prev_it, entered, left>>

(* The last to arrive: "__atomic_add_fetch(&barr->iteration, 1)"; returns. *)
BumpIteration(p) ==
    /\ pc[p] = "bump"
    /\ iteration' = (iteration + 1) % IterMod
    /\ pc' = [pc EXCEPT ![p] = "out"]
    /\ left' = [left EXCEPT ![p] = @ + 1]
    /\ UNCHANGED <<cnt, prev_it, entered>>

(* "while (prev_it == barr->iteration)" reads another value; returns. *)
SpinEnds(p) ==
    /\ pc[p] = "spin"
    /\ prev_it[p] # iteration
    /\ pc' = [pc EXCEPT ![p] = "out"]
    /\ left' = [left EXCEPT ![p] = @ + 1]
    /\ UNCHANGED <<cnt, iteration, prev_it, entered>>

Inside(p) == AddCnt(p) \/ ResetCnt(p) \/ BumpIteration(p) \/ SpinEnds(p)

Next == \E p \in Procs : ReadIteration(p) \/ Inside(p)

(* A core executes its instructions: a hart inside the function goes on.   *)
Fairness == \A p \in Procs : WF_vars(Inside(p))

Spec == Init /\ [][Next]_vars /\ Fairness

-----------------------------------------------------------------------------
TypeOK ==
    /\ cnt \in 0..n
    /\ iteration \in 0..(IterMod - 1)
    /\ pc \in [Procs -> {"out", "add", "reset", "bump", "spin"}]
    /\ prev_it \in [Procs -> 0..(IterMod - 1)]
    /\ entered \in [Procs -> 0..MaxEpisodes]
    /\ left \in [Procs -> 0..MaxEpisodes]

(* The harts counted in cnt: arrived, and not yet let go. *)
Waiting ==
    {p \in Procs : \/ pc[p] \in {"reset", "bump"}
                   \/ pc[p] = "spin" /\ prev_it[p] = iteration}

(* The last hart to arrive is completing the episode. *)
Completing == {p \in Procs : pc[p] \in {"reset", "bump"}}

(* cnt counts the waiting harts, except between the two stores of the last *)
(* one, where it is already 0 for the next episode.                        *)
CntCountsWaiting ==
    cnt = IF \E p \in Procs : pc[p] = "bump" THEN 0 ELSE Cardinality(Waiting)

(* While the episode is being completed every hart waits: none can see cnt *)
(* and iteration half-updated and join the next episode too early.         *)
AllWaitWhileCompleting ==
    /\ Completing # {} => Waiting = Procs
    /\ \A p, q \in Completing : p = q

(* A hart about to be counted has read the current iteration. *)
PrevItIsCurrent ==
    \A p \in Procs : pc[p] = "add" => prev_it[p] = iteration

(* The episode a hart has got to: a hart that was let go and has not yet   *)
(* seen it still belongs to the episode before.                            *)
Released(p) == pc[p] = "spin" /\ prev_it[p] # iteration

SameEpisode ==
    \A p, q \in Procs :
        left[p] + (IF Released(p) THEN 1 ELSE 0)
            = left[q] + (IF Released(q) THEN 1 ELSE 0)

CallsBalance ==
    \A p \in Procs : entered[p] = left[p] + (IF pc[p] = "out" THEN 0 ELSE 1)

(* A full count is acted on: n waiting harts never wait for one another.   *)
NotAllSpin ==
    Completing = {} => Waiting # Procs

(* The inductive invariant. *)
IInv ==
    /\ TypeOK
    /\ CntCountsWaiting
    /\ AllWaitWhileCompleting
    /\ NotAllSpin
    /\ PrevItIsCurrent
    /\ SameEpisode
    /\ CallsBalance

-----------------------------------------------------------------------------
(* "n: number of harts that have to enter before released" (sync.h:103):   *)
(* nobody has returned from its k-th call before everybody has begun it.   *)
Synchronised ==
    \A p, q \in Procs : left[p] <= entered[q]

(* The barrier implements the abstract one, liveness included: a hart that *)
(* everybody has caught up with returns.                                   *)
Abstract == INSTANCE EpisodeBarrier

Implements == Abstract!ESpec
=============================================================================
