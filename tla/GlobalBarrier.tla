--------------------------- MODULE GlobalBarrier ----------------------------
(***************************************************************************)
(* snrt_global_barrier and snrt_global_all_to_all_reduction of             *)
(* sw/snRuntime/src/sync.h, over every core of every cluster.  A call is a *)
(* hardware barrier in the cluster, then the software barrier among the DM *)
(* cores of the clusters, then the hardware barrier again; this module     *)
(* composes HwBarrier and PartialBarrier.                                  *)
(*                                                                         *)
(* Each core makes MaxEpisodes calls; the last of them is the reduction of *)
(* the exit codes with which snrt_exit_default (start.c) ends a program.   *)
(***************************************************************************)
EXTENDS Integers, FiniteSets, Functions

CONSTANTS
    Clusters,       \* the clusters
    CoreIds,        \* the cores of each cluster
    DmCore,         \* the id of its DM core
    IterMod,        \* iteration counts modulo IterMod (2^32 in the code)
    MaxEpisodes,    \* model bound: calls made by each core
    ExitCode(_, _)  \* ExitCode(c, i): the value core i of c contributes

ASSUME ShapeAssumption ==
    /\ IsFiniteSet(Clusters) /\ Clusters # {}
    /\ IsFiniteSet(CoreIds) /\ DmCore \in CoreIds
    /\ IterMod \in Nat \ {0, 1}
    /\ MaxEpisodes \in Nat \ {0}
    /\ \A c \in Clusters, i \in CoreIds : ExitCode(c, i) \in Nat

Cores == Clusters \X CoreIds

VARIABLES
    arrival, csr_stall,                     \* HwBarrier
    cnt, iteration,                         \* _snrt_barrier
    swpc, prev_it, swEntered, swLeft,       \* the DM cores in PartialBarrier
    pc,                                     \* where each core is in the call
    entered, left,                          \* calls begun, returned (history)
    reduction_result,                       \* _reduction_result
    exit_code                               \* what the reduction returned

hw == <<arrival, csr_stall>>
sw == <<cnt, iteration, swpc, prev_it, swEntered, swLeft>>
red == <<reduction_result, exit_code>>
vars == <<hw, sw, pc, entered, left, red>>

Hw == INSTANCE HwBarrier

Sw == INSTANCE PartialBarrier
        WITH Procs <- Clusters, pc <- swpc, entered <- swEntered, left <- swLeft

Init ==
    /\ Hw!HwInit
    /\ Sw!Init
    /\ pc = [x \in Cores |-> "out"]
    /\ entered = [x \in Cores |-> 0]
    /\ left = [x \in Cores |-> 0]
    /\ reduction_result = 0
    /\ exit_code = [x \in Cores |-> -1]

(* The call.  The last one is the reduction, which first adds the core's   *)
(* value to the shared word in one atomic access.                          *)
Call(c, i) ==
    LET x == <<c, i>>
        last == entered[x] + 1 = MaxEpisodes
    IN  /\ pc[x] = "out"
        /\ entered[x] < MaxEpisodes
        /\ entered' = [entered EXCEPT ![x] = @ + 1]
        /\ reduction_result' =
               reduction_result + (IF last THEN ExitCode(c, i) ELSE 0)
        /\ pc' = [pc EXCEPT ![x] = "hw1"]
        /\ UNCHANGED <<hw, sw, left, exit_code>>

(* A core reaches one of the two snrt_cluster_hw_barrier() calls. *)
EnterHw(c, i) ==
    LET x == <<c, i>>
    IN  /\ pc[x] \in {"hw1", "hw2"}
        /\ Hw!ReadBarrierCsr(c, i)
        /\ pc' = [pc EXCEPT ![x] = IF @ = "hw1" THEN "stall1" ELSE "stall2"]
        /\ UNCHANGED <<sw, entered, left, red>>

(* Mutant: the second hardware barrier is left out, so the compute cores   *)
(* do not wait for the software barrier of their DM core.                  *)
AfterHwNoSecond(x) ==
    CASE pc[x] = "stall1" -> IF x[2] = DmCore THEN "sw" ELSE "ret"
      [] pc[x] = "stall2" -> "ret"
      [] OTHER            -> pc[x]

(* Where a core goes on when the hardware barrier lets it go: the DM core  *)
(* into the software barrier, the others to the second hardware barrier;   *)
(* after that one the call returns.                                        *)
AfterHw(x) ==
    CASE pc[x] = "stall1" -> IF x[2] = DmCore THEN "sw" ELSE "hw2"
      [] pc[x] = "stall2" -> "ret"
      [] OTHER            -> pc[x]

(* The hardware barrier of cluster c fires. *)
ReleaseHw(c) ==
    /\ Hw!Fire(c)
    /\ pc' = [x \in Cores |-> IF x[1] = c THEN AfterHw(x) ELSE pc[x]]
    /\ UNCHANGED <<sw, entered, left, red>>

(* Mutant: the DM core returns from the branch with the software barrier,  *)
(* and only the compute cores go on to the second hardware barrier.        *)
SwStepReturns(c) ==
    LET x == <<c, DmCore>>
    IN  /\ pc[x] = "sw"
        /\ \/ Sw!ReadIteration(c) \/ Sw!AddCnt(c) \/ Sw!ResetCnt(c)
              \/ Sw!BumpIteration(c) \/ Sw!SpinEnds(c)
        /\ pc' = [pc EXCEPT ![x] = IF swpc'[c] = "out" THEN "ret" ELSE "sw"]
        /\ UNCHANGED <<hw, entered, left, red>>

(* The DM core of cluster c takes a step of the software barrier.          *)
SwStep(c) ==
    LET x == <<c, DmCore>>
    IN  /\ pc[x] = "sw"
        /\ \/ Sw!ReadIteration(c) \/ Sw!AddCnt(c) \/ Sw!ResetCnt(c)
              \/ Sw!BumpIteration(c) \/ Sw!SpinEnds(c)
        /\ pc' = [pc EXCEPT ![x] = IF swpc'[c] = "out" THEN "hw2" ELSE "sw"]
        /\ UNCHANGED <<hw, entered, left, red>>

(* The barrier returns; the reduction then reads _reduction_result.        *)
Return(c, i) ==
    LET x == <<c, i>>
    IN  /\ pc[x] = "ret"
        /\ left' = [left EXCEPT ![x] = @ + 1]
        /\ pc' = [pc EXCEPT ![x] =
                     IF entered[x] = MaxEpisodes THEN "read" ELSE "out"]
        /\ UNCHANGED <<hw, sw, entered, red>>

(* "return _reduction_result" *)
ReadResult(c, i) ==
    LET x == <<c, i>>
    IN  /\ pc[x] = "read"
        /\ exit_code' = [exit_code EXCEPT ![x] = reduction_result]
        /\ pc' = [pc EXCEPT ![x] = "done"]
        /\ UNCHANGED <<hw, sw, entered, left, reduction_result>>

Next ==
    \/ \E c \in Clusters, i \in CoreIds :
           Call(c, i) \/ EnterHw(c, i) \/ Return(c, i) \/ ReadResult(c, i)
    \/ \E c \in Clusters : ReleaseHw(c) \/ SwStep(c)

(* A core executes its instructions and the barrier circuit is clocked.    *)
(* Whether a core calls the barrier is up to the program.                  *)
Fairness ==
    /\ \A c \in Clusters, i \in CoreIds :
           /\ WF_vars(EnterHw(c, i))
           /\ WF_vars(Return(c, i))
           /\ WF_vars(ReadResult(c, i))
    /\ \A c \in Clusters : WF_vars(ReleaseHw(c)) /\ WF_vars(SwStep(c))

Spec == Init /\ [][Next]_vars /\ Fairness

-----------------------------------------------------------------------------
TypeOK ==
    /\ Hw!HwTypeOK
    /\ Sw!TypeOK
    /\ pc \in [Cores -> {"out", "hw1", "stall1", "sw", "hw2", "stall2",
                         "ret", "read", "done"}]
    /\ entered \in [Cores -> 0..MaxEpisodes]
    /\ left \in [Cores -> 0..MaxEpisodes]
    /\ reduction_result \in Nat
    /\ exit_code \in [Cores -> Nat \cup {-1}]

(* The hardware barriers a core has been let through: two in each call,    *)
(* one before and one after the software barrier.                          *)
Passed(x) ==
    2 * left[x] + (IF pc[x] \in {"sw", "hw2", "stall2"} THEN 1
                   ELSE IF pc[x] = "ret" THEN 2 ELSE 0)

(* A core is stalled exactly while it waits at a hardware barrier, and the *)
(* arrival bits are those of the stalled cores.                            *)
ArrivalsAreStalls ==
    \A c \in Clusters :
        /\ arrival[c] = csr_stall[c]
        /\ \A i \in CoreIds :
               i \in csr_stall[c] <=> pc[<<c, i>>] \in {"stall1", "stall2"}

(* A hardware barrier lets all cores of its cluster through together.      *)
ClusterInStep ==
    \A x, y \in Cores : x[1] = y[1] => Passed(x) = Passed(y)

(* The calls a core has begun and not returned from; only a core that has  *)
(* returned from its last call reads the result.                           *)
CallsBalance ==
    \A x \in Cores :
        /\ entered[x] =
               left[x] + (IF pc[x] \in {"out", "read", "done"} THEN 0 ELSE 1)
        /\ pc[x] \in {"read", "done"} => left[x] = MaxEpisodes

(* The DM core of a cluster, and no other, goes through the software       *)
(* barrier, once in each call and between the two hardware barriers.       *)
SwBetweenHw ==
    \A c \in Clusters :
        LET d == <<c, DmCore>>
        IN  /\ \A i \in CoreIds : pc[<<c, i>>] = "sw" => i = DmCore
            /\ swpc[c] # "out" => pc[d] = "sw"
            /\ swLeft[c] =
                   left[d] + (IF pc[d] \in {"hw2", "stall2", "ret"} THEN 1 ELSE 0)

(* What a core has returned is what the shared word holds, from then on:   *)
(* nobody adds to _reduction_result once somebody has read it.             *)
ResultFinal ==
    \A x \in Cores : pc[x] = "done" => exit_code[x] = reduction_result

(* The shared word holds the values of the cores that have begun their     *)
(* last call, each of them once.                                           *)
ExitCodes == [x \in Cores |-> ExitCode(x[1], x[2])]

ResultIsPartialSum ==
    reduction_result =
        SumFunctionOnSet(ExitCodes, {x \in Cores : entered[x] = MaxEpisodes})

(* The inductive invariant of the composition: the one of the software     *)
(* barrier, and how the cores of a cluster move in step around it.         *)
IInv ==
    /\ TypeOK
    /\ Sw!IInv
    /\ ArrivalsAreStalls
    /\ ClusterInStep
    /\ CallsBalance
    /\ SwBetweenHw
    /\ ResultFinal
    /\ ResultIsPartialSum

(* "Synchronize clusters globally" (sync.h:69): no core of any cluster     *)
(* returns from its k-th call before every core of every cluster has       *)
(* begun its k-th call.                                                    *)
GloballySynchronised ==
    \A x, y \in Cores : left[x] <= entered[y]

(* The reduction returns the sum of all exit codes to every core, no       *)
(* matter how the additions and the reads interleave.                      *)
ReductionExact ==
    \A x \in Cores :
        pc[x] = "done" => exit_code[x] = SumFunction(ExitCodes)

(* The composed barrier implements EpisodeBarrier over all cores, liveness *)
(* included.                                                               *)
Abstract == INSTANCE EpisodeBarrier WITH Procs <- Cores

Implements == Abstract!ESpec
=============================================================================
