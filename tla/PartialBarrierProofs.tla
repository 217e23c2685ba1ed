------------------------ MODULE PartialBarrierProofs ------------------------
(***************************************************************************)
(* For every finite set of harts, every width of the iteration word and    *)
(* every number of calls: the software barrier of sync.h keeps its         *)
(* invariant, synchronises its harts, and implements EpisodeBarrier.       *)
(***************************************************************************)
EXTENDS PartialBarrier, FiniteSetTheorems, TLAPS

(* The count n of harts is a positive natural number. *)
LEMMA NType == n \in Nat /\ n # 0
BY ProcsAssumption, FS_CardinalityType, FS_EmptySet DEF n

(* Counting the waiting harts: the count is at most n, and is n only when  *)
(* every hart waits.                                                       *)
LEMMA WaitingCount ==
    /\ IsFiniteSet(Waiting)
    /\ Cardinality(Waiting) \in Nat
    /\ Cardinality(Waiting) <= n
    /\ Cardinality(Waiting) = n => Waiting = Procs
<1>1. Waiting \in SUBSET Procs
  BY DEF Waiting
<1> QED
  BY <1>1, ProcsAssumption, FS_Subset, FS_CardinalityType DEF n

(* The wrap-around of the iteration word never makes it equal to what it   *)
(* was one increment before.                                               *)
LEMMA NextIteration ==
    ASSUME NEW i \in 0..(IterMod - 1)
    PROVE  /\ (i + 1) % IterMod \in 0..(IterMod - 1)
           /\ (i + 1) % IterMod # i
<1>1. CASE i + 1 = IterMod
  <2>1. IterMod % IterMod = 0
    BY IterModAssumption
  <2> QED
    BY <1>1, <2>1, IterModAssumption
<1>2. CASE i + 1 # IterMod
  <2>1. i + 1 \in 0..(IterMod - 1)
    BY <1>2, IterModAssumption
  <2>2. (i + 1) % IterMod = i + 1
    BY <2>1, IterModAssumption
  <2> QED
    BY <2>1, <2>2
<1> QED
  BY <1>1, <1>2

(* The initial state satisfies the invariant. *)
LEMMA InitIInv == Init => IInv
<1> SUFFICES ASSUME Init PROVE IInv
  OBVIOUS
<1>1. TypeOK
  BY NType, IterModAssumption, MaxEpisodesAssumption DEF Init, TypeOK
<1>2. Waiting = {} /\ Completing = {}
  BY DEF Init, Waiting, Completing
<1>3. CntCountsWaiting
  BY <1>2, FS_EmptySet DEF Init, CntCountsWaiting
<1>4. AllWaitWhileCompleting /\ NotAllSpin
  BY <1>2, ProcsAssumption DEF AllWaitWhileCompleting, NotAllSpin
<1>5. PrevItIsCurrent /\ SameEpisode /\ CallsBalance
  BY DEF Init, PrevItIsCurrent, SameEpisode, CallsBalance, Released
<1> QED
  BY <1>1, <1>3, <1>4, <1>5 DEF IInv

(* The call: nothing that is counted changes. *)
LEMMA ReadIterationIInv ==
    ASSUME IInv, NEW p \in Procs, ReadIteration(p)
    PROVE  IInv'
<1> USE DEF IInv
<1>1. TypeOK'
  BY MaxEpisodesAssumption DEF TypeOK, ReadIteration
<1>2. Waiting' = Waiting /\ Completing' = Completing
  BY DEF TypeOK, ReadIteration, Waiting, Completing
<1>3. CntCountsWaiting'
  BY <1>2 DEF CntCountsWaiting, TypeOK, ReadIteration
<1>4. AllWaitWhileCompleting' /\ NotAllSpin'
  BY <1>2 DEF AllWaitWhileCompleting, NotAllSpin
<1>5. PrevItIsCurrent'
  BY DEF PrevItIsCurrent, TypeOK, ReadIteration
<1>6. SameEpisode'
  <2>1. \A q \in Procs : Released(q)' = Released(q)
    BY DEF Released, TypeOK, ReadIteration
  <2> QED
    BY <2>1 DEF SameEpisode, ReadIteration
<1>7. CallsBalance'
  BY DEF CallsBalance, TypeOK, ReadIteration
<1> QED
  BY <1>1, <1>3, <1>4, <1>5, <1>6, <1>7

(* The atomic increment: the caller joins the waiting harts, and the one   *)
(* that makes the count n becomes the completing one.                      *)
LEMMA AddCntIInv ==
    ASSUME IInv, NEW p \in Procs, AddCnt(p)
    PROVE  IInv'
<1> USE DEF IInv
<1>1. p \notin Waiting /\ Completing = {}
  BY DEF AddCnt, Waiting, Completing, AllWaitWhileCompleting, TypeOK
<1>2. cnt = Cardinality(Waiting)
  BY <1>1 DEF Completing, CntCountsWaiting
<1>3. cnt + 1 <= n
  BY <1>1, <1>2, WaitingCount, NType
<1>4. Waiting' = Waiting \cup {p}
  BY DEF AddCnt, TypeOK, Waiting, PrevItIsCurrent
<1>5. Cardinality(Waiting') = cnt + 1
  BY <1>1, <1>2, <1>4, WaitingCount, FS_AddElement
<1>6. Completing' = IF cnt + 1 = n THEN {p} ELSE {}
  BY <1>1 DEF AddCnt, TypeOK, Completing
<1>7. cnt + 1 = n <=> Waiting' = Procs
  <2>1. Waiting' \in SUBSET Procs
    BY DEF Waiting
  <2>2. Cardinality(Waiting') = n => Waiting' = Procs
    BY <2>1, ProcsAssumption, FS_Subset DEF n
  <2> QED
    BY <1>5, <2>2 DEF n
<1>8. TypeOK'
  BY <1>3, NType DEF TypeOK, AddCnt
<1>9. CntCountsWaiting'
  <2>1. \A q \in Procs : pc'[q] # "bump"
    BY <1>1 DEF AddCnt, TypeOK, Completing
  <2> QED
    BY <2>1, <1>5 DEF CntCountsWaiting, AddCnt
<1>10. AllWaitWhileCompleting' /\ NotAllSpin'
  BY <1>6, <1>7 DEF AllWaitWhileCompleting, NotAllSpin
<1>11. PrevItIsCurrent'
  BY DEF PrevItIsCurrent, TypeOK, AddCnt
<1>12. SameEpisode'
  <2>1. \A q \in Procs : Released(q)' = Released(q)
    BY DEF Released, TypeOK, AddCnt, PrevItIsCurrent
  <2> QED
    BY <2>1 DEF SameEpisode, AddCnt
<1>13. CallsBalance'
  BY DEF CallsBalance, TypeOK, AddCnt
<1> QED
  BY <1>8, <1>9, <1>10, <1>11, <1>12, <1>13

(* The reset: every hart waits, so nobody is counted meanwhile. *)
LEMMA ResetCntIInv ==
    ASSUME IInv, NEW p \in Procs, ResetCnt(p)
    PROVE  IInv'
<1> USE DEF IInv
<1>1. TypeOK'
  BY NType DEF TypeOK, ResetCnt
<1>2. Waiting' = Waiting /\ Completing' = Completing
  BY DEF TypeOK, ResetCnt, Waiting, Completing
<1>3. CntCountsWaiting'
  <2>1. pc'[p] = "bump"
    BY DEF TypeOK, ResetCnt
  <2> QED
    BY <2>1 DEF CntCountsWaiting, ResetCnt
<1>4. AllWaitWhileCompleting' /\ NotAllSpin'
  BY <1>2 DEF AllWaitWhileCompleting, NotAllSpin
<1>5. PrevItIsCurrent'
  BY DEF PrevItIsCurrent, TypeOK, ResetCnt
<1>6. SameEpisode'
  <2>1. \A q \in Procs : Released(q)' = Released(q)
    BY DEF Released, TypeOK, ResetCnt
  <2> QED
    BY <2>1 DEF SameEpisode, ResetCnt
<1>7. CallsBalance'
  BY DEF CallsBalance, TypeOK, ResetCnt
<1> QED
  BY <1>1, <1>3, <1>4, <1>5, <1>6, <1>7

(* The increment of iteration lets every other hart go at once. *)
LEMMA BumpIterationIInv ==
    ASSUME IInv, NEW p \in Procs, BumpIteration(p)
    PROVE  IInv'
<1> USE DEF IInv
<1>1. p \in Completing
  BY DEF BumpIteration, Completing
<1>2. \A q \in Procs \ {p} : pc[q] = "spin" /\ prev_it[q] = iteration
  BY <1>1 DEF AllWaitWhileCompleting, Waiting, Completing
<1>3. /\ iteration' \in 0..(IterMod - 1)
      /\ iteration' # iteration
  BY NextIteration DEF BumpIteration, TypeOK
<1>4. /\ pc'[p] = "out"
      /\ \A q \in Procs \ {p} : pc'[q] = "spin"
  BY <1>2 DEF BumpIteration, TypeOK
<1>5. Waiting' = {} /\ Completing' = {}
  BY <1>2, <1>3, <1>4 DEF Waiting, Completing, BumpIteration
<1>6. cnt = 0
  BY DEF BumpIteration, CntCountsWaiting
<1>7. entered[p] = left[p] + 1
  BY DEF CallsBalance, BumpIteration
<1>8. TypeOK'
  BY <1>3, <1>7, MaxEpisodesAssumption DEF TypeOK, BumpIteration
<1>9. CntCountsWaiting'
  BY <1>4, <1>5, <1>6, FS_EmptySet DEF CntCountsWaiting, BumpIteration
<1>10. AllWaitWhileCompleting' /\ NotAllSpin'
  BY <1>5, ProcsAssumption DEF AllWaitWhileCompleting, NotAllSpin
<1>11. PrevItIsCurrent'
  BY <1>4 DEF PrevItIsCurrent
<1>12. SameEpisode'
  <2>1. \A q \in Procs : ~Released(q)
    BY <1>2 DEF Released, BumpIteration
  <2>2. \A q, r \in Procs : left[q] = left[r]
    BY <2>1 DEF SameEpisode, TypeOK
  <2>3. \A q \in Procs : Released(q)' <=> q # p
    BY <1>2, <1>3, <1>4 DEF Released, BumpIteration
  <2>4. \A q \in Procs : left'[q] = IF q = p THEN left[q] + 1 ELSE left[q]
    BY DEF BumpIteration, TypeOK
  <2>5. \A q \in Procs :
            left'[q] + (IF Released(q)' THEN 1 ELSE 0) = left[p] + 1
    BY <2>2, <2>3, <2>4 DEF TypeOK
  <2> QED
    BY <2>5 DEF SameEpisode
<1>13. CallsBalance'
  BY <1>4 DEF CallsBalance, TypeOK, BumpIteration
<1> QED
  BY <1>8, <1>9, <1>10, <1>11, <1>12, <1>13

(* A released hart returns: it was no longer counted. *)
LEMMA SpinEndsIInv ==
    ASSUME IInv, NEW p \in Procs, SpinEnds(p)
    PROVE  IInv'
<1> USE DEF IInv
<1>1. p \notin Waiting /\ Completing = {}
  BY DEF SpinEnds, Waiting, Completing, AllWaitWhileCompleting
<1>2. entered[p] = left[p] + 1
  BY DEF CallsBalance, SpinEnds
<1>3. TypeOK'
  BY <1>2, MaxEpisodesAssumption DEF TypeOK, SpinEnds
<1>4. Waiting' = Waiting /\ Completing' = Completing
  BY DEF TypeOK, SpinEnds, Waiting, Completing
<1>5. CntCountsWaiting'
  BY <1>4 DEF CntCountsWaiting, TypeOK, SpinEnds
<1>6. AllWaitWhileCompleting' /\ NotAllSpin'
  BY <1>4 DEF AllWaitWhileCompleting, NotAllSpin
<1>7. PrevItIsCurrent'
  BY DEF PrevItIsCurrent, TypeOK, SpinEnds
<1>8. SameEpisode'
  <2> DEFINE Episode(q) == left[q] + (IF Released(q) THEN 1 ELSE 0)
  <2>1. \A q \in Procs \ {p} : Released(q)' = Released(q) /\ left'[q] = left[q]
    BY DEF Released, TypeOK, SpinEnds
  <2>2. Released(p) /\ ~Released(p)' /\ left'[p] = left[p] + 1
    BY DEF Released, TypeOK, SpinEnds
  <2>3. \A q \in Procs : Episode(q)' = Episode(q)
    BY <2>1, <2>2 DEF TypeOK
  <2> QED
    BY <2>3 DEF SameEpisode
<1>9. CallsBalance'
  BY DEF CallsBalance, TypeOK, SpinEnds
<1> QED
  BY <1>3, <1>5, <1>6, <1>7, <1>8, <1>9

(* The invariant is inductive. *)
LEMMA NextIInv == IInv /\ [Next]_vars => IInv'
<1> SUFFICES ASSUME IInv, [Next]_vars PROVE IInv'
  OBVIOUS
<1>1. CASE Next
  <2>1. PICK p \in Procs : ReadIteration(p) \/ Inside(p)
    BY <1>1 DEF Next
  <2> QED
    BY <2>1, ReadIterationIInv, AddCntIInv, ResetCntIInv, BumpIterationIInv,
       SpinEndsIInv DEF Inside
<1>2. CASE UNCHANGED vars
  BY <1>2 DEF vars, IInv, TypeOK, CntCountsWaiting, AllWaitWhileCompleting,
              NotAllSpin, PrevItIsCurrent, SameEpisode, CallsBalance,
              Waiting, Completing, Released
<1> QED
  BY <1>1, <1>2

(* The software barrier (sync.h, snrt_partial_barrier) keeps its           *)
(* invariant: cnt counts the waiting harts, at most one hart completes an  *)
(* episode, and all others wait while it does.                             *)
THEOREM Invariance == Spec => []IInv
BY InitIInv, NextIInv, PTL DEF Spec

(* Under the invariant no hart is a call ahead of another.                 *)
LEMMA IInvSynchronised == IInv => Synchronised
<1> SUFFICES ASSUME IInv, NEW p \in Procs, NEW q \in Procs
             PROVE  left[p] <= entered[q]
  BY DEF Synchronised
<1>1. /\ left[p] \in Nat /\ left[q] \in Nat
      /\ entered[q] = left[q] + (IF pc[q] = "out" THEN 0 ELSE 1)
      /\ Released(q) => pc[q] # "out"
  BY MaxEpisodesAssumption DEF IInv, TypeOK, CallsBalance, Released
<1>2. left[p] + (IF Released(p) THEN 1 ELSE 0)
          = left[q] + (IF Released(q) THEN 1 ELSE 0)
  BY DEF IInv, SameEpisode
<1> QED
  BY <1>1, <1>2

(* No hart returns from its k-th call of snrt_partial_barrier before every *)
(* hart has begun its k-th call.                                           *)
THEOREM Synchronisation == Spec => []Synchronised
BY IInvSynchronised, Invariance, PTL

(* Every step of the software barrier is a step of the abstract barrier or *)
(* leaves it alone.                                                        *)
LEMMA StepRefines ==
    ASSUME IInv, [Next]_vars
    PROVE  [Abstract!ENext]_(Abstract!evars)
<1>1. CASE Next
  <2>1. PICK p \in Procs : ReadIteration(p) \/ Inside(p)
    BY <1>1 DEF Next
  <2>2. CASE ReadIteration(p)
    <3>1. Abstract!Enter(p)
      BY <2>2 DEF ReadIteration, Abstract!Enter, IInv, CallsBalance, TypeOK
    <3> QED
      BY <3>1 DEF Abstract!ENext
  <2>3. CASE AddCnt(p) \/ ResetCnt(p)
    BY <2>3 DEF AddCnt, ResetCnt, Abstract!evars
  <2>4. CASE BumpIteration(p) \/ SpinEnds(p)
    <3>1. \A q \in Procs : left[p] < entered[q]
      <4>1. CASE BumpIteration(p)
        <5>1. \A q \in Procs : pc[q] # "out" /\ ~Released(q)
          BY <4>1 DEF IInv, AllWaitWhileCompleting, Completing, Waiting,
                      Released, BumpIteration
        <5> QED
          BY <5>1, MaxEpisodesAssumption
             DEF IInv, SameEpisode, CallsBalance, TypeOK
      <4>2. CASE SpinEnds(p)
        <5>1. Released(p)
          BY <4>2 DEF SpinEnds, Released
        <5>2. \A q \in Procs : Released(q) => pc[q] # "out"
          BY DEF Released
        <5> QED
          BY <5>1, <5>2, MaxEpisodesAssumption
             DEF IInv, SameEpisode, CallsBalance, TypeOK
      <4> QED
        BY <2>4, <4>1, <4>2
    <3>2. Abstract!Leave(p)
      BY <2>4, <3>1 DEF BumpIteration, SpinEnds, Abstract!Leave
    <3> QED
      BY <3>2 DEF Abstract!ENext
  <2> QED
    BY <2>1, <2>2, <2>3, <2>4 DEF Inside
<1>2. CASE UNCHANGED vars
  BY <1>2 DEF vars, Abstract!evars
<1> QED
  BY <1>1, <1>2

(* The software barrier implements the safety part of EpisodeBarrier.      *)
THEOREM Refinement == Spec => Abstract!ESafe
<1>1. Init => Abstract!EInit
  BY DEF Init, Abstract!EInit
<1> QED
  BY <1>1, StepRefines, Invariance, PTL DEF Spec, Abstract!ESafe
=============================================================================
