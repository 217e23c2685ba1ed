------------------------ MODULE GlobalBarrierProofs -------------------------
(***************************************************************************)
(* For any number of clusters and of cores in a cluster, any width of the  *)
(* iteration word and any number of calls: snrt_global_barrier (sync.h),   *)
(* composed of the hardware barriers of the clusters and the software      *)
(* barrier of their DM cores, keeps its invariant, synchronises all cores  *)
(* of all clusters and implements EpisodeBarrier.                          *)
(*                                                                         *)
(* The software barrier enters through its own theorems: SwP instantiates  *)
(* PartialBarrierProofs with the DM cores of the clusters as its harts.    *)
(***************************************************************************)
EXTENDS GlobalBarrier, DataTheorems

SwP == INSTANCE PartialBarrierProofs
         WITH Procs <- Clusters, pc <- swpc, entered <- swEntered, left <- swLeft

-----------------------------------------------------------------------------
(* What the proofs of the software barrier speak of is what this module    *)
(* composes.                                                               *)
LEMMA SameCounts ==
    ASSUME NEW S
    PROVE  /\ IsFiniteSet(S) <=> SwP!IsFiniteSet(S)
           /\ Sw!Cardinality(S) = SwP!Cardinality(S)
BY DEF IsFiniteSet, SwP!IsFiniteSet, Sw!Cardinality, SwP!Cardinality

(* The invariants of the two instances are the same formula. *)
LEMMA SameIInv == Sw!IInv <=> SwP!IInv
<1>1. Sw!n = SwP!n
  BY SameCounts DEF Sw!n, SwP!n
<1>2. Sw!Waiting = SwP!Waiting /\ Sw!Completing = SwP!Completing
  BY DEF Sw!Waiting, SwP!Waiting, Sw!Completing, SwP!Completing
<1>3. Sw!TypeOK <=> SwP!TypeOK
  BY <1>1 DEF Sw!TypeOK, SwP!TypeOK
<1>4. Sw!CntCountsWaiting <=> SwP!CntCountsWaiting
  BY <1>2, SameCounts DEF Sw!CntCountsWaiting, SwP!CntCountsWaiting
<1>5. /\ Sw!AllWaitWhileCompleting <=> SwP!AllWaitWhileCompleting
      /\ Sw!NotAllSpin <=> SwP!NotAllSpin
  BY <1>2 DEF Sw!AllWaitWhileCompleting, SwP!AllWaitWhileCompleting,
              Sw!NotAllSpin, SwP!NotAllSpin
<1>6. /\ Sw!PrevItIsCurrent <=> SwP!PrevItIsCurrent
      /\ Sw!CallsBalance <=> SwP!CallsBalance
  BY DEF Sw!PrevItIsCurrent, SwP!PrevItIsCurrent,
         Sw!CallsBalance, SwP!CallsBalance
<1>7. \A c : Sw!Released(c) <=> SwP!Released(c)
  BY DEF Sw!Released, SwP!Released
<1>8. Sw!SameEpisode <=> SwP!SameEpisode
  BY <1>7 DEF Sw!SameEpisode, SwP!SameEpisode
<1> QED
  BY <1>3, <1>4, <1>5, <1>6, <1>8 DEF Sw!IInv, SwP!IInv

(* A step of the DM core of c in the software barrier. *)
SwAction(c) ==
    \/ Sw!ReadIteration(c) \/ Sw!AddCnt(c) \/ Sw!ResetCnt(c)
    \/ Sw!BumpIteration(c) \/ Sw!SpinEnds(c)

(* Such a step, or none, keeps the invariant of the software barrier. *)
LEMMA SwKeepsIInv ==
    ASSUME Sw!IInv,
           (\E c \in Clusters : SwAction(c)) \/ UNCHANGED sw
    PROVE  Sw!IInv'
<1>1. /\ MaxEpisodes \in Nat /\ IterMod \in Nat \ {0, 1}
      /\ SwP!IsFiniteSet(Clusters) /\ Clusters # {}
  BY ShapeAssumption, SameCounts
<1>2. SwP!IInv
  BY SameIInv
<1>3. Sw!n = SwP!n
  BY SameCounts DEF Sw!n, SwP!n
<1>4. CASE \E c \in Clusters : SwAction(c)
  <2>1. PICK c \in Clusters : SwAction(c)
    BY <1>4
  <2>2. \/ SwP!ReadIteration(c) \/ SwP!AddCnt(c) \/ SwP!ResetCnt(c)
        \/ SwP!BumpIteration(c) \/ SwP!SpinEnds(c)
    BY <2>1, <1>3 DEF SwAction,
       Sw!ReadIteration, SwP!ReadIteration, Sw!AddCnt, SwP!AddCnt,
       Sw!ResetCnt, SwP!ResetCnt, Sw!BumpIteration, SwP!BumpIteration,
       Sw!SpinEnds, SwP!SpinEnds
  <2>3. SwP!Next
    BY <2>2 DEF SwP!Next, SwP!Inside
  <2>4. SwP!IInv'
    BY <1>1, <1>2, <2>3, SwP!NextIInv
  <2> QED
    BY <2>4, SameIInv, PTL
<1>5. CASE UNCHANGED sw
  <2>1. UNCHANGED SwP!vars
    BY <1>5 DEF sw, SwP!vars
  <2>2. SwP!IInv'
    BY <1>1, <1>2, <2>1, SwP!NextIInv
  <2> QED
    BY <2>2, SameIInv, PTL
<1> QED
  BY <1>4, <1>5

-----------------------------------------------------------------------------
(* A core is a pair of a cluster and a core id. *)
LEMMA CorePairs ==
    /\ \A c \in Clusters, i \in CoreIds : <<c, i>> \in Cores
    /\ \A x \in Cores : \E c \in Clusters, i \in CoreIds : x = <<c, i>>
    /\ \A c \in Clusters : <<c, DmCore>> \in Cores
BY ShapeAssumption DEF Cores

(* The cores of a cluster are in step with its DM core, and the DM cores   *)
(* with one another: nobody returns from a call that somebody has not yet  *)
(* begun.                                                                  *)
LEMMA IInvSynchronised == IInv => GloballySynchronised
<1> SUFFICES ASSUME IInv, NEW x \in Cores, NEW y \in Cores
             PROVE  left[x] <= entered[y]
  BY DEF GloballySynchronised
<1> USE DEF IInv
<1>1. PICK c \in Clusters, i \in CoreIds : x = <<c, i>>
  BY CorePairs
<1>2. PICK e \in Clusters, j \in CoreIds : y = <<e, j>>
  BY CorePairs
<1> DEFINE d == <<c, DmCore>>
           f == <<e, DmCore>>
<1>3. d \in Cores /\ f \in Cores
  BY CorePairs
<1>4. \A z \in Cores : left[z] \in Nat /\ entered[z] \in Nat
  BY ShapeAssumption DEF TypeOK
<1>5. Passed(x) = Passed(d) /\ Passed(y) = Passed(f)
  BY <1>1, <1>2, <1>3 DEF ClusterInStep
<1>6. left[x] <= swLeft[c]
  <2>1. swLeft[c] =
            left[d] + (IF pc[d] \in {"hw2", "stall2", "ret"} THEN 1 ELSE 0)
    BY DEF SwBetweenHw
  <2> QED
    BY <1>3, <1>4, <1>5, <2>1 DEF Passed
<1>7. swLeft[c] <= swEntered[e]
  <2>1. SwP!IInv
    BY SameIInv
  <2>2. SwP!Synchronised
    BY <2>1, SwP!IInvSynchronised, ShapeAssumption, SameCounts
  <2> QED
    BY <2>2 DEF SwP!Synchronised
<1>8. swEntered[e] <= entered[y]
  <2>1. swEntered[e] = swLeft[e] + (IF swpc[e] = "out" THEN 0 ELSE 1)
    BY DEF Sw!IInv, Sw!CallsBalance
  <2>2. /\ swLeft[e] =
              left[f] + (IF pc[f] \in {"hw2", "stall2", "ret"} THEN 1 ELSE 0)
        /\ swpc[e] # "out" => pc[f] = "sw"
    BY DEF SwBetweenHw
  <2>3. entered[y] =
            left[y] + (IF pc[y] \in {"out", "read", "done"} THEN 0 ELSE 1)
    BY DEF CallsBalance
  <2> QED
    BY <1>3, <1>4, <1>5, <2>1, <2>2, <2>3 DEF Passed
<1>9. swLeft[c] \in Nat /\ swEntered[e] \in Nat
  BY ShapeAssumption DEF Sw!IInv, Sw!TypeOK
<1> QED
  BY <1>4, <1>6, <1>7, <1>8, <1>9

(* The sum over the cores that have begun their last call is defined, is   *)
(* that of all cores in the end, and grows by the value of a core that     *)
(* begins its last call.                                                   *)
LEMMA PartialSums ==
    ASSUME NEW S \in SUBSET Cores
    PROVE  /\ SumFunctionOnSet(ExitCodes, S) \in Int
           /\ S = {} => SumFunctionOnSet(ExitCodes, S) = 0
           /\ \A x \in S : SumFunctionOnSet(ExitCodes, S) =
                               ExitCodes[x] + SumFunctionOnSet(ExitCodes, S \ {x})
<1>1. IsFiniteSet(S)
  BY ShapeAssumption, FS_Product, FS_Subset DEF Cores
<1>2. \A x \in S : ExitCodes[x] \in Int
  BY ShapeAssumption DEF ExitCodes, Cores
<1> QED
  BY <1>1, <1>2, SumOnSet

(* The initial state satisfies the invariant. *)
LEMMA InitIInv == Init => IInv
<1> SUFFICES ASSUME Init PROVE IInv
  OBVIOUS
<1>1. Sw!IInv
  <2>1. SwP!Init
    BY DEF Init, Sw!Init, SwP!Init
  <2>2. SwP!IInv
    BY <2>1, ShapeAssumption, SameCounts, SwP!InitIInv
  <2> QED
    BY <2>2, SameIInv
<1>2. TypeOK
  BY <1>1, ShapeAssumption
     DEF Init, TypeOK, Sw!IInv, Hw!HwInit, Hw!HwTypeOK
<1>3. ArrivalsAreStalls
  BY CorePairs DEF Init, Hw!HwInit, ArrivalsAreStalls
<1>4. ClusterInStep /\ CallsBalance /\ ResultFinal
  BY CorePairs DEF Init, ClusterInStep, Passed, CallsBalance, ResultFinal
<1>5. SwBetweenHw
  BY CorePairs DEF Init, Sw!Init, SwBetweenHw
<1>6. ResultIsPartialSum
  <2>1. {x \in Cores : entered[x] = MaxEpisodes} = {}
    BY ShapeAssumption DEF Init
  <2> QED
    BY <2>1, PartialSums DEF Init, ResultIsPartialSum
<1> QED
  BY <1>1, <1>2, <1>3, <1>4, <1>5, <1>6 DEF IInv

(* The call: the core is not in a barrier yet. *)
LEMMA CallIInv ==
    ASSUME IInv, NEW c \in Clusters, NEW i \in CoreIds, Call(c, i)
    PROVE  IInv'
<1> USE DEF IInv
<1> DEFINE x == <<c, i>>
<1>1. x \in Cores
  BY CorePairs
<1>2. /\ pc[x] = "out"
      /\ \A y \in Cores : /\ pc'[y] = IF y = x THEN "hw1" ELSE pc[y]
                          /\ entered'[y] = IF y = x THEN entered[y] + 1
                                                    ELSE entered[y]
  BY <1>1 DEF Call, TypeOK
<1>3. Sw!IInv'
  BY SwKeepsIInv DEF Call
<1>4. TypeOK'
  BY <1>1, <1>3, ShapeAssumption
     DEF Call, TypeOK, Sw!IInv, Hw!HwTypeOK, hw
<1>5. ArrivalsAreStalls'
  BY <1>2, CorePairs DEF Call, hw, ArrivalsAreStalls
<1>6. ClusterInStep'
  <2>1. left' = left
    BY DEF Call
  <2>2. \A y \in Cores : Passed(y)' = Passed(y)
    BY <1>2, <2>1 DEF Passed
  <2> QED
    BY <2>2 DEF ClusterInStep
<1>7. CallsBalance'
  BY <1>2, ShapeAssumption DEF Call, CallsBalance, TypeOK
<1>8. SwBetweenHw'
  BY <1>2, CorePairs DEF Call, sw, SwBetweenHw
<1>9. ResultFinal'
  <2>1. entered[x] < MaxEpisodes
    BY DEF Call
  <2>2. \A y \in Cores : pc[y] # "done"
    BY <1>1, <2>1, IInvSynchronised, ShapeAssumption
       DEF GloballySynchronised, CallsBalance, TypeOK
  <2> QED
    BY <2>2, <1>2 DEF ResultFinal
<1>10. ResultIsPartialSum'
  <2> DEFINE S == {y \in Cores : entered[y] = MaxEpisodes}
             T == {y \in Cores : entered'[y] = MaxEpisodes}
  <2>1. x \notin S /\ ExitCodes[x] = ExitCode(c, i)
    <3>1. entered[x] \in Nat /\ entered[x] < MaxEpisodes
      BY <1>1, ShapeAssumption DEF Call, TypeOK
    <3> QED
      BY <1>1, <3>1, ShapeAssumption DEF ExitCodes
  <2>2. SumFunctionOnSet(ExitCodes, S) \in Int
    BY PartialSums
  <2>3. CASE entered[x] + 1 = MaxEpisodes
    <3>1. x \in T /\ T \ {x} = S
      BY <1>1, <1>2, <2>1, <2>3
    <3>2. SumFunctionOnSet(ExitCodes, T) =
              ExitCodes[x] + SumFunctionOnSet(ExitCodes, T \ {x})
      <4> HIDE DEF S
      <4>1. T \in SUBSET Cores
        OBVIOUS
      <4> HIDE DEF T
      <4> QED
        BY <3>1, <4>1, PartialSums
    <3>3. ExitCode(c, i) \in Int
      BY ShapeAssumption
    <3>4. reduction_result' = SumFunctionOnSet(ExitCodes, S) + ExitCode(c, i)
      BY <2>3 DEF Call, ResultIsPartialSum
    <3>5. reduction_result' = SumFunctionOnSet(ExitCodes, T)
      <4>1. PICK e \in Int, r \in Int :
                e = ExitCode(c, i) /\ r = SumFunctionOnSet(ExitCodes, S)
        BY <2>2, <3>3
      <4>2. SumFunctionOnSet(ExitCodes, T) = e + r /\ reduction_result' = r + e
        <5> HIDE DEF S, T, x
        <5> QED
          BY <2>1, <3>1, <3>2, <3>4, <4>1
      <4> QED
        BY <4>2
    <3> QED
      BY <3>5 DEF ResultIsPartialSum
  <2>4. CASE entered[x] + 1 # MaxEpisodes
    <3>1. T = S
      BY <1>2, <2>1, <2>4
    <3>2. reduction_result' = SumFunctionOnSet(ExitCodes, S)
      BY <2>2, <2>4 DEF Call, ResultIsPartialSum
    <3> QED
      BY <3>1, <3>2 DEF ResultIsPartialSum
  <2> QED
    BY <2>3, <2>4
<1> QED
  BY <1>3, <1>4, <1>5, <1>6, <1>7, <1>8, <1>9, <1>10

(* A core arrives at a hardware barrier.  It was not stalled, so the       *)
(* barrier cannot be firing and its arrival bit is set.                    *)
LEMMA EnterHwIInv ==
    ASSUME IInv, NEW c \in Clusters, NEW i \in CoreIds, EnterHw(c, i)
    PROVE  IInv'
<1> USE DEF IInv
<1> DEFINE x == <<c, i>>
<1>1. x \in Cores
  BY CorePairs
<1>2. /\ pc[x] \in {"hw1", "hw2"}
      /\ \A y \in Cores :
             pc'[y] = IF y # x THEN pc[y]
                      ELSE IF pc[x] = "hw1" THEN "stall1" ELSE "stall2"
      /\ entered' = entered /\ left' = left
  BY <1>1 DEF EnterHw, TypeOK
<1>3. /\ i \notin csr_stall[c]
      /\ arrival' = [arrival EXCEPT ![c] = @ \cup {i}]
      /\ csr_stall' = [csr_stall EXCEPT ![c] = @ \cup {i}]
  BY DEF EnterHw, Hw!ReadBarrierCsr, Hw!Fires, ArrivalsAreStalls
<1>4. Sw!IInv'
  BY SwKeepsIInv DEF EnterHw
<1>5. TypeOK'
  <2>1. Hw!HwTypeOK'
    BY <1>3 DEF TypeOK, Hw!HwTypeOK
  <2> QED
    BY <1>1, <1>4, <2>1 DEF EnterHw, TypeOK, Sw!IInv, red
<1>6. ArrivalsAreStalls'
  <2> SUFFICES ASSUME NEW e \in Clusters
               PROVE  /\ arrival'[e] = csr_stall'[e]
                      /\ \A k \in CoreIds :
                             k \in csr_stall'[e] <=>
                                 pc'[<<e, k>>] \in {"stall1", "stall2"}
    BY DEF ArrivalsAreStalls
  <2>1. /\ arrival'[e] = IF e = c THEN arrival[c] \cup {i} ELSE arrival[e]
        /\ csr_stall'[e] = IF e = c THEN csr_stall[c] \cup {i} ELSE csr_stall[e]
    BY <1>3 DEF TypeOK, Hw!HwTypeOK
  <2> QED
    BY <1>2, <2>1, CorePairs DEF ArrivalsAreStalls
<1>7. ClusterInStep'
  <2>1. \A y \in Cores : Passed(y)' = Passed(y)
    BY <1>2 DEF Passed, SwBetweenHw
  <2> QED
    BY <2>1 DEF ClusterInStep
<1>8. CallsBalance'
  BY <1>2 DEF CallsBalance
<1>9. SwBetweenHw'
  BY <1>2, CorePairs DEF EnterHw, sw, SwBetweenHw
<1>10. ResultFinal'
  BY <1>2 DEF EnterHw, red, ResultFinal
<1>11. ResultIsPartialSum'
  BY DEF EnterHw, red, ResultIsPartialSum
<1> QED
  BY <1>4, <1>5, <1>6, <1>7, <1>8, <1>9, <1>10, <1>11

(* The hardware barrier of a cluster fires: all its cores are stalled, and *)
(* all at the same one of the two barriers of a call.                      *)
LEMMA ReleaseHwIInv ==
    ASSUME IInv, NEW c \in Clusters, ReleaseHw(c)
    PROVE  IInv'
<1> USE DEF IInv
<1>1. \A y \in Cores : y[1] = c => pc[y] \in {"stall1", "stall2"}
  BY CorePairs DEF ReleaseHw, Hw!Fire, Hw!Fires, ArrivalsAreStalls
<1>2. /\ \A y \in Cores :
             pc'[y] = IF y[1] # c THEN pc[y]
                      ELSE IF pc[y] = "stall2" THEN "ret"
                      ELSE IF y[2] = DmCore THEN "sw" ELSE "hw2"
      /\ entered' = entered /\ left' = left
  BY <1>1 DEF ReleaseHw, AfterHw
<1>3. /\ arrival' = [arrival EXCEPT ![c] = {}]
      /\ csr_stall' = [csr_stall EXCEPT ![c] = {}]
  BY DEF ReleaseHw, Hw!Fire
<1>4. Sw!IInv'
  BY SwKeepsIInv DEF ReleaseHw
<1>5. TypeOK'
  <2>1. Hw!HwTypeOK'
    BY <1>3 DEF TypeOK, Hw!HwTypeOK
  <2>2. pc' = [y \in Cores |-> pc'[y]]
    BY DEF ReleaseHw
  <2>3. \A y \in Cores : pc'[y] \in {"out", "hw1", "stall1", "sw", "hw2",
                                     "stall2", "ret", "read", "done"}
    BY <1>2 DEF TypeOK
  <2> QED
    BY <1>4, <2>1, <2>2, <2>3 DEF ReleaseHw, TypeOK, Sw!IInv, red
<1>6. ArrivalsAreStalls'
  <2> SUFFICES ASSUME NEW e \in Clusters
               PROVE  /\ arrival'[e] = csr_stall'[e]
                      /\ \A k \in CoreIds :
                             k \in csr_stall'[e] <=>
                                 pc'[<<e, k>>] \in {"stall1", "stall2"}
    BY DEF ArrivalsAreStalls
  <2>1. /\ arrival'[e] = IF e = c THEN {} ELSE arrival[e]
        /\ csr_stall'[e] = IF e = c THEN {} ELSE csr_stall[e]
    BY <1>3 DEF TypeOK, Hw!HwTypeOK
  <2> QED
    BY <1>2, <2>1, CorePairs DEF ArrivalsAreStalls
<1>7. ClusterInStep'
  <2>1. \A y \in Cores :
            /\ left[y] \in Nat
            /\ Passed(y)' = IF y[1] = c THEN Passed(y) + 1 ELSE Passed(y)
    BY <1>1, <1>2, ShapeAssumption DEF Passed, TypeOK
  <2> QED
    BY <2>1 DEF ClusterInStep
<1>8. CallsBalance'
  BY <1>1, <1>2 DEF CallsBalance
<1>9. SwBetweenHw'
  BY <1>1, <1>2, CorePairs DEF ReleaseHw, sw, SwBetweenHw
<1>10. ResultFinal'
  BY <1>1, <1>2 DEF ReleaseHw, red, ResultFinal
<1>11. ResultIsPartialSum'
  BY DEF ReleaseHw, red, ResultIsPartialSum
<1> QED
  BY <1>4, <1>5, <1>6, <1>7, <1>8, <1>9, <1>10, <1>11

(* The DM core takes a step of the software barrier, and leaves it for the *)
(* second hardware barrier.                                                *)
LEMMA SwStepIInv ==
    ASSUME IInv, NEW c \in Clusters, SwStep(c)
    PROVE  IInv'
<1> USE DEF IInv
<1> DEFINE d == <<c, DmCore>>
<1>1. d \in Cores
  BY CorePairs
<1>2. /\ pc[d] = "sw"
      /\ \A y \in Cores :
             pc'[y] = IF y # d THEN pc[y]
                      ELSE IF swpc'[c] = "out" THEN "hw2" ELSE "sw"
      /\ entered' = entered /\ left' = left
  BY <1>1 DEF SwStep, TypeOK
<1>3. /\ \A e \in Clusters \ {c} : swpc'[e] = swpc[e] /\ swLeft'[e] = swLeft[e]
      /\ swLeft'[c] = IF swpc'[c] = "out" THEN swLeft[c] + 1 ELSE swLeft[c]
  BY DEF SwStep, Sw!IInv, Sw!TypeOK, Sw!ReadIteration, Sw!AddCnt,
         Sw!ResetCnt, Sw!BumpIteration, Sw!SpinEnds
<1>4. Sw!IInv'
  BY SwKeepsIInv DEF SwStep, SwAction
<1>5. TypeOK'
  BY <1>1, <1>4 DEF SwStep, TypeOK, Hw!HwTypeOK, Sw!IInv, hw, red
<1>6. ArrivalsAreStalls'
  BY <1>2, CorePairs DEF SwStep, hw, ArrivalsAreStalls
<1>7. ClusterInStep'
  <2>1. \A y \in Cores : Passed(y)' = Passed(y)
    BY <1>2 DEF Passed
  <2> QED
    BY <2>1 DEF ClusterInStep
<1>8. CallsBalance'
  BY <1>2 DEF CallsBalance
<1>9. SwBetweenHw'
  <2>1. \A e \in Clusters, i \in CoreIds : pc'[<<e, i>>] = "sw" => i = DmCore
    BY <1>2, CorePairs DEF SwBetweenHw
  <2>2. ASSUME NEW e \in Clusters, e # c
        PROVE  /\ swpc'[e] = swpc[e] /\ swLeft'[e] = swLeft[e]
               /\ pc'[<<e, DmCore>>] = pc[<<e, DmCore>>]
    BY <1>2, <1>3, <2>2, CorePairs
  <2>3. /\ swpc'[c] # "out" => pc'[d] = "sw"
        /\ swLeft'[c] =
               left[d] + (IF pc'[d] \in {"hw2", "stall2", "ret"} THEN 1 ELSE 0)
    <3>1. swLeft[c] = left[d] + 0 /\ left[d] \in Nat
      BY <1>1, <1>2, ShapeAssumption DEF SwBetweenHw, TypeOK
    <3>2. pc'[d] = IF swpc'[c] = "out" THEN "hw2" ELSE "sw"
      BY <1>1, <1>2
    <3> QED
      BY <1>3, <3>1, <3>2
  <2> QED
    BY <1>2, <2>1, <2>2, <2>3 DEF SwBetweenHw
<1>10. ResultFinal'
  BY <1>2 DEF SwStep, red, ResultFinal
<1>11. ResultIsPartialSum'
  BY DEF SwStep, red, ResultIsPartialSum
<1> QED
  BY <1>4, <1>5, <1>6, <1>7, <1>8, <1>9, <1>10, <1>11

(* The call returns: the core has been let through both barriers. *)
LEMMA ReturnIInv ==
    ASSUME IInv, NEW c \in Clusters, NEW i \in CoreIds, Return(c, i)
    PROVE  IInv'
<1> USE DEF IInv
<1> DEFINE x == <<c, i>>
<1>1. x \in Cores
  BY CorePairs
<1>2. /\ pc[x] = "ret"
      /\ \A y \in Cores :
             /\ pc'[y] = IF y # x THEN pc[y]
                         ELSE IF entered[x] = MaxEpisodes THEN "read" ELSE "out"
             /\ left'[y] = IF y = x THEN left[y] + 1 ELSE left[y]
      /\ entered' = entered
  BY <1>1 DEF Return, TypeOK
<1>3. \A y \in Cores : left[y] \in Nat /\ entered[y] \in 0..MaxEpisodes
  BY ShapeAssumption DEF TypeOK
<1>4. entered[x] = left[x] + 1
  BY <1>1, <1>2 DEF CallsBalance
<1>5. Sw!IInv'
  BY SwKeepsIInv DEF Return
<1>6. TypeOK'
  <2>1. left' \in [Cores -> 0..MaxEpisodes]
    BY <1>1, <1>3, <1>4, ShapeAssumption DEF Return, TypeOK
  <2> QED
    BY <1>1, <1>5, <2>1 DEF Return, TypeOK, Sw!IInv, Hw!HwTypeOK, hw, red
<1>7. ArrivalsAreStalls'
  BY <1>2, CorePairs DEF Return, hw, ArrivalsAreStalls
<1>8. ClusterInStep'
  <2>1. \A y \in Cores : Passed(y)' = Passed(y)
    BY <1>2, <1>3 DEF Passed
  <2> QED
    BY <2>1 DEF ClusterInStep
<1>9. CallsBalance'
  BY <1>2, <1>3, <1>4 DEF CallsBalance
<1>10. SwBetweenHw'
  BY <1>2, <1>3, CorePairs DEF Return, sw, SwBetweenHw
<1>11. ResultFinal'
  BY <1>2 DEF Return, red, ResultFinal
<1>12. ResultIsPartialSum'
  BY DEF Return, red, ResultIsPartialSum
<1> QED
  BY <1>5, <1>6, <1>7, <1>8, <1>9, <1>10, <1>11, <1>12

(* The reduction reads the shared word. *)
LEMMA ReadResultIInv ==
    ASSUME IInv, NEW c \in Clusters, NEW i \in CoreIds, ReadResult(c, i)
    PROVE  IInv'
<1> USE DEF IInv
<1> DEFINE x == <<c, i>>
<1>1. x \in Cores
  BY CorePairs
<1>2. /\ pc[x] = "read"
      /\ \A y \in Cores :
             /\ pc'[y] = IF y = x THEN "done" ELSE pc[y]
             /\ exit_code'[y] = IF y = x THEN reduction_result ELSE exit_code[y]
      /\ entered' = entered /\ left' = left
  BY <1>1 DEF ReadResult, TypeOK
<1>3. Sw!IInv'
  BY SwKeepsIInv DEF ReadResult
<1>4. TypeOK'
  BY <1>1, <1>3 DEF ReadResult, TypeOK, Sw!IInv, Hw!HwTypeOK, hw
<1>5. ArrivalsAreStalls'
  BY <1>2, CorePairs DEF ReadResult, hw, ArrivalsAreStalls
<1>6. ClusterInStep'
  <2>1. \A y \in Cores : Passed(y)' = Passed(y)
    BY <1>2 DEF Passed
  <2> QED
    BY <2>1 DEF ClusterInStep
<1>7. CallsBalance'
  BY <1>2 DEF CallsBalance
<1>8. SwBetweenHw'
  BY <1>2, CorePairs DEF ReadResult, sw, SwBetweenHw
<1>9. ResultFinal'
  BY <1>2 DEF ReadResult, ResultFinal
<1>10. ResultIsPartialSum'
  BY DEF ReadResult, red, ResultIsPartialSum
<1> QED
  BY <1>3, <1>4, <1>5, <1>6, <1>7, <1>8, <1>9, <1>10

(* A step of another part of a program that uses the barrier. *)
LEMMA StutterIInv ==
    ASSUME IInv, UNCHANGED vars
    PROVE  IInv'
<1> USE DEF IInv, vars
<1>1. Sw!IInv'
  BY SwKeepsIInv
<1>2. TypeOK'
  BY <1>1 DEF TypeOK, Sw!IInv, Hw!HwTypeOK, hw, red
<1>3. ArrivalsAreStalls'
  BY DEF ArrivalsAreStalls, hw
<1>4. ClusterInStep'
  BY DEF ClusterInStep, Passed
<1>5. CallsBalance' /\ ResultFinal'
  BY DEF CallsBalance, ResultFinal, red
<1>6. SwBetweenHw'
  BY DEF SwBetweenHw, sw
<1>7. ResultIsPartialSum'
  BY DEF ResultIsPartialSum, red
<1> QED
  BY <1>1, <1>2, <1>3, <1>4, <1>5, <1>6, <1>7

(* The invariant is inductive. *)
LEMMA NextIInv == IInv /\ [Next]_vars => IInv'
<1> SUFFICES ASSUME IInv, [Next]_vars PROVE IInv'
  OBVIOUS
<1>1. CASE \E c \in Clusters, i \in CoreIds :
               Call(c, i) \/ EnterHw(c, i) \/ Return(c, i) \/ ReadResult(c, i)
  BY <1>1, CallIInv, EnterHwIInv, ReturnIInv, ReadResultIInv
<1>2. CASE \E c \in Clusters : ReleaseHw(c) \/ SwStep(c)
  BY <1>2, ReleaseHwIInv, SwStepIInv
<1>3. CASE UNCHANGED vars
  BY <1>3, StutterIInv
<1> QED
  BY <1>1, <1>2, <1>3 DEF Next

-----------------------------------------------------------------------------
(* snrt_global_barrier (sync.h) keeps its invariant: the cores of a        *)
(* cluster pass its hardware barriers together, its DM core goes through   *)
(* the software barrier once in each call and between the two, and nobody  *)
(* adds to the reduction word once somebody has read it.                   *)
THEOREM Invariance == Spec => []IInv
BY InitIInv, NextIInv, PTL DEF Spec

(* No core of any cluster returns from its k-th call of                    *)
(* snrt_global_barrier before every core of every cluster has begun its    *)
(* k-th call.                                                              *)
THEOREM GlobalSynchronisation == Spec => []GloballySynchronised
BY IInvSynchronised, Invariance, PTL

(* Every step of the composed barrier is a step of the abstract barrier    *)
(* over all cores or leaves it alone.                                      *)
LEMMA StepRefines ==
    ASSUME IInv, [Next]_vars
    PROVE  [Abstract!ENext]_(Abstract!evars)
<1>1. ASSUME NEW c \in Clusters, NEW i \in CoreIds, Call(c, i)
      PROVE  Abstract!ENext
  <2>1. Abstract!Enter(<<c, i>>)
    BY <1>1, CorePairs DEF Call, Abstract!Enter, IInv, CallsBalance, TypeOK
  <2> QED
    BY <2>1, CorePairs DEF Abstract!ENext
<1>2. ASSUME NEW c \in Clusters, NEW i \in CoreIds, Return(c, i)
      PROVE  Abstract!ENext
  <2> DEFINE x == <<c, i>>
  <2>1. x \in Cores
    BY CorePairs
  <2>2. /\ entered' = entered
        /\ left' = [left EXCEPT ![x] = @ + 1]
        /\ left'[x] = left[x] + 1
    BY <1>2, <2>1 DEF Return, IInv, TypeOK
  <2>3. GloballySynchronised'
    BY <1>2, ReturnIInv, IInvSynchronised, PTL
  <2>4. \A y \in Cores : left[x] < entered[y]
    <3>1. \A y \in Cores : left[x] \in Nat /\ entered[y] \in Nat
      BY <2>1, ShapeAssumption DEF IInv, TypeOK
    <3>2. \A y \in Cores : left[x] + 1 <= entered[y]
      BY <2>1, <2>2, <2>3 DEF GloballySynchronised
    <3> QED
      BY <3>1, <3>2
  <2>5. Abstract!Leave(x)
    BY <2>1, <2>2, <2>4 DEF Abstract!Leave
  <2> QED
    BY <2>1, <2>5 DEF Abstract!ENext
<1>3. ASSUME NEW c \in Clusters, NEW i \in CoreIds,
             EnterHw(c, i) \/ ReadResult(c, i)
      PROVE  UNCHANGED Abstract!evars
  BY <1>3 DEF EnterHw, ReadResult, Abstract!evars
<1>4. ASSUME NEW c \in Clusters, ReleaseHw(c) \/ SwStep(c)
      PROVE  UNCHANGED Abstract!evars
  BY <1>4 DEF ReleaseHw, SwStep, Abstract!evars
<1>5. CASE UNCHANGED vars
  BY <1>5 DEF vars, Abstract!evars
<1> QED
  BY <1>1, <1>2, <1>3, <1>4, <1>5 DEF Next

(* The composition of hardware and software barriers implements the safety *)
(* part of EpisodeBarrier over the cores of all clusters.                  *)
THEOREM Refinement == Spec => Abstract!ESafe
<1>1. Init => Abstract!EInit
  BY DEF Init, Abstract!EInit
<1> QED
  BY <1>1, StepRefines, Invariance, PTL DEF Spec, Abstract!ESafe

(* snrt_global_all_to_all_reduction returns the sum of the values of all   *)
(* cores of all clusters to every core: a core reads the shared word after *)
(* the barrier, when every core has added its value, and none adds twice.  *)
THEOREM ReductionIsSum == Spec => []ReductionExact
<1>1. ASSUME IInv
      PROVE  ReductionExact
  <2> SUFFICES ASSUME NEW x \in Cores, pc[x] = "done"
               PROVE  exit_code[x] = SumFunction(ExitCodes)
    BY DEF ReductionExact
  <2>1. left[x] = MaxEpisodes /\ exit_code[x] = reduction_result
    BY <1>1 DEF IInv, CallsBalance, ResultFinal
  <2>2. \A y \in Cores : entered[y] \in 0..MaxEpisodes /\ left[x] <= entered[y]
    BY <1>1, IInvSynchronised DEF IInv, TypeOK, GloballySynchronised
  <2>3. {y \in Cores : entered[y] = MaxEpisodes} = Cores
    BY <2>1, <2>2, ShapeAssumption
  <2>4. DOMAIN ExitCodes = Cores
    BY DEF ExitCodes
  <2> QED
    BY <1>1, <2>1, <2>3, <2>4 DEF IInv, ResultIsPartialSum, SumFunction
<1> QED
  BY <1>1, Invariance, PTL

(* snrt_global_all_to_all_reduction: once one core has the result, the     *)
(* word it was read from does not change, so that every core returns the   *)
(* same value, whatever the order of the additions and the reads.          *)
THEOREM ReductionStable ==
    Spec => [](\A x, y \in Cores :
                  pc[x] = "done" /\ pc[y] = "done" => exit_code[x] = exit_code[y])
<1>1. IInv => \A x, y \in Cores :
          pc[x] = "done" /\ pc[y] = "done" => exit_code[x] = exit_code[y]
  BY DEF IInv, ResultFinal
<1> QED
  BY <1>1, Invariance, PTL
=============================================================================
