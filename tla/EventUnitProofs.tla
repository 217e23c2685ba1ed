-------------------------- MODULE EventUnitProofs ---------------------------
(***************************************************************************)
(* For any number of cores, of regions and of arguments: the event unit    *)
(* keeps its invariant, the event is stable while a worker can read it,    *)
(* no wake-up is left over, and, as long as no region has 8 to 11          *)
(* arguments, it implements the safety part of ForkJoin.                   *)
(***************************************************************************)
EXTENDS EventUnit, FiniteSetTheorems, TLAPS

-----------------------------------------------------------------------------
(* The cores and the workers. *)
LEMMA CoreSets ==
    /\ NumCores \in Nat \ {0} /\ MaxRegions \in Nat
    /\ Master \in Cores /\ Master \notin Workers
    /\ \A w \in Workers : w \in Cores /\ w # Master /\ w \in Nat \ {0}
    /\ \A i \in Cores : i # Master => i \in Workers
    /\ \A i \in Cores : i \in Nat /\ i < NumCores
    /\ Dm \notin Cores /\ Dm \notin Workers /\ Dm # Master
BY EuAssumption DEF Cores, Workers, Master, Dm

(* Counting workers. *)
LEMMA WorkerCount ==
    /\ IsFiniteSet(Workers)
    /\ Cardinality(Workers) = NumCores - 1
BY EuAssumption, FS_Interval DEF Workers

(* The size of a set of workers tells whether it has all or none of them. *)
LEMMA SubsetCount ==
    ASSUME NEW S \in SUBSET Workers
    PROVE  /\ IsFiniteSet(S)
           /\ Cardinality(S) \in 0..(NumCores - 1)
           /\ Cardinality(S) = NumCores - 1 <=> S = Workers
           /\ Cardinality(S) = 0 <=> S = {}
<1>1. IsFiniteSet(S) /\ Cardinality(S) <= NumCores - 1
      /\ (Cardinality(S) = NumCores - 1 => S = Workers)
  BY WorkerCount, FS_Subset
<1>2. Cardinality(S) \in Nat
  BY <1>1, FS_CardinalityType
<1> QED
  BY <1>1, <1>2, WorkerCount, FS_EmptySet, EuAssumption

(* A counter of workers that is incremented. *)
LEMMA CountOneMore ==
    ASSUME NEW S \in SUBSET Workers, NEW w \in Workers, w \notin S
    PROVE  /\ Cardinality(S \cup {w}) = Cardinality(S) + 1
           /\ Cardinality(S) + 1 \in 0..(NumCores - 1)
<1>1. Cardinality(S \cup {w}) = Cardinality(S) + 1
  BY SubsetCount, FS_AddElement
<1>2. S \cup {w} \in SUBSET Workers
  OBVIOUS
<1> QED
  BY <1>1, <1>2, SubsetCount

(* A counter of workers that is decremented. *)
LEMMA CountOneLess ==
    ASSUME NEW S \in SUBSET Workers, NEW w \in S
    PROVE  /\ Cardinality(S \ {w}) = Cardinality(S) - 1
           /\ Cardinality(S) - 1 \in 0..(NumCores - 1)
<1>1. Cardinality(S \ {w}) = Cardinality(S) - 1
  BY SubsetCount, FS_RemoveElement
<1>2. S \ {w} \in SUBSET Workers
  OBVIOUS
<1> QED
  BY <1>1, <1>2, SubsetCount

(* However many arguments a region has, the microtask is called. *)
LEMMA CallsPositive ==
    \A ac \in 0..12 : MicrotaskCalls(ac) \in Nat \ {0}
BY DEF MicrotaskCalls

(* The sets the counters count are sets of workers. *)
LEMMA CountedSets ==
    /\ InLoop \in SUBSET Workers
    /\ Sleeping \in SUBSET Workers
    /\ Finished \in SUBSET Workers
BY DEF InLoop, Sleeping, Finished

(* The stages exclude one another; the master sets the event and the       *)
(* interrupts, and has a region it has not begun, while it is quiet.       *)
LEMMA Stages ==
    ASSUME IInv
    PROVE  /\ Booting => ~Quiet /\ ~InRegion /\ ~Leaving
           /\ Quiet => ~InRegion /\ ~Leaving
           /\ InRegion => ~Leaving
           /\ Exiting \/ NotBegun => Quiet
           /\ pc[Master] \in {"push.fill", "exit.flag", "wake.set"} => Quiet
           /\ pc[Master] \in Wake \cup {"run.clear"} => Quiet
           /\ pc[Master] = "init" => Booting
           /\ pc[Master] \notin Pre => pc[Master] \notin {"init", "init.omp"}
           /\ Booting /\ pc[Master] # "init" => nthreads = 0 /\ team = 0
           /\ InRegion => nthreads = team /\ argc = nargs /\ pc[Master] # "init"
           /\ exit_flag # 0 => pc[Master] = "init" \/ Quiet \/ Leaving
           /\ Leaving => exit_flag = 1
BY DEF IInv, EventByStage, Booting, Quiet, InRegion, Exiting, Leaving, NotBegun,
       Pre, Push, Wake

(* A worker that is not in bootstrap any more sees the master past it. *)
LEMMA StageOfWorker ==
    ASSUME IInv, NEW w \in Workers
    PROVE  /\ pc[w] \notin Pre => pc[Master] \notin Pre
           /\ pc[w] \in {"enter"} => Booting
           /\ pc[w] \in {"check", "fini"} => Booting \/ InRegion
           /\ pc[w] \in {"call", "running"} => InRegion
           /\ pc[w] \in {"wfi.clr", "wfi.dec"} => InRegion \/ Leaving
           /\ pc[w] = "loop" => Booting \/ InRegion \/ Leaving
           /\ pc[w] \in {"barrier2", "stall2", "done"} => Leaving
           /\ w \in irq \/ w \in clr => InRegion \/ Leaving
BY CoreSets DEF IInv, Bootstrap, WorkersByStage, Pre

(* What no worker writes. *)
masterVars == <<eu_p_global, exit_flag, nthreads, argc, kmpc_args, scratch,
                caller, regions, team, nargs>>

(* A step of a worker leaves the master, and so the stage, as it is, and   *)
(* the event too.                                                          *)
WorkerMoves(w, from, to) ==
    /\ pc[w] = from /\ pc'[w] = to /\ w \in Cores /\ w # Master
    /\ \A i \in Cores \ {w} : pc'[i] = pc[i]
    /\ \A v \in Workers \ {w} : pc'[v] = pc[v]
    /\ pc'[Master] = pc[Master]
    /\ Booting' <=> Booting
    /\ Quiet' <=> Quiet
    /\ InRegion' <=> InRegion
    /\ Exiting' <=> Exiting
    /\ Leaving' <=> Leaving
    /\ NotBegun' <=> NotBegun

(* What a step of a worker keeps. *)
LEMMA WorkerFrame ==
    ASSUME IInv, NEW w \in Workers, NEW l, Goto(w, l), UNCHANGED masterVars,
           omp_p_global' = omp_p_global, dm_pc' = dm_pc,
           pc[w] \in Pre <=> l \in Pre,
           UNCHANGED arg \/ arg' = [arg EXCEPT ![w] = regions],
           l = "running" => arg' = [arg EXCEPT ![w] = regions]
    PROVE  /\ WorkerMoves(w, pc[w], l)
           /\ Bootstrap'
           /\ EventByStage'
           /\ UNCHANGED hw /\ pc[w] \notin {"stall1", "stall2"}
              /\ l \notin {"stall1", "stall2"} => ArrivalsAreStalls'
<1> USE DEF IInv, masterVars, WorkerMoves
<1>1. /\ pc'[w] = l /\ w \in Cores /\ w # Master
      /\ \A i \in Cores \ {w} : pc'[i] = pc[i]
      /\ \A v \in Workers \ {w} : pc'[v] = pc[v]
      /\ pc'[Master] = pc[Master]
  BY CoreSets DEF TypeOK, Goto
<1>2. /\ Booting' <=> Booting
      /\ Quiet' <=> Quiet
      /\ InRegion' <=> InRegion
      /\ Exiting' <=> Exiting
      /\ Leaving' <=> Leaving
      /\ NotBegun' <=> NotBegun
  BY <1>1 DEF Booting, Quiet, InRegion, Exiting, Leaving, NotBegun
<1>3. Bootstrap'
  BY <1>1, CoreSets DEF Bootstrap
<1>4. \A v \in Workers : pc'[v] = "running" => arg'[v] = regions
  BY <1>1, CoreSets DEF EventByStage, TypeOK
<1>5. EventByStage'
  BY <1>1, <1>2, <1>4 DEF EventByStage
<1>6. UNCHANGED hw /\ pc[w] \notin {"stall1", "stall2"}
      /\ l \notin {"stall1", "stall2"} => ArrivalsAreStalls'
  BY <1>1 DEF ArrivalsAreStalls, hw
<1> QED
  BY <1>1, <1>2, <1>3, <1>5, <1>6

-----------------------------------------------------------------------------
(* The steps of a worker. *)

(* A worker sees the pointer to the event unit and passes eu_init. *)
LEMMA EuInitWorkerKeeps ==
    ASSUME IInv, NEW w \in Workers, EuInitWorker(w)
    PROVE  IInv'
<1> USE DEF IInv, WorkerMoves
<1>1. /\ WorkerMoves(w, "init", "init.omp")
      /\ Bootstrap' /\ EventByStage' /\ ArrivalsAreStalls'
  BY WorkerFrame DEF EuInitWorker, masterVars, ptrs, eu, hist, hw, dm, Pre
<1>2. TypeOK'
  BY <1>1
  DEF EuInitWorker, Goto, TypeOK, Places, Pre, ptrs, eu, hw, dm, hist, Hw!HwTypeOK
<1>3. WorkersByStage'
  BY <1>1, StageOfWorker DEF EuInitWorker, WorkersByStage, Pre
<1>4. CountsByStage'
  <2>1. InLoop' = InLoop /\ Sleeping' = Sleeping /\ Finished' = Finished
    BY <1>1 DEF EuInitWorker, WorkersByStage, InLoop, Sleeping, Finished, Pre
  <2> QED
    BY <1>1, <2>1 DEF EuInitWorker, CountsByStage, eu
<1>5. RanByStage'
  BY <1>1, StageOfWorker DEF EuInitWorker, RanByStage, hist
<1> QED
  BY <1>1, <1>2, <1>3, <1>4, <1>5

(* A worker that sees the pointer does not change it. *)
LEMMA OmpKnown ==
    ASSUME IInv, NEW w \in Workers, OmpInit(w)
    PROVE  omp_p_global' = omp_p_global
BY CoreSets, Zenon DEF IInv, TypeOK, OmpInit

(* A worker passes omp_init. *)
LEMMA OmpInitKeeps ==
    ASSUME IInv, NEW w \in Workers, OmpInit(w)
    PROVE  IInv'
<1> USE DEF IInv, WorkerMoves
<1>1. /\ WorkerMoves(w, "init.omp", "barrier1")
      /\ Bootstrap' /\ EventByStage' /\ ArrivalsAreStalls'
  BY WorkerFrame, OmpKnown DEF OmpInit, masterVars, eu, hist, hw, dm, Pre
<1>2. TypeOK'
  BY <1>1
  DEF OmpInit, Goto, TypeOK, Places, Pre, ptrs, eu, hw, dm, hist, Hw!HwTypeOK
<1>3. WorkersByStage'
  BY <1>1, StageOfWorker DEF OmpInit, WorkersByStage, Pre
<1>4. CountsByStage'
  <2>1. InLoop' = InLoop /\ Sleeping' = Sleeping /\ Finished' = Finished
    BY <1>1 DEF OmpInit, WorkersByStage, InLoop, Sleeping, Finished, Pre
  <2> QED
    BY <1>1, <2>1 DEF OmpInit, CountsByStage, eu
<1>5. RanByStage'
  BY <1>1, StageOfWorker DEF OmpInit, RanByStage, hist
<1> QED
  BY <1>1, <1>2, <1>3, <1>4, <1>5

(* workers_in_loop is incremented: the worker was not in the count. *)
LEMMA EnterLoopKeeps ==
    ASSUME IInv, NEW w \in Workers, EnterLoop(w)
    PROVE  IInv'
<1> USE DEF IInv, WorkerMoves
<1>1. /\ WorkerMoves(w, "enter", "loop")
      /\ Bootstrap' /\ EventByStage' /\ ArrivalsAreStalls'
  BY WorkerFrame, StageOfWorker
  DEF EnterLoop, masterVars, ptrs, eu, hist, hw, dm, Pre
<1>2. InLoop' = InLoop \cup {w} /\ w \notin InLoop
      /\ Sleeping' = Sleeping /\ Finished' = Finished
  BY <1>1, StageOfWorker
  DEF EnterLoop, InLoop, Sleeping, Finished, WorkersByStage, Pre
<1>3. /\ Cardinality(InLoop') = Cardinality(InLoop) + 1
      /\ Cardinality(InLoop) + 1 \in 0..(NumCores - 1)
  BY <1>2, CountedSets, CountOneMore
<1>4. pc[Master] # "init" /\ workers_in_loop = Cardinality(InLoop)
  BY <1>1, StageOfWorker, Stages DEF CountsByStage, Pre
<1>5. TypeOK'
  BY <1>1, <1>3, <1>4, CoreSets
  DEF EnterLoop, Goto, TypeOK, Places, Pre, ptrs, eu, hw, dm, hist, Hw!HwTypeOK
<1>6. CountsByStage'
  BY <1>1, <1>2, <1>3, <1>4 DEF EnterLoop, CountsByStage
<1>7. WorkersByStage'
  BY <1>1, StageOfWorker DEF EnterLoop, WorkersByStage, Pre
<1>8. RanByStage'
  BY <1>1, StageOfWorker DEF EnterLoop, RanByStage, hist
<1> QED
  BY <1>1, <1>5, <1>6, <1>7, <1>8

(* A worker reads exit_flag: it leaves only after the master set it. *)
LEMMA CheckExitKeeps ==
    ASSUME IInv, NEW w \in Workers, CheckExit(w)
    PROVE  IInv'
<1> USE DEF IInv, WorkerMoves
<1>1. /\ WorkerMoves(w, "loop", IF exit_flag = 1 THEN "barrier2" ELSE "check")
      /\ Bootstrap' /\ EventByStage' /\ ArrivalsAreStalls'
  BY WorkerFrame, StageOfWorker
  DEF CheckExit, masterVars, ptrs, eu, hist, hw, dm, Pre
<1>2. TypeOK'
  BY <1>1
  DEF CheckExit, Goto, TypeOK, Places, Pre, ptrs, eu, hw, dm, hist, Hw!HwTypeOK
<1>3. WorkersByStage'
  BY <1>1, StageOfWorker, Stages, CoreSets DEF CheckExit, WorkersByStage, Pre
<1>4. CountsByStage'
  <2>1. InLoop' = InLoop /\ Sleeping' = Sleeping /\ Finished' = Finished
    BY <1>1 DEF CheckExit, WorkersByStage, InLoop, Sleeping, Finished, Pre
  <2> QED
    BY <1>1, <2>1 DEF CheckExit, CountsByStage, eu
<1>5. RanByStage'
  BY <1>1, StageOfWorker, Stages, CoreSets DEF CheckExit, RanByStage, hist
<1> QED
  BY <1>1, <1>2, <1>3, <1>4, <1>5

(* A worker compares its index with e.nthreads, which is the team of the   *)
(* region it was woken for.                                                *)
LEMMA CheckTeamKeeps ==
    ASSUME IInv, NEW w \in Workers, CheckTeam(w)
    PROVE  IInv'
<1> USE DEF IInv, WorkerMoves
<1>1. /\ WorkerMoves(w, "check", IF w < nthreads THEN "call" ELSE "fini")
      /\ Bootstrap' /\ EventByStage' /\ ArrivalsAreStalls'
  BY WorkerFrame, StageOfWorker
  DEF CheckTeam, masterVars, ptrs, eu, hist, hw, dm, Pre
<1>2. TypeOK'
  BY <1>1
  DEF CheckTeam, Goto, TypeOK, Places, Pre, ptrs, eu, hw, dm, hist, Hw!HwTypeOK
<1>3. WorkersByStage'
  BY <1>1, StageOfWorker, Stages, CoreSets DEF CheckTeam, WorkersByStage, Pre
<1>4. CountsByStage'
  <2>1. InLoop' = InLoop /\ Sleeping' = Sleeping /\ Finished' = Finished
    BY <1>1 DEF CheckTeam, WorkersByStage, InLoop, Sleeping, Finished, Pre
  <2> QED
    BY <1>1, <2>1 DEF CheckTeam, CountsByStage, eu
<1>5. RanByStage'
  <2>1. UNCHANGED <<team, nargs, ran, irq, nthreads>>
    BY DEF CheckTeam, hist, eu
  <2>2. Booting \/ (InRegion /\ nthreads = team)
    BY <1>1, StageOfWorker, Stages
  <2>3. team \in Nat /\ w \in Nat
    BY CoreSets DEF TypeOK
  <2>4. CASE Booting
    BY <1>1, <2>1, <2>4, Stages DEF RanByStage, Booting, Pre
  <2>5. CASE InRegion /\ nthreads = team
    BY <1>1, <2>1, <2>3, <2>5, Stages DEF RanByStage
  <2> QED
    BY <2>2, <2>4, <2>5
<1> QED
  BY <1>1, <1>2, <1>3, <1>4, <1>5

(* A worker loads the arguments: those of the region that runs. *)
LEMMA CallFnKeeps ==
    ASSUME IInv, NEW w \in Workers, CallFn(w)
    PROVE  IInv'
<1> USE DEF IInv, WorkerMoves
<1>1. /\ WorkerMoves(w, "call", "running")
      /\ Bootstrap' /\ EventByStage' /\ ArrivalsAreStalls'
  BY WorkerFrame, StageOfWorker
  DEF CallFn, masterVars, ptrs, eu, hist, hw, dm, Pre, EventByStage
<1>2. TypeOK'
  BY <1>1 DEF CallFn, Goto, TypeOK, Places, Pre, ptrs, eu, hw, dm, hist, Hw!HwTypeOK
<1>3. WorkersByStage'
  BY <1>1, StageOfWorker DEF CallFn, WorkersByStage, Pre
<1>4. CountsByStage'
  <2>1. InLoop' = InLoop /\ Sleeping' = Sleeping /\ Finished' = Finished
    BY <1>1 DEF CallFn, WorkersByStage, InLoop, Sleeping, Finished, Pre
  <2> QED
    BY <1>1, <2>1 DEF CallFn, CountsByStage, eu
<1>5. RanByStage'
  BY <1>1, StageOfWorker DEF CallFn, RanByStage, hist
<1> QED
  BY <1>1, <1>2, <1>3, <1>4, <1>5

(* The microtask returns in a worker. *)
LEMMA ReturnFnKeeps ==
    ASSUME IInv, NEW w \in Workers, ReturnFn(w)
    PROVE  IInv'
<1> USE DEF IInv, WorkerMoves
<1>1. /\ WorkerMoves(w, "running", "fini")
      /\ Bootstrap' /\ EventByStage' /\ ArrivalsAreStalls'
  BY WorkerFrame, StageOfWorker
  DEF ReturnFn, masterVars, ptrs, eu, hist, hw, dm, Pre
<1>2. TypeOK'
  BY <1>1, CallsPositive
  DEF ReturnFn, Goto, TypeOK, Places, Pre, ptrs, eu, hw, dm, hist, Hw!HwTypeOK
<1>3. WorkersByStage'
  BY <1>1, StageOfWorker, Stages, CoreSets DEF ReturnFn, WorkersByStage, Pre
<1>4. CountsByStage'
  <2>1. InLoop' = InLoop /\ Sleeping' = Sleeping /\ Finished' = Finished
    BY <1>1 DEF ReturnFn, WorkersByStage, InLoop, Sleeping, Finished, Pre
  <2> QED
    BY <1>1, <2>1 DEF ReturnFn, CountsByStage, eu
<1>5. RanByStage'
  <2>1. InRegion /\ argc = nargs /\ w < team /\ w \notin irq
    BY <1>1, StageOfWorker, Stages, CoreSets
    DEF WorkersByStage, RanByStage, TypeOK
  <2>2. ran[w] = 0 /\ MicrotaskCalls(argc) \in Nat
    BY <1>1, <2>1, CallsPositive DEF RanByStage, TypeOK
  <2>3. /\ ran'[w] = MicrotaskCalls(nargs)
        /\ \A i \in Cores \ {w} : ran'[i] = ran[i]
        /\ UNCHANGED <<team, nargs, irq>>
    BY <1>1, <2>1, <2>2 DEF ReturnFn, TypeOK
  <2> QED
    BY <1>1, <2>1, <2>3, Stages, CoreSets DEF RanByStage
<1> QED
  BY <1>1, <1>2, <1>3, <1>4, <1>5

(* fini_count is incremented: the worker was not counted, so the count     *)
(* stays below the number of workers.                                      *)
LEMMA CountFiniKeeps ==
    ASSUME IInv, NEW w \in Workers, CountFini(w)
    PROVE  IInv'
<1> USE DEF IInv, WorkerMoves
<1>1. /\ WorkerMoves(w, "fini", "wfi.inc")
      /\ Bootstrap' /\ EventByStage' /\ ArrivalsAreStalls'
  BY WorkerFrame, StageOfWorker
  DEF CountFini, masterVars, ptrs, eu, hist, hw, dm, Pre
<1>2. Finished' = Finished \cup {w} /\ w \notin Finished
      /\ InLoop' = InLoop /\ Sleeping' = Sleeping
  BY <1>1, StageOfWorker
  DEF CountFini, InLoop, Sleeping, Finished, WorkersByStage, Pre
<1>3. /\ Cardinality(Finished') = Cardinality(Finished) + 1
      /\ Cardinality(Finished) + 1 \in 0..(NumCores - 1)
  BY <1>2, CountedSets, CountOneMore
<1>4. pc[Master] # "init" /\ fini_count = Cardinality(Finished)
  BY <1>1, StageOfWorker, Stages DEF CountsByStage, Pre
<1>5. TypeOK'
  BY <1>1, <1>3, <1>4, CoreSets
  DEF CountFini, Goto, TypeOK, Places, Pre, ptrs, eu, hw, dm, hist, Hw!HwTypeOK
<1>6. CountsByStage'
  BY <1>1, <1>2, <1>3, <1>4, StageOfWorker, Stages DEF CountFini, CountsByStage
<1>7. WorkersByStage'
  BY <1>1, StageOfWorker DEF CountFini, WorkersByStage, Pre
<1>8. RanByStage'
  BY <1>1, StageOfWorker DEF CountFini, RanByStage, hist
<1> QED
  BY <1>1, <1>5, <1>6, <1>7, <1>8

(* workers_wfi is incremented: the worker is counted as asleep. *)
LEMMA WfiIncKeeps ==
    ASSUME IInv, NEW w \in Workers, WfiInc(w)
    PROVE  IInv'
<1> USE DEF IInv, WorkerMoves
<1>1. /\ WorkerMoves(w, "wfi.inc", "wfi")
      /\ Bootstrap' /\ EventByStage' /\ ArrivalsAreStalls'
  BY WorkerFrame, StageOfWorker DEF WfiInc, masterVars, ptrs, eu, hist, hw, dm, Pre
<1>2. Sleeping' = Sleeping \cup {w} /\ w \notin Sleeping
      /\ InLoop' = InLoop /\ Finished' = Finished
  BY <1>1, StageOfWorker
  DEF WfiInc, InLoop, Sleeping, Finished, WorkersByStage, Pre
<1>3. /\ Cardinality(Sleeping') = Cardinality(Sleeping) + 1
      /\ Cardinality(Sleeping) + 1 \in 0..(NumCores - 1)
  BY <1>2, CountedSets, CountOneMore
<1>4. pc[Master] # "init" /\ workers_wfi = Cardinality(Sleeping)
  BY <1>1, StageOfWorker, Stages DEF CountsByStage, Pre
<1>5. TypeOK'
  BY <1>1, <1>3, <1>4, CoreSets
  DEF WfiInc, Goto, TypeOK, Places, Pre, ptrs, eu, hw, dm, hist, Hw!HwTypeOK
<1>6. CountsByStage'
  BY <1>1, <1>2, <1>3, <1>4 DEF WfiInc, CountsByStage
<1>7. WorkersByStage'
  BY <1>1, StageOfWorker DEF WfiInc, WorkersByStage, Pre
<1>8. RanByStage'
  BY <1>1, StageOfWorker DEF WfiInc, RanByStage, hist
<1> QED
  BY <1>1, <1>5, <1>6, <1>7, <1>8

(* An interrupt ends the wfi. *)
LEMMA WakeUpKeeps ==
    ASSUME IInv, NEW w \in Workers, WakeUp(w)
    PROVE  IInv'
<1> USE DEF IInv, WorkerMoves
<1>1. /\ WorkerMoves(w, "wfi", "wfi.clr")
      /\ Bootstrap' /\ EventByStage' /\ ArrivalsAreStalls'
  BY WorkerFrame, StageOfWorker DEF WakeUp, masterVars, ptrs, eu, hist, hw, dm, Pre
<1>2. TypeOK'
  BY <1>1 DEF WakeUp, Goto, TypeOK, Places, Pre, ptrs, eu, hw, dm, hist, Hw!HwTypeOK
<1>3. WorkersByStage'
  BY <1>1, StageOfWorker, Stages, CoreSets DEF WakeUp, WorkersByStage, Pre
<1>4. CountsByStage'
  <2>1. InLoop' = InLoop /\ Sleeping' = Sleeping /\ Finished' = Finished
    BY <1>1 DEF WakeUp, WorkersByStage, InLoop, Sleeping, Finished, Pre
  <2> QED
    BY <1>1, <2>1 DEF WakeUp, CountsByStage, eu
<1>5. RanByStage'
  BY <1>1, StageOfWorker, Stages, CoreSets DEF WakeUp, RanByStage, hist
<1> QED
  BY <1>1, <1>2, <1>3, <1>4, <1>5

(* A woken worker clears its interrupt. *)
LEMMA ClearIrqKeeps ==
    ASSUME IInv, NEW w \in Workers, ClearIrq(w)
    PROVE  IInv'
<1> USE DEF IInv, WorkerMoves
<1>1. /\ WorkerMoves(w, "wfi.clr", "wfi.dec")
      /\ Bootstrap' /\ EventByStage' /\ ArrivalsAreStalls'
  BY WorkerFrame, StageOfWorker
  DEF ClearIrq, masterVars, ptrs, eu, hist, hw, dm, Pre
<1>2. TypeOK'
  BY <1>1
  DEF ClearIrq, Goto, TypeOK, Places, Pre, ptrs, eu, hw, dm, hist, Hw!HwTypeOK
<1>3. WorkersByStage'
  BY <1>1, StageOfWorker DEF ClearIrq, WorkersByStage, Pre
<1>4. CountsByStage'
  <2>1. InLoop' = InLoop /\ Sleeping' = Sleeping /\ Finished' = Finished
    BY <1>1 DEF ClearIrq, WorkersByStage, InLoop, Sleeping, Finished, Pre
  <2> QED
    BY <1>1, <2>1 DEF ClearIrq, CountsByStage, eu
<1>5. RanByStage'
  BY <1>1, StageOfWorker DEF ClearIrq, RanByStage, hist
<1> QED
  BY <1>1, <1>2, <1>3, <1>4, <1>5

(* workers_wfi is decremented: a worker that is awake is not counted. *)
LEMMA WfiDecKeeps ==
    ASSUME IInv, NEW w \in Workers, WfiDec(w)
    PROVE  IInv'
<1> USE DEF IInv, WorkerMoves
<1>1. /\ WorkerMoves(w, "wfi.dec", "loop")
      /\ Bootstrap' /\ EventByStage' /\ ArrivalsAreStalls'
  BY WorkerFrame, StageOfWorker DEF WfiDec, masterVars, ptrs, eu, hist, hw, dm, Pre
<1>2. Sleeping' = Sleeping \ {w} /\ w \in Sleeping
      /\ InLoop' = InLoop /\ Finished' = Finished
  BY <1>1, StageOfWorker
  DEF WfiDec, InLoop, Sleeping, Finished, WorkersByStage, Pre
<1>3. /\ Cardinality(Sleeping') = Cardinality(Sleeping) - 1
      /\ Cardinality(Sleeping) - 1 \in 0..(NumCores - 1)
  BY <1>2, CountedSets, CountOneLess
<1>4. pc[Master] # "init" /\ workers_wfi = Cardinality(Sleeping)
  BY <1>1, StageOfWorker, Stages DEF CountsByStage, Pre
<1>5. TypeOK'
  BY <1>1, <1>3, <1>4, CoreSets
  DEF WfiDec, Goto, TypeOK, Places, Pre, ptrs, eu, hw, dm, hist, Hw!HwTypeOK
<1>6. CountsByStage'
  BY <1>1, <1>2, <1>3, <1>4 DEF WfiDec, CountsByStage
<1>7. WorkersByStage'
  BY <1>1, StageOfWorker DEF WfiDec, WorkersByStage, Pre
<1>8. RanByStage'
  BY <1>1, StageOfWorker DEF WfiDec, RanByStage, hist
<1> QED
  BY <1>1, <1>5, <1>6, <1>7, <1>8

-----------------------------------------------------------------------------
(* The steps of the master. *)

(* Once the workers are in the loop, workers_in_loop counts all of them. *)
LEMMA AllInLoop ==
    ASSUME IInv, Quiet \/ InRegion
    PROVE  workers_in_loop = NumCores - 1
<1>1. pc[Master] # "init"
  BY Stages
<1>2. InLoop = Workers
  BY DEF IInv, WorkersByStage, InLoop, Pre
<1> QED
  BY <1>1, <1>2, WorkerCount DEF IInv, CountsByStage

(* When workers_wfi counts all workers, they all sleep. *)
LEMMA AllAsleep ==
    ASSUME IInv, workers_wfi = NumCores - 1, pc[Master] # "init"
    PROVE  \A w \in Workers : pc[w] \in {"wfi", "wfi.clr", "wfi.dec"}
<1>1. Sleeping = Workers
  BY SubsetCount, CountedSets DEF IInv, CountsByStage
<1> QED
  BY <1>1 DEF Sleeping

(* When fini_count counts all workers, they have all finished, and no      *)
(* interrupt is pending.                                                   *)
LEMMA AllFinished ==
    ASSUME IInv, fini_count = NumCores - 1, InRegion
    PROVE  /\ irq = {}
           /\ \A w \in Workers : pc[w] \in {"wfi.inc", "wfi"}
<1>1. Finished = Workers
  BY SubsetCount, CountedSets DEF IInv, CountsByStage
<1>2. Dm \notin irq
  BY Stages DEF IInv, WorkersByStage
<1> QED
  BY <1>1, <1>2 DEF Finished, IInv, TypeOK

(* A step of the master leaves the workers where they are. *)
MasterMoves(to) ==
    /\ pc'[Master] = to
    /\ \A w \in Workers : pc'[w] = pc[w]
    /\ pc' \in [Cores -> Places]
    /\ InLoop' = InLoop /\ Sleeping' = Sleeping

(* What a step of the master that leaves pointers and barrier alone keeps. *)
LEMMA MasterFrame ==
    ASSUME IInv, NEW l \in Places \ Pre, Goto(Master, l), UNCHANGED <<ptrs, hw, dm_pc>>,
           pc[Master] \notin Pre, pc[Master] # "stall2", l # "stall2"
    PROVE  MasterMoves(l) /\ Bootstrap' /\ ArrivalsAreStalls'
<1> USE DEF IInv, MasterMoves
<1>1. /\ pc'[Master] = l
      /\ \A w \in Workers : pc'[w] = pc[w]
      /\ pc' \in [Cores -> Places]
  BY CoreSets DEF TypeOK, Goto
<1>2. InLoop' = InLoop /\ Sleeping' = Sleeping
  BY <1>1 DEF InLoop, Sleeping
<1>3. Bootstrap'
  BY <1>1 DEF Bootstrap, ptrs, Pre
<1>4. ArrivalsAreStalls'
  BY <1>1, CoreSets DEF ArrivalsAreStalls, hw, Pre
<1> QED
  BY <1>1, <1>2, <1>3, <1>4

(* The master leaves omp_init when workers_wfi counts every worker, that   *)
(* is, when all sleep.                                                     *)
LEMMA BootWaitKeeps ==
    ASSUME IInv, BootWait
    PROVE  IInv'
<1> USE DEF IInv, MasterMoves
<1>1. MasterMoves("app") /\ Bootstrap' /\ ArrivalsAreStalls'
  BY MasterFrame, EuAssumption
  DEF BootWait, EventByStage, Places, Pre, Push, Wake, dm
<1>2. TypeOK'
  BY <1>1, AllAsleep, CoreSets
  DEF BootWait, TypeOK, ptrs, eu, hw, dm, hist, Hw!HwTypeOK
<1>3. WorkersByStage'
  BY <1>1, AllAsleep
  DEF BootWait, WorkersByStage, EventByStage, Booting, Quiet, InRegion,
      Exiting, Leaving, Pre, Push, Wake, eu
<1>4. EventByStage'
  BY <1>1, AllAsleep
  DEF BootWait, EventByStage, Booting, Quiet, InRegion, Exiting, Leaving, Pre,
      Push, Wake, eu, hist
<1>5. CountsByStage'
  <2>1. Finished' = Finished
    BY <1>1 DEF BootWait, Finished
  <2> QED
    BY <1>1, <2>1, AllAsleep
    DEF BootWait, CountsByStage, Booting, Quiet, InRegion, Exiting, Leaving,
        Pre, Push, Wake, eu
<1>6. RanByStage'
  <2>1. team = 0
    BY Stages DEF BootWait, Booting, Pre
  <2> QED
    BY <1>1, <2>1 DEF BootWait, RanByStage, NotBegun, InRegion, Push, Wake, hist
<1> QED
  BY <1>1, <1>2, <1>3, <1>4, <1>5, <1>6

(* The argument block of the next region is filled: no worker runs a       *)
(* region while the master is in its application.                          *)
LEMMA DispatchKeeps ==
    ASSUME IInv, NEW nt \in 1..NumCores, NEW ac \in Argcs,
           NEW return \in {"app", "run.zero"}, Dispatch(nt, ac, return)
    PROVE  IInv'
<1> USE DEF IInv, MasterMoves
<1>1. MasterMoves("push.load") /\ Bootstrap' /\ ArrivalsAreStalls'
  BY MasterFrame, EuAssumption
  DEF Dispatch, EventByStage, Places, Pre, Push, Wake, dm
<1>2. TypeOK'
  BY <1>1, CoreSets DEF Dispatch, TypeOK, ptrs, eu, hw, dm, hist, Hw!HwTypeOK
<1>3. WorkersByStage'
  BY <1>1
  DEF Dispatch, WorkersByStage, EventByStage, Booting, Quiet, InRegion,
      Exiting, Leaving, Pre, Push, Wake, eu
<1>4. EventByStage'
  BY <1>1
  DEF Dispatch, WorkersByStage, TypeOK, EventByStage, Booting, Quiet,
      InRegion, Exiting, Leaving, Pre, Push, Wake, eu, hist
<1>5. CountsByStage'
  <2>1. Finished' = Finished
    BY <1>1 DEF Dispatch, Finished
  <2> QED
    BY <1>1, <2>1
    DEF Dispatch, CountsByStage, Booting, Quiet, InRegion, Exiting, Leaving,
        Pre, Push, Wake, eu
<1>6. RanByStage'
  BY <1>1, CoreSets
  DEF Dispatch, RanByStage, EventByStage, NotBegun, InRegion, Push, Wake, eu,
      hist
<1> QED
  BY <1>1, <1>2, <1>3, <1>4, <1>5, <1>6

(* The master calls eu_run_empty. *)
LEMMA RunEmptyCallKeeps ==
    ASSUME IInv, RunEmptyCall
    PROVE  IInv'
<1> USE DEF IInv, MasterMoves
<1>1. MasterMoves("run.zero") /\ Bootstrap' /\ ArrivalsAreStalls'
  BY MasterFrame, EuAssumption
  DEF RunEmptyCall, EventByStage, Places, Pre, Push, Wake, dm
<1>2. TypeOK'
  BY <1>1, CoreSets DEF RunEmptyCall, TypeOK, ptrs, eu, hw, dm, hist, Hw!HwTypeOK
<1>3. WorkersByStage'
  BY <1>1
  DEF RunEmptyCall, WorkersByStage, EventByStage, Booting, Quiet, InRegion,
      Exiting, Leaving, Pre, Push, Wake, eu
<1>4. EventByStage'
  BY <1>1
  DEF RunEmptyCall, EventByStage, Booting, Quiet, InRegion, Exiting, Leaving,
      Pre, Push, Wake, eu, hist
<1>5. CountsByStage'
  <2>1. Finished' = Finished
    BY <1>1 DEF RunEmptyCall, Finished
  <2> QED
    BY <1>1, <2>1
    DEF RunEmptyCall, CountsByStage, Booting, Quiet, InRegion, Exiting,
        Leaving, Pre, Push, Wake, eu
<1>6. RanByStage'
  BY <1>1, CoreSets
  DEF RunEmptyCall, RanByStage, EventByStage, NotBegun, InRegion, Push, Wake,
      eu, hist
<1> QED
  BY <1>1, <1>2, <1>3, <1>4, <1>5, <1>6

(* wait_worker_wfi loads workers_in_loop. *)
LEMMA WaitWorkerWfiLoadKeeps ==
    ASSUME IInv, WaitWorkerWfiLoad
    PROVE  IInv'
<1> USE DEF IInv, MasterMoves
<1>1. \/ pc[Master] = "push.load" /\ pc'[Master] = "push.spin"
      \/ pc[Master] = "wake.load" /\ pc'[Master] = "wake.spin"
      \/ pc[Master] = "exit.load" /\ pc'[Master] = "exit.spin"
  BY CoreSets DEF WaitWorkerWfiLoad, Goto, TypeOK
<1>2. MasterMoves(pc'[Master]) /\ Bootstrap' /\ ArrivalsAreStalls'
  BY <1>1, MasterFrame DEF WaitWorkerWfiLoad, Goto, Places, Pre, Push, Wake, dm
<1>3. /\ Quiet /\ Quiet' /\ ~Booting' /\ ~InRegion' /\ ~Leaving'
      /\ Exiting' <=> Exiting
      /\ NotBegun' <=> NotBegun
      /\ pc'[Master] \in Push <=> pc[Master] \in Push
      /\ pc'[Master] \in Wake <=> pc[Master] \in Wake
  BY <1>1
  DEF WaitWorkerWfiLoad, Booting, Quiet, InRegion, Exiting, Leaving, NotBegun,
      Pre, Push, Wake
<1>4. workers_in_loop = NumCores - 1
  BY <1>1, <1>3, AllInLoop, Stages
<1>5. TypeOK'
  BY <1>2, <1>4, CoreSets
  DEF WaitWorkerWfiLoad, TypeOK, ptrs, eu, hw, dm, hist, Hw!HwTypeOK
<1>6. WorkersByStage'
  BY <1>1, <1>2, <1>3, Stages DEF WaitWorkerWfiLoad, WorkersByStage
<1>7. EventByStage'
  BY <1>1, <1>2, <1>3, Stages DEF WaitWorkerWfiLoad, EventByStage, eu, hist
<1>8. CountsByStage'
  <2>1. Finished' = Finished
    BY <1>2 DEF WaitWorkerWfiLoad, Finished
  <2> QED
    BY <1>1, <1>2, <1>3, <1>4, <2>1, Stages
    DEF WaitWorkerWfiLoad, CountsByStage, eu
<1>9. RanByStage'
  BY <1>1, <1>3, CoreSets DEF WaitWorkerWfiLoad, RanByStage, hist
<1> QED
  BY <1>2, <1>5, <1>6, <1>7, <1>8, <1>9

(* wait_worker_wfi ends: workers_wfi counts every worker. *)
LEMMA WaitWorkerWfiSpinKeeps ==
    ASSUME IInv, WaitWorkerWfiSpin
    PROVE  IInv'
<1> USE DEF IInv, MasterMoves
<1>1. \/ pc[Master] = "push.spin" /\ pc'[Master] = "push.fill"
      \/ pc[Master] = "wake.spin" /\ pc'[Master] = "wake.set"
      \/ pc[Master] = "exit.spin" /\ pc'[Master] = "exit.flag"
  BY CoreSets DEF WaitWorkerWfiSpin, Goto, TypeOK
<1>2. MasterMoves(pc'[Master]) /\ Bootstrap' /\ ArrivalsAreStalls'
  BY <1>1, MasterFrame DEF WaitWorkerWfiSpin, Goto, Places, Pre, Push, Wake, dm
<1>3. /\ Quiet /\ Quiet' /\ ~Booting' /\ ~InRegion' /\ ~Leaving'
      /\ Exiting' <=> Exiting
      /\ NotBegun' <=> NotBegun
      /\ pc'[Master] \in Push <=> pc[Master] \in Push
      /\ pc'[Master] \in Wake <=> pc[Master] \in Wake
  BY <1>1
  DEF WaitWorkerWfiSpin, Booting, Quiet, InRegion, Exiting, Leaving, NotBegun,
      Pre, Push, Wake
<1>4. \A w \in Workers : pc[w] = "wfi"
  BY <1>1, <1>3, AllAsleep, Stages
  DEF WaitWorkerWfiSpin, CountsByStage, WorkersByStage
<1>5. TypeOK'
  BY <1>2, <1>4, CoreSets
  DEF WaitWorkerWfiSpin, TypeOK, ptrs, eu, hw, dm, hist, Hw!HwTypeOK
<1>6. WorkersByStage'
  BY <1>1, <1>2, <1>3, <1>4, Stages DEF WaitWorkerWfiSpin, WorkersByStage
<1>7. EventByStage'
  BY <1>1, <1>2, <1>3, Stages DEF WaitWorkerWfiSpin, EventByStage, eu, hist
<1>8. CountsByStage'
  <2>1. Finished' = Finished
    BY <1>2 DEF WaitWorkerWfiSpin, Finished
  <2> QED
    BY <1>1, <1>2, <1>3, <1>4, <2>1, Stages
    DEF WaitWorkerWfiSpin, CountsByStage, eu
<1>9. RanByStage'
  BY <1>1, <1>3, CoreSets DEF WaitWorkerWfiSpin, RanByStage, hist
<1> QED
  BY <1>2, <1>5, <1>6, <1>7, <1>8, <1>9

(* The event is filled with all workers asleep. *)
LEMMA DispatchPushKeeps ==
    ASSUME IInv, DispatchPush
    PROVE  IInv'
<1> USE DEF IInv, MasterMoves
<1>1. MasterMoves(caller) /\ Bootstrap' /\ ArrivalsAreStalls'
  BY MasterFrame, EuAssumption
  DEF DispatchPush, EventByStage, Places, Pre, Push, Wake, dm
<1>2. TypeOK'
  BY <1>1, CoreSets, EuAssumption
  DEF DispatchPush, TypeOK, ptrs, eu, hw, dm, hist, Hw!HwTypeOK
<1>3. WorkersByStage'
  BY <1>1
  DEF DispatchPush, WorkersByStage, EventByStage, Booting, Quiet, InRegion,
      Exiting, Leaving, Pre, Push, Wake, eu
<1>4. EventByStage'
  BY <1>1
  DEF DispatchPush, EventByStage, Booting, Quiet, InRegion, Exiting, Leaving,
      Pre, Push, Wake, eu, hist
<1>5. CountsByStage'
  <2>1. Finished' = Finished
    BY <1>1 DEF DispatchPush, Finished
  <2> QED
    BY <1>1, <2>1
    DEF DispatchPush, CountsByStage, EventByStage, Booting, Quiet, InRegion,
        Exiting, Leaving, Pre, Push, Wake, eu
<1>6. RanByStage'
  BY <1>1, CoreSets
  DEF DispatchPush, RanByStage, EventByStage, NotBegun, InRegion, Push, Wake,
      eu, hist
<1> QED
  BY <1>1, <1>2, <1>3, <1>4, <1>5, <1>6

(* eu_run_empty returns when there is no event. *)
LEMMA RunEmptyNothingKeeps ==
    ASSUME IInv, RunEmptyNothing
    PROVE  IInv'
<1> USE DEF IInv, MasterMoves
<1>1. MasterMoves("app") /\ Bootstrap' /\ ArrivalsAreStalls'
  BY MasterFrame, EuAssumption
  DEF RunEmptyNothing, EventByStage, Places, Pre, Push, Wake, dm
<1>2. TypeOK'
  BY <1>1, CoreSets DEF RunEmptyNothing, TypeOK, ptrs, eu, hw, dm, hist, Hw!HwTypeOK
<1>3. WorkersByStage'
  BY <1>1
  DEF RunEmptyNothing, WorkersByStage, EventByStage, Booting, Quiet, InRegion,
      Exiting, Leaving, Pre, Push, Wake, eu
<1>4. EventByStage'
  BY <1>1
  DEF RunEmptyNothing, EventByStage, Booting, Quiet, InRegion, Exiting,
      Leaving, Pre, Push, Wake, eu, hist
<1>5. CountsByStage'
  <2>1. Finished' = Finished
    BY <1>1 DEF RunEmptyNothing, Finished
  <2> QED
    BY <1>1, <2>1
    DEF RunEmptyNothing, CountsByStage, Booting, Quiet, InRegion, Exiting,
        Leaving, Pre, Push, Wake, eu
<1>6. RanByStage'
  BY <1>1, CoreSets
  DEF RunEmptyNothing, RanByStage, EventByStage, NotBegun, InRegion, Push,
      Wake, eu, hist
<1> QED
  BY <1>1, <1>2, <1>3, <1>4, <1>5, <1>6

(* fini_count is set to 0 with all workers asleep. *)
LEMMA RunEmptyZeroKeeps ==
    ASSUME IInv, RunEmptyZero
    PROVE  IInv'
<1> USE DEF IInv, MasterMoves
<1>1. /\ MasterMoves(IF nthreads > 1 THEN "wake.load" ELSE "run.own")
      /\ Bootstrap' /\ ArrivalsAreStalls'
  BY MasterFrame, EuAssumption
  DEF RunEmptyZero, EventByStage, Places, Pre, Push, Wake, dm
<1>2. TypeOK'
  BY <1>1, CoreSets DEF RunEmptyZero, TypeOK, ptrs, eu, hw, dm, hist, Hw!HwTypeOK
<1>3. WorkersByStage'
  BY <1>1
  DEF RunEmptyZero, TypeOK, WorkersByStage, EventByStage, Booting, Quiet,
      InRegion, Exiting, Leaving, Pre, Push, Wake, eu
<1>4. EventByStage'
  BY <1>1
  DEF RunEmptyZero, EventByStage, Booting, Quiet, InRegion, Exiting, Leaving,
      Pre, Push, Wake, eu, hist
<1>5. CountsByStage'
  <2>1. Finished' = Finished
    BY <1>1 DEF RunEmptyZero, Finished
  <2> QED
    BY <1>1, <2>1
    DEF RunEmptyZero, CountsByStage, Booting, Quiet, InRegion, Exiting,
        Leaving, Pre, Push, Wake, eu
<1>6. RanByStage'
  BY <1>1, CoreSets
  DEF RunEmptyZero, RanByStage, EventByStage, NotBegun, InRegion, Push, Wake,
      eu, hist
<1> QED
  BY <1>1, <1>2, <1>3, <1>4, <1>5, <1>6

(* The workers, all asleep, get an interrupt each. *)
LEMMA WakeWorkersKeeps ==
    ASSUME IInv, WakeWorkers
    PROVE  IInv'
<1> USE DEF IInv, MasterMoves
<1>1. MasterMoves(caller) /\ Bootstrap' /\ ArrivalsAreStalls'
  BY MasterFrame, EuAssumption
  DEF WakeWorkers, EventByStage, Places, Pre, Push, Wake, dm
<1>2. TypeOK'
  BY <1>1, CoreSets DEF WakeWorkers, TypeOK, ptrs, eu, hw, dm, hist, Hw!HwTypeOK
<1>3. WorkersByStage'
  BY <1>1, CoreSets
  DEF WakeWorkers, WorkersByStage, EventByStage, Booting, Quiet, InRegion,
      Exiting, Leaving, Pre, Push, Wake, eu
<1>4. EventByStage'
  BY <1>1
  DEF WakeWorkers, EventByStage, Booting, Quiet, InRegion, Exiting, Leaving,
      Pre, Push, Wake, eu, hist
<1>5. CountsByStage'
  <2>1. Finished' = {}
    BY <1>1 DEF WakeWorkers, Finished
  <2>2. caller \in {"run.own", "dm.stat"}
    BY DEF WakeWorkers, EventByStage, Wake
  <2>3. caller = "run.own" => fini_count = 0
    BY DEF WakeWorkers, CountsByStage, Wake
  <2> QED
    BY <1>1, <2>1, <2>2, <2>3, FS_EmptySet
    DEF WakeWorkers, CountsByStage, Booting, InRegion, Pre, Wake, eu
<1>6. RanByStage'
  <2>1. \/ caller = "dm.stat"
        \/ caller = "run.own" /\ nthreads > 1
    BY DEF WakeWorkers, EventByStage, Wake
  <2>2. CASE caller = "dm.stat"
    BY <1>1, <2>2 DEF WakeWorkers, RanByStage, NotBegun, InRegion, Push, Wake
  <2>3. CASE caller = "run.own" /\ nthreads > 1
    <3>1. \A i \in Cores : ran'[i] = 0
      BY <2>3 DEF WakeWorkers, RanByStage, NotBegun, Wake, hist
    <3>2. \A w \in Workers : pc'[w] = "wfi" /\ w \in irq'
      BY <1>1 DEF WakeWorkers, WorkersByStage
    <3> QED
      BY <1>1, <2>3, <3>1, <3>2, CoreSets DEF RanByStage
  <2> QED
    BY <2>1, <2>2, <2>3
<1> QED
  BY <1>1, <1>2, <1>3, <1>4, <1>5, <1>6

(* The master runs its own share of the event. *)
LEMMA RunOwnShareKeeps ==
    ASSUME IInv, RunOwnShare
    PROVE  IInv'
<1> USE DEF IInv, MasterMoves
<1>1. /\ MasterMoves(IF nthreads > 1 THEN "fini.load" ELSE "run.clear")
      /\ Bootstrap' /\ ArrivalsAreStalls'
  BY MasterFrame, EuAssumption
  DEF RunOwnShare, EventByStage, Places, Pre, Push, Wake, dm
<1>2. TypeOK'
  <2>1. ran' \in [Cores -> Nat] /\ arg' \in [Cores -> 0..MaxRegions]
    BY CallsPositive, CoreSets DEF RunOwnShare, TypeOK
  <2> QED
    BY <1>1, <2>1 DEF RunOwnShare, TypeOK, ptrs, eu, hw, dm, hist, Hw!HwTypeOK
<1>3. WorkersByStage'
  BY <1>1, CallsPositive
  DEF RunOwnShare, WorkersByStage, EventByStage, Booting, Quiet, InRegion,
      Exiting, Leaving, Pre, Push, Wake, eu
<1>4. EventByStage'
  BY <1>1, CallsPositive
  DEF RunOwnShare, EventByStage, Booting, Quiet, InRegion, Exiting, Leaving,
      Pre, Push, Wake, eu, hist
<1>5. CountsByStage'
  <2>1. Finished' = Finished
    BY <1>1 DEF RunOwnShare, Finished
  <2> QED
    BY <1>1, <2>1, CallsPositive
    DEF RunOwnShare, CountsByStage, Booting, Quiet, InRegion, Exiting,
        Leaving, Pre, Push, Wake, eu
<1>6. RanByStage'
  <2>1. /\ nthreads = team /\ argc = nargs /\ nthreads \in Nat \ {0}
        /\ ran[Master] = 0
    BY DEF RunOwnShare, EventByStage, RanByStage, TypeOK, WorkersByStage,
       Booting, Quiet, InRegion, Leaving, Pre, Push, Wake
  <2>2. /\ ran'[Master] = MicrotaskCalls(nargs)
        /\ \A w \in Workers : ran'[w] = ran[w]
        /\ UNCHANGED <<team, nargs, nthreads, irq>>
    BY <2>1, CallsPositive, CoreSets DEF RunOwnShare, TypeOK, eu
  <2>3. CASE nthreads = 1
    <3>1. \A i \in Cores : i < team <=> i = Master
      BY <2>1, <2>3, CoreSets DEF Master
    <3>2. \A w \in Workers : ran[w] = 0
      BY <2>3, CoreSets DEF RunOwnShare, RanByStage, NotBegun
    <3> QED
      BY <1>1, <2>2, <2>3, <3>1, <3>2, CoreSets
      DEF RanByStage, NotBegun, InRegion, Push, Wake
  <2>4. CASE nthreads > 1
    BY <1>1, <2>1, <2>2, <2>4, CoreSets
    DEF RunOwnShare, RanByStage, NotBegun, InRegion, Push, Wake
  <2> QED
    BY <2>1, <2>3, <2>4
<1> QED
  BY <1>1, <1>2, <1>3, <1>4, <1>5, <1>6

(* The wait for the workers loads workers_in_loop. *)
LEMMA FiniLoadKeeps ==
    ASSUME IInv, FiniLoad
    PROVE  IInv'
<1> USE DEF IInv, MasterMoves
<1>1. MasterMoves("fini.spin") /\ Bootstrap' /\ ArrivalsAreStalls'
  BY MasterFrame, EuAssumption
  DEF FiniLoad, EventByStage, Places, Pre, Push, Wake, dm
<1>a. InRegion
  BY DEF FiniLoad, WorkersByStage, Booting, Quiet, InRegion, Leaving, Pre,
     Push, Wake
<1>2. TypeOK'
  BY <1>1, <1>a, AllInLoop, CoreSets
  DEF FiniLoad, TypeOK, ptrs, eu, hw, dm, hist, Hw!HwTypeOK
<1>3. WorkersByStage'
  BY <1>1, AllInLoop
  DEF FiniLoad, WorkersByStage, EventByStage, Booting, Quiet, InRegion,
      Exiting, Leaving, Pre, Push, Wake, eu
<1>4. EventByStage'
  BY <1>1, AllInLoop
  DEF FiniLoad, EventByStage, Booting, Quiet, InRegion, Exiting, Leaving, Pre,
      Push, Wake, eu, hist
<1>5. CountsByStage'
  <2>1. Finished' = Finished
    BY <1>1 DEF FiniLoad, Finished
  <2> QED
    BY <1>1, <1>a, <2>1, AllInLoop
    DEF FiniLoad, CountsByStage, Booting, Quiet, InRegion, Exiting, Leaving,
        Pre, Push, Wake, eu
<1>6. RanByStage'
  BY <1>1, AllInLoop, CoreSets
  DEF FiniLoad, RanByStage, EventByStage, NotBegun, InRegion, Push, Wake, eu,
      hist
<1> QED
  BY <1>1, <1>2, <1>3, <1>4, <1>5, <1>6

(* The wait ends when fini_count counts every worker, so none reads the    *)
(* event any more.                                                         *)
LEMMA FiniSpinKeeps ==
    ASSUME IInv, FiniSpin
    PROVE  IInv'
<1> USE DEF IInv, MasterMoves
<1>1. MasterMoves("run.clear") /\ Bootstrap' /\ ArrivalsAreStalls'
  BY MasterFrame, EuAssumption
  DEF FiniSpin, EventByStage, Places, Pre, Push, Wake, dm
<1>a. InRegion
  BY DEF FiniSpin, WorkersByStage, Booting, Quiet, InRegion, Leaving, Pre,
     Push, Wake
<1>b. irq = {} /\ \A w \in Workers : pc[w] \in {"wfi.inc", "wfi"}
  BY <1>a, AllFinished DEF FiniSpin, CountsByStage
<1>2. TypeOK'
  BY <1>1, CoreSets DEF FiniSpin, TypeOK, ptrs, eu, hw, dm, hist, Hw!HwTypeOK
<1>3. WorkersByStage'
  BY <1>1, <1>b
  DEF FiniSpin, WorkersByStage, EventByStage, Booting, Quiet, InRegion,
      Exiting, Leaving, Pre, Push, Wake, eu
<1>4. EventByStage'
  BY <1>1
  DEF FiniSpin, EventByStage, Booting, Quiet, InRegion, Exiting, Leaving, Pre,
      Push, Wake, eu, hist
<1>5. CountsByStage'
  <2>1. Finished' = Finished
    BY <1>1 DEF FiniSpin, Finished
  <2> QED
    BY <1>1, <2>1
    DEF FiniSpin, CountsByStage, Booting, Quiet, InRegion, Exiting, Leaving,
        Pre, Push, Wake, eu
<1>6. RanByStage'
  <2>1. /\ team \in Nat /\ team > 1
        /\ \A w \in Workers : ran[w] = IF w < team THEN MicrotaskCalls(nargs) ELSE 0
    BY <1>a, <1>b, CoreSets, Stages DEF RanByStage, InRegion, TypeOK
  <2>2. \A i \in Cores : ran[i] = IF i < team THEN MicrotaskCalls(nargs) ELSE 0
    BY <2>1, CoreSets DEF FiniSpin, RanByStage, Master
  <2> QED
    BY <1>1, <2>2 DEF FiniSpin, RanByStage, NotBegun, InRegion, Push, Wake, hist
<1> QED
  BY <1>1, <1>2, <1>3, <1>4, <1>5, <1>6

(* nthreads is set to 0. *)
LEMMA RunEmptyClearKeeps ==
    ASSUME IInv, RunEmptyClear
    PROVE  IInv'
<1> USE DEF IInv, MasterMoves
<1>1. MasterMoves("app") /\ Bootstrap' /\ ArrivalsAreStalls'
  BY MasterFrame, EuAssumption
  DEF RunEmptyClear, EventByStage, Places, Pre, Push, Wake, dm
<1>2. TypeOK'
  BY <1>1, CoreSets DEF RunEmptyClear, TypeOK, ptrs, eu, hw, dm, hist, Hw!HwTypeOK
<1>3. WorkersByStage'
  BY <1>1
  DEF RunEmptyClear, WorkersByStage, EventByStage, Booting, Quiet, InRegion,
      Exiting, Leaving, Pre, Push, Wake, eu
<1>4. EventByStage'
  BY <1>1
  DEF RunEmptyClear, EventByStage, Booting, Quiet, InRegion, Exiting, Leaving,
      Pre, Push, Wake, eu, hist
<1>5. CountsByStage'
  <2>1. Finished' = Finished
    BY <1>1 DEF RunEmptyClear, Finished
  <2> QED
    BY <1>1, <2>1
    DEF RunEmptyClear, CountsByStage, Booting, Quiet, InRegion, Exiting,
        Leaving, Pre, Push, Wake, eu
<1>6. RanByStage'
  BY <1>1, CoreSets
  DEF RunEmptyClear, RanByStage, EventByStage, NotBegun, InRegion, Push, Wake,
      eu, hist
<1> QED
  BY <1>1, <1>2, <1>3, <1>4, <1>5, <1>6

(* eu_exit begins. *)
LEMMA EuExitKeeps ==
    ASSUME IInv, EuExit
    PROVE  IInv'
<1> USE DEF IInv, MasterMoves
<1>1. MasterMoves("exit.load") /\ Bootstrap' /\ ArrivalsAreStalls'
  BY MasterFrame, EuAssumption DEF EuExit, EventByStage, Places, Pre, Push, Wake, dm
<1>2. TypeOK'
  BY <1>1, CoreSets DEF EuExit, TypeOK, ptrs, eu, hw, dm, hist, Hw!HwTypeOK
<1>3. WorkersByStage'
  BY <1>1
  DEF EuExit, WorkersByStage, EventByStage, Booting, Quiet, InRegion, Exiting,
      Leaving, Pre, Push, Wake, eu
<1>4. EventByStage'
  BY <1>1
  DEF EuExit, EventByStage, Booting, Quiet, InRegion, Exiting, Leaving, Pre,
      Push, Wake, eu, hist
<1>5. CountsByStage'
  <2>1. Finished' = Finished
    BY <1>1 DEF EuExit, Finished
  <2> QED
    BY <1>1, <2>1
    DEF EuExit, CountsByStage, Booting, Quiet, InRegion, Exiting, Leaving,
        Pre, Push, Wake, eu
<1>6. RanByStage'
  BY <1>1, CoreSets
  DEF EuExit, RanByStage, EventByStage, NotBegun, InRegion, Push, Wake, eu,
      hist
<1> QED
  BY <1>1, <1>2, <1>3, <1>4, <1>5, <1>6

(* exit_flag is set with all workers asleep. *)
LEMMA EuExitFlagKeeps ==
    ASSUME IInv, EuExitFlag
    PROVE  IInv'
<1> USE DEF IInv, MasterMoves
<1>1. MasterMoves("wake.load") /\ Bootstrap' /\ ArrivalsAreStalls'
  BY MasterFrame, EuAssumption
  DEF EuExitFlag, EventByStage, Places, Pre, Push, Wake, dm
<1>2. TypeOK'
  BY <1>1, CoreSets DEF EuExitFlag, TypeOK, ptrs, eu, hw, dm, hist, Hw!HwTypeOK
<1>3. WorkersByStage'
  BY <1>1
  DEF EuExitFlag, WorkersByStage, EventByStage, Booting, Quiet, InRegion,
      Exiting, Leaving, Pre, Push, Wake, eu
<1>4. EventByStage'
  BY <1>1
  DEF EuExitFlag, EventByStage, Booting, Quiet, InRegion, Exiting, Leaving,
      Pre, Push, Wake, eu, hist
<1>5. CountsByStage'
  <2>1. Finished' = Finished
    BY <1>1 DEF EuExitFlag, Finished
  <2> QED
    BY <1>1, <2>1
    DEF EuExitFlag, CountsByStage, Booting, Quiet, InRegion, Exiting, Leaving,
        Pre, Push, Wake, eu
<1>6. RanByStage'
  BY <1>1, CoreSets
  DEF EuExitFlag, RanByStage, EventByStage, NotBegun, InRegion, Push, Wake,
      eu, hist
<1> QED
  BY <1>1, <1>2, <1>3, <1>4, <1>5, <1>6

(* dm_exit: once it is past wake_workers the master only asks the DM core  *)
(* to leave; the workers and what they counted stay as they are.           *)
LEMMA DmExitKeeps ==
    ASSUME IInv, DmExitStat \/ WakeDmSpin \/ WakeDmSet
    PROVE  IInv'
<1> USE DEF IInv, MasterMoves
<1>1. /\ pc[Master] \in {"dm.stat", "dm.spin", "dm.set"}
      /\ pc'[Master] \in {"dm.spin", "dm.set", "barrier2"}
      /\ UNCHANGED <<ptrs, eu, kmpc_args, clr, hw, dm_pc, dm_wfi, scratch, caller,
                     arg, hist>>
      /\ irq' \subseteq irq \cup {Dm} /\ irq \subseteq irq'
      /\ stat_q' \in {"none", "exit"}
  BY CoreSets DEF DmExitStat, WakeDmSpin, WakeDmSet, Goto, TypeOK, dm
<1>2. MasterMoves(pc'[Master]) /\ Bootstrap' /\ ArrivalsAreStalls'
  BY <1>1, MasterFrame
  DEF DmExitStat, WakeDmSpin, WakeDmSet, Goto, Places, Pre, Push, Wake
<1>3. /\ Leaving /\ Leaving' /\ ~Booting' /\ ~Quiet' /\ ~InRegion' /\ ~Exiting'
      /\ ~NotBegun'
      /\ pc'[Master] \notin Push \cup Wake \cup {"init", "run.own", "run.clear"}
  BY <1>1
  DEF Booting, Quiet, InRegion, Exiting, Leaving, NotBegun, Pre, Push, Wake
<1>4. TypeOK'
  BY <1>1, <1>2 DEF TypeOK, ptrs, eu, hw, hist, Hw!HwTypeOK
<1>5. WorkersByStage'
  BY <1>1, <1>2, <1>3, Stages, CoreSets DEF WorkersByStage
<1>6. EventByStage'
  BY <1>1, <1>2, <1>3, Stages DEF EventByStage, Leaving, Push, eu, hist
<1>7. CountsByStage'
  BY <1>1, <1>2, <1>3 DEF CountsByStage, eu
<1>8. RanByStage'
  BY <1>1, <1>3 DEF RanByStage
<1> QED
  BY <1>2, <1>4, <1>5, <1>6, <1>7, <1>8

-----------------------------------------------------------------------------
(* The DM core and the clears under way. *)

(* What a step that leaves the compute cores alone keeps. *)
LEMMA OtherFrame ==
    ASSUME IInv, UNCHANGED eu_omp,
           \A w \in Workers : /\ w \in clr' <=> w \in clr
                              /\ w \in irq' <=> w \in irq,
           irq' \subseteq irq
    PROVE  /\ Bootstrap' /\ WorkersByStage' /\ EventByStage' /\ CountsByStage'
           /\ RanByStage'
<1> USE DEF IInv, eu_omp, ptrs, eu, hist
<1>1. /\ Booting' <=> Booting
      /\ Quiet' <=> Quiet
      /\ InRegion' <=> InRegion
      /\ Exiting' <=> Exiting
      /\ Leaving' <=> Leaving
      /\ NotBegun' <=> NotBegun
      /\ InLoop' = InLoop /\ Sleeping' = Sleeping /\ Finished' = Finished
  BY DEF Booting, Quiet, InRegion, Exiting, Leaving, NotBegun, InLoop, Sleeping,
         Finished
<1>2. Bootstrap'
  BY DEF Bootstrap
<1>3. EventByStage' /\ CountsByStage'
  BY <1>1 DEF EventByStage, CountsByStage
<1>4. RanByStage'
  BY <1>1 DEF RanByStage
<1>5. /\ Booting \/ Quiet => irq' = {}
      /\ Dm \in irq' => Leaving
  BY DEF WorkersByStage
<1>6. WorkersByStage'
  BY <1>1, <1>5 DEF WorkersByStage
<1> QED
  BY <1>2, <1>3, <1>4, <1>6

(* A step of the DM core. *)
LEMMA DmStepKeeps ==
    ASSUME IInv, DmStep
    PROVE  IInv'
<1> USE DEF IInv
<1>1. /\ UNCHANGED <<eu_omp, irq, stat_q>>
      /\ clr' \subseteq clr \cup {Dm} /\ clr \subseteq clr'
  BY DEF DmStep, DmInit, DmEnterBarrier, DmStat, DmSleep, DmWfiInc, DmWakeUp,
         DmClearIrq, DmWfiDec
<1>2. /\ Bootstrap' /\ WorkersByStage' /\ EventByStage' /\ CountsByStage'
      /\ RanByStage'
  BY <1>1, OtherFrame, CoreSets
<1>3. CASE DmEnterBarrier
  <2>1. /\ arrival["cl"] # Cores \cup {Dm}
        /\ arrival' = [arrival EXCEPT !["cl"] = @ \cup {Dm}]
        /\ csr_stall' = [csr_stall EXCEPT !["cl"] = @ \cup {Dm}]
        /\ dm_pc \notin DmAsleep /\ dm_pc' \in {"stall1", "stall2"}
        /\ UNCHANGED <<clr, dm_wfi>>
    BY <1>3
    DEF DmEnterBarrier, Hw!ReadBarrierCsr, Hw!Fires, ArrivalsAreStalls, DmAsleep
  <2>2. TypeOK'
    BY <1>1, <2>1
    DEF TypeOK, eu_omp, ptrs, eu, hist, Hw!HwTypeOK, DmPlaces, DmAsleep
  <2>3. ArrivalsAreStalls'
    BY <1>1, <2>1, CoreSets DEF ArrivalsAreStalls, TypeOK, eu_omp, Hw!HwTypeOK
  <2> QED
    BY <1>2, <2>2, <2>3
<1>4. CASE ~DmEnterBarrier
  <2>1. /\ UNCHANGED hw
        /\ dm_pc \notin {"stall1", "stall2"} /\ dm_pc' \notin {"stall1", "stall2"}
        /\ dm_pc' \in DmPlaces
        /\ dm_wfi' = IF dm_pc' \in DmAsleep THEN 1 ELSE 0
    BY <1>4
    DEF DmStep, DmInit, DmStat, DmSleep, DmWfiInc, DmWakeUp, DmClearIrq, DmWfiDec,
        TypeOK, DmPlaces, DmAsleep
  <2>2. TypeOK'
    BY <1>1, <2>1
    DEF TypeOK, eu_omp, ptrs, eu, hw, hist, Hw!HwTypeOK
  <2>3. ArrivalsAreStalls'
    BY <1>1, <2>1 DEF ArrivalsAreStalls, eu_omp, hw
  <2> QED
    BY <1>2, <2>2, <2>3
<1> QED
  BY <1>3, <1>4

(* A clear takes effect: the worker that issued it has not come to the     *)
(* next wfi yet, so that no interrupt set since is lost with it.           *)
LEMMA IrqClearedKeeps ==
    ASSUME IInv, NEW i \in Workers \cup {Dm}, IrqCleared(i)
    PROVE  IInv'
<1> USE DEF IInv
<1>1. /\ i \in clr /\ irq' = irq \ {i} /\ clr' = clr \ {i}
      /\ UNCHANGED <<eu_omp, hw, dm>>
  BY DEF IrqCleared, eu_omp
<1>2. TypeOK' /\ ArrivalsAreStalls' /\ Bootstrap'
  BY <1>1
  DEF TypeOK, ArrivalsAreStalls, Bootstrap, eu_omp, ptrs, eu, hw, dm, hist,
      Hw!HwTypeOK
<1>3. CASE i = Dm
  BY <1>1, <1>2, <1>3, OtherFrame, CoreSets
<1>4. CASE i \in Workers
  <2>1. pc[i] \in {"wfi.dec", "loop", "check", "barrier2"}
    BY <1>1, <1>4 DEF WorkersByStage
  <2>2. /\ Booting' <=> Booting
        /\ Quiet' <=> Quiet
        /\ InRegion' <=> InRegion
        /\ Exiting' <=> Exiting
        /\ Leaving' <=> Leaving
        /\ NotBegun' <=> NotBegun
    BY <1>1
    DEF Booting, Quiet, InRegion, Exiting, Leaving, NotBegun, eu_omp, eu, hist
  <2>3. InLoop' = InLoop /\ Sleeping' = Sleeping /\ Finished' = Finished
    BY <1>1, <2>1 DEF InLoop, Sleeping, Finished, eu_omp
  <2>4. WorkersByStage'
    BY <1>1, <2>1, <2>2 DEF WorkersByStage, eu_omp, eu
  <2>5. EventByStage'
    BY <1>1, <2>2 DEF EventByStage, eu_omp, eu, hist
  <2>6. CountsByStage'
    BY <1>1, <2>2, <2>3 DEF CountsByStage, eu_omp, eu
  <2>7. RanByStage'
    BY <1>1, <2>1, <2>2 DEF RanByStage, eu_omp, hist
  <2> QED
    BY <1>2, <2>4, <2>5, <2>6, <2>7
<1> QED
  BY <1>3, <1>4

-----------------------------------------------------------------------------
(* Bootstrap and exit. *)

(* eu_init on core 0 keeps the invariant: it clears what the struct held   *)
(* before anybody counts.                                                  *)
LEMMA EuInitMasterKeeps ==
    ASSUME IInv, EuInitMaster
    PROVE  IInv'
<1> USE DEF IInv
<1>1. /\ pc[Master] = "init" /\ pc'[Master] = "init.omp"
      /\ \A w \in Workers : pc'[w] = pc[w] /\ pc[w] \in Pre
      /\ pc' \in [Cores -> Places]
      /\ UNCHANGED <<omp_p_global, kmpc_args, irq, clr, hw, dm, scratch, caller, arg,
                     hist>>
  BY CoreSets DEF EuInitMaster, Goto, TypeOK, Bootstrap, Places, Pre
<1>2. /\ Booting /\ Booting' /\ ~Quiet' /\ ~InRegion' /\ ~Leaving' /\ ~Exiting'
      /\ ~NotBegun'
  BY <1>1
  DEF Booting, Quiet, InRegion, Leaving, Exiting, NotBegun, Pre, Push, Wake
<1>3. TypeOK'
  BY <1>1, CoreSets DEF EuInitMaster, TypeOK, hw, dm, hist, Hw!HwTypeOK
<1>4. Bootstrap'
  BY <1>1 DEF EuInitMaster, Bootstrap, Pre
<1>5. ArrivalsAreStalls'
  BY <1>1, CoreSets DEF ArrivalsAreStalls, hw, dm
<1>6. WorkersByStage'
  BY <1>1, <1>2 DEF WorkersByStage
<1>7. EventByStage'
  BY <1>1, <1>2 DEF EuInitMaster, EventByStage, Push, Wake, hist
<1>8. CountsByStage'
  <2>1. InLoop' = {} /\ Sleeping' = {} /\ Finished' = {}
    BY <1>1 DEF InLoop, Sleeping, Finished, Pre
  <2> QED
    BY <1>1, <1>2, <2>1, FS_EmptySet DEF EuInitMaster, CountsByStage, Wake
<1>9. RanByStage'
  BY <1>1, <1>2 DEF RanByStage
<1> QED
  BY <1>3, <1>4, <1>5, <1>6, <1>7, <1>8, <1>9

(* omp_init on core 0 keeps the invariant. *)
LEMMA OmpInitMasterKeeps ==
    ASSUME IInv, OmpInit(Master)
    PROVE  IInv'
<1> USE DEF IInv
<1>1. /\ pc[Master] = "init.omp" /\ pc'[Master] = "barrier1"
      /\ \A w \in Workers : pc'[w] = pc[w] /\ pc[w] \in Pre
      /\ pc' \in [Cores -> Places]
      /\ UNCHANGED <<eu_p_global, eu, kmpc_args, irq, clr, hw, dm, scratch, caller, arg,
                     hist>>
  BY CoreSets DEF OmpInit, Goto, TypeOK, Bootstrap, Places, Pre
<1>2. /\ Booting /\ Booting' /\ ~Quiet' /\ ~InRegion' /\ ~Leaving' /\ ~Exiting'
      /\ ~Exiting /\ ~Leaving /\ ~NotBegun'
  BY <1>1
  DEF Booting, Quiet, InRegion, Leaving, Exiting, NotBegun, Pre, Push, Wake
<1>3. TypeOK'
  BY <1>1 DEF OmpInit, TypeOK, eu, hw, dm, hist, Hw!HwTypeOK
<1>4. Bootstrap'
  BY <1>1 DEF OmpInit, Bootstrap, Pre
<1>5. ArrivalsAreStalls'
  BY <1>1, CoreSets DEF ArrivalsAreStalls, hw, dm
<1>6. WorkersByStage'
  BY <1>1, <1>2 DEF WorkersByStage
<1>7. EventByStage'
  BY <1>1, <1>2 DEF EventByStage, Push, Wake, eu, hist
<1>8. CountsByStage'
  <2>1. InLoop' = InLoop /\ Sleeping' = Sleeping /\ Finished' = Finished
    BY <1>1 DEF InLoop, Sleeping, Finished
  <2> QED
    BY <1>1, <1>2, <2>1 DEF CountsByStage, Wake, eu
<1>9. RanByStage'
  BY <1>1, <1>2 DEF RanByStage
<1> QED
  BY <1>3, <1>4, <1>5, <1>6, <1>7, <1>8, <1>9

(* A core that arrives at the barrier of bootstrap or of destroy keeps the *)
(* invariant: the barrier cannot fire in that cycle, for the core itself   *)
(* has not arrived.                                                        *)
LEMMA EnterBarrierKeeps ==
    ASSUME IInv, NEW i \in Cores, EnterBarrier(i)
    PROVE  IInv'
<1> USE DEF IInv
<1>1. /\ \/ pc[i] = "barrier1" /\ pc'[i] = "stall1"
         \/ pc[i] = "barrier2" /\ pc'[i] = "stall2"
      /\ \A j \in Cores \ {i} : pc'[j] = pc[j]
      /\ pc' \in [Cores -> Places]
      /\ i \notin clr
      /\ UNCHANGED <<ptrs, eu, kmpc_args, irq, clr, dm, scratch, caller, arg, hist>>
  BY DEF EnterBarrier, Goto, TypeOK, Places, Pre
<1>2. /\ pc'[Master] \in Pre <=> pc[Master] \in Pre
      /\ pc'[Master] = "init" <=> pc[Master] = "init"
      /\ pc'[Master] \in {"init", "init.omp"} <=> pc[Master] \in {"init", "init.omp"}
      /\ pc[Master] \notin Pre \cup {"barrier2"} => pc'[Master] = pc[Master]
      /\ pc'[Master] \notin Pre \cup {"stall2"} => pc'[Master] = pc[Master]
      /\ Leaving' <=> Leaving
  BY <1>1, CoreSets DEF Leaving, Pre, Push, Wake
<1>3. /\ Booting' <=> Booting
      /\ Quiet' <=> Quiet
      /\ InRegion' <=> InRegion
      /\ Exiting' <=> Exiting
      /\ NotBegun' <=> NotBegun
      /\ pc'[Master] \in Push <=> pc[Master] \in Push
      /\ pc'[Master] \in Wake <=> pc[Master] \in Wake
  BY <1>1, <1>2
  DEF Booting, Quiet, InRegion, Exiting, NotBegun, Pre, Push, Wake, eu, hist
<1>4. \A w \in Workers :
         /\ pc'[w] \in Pre <=> pc[w] \in Pre
         /\ \/ pc'[w] = pc[w]
            \/ pc[w] = "barrier1" /\ pc'[w] = "stall1"
            \/ pc[w] = "barrier2" /\ pc'[w] = "stall2" /\ w \notin clr
  BY <1>1, CoreSets DEF Pre
<1>5. /\ arrival["cl"] # Cores \cup {Dm}
      /\ arrival' = [arrival EXCEPT !["cl"] = @ \cup {i}]
      /\ csr_stall' = [csr_stall EXCEPT !["cl"] = @ \cup {i}]
  BY DEF EnterBarrier, Hw!ReadBarrierCsr, Hw!Fires, ArrivalsAreStalls
<1>6. TypeOK'
  BY <1>1, <1>5 DEF TypeOK, ptrs, eu, dm, hist, Hw!HwTypeOK
<1>7. Bootstrap'
  BY <1>1, <1>2, <1>4 DEF Bootstrap, ptrs
<1>8. ArrivalsAreStalls'
  BY <1>1, <1>5, CoreSets DEF ArrivalsAreStalls, TypeOK, dm, Hw!HwTypeOK
<1>9. WorkersByStage'
  BY <1>1, <1>2, <1>3, <1>4 DEF WorkersByStage, Pre
<1>10. EventByStage'
  BY <1>1, <1>2, <1>3, <1>4 DEF EventByStage, eu, hist
<1>11. CountsByStage'
  <2>1. InLoop' = InLoop /\ Sleeping' = Sleeping /\ Finished' = Finished
    BY <1>1, <1>4 DEF InLoop, Sleeping, Finished, Pre
  <2> QED
    BY <1>1, <1>2, <1>3, <2>1 DEF CountsByStage, Pre, eu
<1>12. RanByStage'
  BY <1>1, <1>2, <1>3, <1>4 DEF RanByStage, Pre, hist
<1> QED
  BY <1>6, <1>7, <1>8, <1>9, <1>10, <1>11, <1>12

(* The barrier lets all cores go together: from bootstrap, the master to   *)
(* its wait and the workers to the loop, or out of destroy.                *)
LEMMA BarrierFiresKeeps ==
    ASSUME IInv, BarrierFires
    PROVE  IInv'
<1> USE DEF IInv
<1>1. /\ \A i \in Cores : pc'[i] = AfterBarrier(i)
      /\ \A i \in Cores : pc[i] \in {"stall1", "stall2"}
      /\ dm_pc \in {"stall1", "stall2"} /\ dm_pc' = DmAfterBarrier
      /\ arrival' = [arrival EXCEPT !["cl"] = {}]
      /\ csr_stall' = [csr_stall EXCEPT !["cl"] = {}]
      /\ UNCHANGED <<ptrs, eu, kmpc_args, irq, clr, stat_q, dm_wfi, scratch, caller,
                     arg, hist>>
  BY DEF BarrierFires, Hw!Fire, Hw!Fires, ArrivalsAreStalls
<1>2. \/ /\ \A i \in Cores : pc[i] = "stall1"
         /\ pc'[Master] = "boot" /\ \A w \in Workers : pc'[w] = "enter"
      \/ /\ \A i \in Cores : pc[i] = "stall2"
         /\ pc'[Master] = "done" /\ \A w \in Workers : pc'[w] = "done"
  <2>1. \A w \in Workers : pc[w] = pc[Master]
    BY <1>1, CoreSets DEF Bootstrap, Pre
  <2>2. \A i \in Cores : pc[i] = pc[Master]
    BY <2>1, CoreSets
  <2> QED
    BY <1>1, <2>2, CoreSets DEF AfterBarrier
<1>3. TypeOK'
  <2>1. pc' \in [Cores -> Places]
    BY <1>1, <1>2, CoreSets DEF BarrierFires, Places
  <2>2. dm_pc' \in DmPlaces \ DmAsleep /\ dm_pc \notin DmAsleep
    BY <1>1 DEF DmAfterBarrier, DmPlaces, DmAsleep
  <2> QED
    BY <1>1, <2>1, <2>2 DEF TypeOK, ptrs, eu, hist, Hw!HwTypeOK
<1>4. Bootstrap'
  BY <1>1, <1>2, CoreSets DEF Bootstrap, ptrs, Pre
<1>5. ArrivalsAreStalls'
  BY <1>1, <1>2, CoreSets
  DEF ArrivalsAreStalls, DmAfterBarrier, TypeOK, Hw!HwTypeOK
<1>6. /\ Booting' <=> Booting
      /\ Leaving' <=> Leaving
      /\ Booting \/ Leaving
      /\ ~Quiet' /\ ~InRegion' /\ ~Exiting' /\ ~NotBegun' /\ ~Exiting
      /\ pc[Master] # "init" /\ pc'[Master] \notin Push \cup Wake \cup {"init"}
      /\ pc[Master] \notin Push
  BY <1>2, CoreSets
  DEF Booting, Quiet, InRegion, Leaving, Exiting, NotBegun, Pre, Push, Wake
<1>7. WorkersByStage'
  BY <1>1, <1>2, <1>6, CoreSets DEF WorkersByStage, Pre
<1>8. EventByStage'
  BY <1>1, <1>2, <1>6 DEF EventByStage, eu, hist
<1>9. CountsByStage'
  <2>1. InLoop' = InLoop /\ Sleeping' = Sleeping /\ Finished' = Finished
    BY <1>1, <1>2, CoreSets DEF InLoop, Sleeping, Finished, Pre
  <2> QED
    BY <1>1, <1>2, <1>6, <2>1 DEF CountsByStage, eu
<1>10. RanByStage'
  BY <1>2, <1>6 DEF RanByStage
<1> QED
  BY <1>3, <1>4, <1>5, <1>7, <1>8, <1>9, <1>10

-----------------------------------------------------------------------------
(* The struct in L1 may hold anything before eu_init. *)
LEMMA InitIInv == Init => IInv
<1> SUFFICES ASSUME Init
             PROVE  IInv
  OBVIOUS
<1>1. /\ \A i \in Cores : pc[i] = "init"
      /\ pc[Master] = "init" /\ \A w \in Workers : pc[w] = "init"
  BY CoreSets DEF Init
<1>2. /\ Booting /\ ~Quiet /\ ~InRegion /\ ~Leaving /\ ~Exiting /\ ~NotBegun
      /\ pc[Master] \notin Push \cup Wake
  BY <1>1
  DEF Booting, Quiet, InRegion, Leaving, Exiting, NotBegun, Pre, Push, Wake
<1>3. TypeOK
  <2>1. eu_p_global \in BOOLEAN /\ omp_p_global \in BOOLEAN
    BY Zenon DEF Init
  <2>2. pc \in [Cores -> Places] /\ Hw!HwTypeOK
    BY DEF Init, Hw!HwInit, Hw!HwTypeOK, Places, Pre
  <2> QED
    BY <2>1, <2>2, CoreSets DEF Init, TypeOK, DmPlaces, DmAsleep
<1>4. Bootstrap
  BY <1>1 DEF Init, Bootstrap, Pre
<1>5. ArrivalsAreStalls
  BY <1>1 DEF Init, Hw!HwInit, ArrivalsAreStalls
<1>6. WorkersByStage
  BY <1>1, <1>2 DEF Init, WorkersByStage, Pre
<1>7. EventByStage
  BY <1>1, <1>2 DEF Init, EventByStage
<1>8. CountsByStage
  BY <1>1, <1>2 DEF CountsByStage
<1>9. RanByStage
  BY <1>1, <1>2 DEF RanByStage
<1> QED
  BY <1>3, <1>4, <1>5, <1>6, <1>7, <1>8, <1>9 DEF IInv

(* Nothing changes in a stuttering step. *)
LEMMA StutterIInv ==
    ASSUME IInv, UNCHANGED vars
    PROVE  IInv'
<1> USE DEF IInv, vars, ptrs, eu, hw, dm, hist
<1>1. /\ Booting' <=> Booting
      /\ Quiet' <=> Quiet
      /\ InRegion' <=> InRegion
      /\ Exiting' <=> Exiting
      /\ Leaving' <=> Leaving
      /\ NotBegun' <=> NotBegun
      /\ InLoop' = InLoop /\ Sleeping' = Sleeping /\ Finished' = Finished
  BY DEF Booting, Quiet, InRegion, Exiting, Leaving, NotBegun, InLoop, Sleeping,
         Finished
<1>2. TypeOK' /\ Bootstrap' /\ ArrivalsAreStalls'
  BY DEF TypeOK, Hw!HwTypeOK, Bootstrap, ArrivalsAreStalls
<1>3. WorkersByStage' /\ EventByStage'
  BY <1>1 DEF WorkersByStage, EventByStage
<1>4. CountsByStage' /\ RanByStage'
  BY <1>1 DEF CountsByStage, RanByStage
<1> QED
  BY <1>2, <1>3, <1>4

(* Every step of the event unit keeps the invariant. *)
LEMMA NextIInv ==
    ASSUME IInv, [Next]_vars
    PROVE  IInv'
<1>1. CASE UNCHANGED vars
  BY <1>1, StutterIInv
<1>2. CASE MasterStep
  BY <1>2, EuInitMasterKeeps, OmpInitMasterKeeps, BootWaitKeeps,
     WaitWorkerWfiLoadKeeps, WaitWorkerWfiSpinKeeps, DispatchPushKeeps,
     RunEmptyNothingKeeps, RunEmptyZeroKeeps, WakeWorkersKeeps, RunOwnShareKeeps,
     FiniLoadKeeps, FiniSpinKeeps, RunEmptyClearKeeps, EuExitFlagKeeps, DmExitKeeps
  DEF MasterStep
<1>3. CASE \E nt \in 1..NumCores, ac \in Argcs : ForkCall(nt, ac) \/ PushCall(nt, ac)
  BY <1>3, DispatchKeeps DEF ForkCall, PushCall
<1>4. CASE RunEmptyCall
  BY <1>4, RunEmptyCallKeeps
<1>5. CASE EuExit
  BY <1>5, EuExitKeeps
<1>6. ASSUME NEW w \in Workers, WorkerStep(w)
      PROVE  IInv'
  BY <1>6, EuInitWorkerKeeps, OmpInitKeeps, EnterLoopKeeps, CheckExitKeeps,
     CheckTeamKeeps, CallFnKeeps, ReturnFnKeeps, CountFiniKeeps, WfiIncKeeps,
     WakeUpKeeps, ClearIrqKeeps, WfiDecKeeps
  DEF WorkerStep
<1>7. CASE \E i \in Cores : EnterBarrier(i)
  BY <1>7, EnterBarrierKeeps
<1>8. CASE BarrierFires
  BY <1>8, BarrierFiresKeeps
<1>9. CASE DmStep
  BY <1>9, DmStepKeeps
<1>10. CASE \E i \in Workers \cup {Dm} : IrqCleared(i)
  BY <1>10, IrqClearedKeeps
<1> QED
  BY <1>1, <1>2, <1>3, <1>4, <1>5, <1>6, <1>7, <1>8, <1>9, <1>10 DEF Next

(* In every reachable state the counters of the event unit count the       *)
(* workers they stand for, and the workers are where the stage of the      *)
(* master allows them to be.                                               *)
THEOREM Invariance == Spec => []IInv
<1>1. Init => IInv
  BY InitIInv
<1>2. IInv /\ [Next]_vars => IInv'
  BY NextIInv
<1> QED
  BY <1>1, <1>2, PTL DEF Spec

(* The event, its argument block included, is never written while a worker *)
(* is between reading it and reporting its end (eu.h:253).                 *)
THEOREM EventStable == Spec => []EventStableWhileRead
<1>1. IInv => EventStableWhileRead
  BY DEF IInv, WorkersByStage, Quiet, EventStableWhileRead, Push, Wake
<1> QED
  BY <1>1, Invariance, PTL

(* No interrupt is pending, and no clear of one is under way, while the    *)
(* master prepares a region: every wake-up of the region before was taken, *)
(* although its clear may take effect long after the worker issued it.     *)
THEOREM WakeupsTaken == Spec => []NoStaleWakeup
<1>1. IInv => NoStaleWakeup
  BY DEF IInv, WorkersByStage, Quiet, NoStaleWakeup, Push, Wake
<1> QED
  BY <1>1, Invariance, PTL

(* A worker executes a region with the arguments of that region.           *)
THEOREM OwnArguments == Spec => []ArgsOfThisRegion
<1>1. IInv => ArgsOfThisRegion
  BY DEF IInv, EventByStage, ArgsOfThisRegion
<1> QED
  BY <1>1, Invariance, PTL
-----------------------------------------------------------------------------
(* The event unit implements ForkJoin.                                     *)

(* A region with at most 7 arguments, or with 12, calls the microtask once *)
(* in each thread (kmp.c, __microtask_wrapper).                            *)
LEMMA CalledOnce ==
    ASSUME Argcs \cap (8..11) = {}, IInv
    PROVE  MicrotaskCalls(nargs) = 1
BY DEF IInv, TypeOK, MicrotaskCalls

(* Where the master is tells the phase. *)
LEMMA PhaseOf ==
    /\ pc[Master] \in Pre \cup Push \cup {"boot", "app", "run.zero"} => Phase = "seq"
    /\ pc[Master] \in {"run.own", "fini.load", "fini.spin", "run.clear"} => Phase = "par"
    /\ pc[Master] \in Wake /\ caller = "dm.stat" => Phase = "over"
    /\ pc[Master] \in Wake /\ caller # "dm.stat" => Phase = "par"
    /\ pc[Master] \in {"exit.load", "exit.spin", "exit.flag", "dm.stat", "dm.spin",
                       "dm.set", "barrier2", "stall2", "done"} => Phase = "over"
BY DEF Phase, Pre, Push, Wake

(* The phase and its history stay as they are in a step that leaves the    *)
(* master, its caller and the region alone.                                *)
LEMMA PhaseStays ==
    ASSUME pc'[Master] = pc[Master], UNCHANGED <<caller, regions, team, ran>>
    PROVE  UNCHANGED FJ!fjvars
BY DEF Phase, FJ!fjvars

(* A step of a worker is a step of ForkJoin: it runs the region, or        *)
(* nothing happens.                                                        *)
LEMMA WorkerRefines ==
    ASSUME Argcs \cap (8..11) = {}, IInv, NEW w \in Workers, WorkerStep(w)
    PROVE  FJ!Run(w) \/ UNCHANGED FJ!fjvars
<1> USE DEF IInv
<1>1. /\ pc'[Master] = pc[Master]
      /\ UNCHANGED <<caller, regions, team>>
      /\ UNCHANGED ran \/ ReturnFn(w)
  BY CoreSets
  DEF WorkerStep, EuInitWorker, OmpInit, EnterLoop, CheckExit, CheckTeam,
      CallFn, ReturnFn, CountFini, WfiInc, WakeUp, ClearIrq, WfiDec, Goto,
      TypeOK, hist
<1>2. CASE UNCHANGED ran
  BY <1>1, <1>2, PhaseStays
<1>3. CASE ReturnFn(w)
  <2>1. InRegion /\ argc = nargs /\ w < team /\ ran[w] = 0
    BY <1>3, StageOfWorker, Stages, CoreSets DEF ReturnFn, RanByStage, TypeOK
  <2>2. ran' = [ran EXCEPT ![w] = 1]
    <3>1. MicrotaskCalls(argc) = 1
      BY <2>1, CalledOnce
    <3> QED
      BY <1>3, <2>1, <3>1, CoreSets DEF ReturnFn, TypeOK
  <2>3. Phase = "par" /\ Phase' = "par"
    BY <1>1, <2>1, PhaseOf DEF InRegion, Phase
  <2> QED
    BY <1>1, <2>1, <2>2, <2>3 DEF FJ!Run
<1> QED
  BY <1>1, <1>2, <1>3

(* A step of the master is a step of ForkJoin. *)
LEMMA MasterRefines ==
    ASSUME Argcs \cap (8..11) = {}, IInv, MasterStep
    PROVE  \/ FJ!Begin \/ FJ!Run(Master) \/ FJ!Join
           \/ UNCHANGED FJ!fjvars
<1> USE DEF IInv
<1>0. \A l : Goto(Master, l) => pc'[Master] = l
  BY CoreSets DEF Goto, TypeOK
<1>1. CASE EuInitMaster \/ OmpInit(Master) \/ BootWait \/ DispatchPush \/ RunEmptyNothing
  <2>1. /\ pc[Master] \in Pre \cup Push \cup {"boot", "run.zero"}
        /\ pc'[Master] \in Pre \cup Push \cup {"boot", "app", "run.zero"}
        /\ UNCHANGED <<regions, team, ran>>
    BY <1>0, <1>1
    DEF EuInitMaster, OmpInit, BootWait, DispatchPush, RunEmptyNothing,
        EventByStage, Pre, Push, hist
  <2>2. Phase = "seq" /\ Phase' = "seq"
    BY <2>1 DEF Phase, Pre, Push, Wake
  <2> QED
    BY <2>1, <2>2 DEF FJ!fjvars
<1>2. CASE WaitWorkerWfiLoad \/ WaitWorkerWfiSpin
  <2>1. /\ \/ pc[Master] \in Push /\ pc'[Master] \in Push
           \/ pc[Master] \in Wake /\ pc'[Master] \in Wake
           \/ /\ pc[Master] \in {"exit.load", "exit.spin"}
              /\ pc'[Master] \in {"exit.spin", "exit.flag"}
        /\ UNCHANGED <<caller, regions, team, ran>>
    BY <1>0, <1>2 DEF WaitWorkerWfiLoad, WaitWorkerWfiSpin, Push, Wake, hist
  <2>2. Phase' = Phase
    BY <2>1 DEF Phase, Push, Wake
  <2> QED
    BY <2>1, <2>2 DEF FJ!fjvars
<1>3. CASE RunEmptyZero
  <2>1. /\ pc[Master] = "run.zero" /\ caller' = "run.own"
        /\ pc'[Master] \in {"wake.load", "run.own"}
        /\ UNCHANGED <<regions, team, ran>>
    BY <1>0, <1>3 DEF RunEmptyZero, hist
  <2>2. Phase = "seq" /\ Phase' = "par" /\ team # 0
    BY <1>3, <2>1 DEF RunEmptyZero, Phase, EventByStage, Push
  <2> QED
    BY <2>1, <2>2 DEF FJ!Begin
<1>4. CASE WakeWorkers
  <2>1. /\ pc[Master] = "wake.set" /\ pc'[Master] = caller
        /\ caller \in {"run.own", "dm.stat"}
        /\ UNCHANGED <<caller, regions, team, ran>>
    BY <1>0, <1>4 DEF WakeWorkers, EventByStage, Wake, hist
  <2>2. Phase' = Phase
    BY <2>1 DEF Phase
  <2> QED
    BY <2>1, <2>2 DEF FJ!fjvars
<1>5. CASE RunOwnShare
  <2>1. /\ pc[Master] = "run.own" /\ pc'[Master] \in {"fini.load", "run.clear"}
        /\ UNCHANGED <<regions, team>>
        /\ argc = nargs /\ nthreads = team /\ ran[Master] = 0
    BY <1>0, <1>5 DEF RunOwnShare, EventByStage, RanByStage, Push
  <2>2. Phase = "par" /\ Phase' = "par"
    BY <2>1 DEF Phase
  <2>3. Master < team
    BY <2>1, CoreSets
    DEF WorkersByStage, Booting, Quiet, InRegion, Leaving, TypeOK, Pre, Push,
        Wake, Master
  <2>4. ran' = [ran EXCEPT ![Master] = 1]
    <3>1. MicrotaskCalls(argc) = 1
      BY <2>1, CalledOnce
    <3> QED
      BY <1>5, <2>1, <3>1, CoreSets DEF RunOwnShare, TypeOK
  <2> QED
    BY <2>1, <2>2, <2>3, <2>4 DEF FJ!Run
<1>6. CASE FiniLoad \/ FiniSpin
  <2>1. /\ pc[Master] \in {"fini.load", "fini.spin"}
        /\ pc'[Master] \in {"fini.spin", "run.clear"}
        /\ UNCHANGED <<caller, regions, team, ran>>
    BY <1>0, <1>6 DEF FiniLoad, FiniSpin, hist
  <2>2. Phase' = Phase
    BY <2>1 DEF Phase
  <2> QED
    BY <2>1, <2>2 DEF FJ!fjvars
<1>7. CASE RunEmptyClear
  <2>1. /\ pc[Master] = "run.clear" /\ pc'[Master] = "app"
        /\ team' = 0 /\ UNCHANGED <<regions, ran>>
    BY <1>0, <1>7 DEF RunEmptyClear
  <2>2. Phase = "par" /\ Phase' = "seq"
    BY <2>1 DEF Phase
  <2>3. \A i \in 0..(team - 1) : ran[i] = 1
    <3>1. MicrotaskCalls(nargs) = 1
      BY CalledOnce
    <3>2. \A i \in 0..(team - 1) : i \in Cores /\ i < team
      BY CoreSets DEF TypeOK, Cores
    <3> QED
      BY <2>1, <3>1, <3>2 DEF RanByStage
  <2> QED
    BY <2>1, <2>2, <2>3 DEF FJ!Join
<1>8. CASE EuExitFlag
  <2>1. /\ pc[Master] = "exit.flag" /\ pc'[Master] = "wake.load"
        /\ caller' = "dm.stat" /\ UNCHANGED <<regions, team, ran>>
    BY <1>0, <1>8 DEF EuExitFlag, hist
  <2>2. Phase' = Phase
    BY <2>1 DEF Phase
  <2> QED
    BY <2>1, <2>2 DEF FJ!fjvars
<1>9. CASE DmExitStat \/ WakeDmSpin \/ WakeDmSet
  <2>1. /\ pc[Master] \in {"dm.stat", "dm.spin", "dm.set"}
        /\ pc'[Master] \in {"dm.spin", "dm.set", "barrier2"}
        /\ UNCHANGED <<regions, team, ran>>
    BY <1>0, <1>9 DEF DmExitStat, WakeDmSpin, WakeDmSet, hist
  <2>2. Phase' = Phase
    BY <2>1 DEF Phase
  <2> QED
    BY <2>1, <2>2 DEF FJ!fjvars
<1> QED
  BY <1>1, <1>2, <1>3, <1>4, <1>5, <1>6, <1>7, <1>8, <1>9 DEF MasterStep

(* Every step of the event unit is one of ForkJoin. *)
LEMMA NextRefines ==
    ASSUME Argcs \cap (8..11) = {}, IInv, [Next]_vars
    PROVE  [FJ!FJNext]_(FJ!fjvars)
<1> USE DEF IInv
<1>0. /\ \A l : Goto(Master, l) => pc'[Master] = l
      /\ Master \in 0..(NumCores - 1)
      /\ \A w \in Workers : w \in 0..(NumCores - 1)
  BY CoreSets DEF Goto, TypeOK, Cores
<1>1. CASE UNCHANGED vars
  BY <1>1, PhaseStays DEF vars, hist
<1>2. CASE MasterStep
  BY <1>0, <1>2, MasterRefines DEF FJ!FJNext
<1>3. ASSUME NEW nt \in 1..NumCores, NEW ac \in Argcs, NEW return,
             Dispatch(nt, ac, return)
      PROVE  FJ!Push(nt)
  <2>1. pc[Master] = "app" /\ pc'[Master] = "push.load"
    BY <1>0, <1>3 DEF Dispatch
  <2>2. Phase = "seq" /\ Phase' = "seq"
    BY <2>1 DEF Phase
  <2> QED
    BY <1>3, <2>2 DEF Dispatch, FJ!Push, Cores
<1>4. CASE \E nt \in 1..NumCores, ac \in Argcs : ForkCall(nt, ac) \/ PushCall(nt, ac)
  BY <1>3, <1>4 DEF ForkCall, PushCall, FJ!FJNext
<1>5. CASE RunEmptyCall
  <2>1. /\ pc[Master] = "app" /\ pc'[Master] = "run.zero"
        /\ UNCHANGED <<regions, team, ran>>
    BY <1>0, <1>5 DEF RunEmptyCall, hist
  <2>2. Phase' = Phase
    BY <2>1 DEF Phase
  <2> QED
    BY <2>1, <2>2 DEF FJ!fjvars
<1>6. CASE EuExit
  <2>1. /\ pc[Master] = "app" /\ pc'[Master] = "exit.load"
        /\ UNCHANGED <<regions, team, ran>>
    BY <1>0, <1>6 DEF EuExit, hist
  <2>2. Phase = "seq" /\ Phase' = "over"
    BY <2>1 DEF Phase
  <2> QED
    BY <2>1, <2>2 DEF FJ!Finish, FJ!FJNext
<1>7. CASE \E w \in Workers : WorkerStep(w)
  BY <1>0, <1>7, WorkerRefines DEF FJ!FJNext
<1>8. CASE \E i \in Cores : EnterBarrier(i)
  <2>1. /\ \/ pc'[Master] = pc[Master]
           \/ pc[Master] = "barrier1" /\ pc'[Master] = "stall1"
           \/ pc[Master] = "barrier2" /\ pc'[Master] = "stall2"
        /\ UNCHANGED <<caller, regions, team, ran>>
    BY <1>8, CoreSets DEF EnterBarrier, Goto, TypeOK, hist
  <2>2. Phase' = Phase
    BY <2>1 DEF Phase
  <2> QED
    BY <2>1, <2>2 DEF FJ!fjvars
<1>9. CASE BarrierFires
  <2>1. /\ pc'[Master] = AfterBarrier(Master)
        /\ UNCHANGED <<caller, regions, team, ran>>
    BY <1>9, CoreSets DEF BarrierFires, hist
  <2>2. Phase' = Phase
    BY <2>1 DEF Phase, AfterBarrier
  <2> QED
    BY <2>1, <2>2 DEF FJ!fjvars
<1>10. CASE DmStep \/ \E i \in Workers \cup {Dm} : IrqCleared(i)
  <2>1. UNCHANGED eu_omp
    BY <1>10
    DEF DmStep, DmInit, DmEnterBarrier, DmStat, DmSleep, DmWfiInc, DmWakeUp,
        DmClearIrq, DmWfiDec, IrqCleared, eu_omp
  <2> QED
    BY <2>1, PhaseStays DEF eu_omp, hist
<1> QED
  BY <1>1, <1>2, <1>4, <1>5, <1>6, <1>7, <1>8, <1>9, <1>10 DEF Next

(* As long as no region has 8 to 11 arguments, the event unit implements   *)
(* the safety part of ForkJoin: each thread of the team executes a region  *)
(* exactly once before it is joined, and no other core does.               *)
THEOREM Refinement ==
    ASSUME Argcs \cap (8..11) = {}
    PROVE  Spec => FJ!FJSafe
<1>1. Init => FJ!FJInit
  <2> SUFFICES ASSUME Init
               PROVE  FJ!FJInit
    OBVIOUS
  <2>1. pc[Master] = "init"
    BY CoreSets DEF Init
  <2>2. Phase = "seq"
    BY <2>1 DEF Phase
  <2> QED
    BY <2>2 DEF Init, FJ!FJInit, Cores
<1>2. IInv /\ [Next]_vars => [FJ!FJNext]_(FJ!fjvars)
  BY NextRefines
<1> QED
  BY <1>1, <1>2, Invariance, PTL DEF Spec, FJ!FJSafe

(* Under the same condition a thread calls the microtask of a region at    *)
(* most once (kmp.c:164); with 8 to 11 arguments the cases fall through.   *)
THEOREM CalledAtMostOnce ==
    ASSUME Argcs \cap (8..11) = {}
    PROVE  Spec => []MicrotaskOnce
<1>1. Init => MicrotaskOnce
  BY DEF Init, MicrotaskOnce
<1>2. MicrotaskOnce /\ IInv /\ [Next]_vars => MicrotaskOnce'
  <2> SUFFICES ASSUME MicrotaskOnce, IInv, [Next]_vars
               PROVE  MicrotaskOnce'
    OBVIOUS
  <2>1. [FJ!FJNext]_(FJ!fjvars)
    BY NextRefines
  <2>2. ran \in [Cores -> Nat] /\ Cores = 0..(NumCores - 1)
    BY DEF IInv, TypeOK, Cores
  <2>3. \/ UNCHANGED ran
        \/ ran' = [i \in Cores |-> 0]
        \/ \E i \in Cores : ran' = [ran EXCEPT ![i] = 1]
    BY <2>1, <2>2 DEF FJ!FJNext, FJ!Push, FJ!Begin, FJ!Run, FJ!Join, FJ!Finish,
                      FJ!fjvars
  <2>4. CASE UNCHANGED ran
    BY <2>4 DEF MicrotaskOnce
  <2>5. CASE ran' = [i \in Cores |-> 0]
    BY <2>5 DEF MicrotaskOnce
  <2>6. ASSUME NEW i \in Cores, ran' = [ran EXCEPT ![i] = 1]
        PROVE  MicrotaskOnce'
    BY <2>2, <2>6 DEF MicrotaskOnce
  <2> QED
    BY <2>3, <2>4, <2>5, <2>6
<1> QED
  BY <1>1, <1>2, Invariance, PTL DEF Spec
=============================================================================
