----------------------------- MODULE EventUnit ------------------------------
(***************************************************************************)
(* The event unit of the OpenMP runtime (sw/snRuntime/src/omp/eu.h) with   *)
(* the code around it: snrt_omp_bootstrap and __snrt_omp_destroy (omp.c,   *)
(* omp.h), parallelRegion (omp.h) and the argument block of                *)
(* __kmpc_fork_call (kmp.c).                                               *)
(*                                                                         *)
(* Core 0 is the master, cores 1..NumCores-1 are the workers, core         *)
(* NumCores is the DM core, parked in dm_main; what it does with copies is *)
(* the subject of DataMover, here it sleeps and leaves.  One action per    *)
(* access to shared memory, interrupt register or barrier; wake-up is the  *)
(* cluster-local interrupt (EU_USE_GLOBAL_CLINT and DM_USE_GLOBAL_CLINT    *)
(* undefined, the defaults of the headers).                                *)
(*                                                                         *)
(* A store to the clear register of the interrupts is only on its way when *)
(* the core goes on ("The interrupt is cleared asynchronously",            *)
(* cluster_interrupts.h:27).  The memory answers a core in the order of    *)
(* its requests (snitch_lsu.sv:10, reqrsp_demux.sv), so that the value of  *)
(* a later load is there only when the clear has been done.                *)
(***************************************************************************)
EXTENDS Integers, FiniteSets

CONSTANTS
    NumCores,       \* snrt_cluster_compute_core_num()
    MaxRegions,     \* model bound: events dispatched by a program
    Argcs           \* numbers of arguments of its parallel regions

ASSUME EuAssumption ==
    /\ NumCores \in Nat \ {0} /\ MaxRegions \in Nat
    /\ Argcs \subseteq 0..12

Cores == 0..(NumCores - 1)
Workers == 1..(NumCores - 1)
Master == 0
Dm == NumCores      \* snrt_cluster_dm_core_idx()

VARIABLES
    eu_p_global, omp_p_global,  \* the structs are published to all cores
    workers_in_loop, workers_wfi, exit_flag,    \* eu_t
    nthreads, fini_count,                       \* eu_t.e
    argc,           \* eu_t.e.argc
    kmpc_args,      \* the argument block: the region it belongs to
    irq,            \* the cluster-local interrupt bits that are set
    clr,            \* the cores whose clear of their bit is under way
    arrival, csr_stall,                         \* HwBarrier
    pc,             \* where each compute core is
    dm_pc,          \* where the DM core is
    stat_q, dm_wfi, \* dm_t: the request, and whether the DM core sleeps
    scratch,        \* the master's local of that name
    caller,         \* where the function the master is in returns to
    arg,            \* the argument block a core works on
    regions, team, nargs,   \* history: regions begun, size and arguments of
    ran                     \* the last one, executions of it by each core

eu == <<workers_in_loop, workers_wfi, exit_flag, nthreads, fini_count, argc>>
hw == <<arrival, csr_stall>>
dm == <<dm_pc, stat_q, dm_wfi>>
hist == <<regions, team, nargs, ran>>
ptrs == <<eu_p_global, omp_p_global>>
vars == <<ptrs, eu, kmpc_args, irq, clr, hw, dm, pc, scratch, caller, arg, hist>>

Hw == INSTANCE HwBarrier WITH Clusters <- {"cl"}, CoreIds <- Cores \cup {Dm}

(* The cores run snrt_omp_bootstrap and are in eu_init: the DM core has    *)
(* cleared and published its struct (dm_init), a core still waiting for it *)
(* has done nothing yet.  The struct eu_t in L1 holds old values.          *)
Init ==
    /\ eu_p_global = FALSE /\ omp_p_global = FALSE
    /\ workers_in_loop = 1 /\ workers_wfi = 1 /\ exit_flag = 1
    /\ nthreads = 1 /\ fini_count = 1 /\ argc = 0
    /\ kmpc_args = 0
    /\ irq = {} /\ clr = {}
    /\ Hw!HwInit
    /\ pc = [i \in Cores |-> "init"]
    /\ dm_pc = "init" /\ stat_q = "none" /\ dm_wfi = 0
    /\ scratch = 0
    /\ caller = "none"
    /\ arg = [i \in Cores |-> 0]
    /\ regions = 0 /\ team = 0 /\ nargs = 0 /\ ran = [i \in Cores |-> 0]

Goto(i, l) == pc' = [pc EXCEPT ![i] = l]

-----------------------------------------------------------------------------
(* Bootstrap and exit, all cores.                                          *)

(* eu_init, core 0: allocate, clear, publish. *)
EuInitMaster ==
    /\ pc[Master] = "init"
    /\ workers_in_loop' = 0 /\ workers_wfi' = 0 /\ exit_flag' = 0
    /\ nthreads' = 0 /\ fini_count' = 0 /\ argc' = 0
    /\ eu_p_global' = TRUE
    /\ Goto(Master, "init.omp")
    /\ UNCHANGED <<omp_p_global, kmpc_args, irq, clr, hw, dm, scratch, caller, arg,
                   hist>>

(* eu_init, other cores: "while (!eu_p_global)". *)
EuInitWorker(w) ==
    /\ pc[w] = "init"
    /\ eu_p_global
    /\ Goto(w, "init.omp")
    /\ UNCHANGED <<ptrs, eu, kmpc_args, irq, clr, hw, dm, scratch, caller, arg, hist>>

(* omp_init: core 0 allocates kmpc_args and the omp_t and publishes it,    *)
(* the other cores wait for the pointer.                                   *)
OmpInit(i) ==
    /\ pc[i] = "init.omp"
    /\ i = Master \/ omp_p_global
    /\ omp_p_global' = TRUE
    /\ Goto(i, "barrier1")
    /\ UNCHANGED <<eu_p_global, eu, kmpc_args, irq, clr, hw, dm, scratch, caller,
                   arg, hist>>

(* snrt_cluster_hw_barrier() at the end of bootstrap and of destroy. *)
EnterBarrier(i) ==
    /\ pc[i] \in {"barrier1", "barrier2"}
    /\ i \notin clr
    /\ Hw!ReadBarrierCsr("cl", i)
    /\ Goto(i, IF pc[i] = "barrier1" THEN "stall1" ELSE "stall2")
    /\ UNCHANGED <<ptrs, eu, kmpc_args, irq, clr, dm, scratch, caller, arg, hist>>

AfterBarrier(i) ==
    CASE pc[i] = "stall2" -> "done"
      [] pc[i] = "stall1" -> IF i = Master THEN "boot" ELSE "enter"
      [] OTHER            -> pc[i]

DmAfterBarrier ==
    CASE dm_pc = "stall2" -> "done"
      [] dm_pc = "stall1" -> "stat"
      [] OTHER            -> dm_pc

BarrierFires ==
    /\ Hw!Fire("cl")
    /\ pc' = [i \in Cores |-> AfterBarrier(i)]
    /\ dm_pc' = DmAfterBarrier
    /\ UNCHANGED <<ptrs, eu, kmpc_args, irq, clr, stat_q, dm_wfi, scratch, caller,
                   arg, hist>>

(* Mutant: the master does not wait for the workers to sleep. *)
BootWaitSkipped ==
    /\ pc[Master] = "boot"
    /\ Goto(Master, "app")
    /\ UNCHANGED <<ptrs, eu, kmpc_args, irq, clr, hw, dm, scratch, caller, arg, hist>>

(* "while (eu_get_workers_in_wfi() != compute_core_num - 1)" *)
BootWait ==
    /\ pc[Master] = "boot"
    /\ workers_wfi = NumCores - 1
    /\ Goto(Master, "app")
    /\ UNCHANGED <<ptrs, eu, kmpc_args, irq, clr, hw, dm, scratch, caller, arg, hist>>

-----------------------------------------------------------------------------
(* The master.                                                             *)

(* The program fills the argument block and calls eu_dispatch_push.        *)
Dispatch(nt, ac, return) ==
    /\ pc[Master] = "app"
    /\ regions < MaxRegions
    /\ regions' = regions + 1
    /\ kmpc_args' = regions + 1
    /\ team' = nt
    /\ nargs' = ac
    /\ ran' = [i \in Cores |-> 0]
    /\ caller' = return
    /\ Goto(Master, "push.load")
    /\ UNCHANGED <<ptrs, eu, irq, clr, hw, dm, scratch, arg>>

(* A parallel region: __kmpc_fork_call fills kmpc_args, parallelRegion     *)
(* calls eu_dispatch_push and then eu_run_empty.                           *)
ForkCall(nt, ac) == Dispatch(nt, ac, "run.zero")

(* A program that uses eu.h directly calls eu_dispatch_push and            *)
(* eu_run_empty when it likes.                                             *)
PushCall(nt, ac) == Dispatch(nt, ac, "app")

RunEmptyCall ==
    /\ pc[Master] = "app"
    /\ Goto(Master, "run.zero")
    /\ UNCHANGED <<ptrs, eu, kmpc_args, irq, clr, hw, dm, scratch, caller, arg, hist>>

(* wait_worker_wfi: load workers_in_loop, then spin on workers_wfi.  It is *)
(* called from eu_dispatch_push, from wake_workers and from eu_exit.       *)
WaitWorkerWfiLoad ==
    /\ pc[Master] \in {"push.load", "wake.load", "exit.load"}
    /\ scratch' = workers_in_loop
    /\ Goto(Master, CASE pc[Master] = "push.load" -> "push.spin"
                      [] pc[Master] = "wake.load" -> "wake.spin"
                      [] pc[Master] = "exit.load" -> "exit.spin")
    /\ UNCHANGED <<ptrs, eu, kmpc_args, irq, clr, hw, dm, caller, arg, hist>>

WaitWorkerWfiSpin ==
    /\ pc[Master] \in {"push.spin", "wake.spin", "exit.spin"}
    /\ workers_wfi = scratch
    /\ Goto(Master, CASE pc[Master] = "push.spin" -> "push.fill"
                      [] pc[Master] = "wake.spin" -> "wake.set"
                      [] pc[Master] = "exit.spin" -> "exit.flag")
    /\ UNCHANGED <<ptrs, eu, kmpc_args, irq, clr, hw, dm, scratch, caller, arg, hist>>

(* eu_dispatch_push fills the event (fn, data and argc are the block       *)
(* kmpc_args) and its nthreads.                                            *)
DispatchPush ==
    /\ pc[Master] = "push.fill"
    /\ argc' = nargs
    /\ nthreads' = team
    /\ Goto(Master, caller)
    /\ UNCHANGED <<ptrs, workers_in_loop, workers_wfi, exit_flag, fini_count,
                   kmpc_args, irq, clr, hw, dm, scratch, caller, arg, hist>>

(* eu_run_empty: "if (!scratch) return" *)
RunEmptyNothing ==
    /\ pc[Master] = "run.zero"
    /\ nthreads = 0
    /\ Goto(Master, "app")
    /\ UNCHANGED <<ptrs, eu, kmpc_args, irq, clr, hw, dm, scratch, caller, arg, hist>>

(* eu_run_empty: "fini_count = 0", then wake_workers if there is a team.   *)
RunEmptyZero ==
    /\ pc[Master] = "run.zero"
    /\ nthreads # 0
    /\ fini_count' = 0
    /\ scratch' = nthreads
    /\ caller' = "run.own"
    /\ Goto(Master, IF nthreads > 1 THEN "wake.load" ELSE "run.own")
    /\ UNCHANGED <<ptrs, argc, workers_in_loop, workers_wfi, exit_flag, nthreads,
                   kmpc_args, irq, clr, hw, dm, arg, hist>>

(* wake_workers: one store sets the interrupt bit of every worker. *)
WakeWorkers ==
    /\ pc[Master] = "wake.set"
    /\ irq' = irq \cup Workers
    /\ Goto(Master, caller)
    /\ UNCHANGED <<ptrs, eu, kmpc_args, clr, hw, dm, scratch, caller, arg, hist>>

(* __microtask_wrapper: how often the switch on argc calls the microtask.  *)
(* The cases 8 to 11 have no break and fall through to case 12.            *)
MicrotaskCalls(ac) == IF ac \in 8..11 THEN 13 - ac ELSE 1

(* eu_run_empty, "Am i also part of the team?": the master's own share. *)
RunOwnShare ==
    /\ pc[Master] = "run.own"
    /\ arg' = [arg EXCEPT ![Master] = kmpc_args]
    /\ ran' = [ran EXCEPT ![Master] = @ + MicrotaskCalls(argc)]
    /\ Goto(Master, IF nthreads > 1 THEN "fini.load" ELSE "run.clear")
    /\ UNCHANGED <<ptrs, eu, kmpc_args, irq, clr, hw, dm, scratch, caller, regions,
                   team, nargs>>

FiniLoad ==
    /\ pc[Master] = "fini.load"
    /\ scratch' = workers_in_loop
    /\ Goto(Master, "fini.spin")
    /\ UNCHANGED <<ptrs, eu, kmpc_args, irq, clr, hw, dm, caller, arg, hist>>

(* Mutant: the master does not wait for the workers to finish. *)
FiniSpinSkipped ==
    /\ pc[Master] = "fini.spin"
    /\ Goto(Master, "run.clear")
    /\ UNCHANGED <<ptrs, eu, kmpc_args, irq, clr, hw, dm, scratch, caller, arg, hist>>

(* "while (fini_count != workers_in_loop)" *)
FiniSpin ==
    /\ pc[Master] = "fini.spin"
    /\ fini_count = scratch
    /\ Goto(Master, "run.clear")
    /\ UNCHANGED <<ptrs, eu, kmpc_args, irq, clr, hw, dm, scratch, caller, arg, hist>>

(* "stop workers from re-executing the task" *)
RunEmptyClear ==
    /\ pc[Master] = "run.clear"
    /\ nthreads' = 0
    /\ team' = 0
    /\ Goto(Master, "app")
    /\ UNCHANGED <<ptrs, argc, workers_in_loop, workers_wfi, exit_flag, fini_count,
                   kmpc_args, irq, clr, hw, dm, scratch, caller, arg, regions, nargs, ran>>

(* __snrt_omp_destroy calls eu_exit.  Its test "if (!nthreads)             *)
(* eu_run_empty()" does nothing either way: eu_run_empty returns at once   *)
(* when nthreads is 0.                                                     *)
EuExit ==
    /\ pc[Master] = "app"
    /\ Goto(Master, "exit.load")
    /\ UNCHANGED <<ptrs, eu, kmpc_args, irq, clr, hw, dm, scratch, caller, arg, hist>>

(* Mutant: the workers are not woken for the exit. *)
EuExitFlagNoWake ==
    /\ pc[Master] = "exit.flag"
    /\ exit_flag' = 1
    /\ Goto(Master, "dm.stat")
    /\ UNCHANGED <<ptrs, argc, workers_in_loop, workers_wfi, nthreads, fini_count,
                   kmpc_args, irq, clr, hw, dm, scratch, caller, arg, hist>>

(* "exit_flag = 1", then wake_workers; destroy goes on with dm_exit. *)
EuExitFlag ==
    /\ pc[Master] = "exit.flag"
    /\ exit_flag' = 1
    /\ caller' = "dm.stat"
    /\ Goto(Master, "wake.load")
    /\ UNCHANGED <<ptrs, argc, workers_in_loop, workers_wfi, nthreads, fini_count,
                   kmpc_args, irq, clr, hw, dm, scratch, arg, hist>>

(* dm_exit: "stat_q = STAT_EXIT", then wake_dm, which spins until the DM   *)
(* core sleeps, and the barrier of destroy.                                *)
DmExitStat ==
    /\ pc[Master] = "dm.stat"
    /\ stat_q' = "exit"
    /\ Goto(Master, "dm.spin")
    /\ UNCHANGED <<ptrs, eu, kmpc_args, irq, clr, hw, dm_pc, dm_wfi, scratch, caller,
                   arg, hist>>

WakeDmSpin ==
    /\ pc[Master] = "dm.spin"
    /\ dm_wfi # 0
    /\ Goto(Master, "dm.set")
    /\ UNCHANGED <<ptrs, eu, kmpc_args, irq, clr, hw, dm, scratch, caller, arg, hist>>

WakeDmSet ==
    /\ pc[Master] = "dm.set"
    /\ irq' = irq \cup {Dm}
    /\ Goto(Master, "barrier2")
    /\ UNCHANGED <<ptrs, eu, kmpc_args, clr, hw, dm, scratch, caller, arg, hist>>

-----------------------------------------------------------------------------
(* A worker in eu_event_loop.                                              *)

EnterLoop(w) ==
    /\ pc[w] = "enter"
    /\ workers_in_loop' = workers_in_loop + 1
    /\ Goto(w, "loop")
    /\ UNCHANGED <<ptrs, argc, workers_wfi, exit_flag, nthreads, fini_count,
                   kmpc_args, irq, clr, hw, dm, scratch, caller, arg, hist>>

(* "if (eu_p->exit_flag) return": on to the barrier of the macro.  The     *)
(* load is served while the clear of worker_wfi may be under way; the      *)
(* core goes on with its value only after the clear is answered.           *)
CheckExit(w) ==
    /\ pc[w] = "loop"
    /\ Goto(w, IF exit_flag = 1 THEN "barrier2" ELSE "check")
    /\ UNCHANGED <<ptrs, eu, kmpc_args, irq, clr, hw, dm, scratch, caller, arg, hist>>

(* Mutant: every worker runs, whatever the size of the team. *)
CheckTeamAll(w) ==
    /\ pc[w] = "check"
    /\ w \notin clr
    /\ Goto(w, IF nthreads > 0 THEN "call" ELSE "fini")
    /\ UNCHANGED <<ptrs, eu, kmpc_args, irq, clr, hw, dm, scratch, caller, arg, hist>>

(* Mutant: the memory answers the load before the clear is done. *)
CheckTeamUnordered(w) ==
    /\ pc[w] = "check"
    /\ Goto(w, IF w < nthreads THEN "call" ELSE "fini")
    /\ UNCHANGED <<ptrs, eu, kmpc_args, irq, clr, hw, dm, scratch, caller, arg, hist>>

(* "if (cluster_core_idx < eu_p->e.nthreads)" *)
CheckTeam(w) ==
    /\ pc[w] = "check"
    /\ w \notin clr
    /\ Goto(w, IF w < nthreads THEN "call" ELSE "fini")
    /\ UNCHANGED <<ptrs, eu, kmpc_args, irq, clr, hw, dm, scratch, caller, arg, hist>>

(* "eu_p->e.fn(eu_p->e.data, eu_p->e.argc)": loads the event and runs. *)
CallFn(w) ==
    /\ pc[w] = "call"
    /\ arg' = [arg EXCEPT ![w] = kmpc_args]
    /\ Goto(w, "running")
    /\ UNCHANGED <<ptrs, eu, kmpc_args, irq, clr, hw, dm, scratch, caller, hist>>

ReturnFn(w) ==
    /\ pc[w] = "running"
    /\ ran' = [ran EXCEPT ![w] = @ + MicrotaskCalls(argc)]
    /\ Goto(w, "fini")
    /\ UNCHANGED <<ptrs, eu, kmpc_args, irq, clr, hw, dm, scratch, caller, arg,
                   regions, team, nargs>>

CountFini(w) ==
    /\ pc[w] = "fini"
    /\ fini_count' = fini_count + 1
    /\ Goto(w, "wfi.inc")
    /\ UNCHANGED <<ptrs, argc, workers_in_loop, workers_wfi, exit_flag, nthreads,
                   kmpc_args, irq, clr, hw, dm, scratch, caller, arg, hist>>

(* worker_wfi: count, sleep, clear the own interrupt, uncount. *)
WfiInc(w) ==
    /\ pc[w] = "wfi.inc"
    /\ workers_wfi' = workers_wfi + 1
    /\ Goto(w, "wfi")
    /\ UNCHANGED <<ptrs, argc, workers_in_loop, exit_flag, nthreads, fini_count,
                   kmpc_args, irq, clr, hw, dm, scratch, caller, arg, hist>>

(* snrt_wfi() goes on when the interrupt is pending, also when it came     *)
(* before the instruction.                                                 *)
WakeUp(w) ==
    /\ pc[w] = "wfi"
    /\ w \in irq
    /\ Goto(w, "wfi.clr")
    /\ UNCHANGED <<ptrs, eu, kmpc_args, irq, clr, hw, dm, scratch, caller, arg, hist>>

(* Mutant: the interrupt is not cleared. *)
ClearIrqForgotten(w) ==
    /\ pc[w] = "wfi.clr"
    /\ Goto(w, "wfi.dec")
    /\ UNCHANGED <<ptrs, eu, kmpc_args, irq, clr, hw, dm, scratch, caller, arg, hist>>

(* "snrt_int_cluster_clr(1 << cluster_core_idx)": the store is issued. *)
ClearIrq(w) ==
    /\ pc[w] = "wfi.clr"
    /\ clr' = clr \cup {w}
    /\ Goto(w, "wfi.dec")
    /\ UNCHANGED <<ptrs, eu, kmpc_args, irq, hw, dm, scratch, caller, arg, hist>>

(* The store reaches the peripheral: cl_clint_q loses the bit, and the     *)
(* response goes back.                                                     *)
IrqCleared(i) ==
    /\ i \in clr
    /\ irq' = irq \ {i}
    /\ clr' = clr \ {i}
    /\ UNCHANGED <<ptrs, eu, kmpc_args, hw, dm, pc, scratch, caller, arg, hist>>

WfiDec(w) ==
    /\ pc[w] = "wfi.dec"
    /\ workers_wfi' = workers_wfi - 1
    /\ Goto(w, "loop")
    /\ UNCHANGED <<ptrs, argc, workers_in_loop, exit_flag, nthreads, fini_count,
                   kmpc_args, irq, clr, hw, dm, scratch, caller, arg, hist>>

-----------------------------------------------------------------------------
(* The DM core: bootstrap, dm_main with an empty queue, and destroy.       *)

eu_omp == <<ptrs, eu, kmpc_args, pc, scratch, caller, arg, hist>>

(* eu_init and omp_init: it waits for both pointers. *)
DmInit ==
    /\ dm_pc = "init"
    /\ eu_p_global /\ omp_p_global
    /\ dm_pc' = "barrier1"
    /\ UNCHANGED <<eu_omp, irq, clr, hw, stat_q, dm_wfi>>

DmEnterBarrier ==
    /\ dm_pc \in {"barrier1", "barrier2"}
    /\ Hw!ReadBarrierCsr("cl", Dm)
    /\ dm_pc' = IF dm_pc = "barrier1" THEN "stall1" ELSE "stall2"
    /\ UNCHANGED <<eu_omp, irq, clr, stat_q, dm_wfi>>

(* "any STAT request pending?": STAT_EXIT ends the loop, for the test      *)
(* before the sleep then sees the request too.  The load of queue_fill     *)
(* before it has been answered, and so has the clear of wfi_dm.            *)
DmStat ==
    /\ dm_pc = "stat"
    /\ Dm \notin clr
    /\ dm_pc' = IF stat_q = "exit" THEN "barrier2" ELSE "sleep"
    /\ UNCHANGED <<eu_omp, irq, clr, hw, stat_q, dm_wfi>>

(* "sleep if queue is empty and no stats pending" *)
DmSleep ==
    /\ dm_pc = "sleep"
    /\ dm_pc' = IF stat_q = "none" THEN "wfi.inc" ELSE "stat"
    /\ UNCHANGED <<eu_omp, irq, clr, hw, stat_q, dm_wfi>>

(* wfi_dm: count, sleep, clear the own interrupt, uncount. *)
DmWfiInc ==
    /\ dm_pc = "wfi.inc"
    /\ dm_wfi' = dm_wfi + 1
    /\ dm_pc' = "wfi"
    /\ UNCHANGED <<eu_omp, irq, clr, hw, stat_q>>

DmWakeUp ==
    /\ dm_pc = "wfi"
    /\ Dm \in irq
    /\ dm_pc' = "wfi.clr"
    /\ UNCHANGED <<eu_omp, irq, clr, hw, stat_q, dm_wfi>>

DmClearIrq ==
    /\ dm_pc = "wfi.clr"
    /\ clr' = clr \cup {Dm}
    /\ dm_pc' = "wfi.dec"
    /\ UNCHANGED <<eu_omp, irq, hw, stat_q, dm_wfi>>

DmWfiDec ==
    /\ dm_pc = "wfi.dec"
    /\ dm_wfi' = dm_wfi - 1
    /\ dm_pc' = "stat"
    /\ UNCHANGED <<eu_omp, irq, clr, hw, stat_q>>

-----------------------------------------------------------------------------
MasterStep ==
    \/ EuInitMaster \/ OmpInit(Master) \/ BootWait
    \/ WaitWorkerWfiLoad \/ WaitWorkerWfiSpin
    \/ DispatchPush \/ RunEmptyNothing \/ RunEmptyZero \/ WakeWorkers \/ RunOwnShare
    \/ FiniLoad \/ FiniSpin \/ RunEmptyClear
    \/ EuExitFlag \/ DmExitStat \/ WakeDmSpin \/ WakeDmSet

DmStep ==
    \/ DmInit \/ DmEnterBarrier \/ DmStat \/ DmSleep
    \/ DmWfiInc \/ DmWakeUp \/ DmClearIrq \/ DmWfiDec

WorkerStep(w) ==
    \/ EuInitWorker(w) \/ OmpInit(w) \/ EnterLoop(w) \/ CheckExit(w) \/ CheckTeam(w)
    \/ CallFn(w) \/ ReturnFn(w) \/ CountFini(w)
    \/ WfiInc(w) \/ WakeUp(w) \/ ClearIrq(w) \/ WfiDec(w)

Next ==
    \/ MasterStep
    \/ \E nt \in 1..NumCores, ac \in Argcs : ForkCall(nt, ac) \/ PushCall(nt, ac)
    \/ RunEmptyCall
    \/ EuExit
    \/ \E w \in Workers : WorkerStep(w)
    \/ DmStep
    \/ \E i \in Cores : EnterBarrier(i)
    \/ BarrierFires
    \/ \E i \in Workers \cup {Dm} : IrqCleared(i)

(* Every core executes its instructions, a region's function included, and *)
(* a store reaches its register; how many regions the program has, and     *)
(* whether it ends, is its own.                                            *)
Fairness ==
    /\ WF_vars(MasterStep)
    /\ \A w \in Workers : WF_vars(WorkerStep(w))
    /\ WF_vars(DmStep)
    /\ \A i \in Cores : WF_vars(EnterBarrier(i))
    /\ WF_vars(BarrierFires)
    /\ \A i \in Workers \cup {Dm} : WF_vars(IrqCleared(i))

Spec == Init /\ [][Next]_vars /\ Fairness

-----------------------------------------------------------------------------
(* The places in eu.h and omp.c where a core can be. *)
Pre == {"init", "init.omp", "barrier1", "stall1"}
Push == {"push.load", "push.spin", "push.fill"}
Wake == {"wake.load", "wake.spin", "wake.set"}

Places ==
    Pre \cup Push \cup Wake \cup
    {"boot", "app", "run.zero", "run.own", "fini.load", "fini.spin",
     "run.clear", "exit.load", "exit.spin", "exit.flag", "enter", "loop",
     "check", "call", "running", "fini", "wfi.inc", "wfi", "wfi.clr",
     "wfi.dec", "dm.stat", "dm.spin", "dm.set", "barrier2", "stall2", "done"}

DmAsleep == {"wfi", "wfi.clr", "wfi.dec"}
DmPlaces == {"init", "barrier1", "stall1", "stat", "sleep", "wfi.inc", "barrier2",
             "stall2", "done"} \cup DmAsleep

TypeOK ==
    /\ eu_p_global \in BOOLEAN /\ omp_p_global \in BOOLEAN
    /\ workers_in_loop \in 0..NumCores
    /\ workers_wfi \in 0..NumCores
    /\ exit_flag \in {0, 1}
    /\ nthreads \in 0..NumCores
    /\ fini_count \in 0..NumCores
    /\ kmpc_args \in 0..MaxRegions
    /\ irq \subseteq Workers \cup {Dm}
    /\ clr \subseteq Workers \cup {Dm}
    /\ dm_pc \in DmPlaces
    /\ stat_q \in {"none", "exit"}
    /\ dm_wfi = IF dm_pc \in DmAsleep THEN 1 ELSE 0
    /\ Hw!HwTypeOK
    /\ pc \in [Cores -> Places]
    /\ scratch \in 0..NumCores
    /\ caller \in {"none", "app", "run.zero", "run.own", "dm.stat"}
    /\ arg \in [Cores -> 0..MaxRegions]
    /\ regions \in 0..MaxRegions
    /\ team \in 0..NumCores
    /\ ran \in [Cores -> Nat]
    /\ argc \in 0..12 /\ nargs \in Argcs \cup {0}

(* Where the master is in the life of the program: in bootstrap, alone,    *)
(* in a region with workers, or past the last wake-up.                     *)
Booting == pc[Master] \in Pre \cup {"boot"}

Quiet ==
    \/ pc[Master] \in Push \cup Wake \cup {"app", "run.zero", "run.clear",
                                           "exit.load", "exit.spin", "exit.flag"}
    \/ (pc[Master] = "run.own" /\ nthreads = 1)

InRegion == pc[Master] \in {"run.own", "fini.load", "fini.spin"} /\ nthreads > 1

Exiting == pc[Master] \in Wake /\ caller = "dm.stat"

Leaving ==
    pc[Master] \in {"dm.stat", "dm.spin", "dm.set", "barrier2", "stall2", "done"}

(* The pointers are published by the master, and the first barrier lets    *)
(* all cores go on together.                                               *)
Bootstrap ==
    /\ eu_p_global <=> pc[Master] # "init"
    /\ omp_p_global <=> pc[Master] \notin {"init", "init.omp"}
    /\ \A w \in Workers : pc[Master] \in Pre <=> pc[w] \in Pre

ArrivalsAreStalls ==
    /\ arrival["cl"] = csr_stall["cl"]
    /\ \A i \in Cores : i \in csr_stall["cl"] <=> pc[i] \in {"stall1", "stall2"}
    /\ Dm \in csr_stall["cl"] <=> dm_pc \in {"stall1", "stall2"}

(* Where the workers can be at each stage.  While the master is alone they     *)
(* sleep or are about to, and no interrupt is pending; whenever it sets    *)
(* the event or the interrupts they all sleep.                             *)
WorkersByStage ==
    /\ Booting \/ Quiet \/ InRegion \/ Leaving
    /\ Booting \/ Quiet => irq = {}
    /\ Booting => \A w \in Workers :
           pc[w] \in Pre \cup {"enter", "loop", "check", "fini", "wfi.inc", "wfi"}
    /\ Quiet => \A w \in Workers : pc[w] \in {"wfi.inc", "wfi"}
    /\ pc[Master] \in {"push.fill", "exit.flag", "wake.set"} \/ Exiting =>
           \A w \in Workers : pc[w] = "wfi"
    /\ InRegion => \A w \in Workers :
           pc[w] \in {"wfi", "wfi.clr", "wfi.dec", "loop", "check", "call",
                      "running", "fini", "wfi.inc"}
    /\ Leaving => \A w \in Workers :
           pc[w] \in {"wfi", "wfi.clr", "wfi.dec", "loop", "barrier2", "stall2",
                      "done"}
    /\ \A w \in Workers :
           /\ w \in irq => pc[w] \in {"wfi", "wfi.clr"} \/ w \in clr
           /\ w \in clr => pc[w] \in {"wfi.dec", "loop", "check", "barrier2"}
           /\ pc[w] = "wfi.clr" \/ w \in clr => w \in irq
    /\ Dm \in irq => Leaving

(* What the event holds meanwhile: it is the one of the last region begun, *)
(* except while that is being pushed.                                      *)
EventByStage ==
    /\ pc[Master] # "init" => exit_flag = IF Exiting \/ Leaving THEN 1 ELSE 0
    /\ pc[Master] \in Push => caller \in {"app", "run.zero"} /\ team > 0
    /\ pc[Master] \in Wake =>
           caller = "dm.stat" \/ (caller = "run.own" /\ nthreads > 1)
    /\ Booting => team = 0 /\ nargs = 0
    /\ pc[Master] \notin {"init"} \cup Push => nthreads = team /\ argc = nargs
    /\ kmpc_args = regions
    /\ \A w \in Workers : pc[w] = "running" => arg[w] = regions

InLoop == {w \in Workers : pc[w] \notin Pre \cup {"enter"}}
Sleeping == {w \in Workers : pc[w] \in {"wfi", "wfi.clr", "wfi.dec"}}
Finished == {w \in Workers : pc[w] \in {"wfi.inc", "wfi"} /\ w \notin irq}

(* The counters count: workers_in_loop and workers_wfi always, fini_count  *)
(* while the master waits for it.                                          *)
CountsByStage ==
    /\ pc[Master] # "init" =>
           /\ workers_in_loop = Cardinality(InLoop)
           /\ workers_wfi = Cardinality(Sleeping)
    /\ (Booting /\ pc[Master] # "init") \/ InRegion =>
           fini_count = Cardinality(Finished)
    /\ pc[Master] \in Wake /\ caller = "run.own" => fini_count = 0
    /\ pc[Master] \in {"push.spin", "wake.spin", "exit.spin", "fini.spin"} =>
           scratch = NumCores - 1

(* Who has executed the region: nobody before it begins, every thread of   *)
(* the team once it has reported its end, no other core ever.              *)
NotBegun ==
    \/ pc[Master] \in Push
    \/ pc[Master] \in {"app", "run.zero"} /\ team # 0
    \/ pc[Master] \in Wake /\ caller = "run.own"
    \/ pc[Master] = "run.own" /\ nthreads = 1

RanByStage ==
    LET once == MicrotaskCalls(nargs)
    IN  /\ NotBegun => \A i \in Cores : ran[i] = 0
        /\ pc[Master] = "run.own" => ran[Master] = 0
        /\ pc[Master] \in {"fini.load", "fini.spin"} => ran[Master] = once
        /\ InRegion => \A w \in Workers :
               /\ w < team =>
                      ran[w] = IF pc[w] \in {"fini", "wfi.inc", "wfi"} /\ w \notin irq
                               THEN once ELSE 0
               /\ w >= team => ran[w] = 0 /\ pc[w] \notin {"call", "running"}
        /\ pc[Master] = "run.clear" =>
               \A i \in Cores : ran[i] = IF i < team THEN once ELSE 0

(* The inductive invariant. *)
IInv ==
    /\ TypeOK
    /\ Bootstrap
    /\ ArrivalsAreStalls
    /\ WorkersByStage
    /\ EventByStage
    /\ CountsByStage
    /\ RanByStage

(* The master manipulates the event only while every worker sleeps         *)
(* ("wait for workers to be in wfi before manipulating the event struct",  *)
(* eu.h:253), from the argument block on: no worker is between reading the *)
(* event and reporting its end.                                            *)
EventStableWhileRead ==
    pc[Master] \in {"app", "push.load", "push.spin", "push.fill", "run.zero",
                    "run.clear", "exit.load", "exit.spin"} =>
        \A w \in Workers : pc[w] \notin {"check", "call", "running", "fini"}

(* No wake-up is left over and none can be lost: while the master prepares *)
(* or dispatches a region, no worker has an interrupt pending that would   *)
(* make it run an event half written, or the same event twice, and no      *)
(* clear is under way that would take the next wake-up away.               *)
NoStaleWakeup ==
    pc[Master] \in {"app", "push.fill", "run.zero", "run.clear", "wake.set"} =>
        irq = {} /\ clr \cap Workers = {}

(* A core works on the arguments of the region it is executed for, never   *)
(* on those of the region before or after.                                 *)
ArgsOfThisRegion ==
    \A w \in Workers : pc[w] = "running" => arg[w] = regions

(* "Do the actual fork and call the microtask in the relevant number of    *)
(* threads" (kmp.c:164): a thread calls the microtask of a region once.    *)
MicrotaskOnce ==
    \A i \in Cores : ran[i] <= 1

(* The event unit implements ForkJoin, liveness included: each thread of a *)
(* region runs it exactly once, no other core does, and it is joined.      *)
Phase ==
    CASE pc[Master] \in {"run.own", "fini.load", "fini.spin", "run.clear"} -> "par"
      [] pc[Master] \in {"wake.load", "wake.spin", "wake.set"} ->
             IF caller = "dm.stat" THEN "over" ELSE "par"
      [] pc[Master] \in {"exit.load", "exit.spin", "exit.flag", "dm.stat", "dm.spin",
                         "dm.set", "barrier2", "stall2", "done"} -> "over"
      [] OTHER -> "seq"

FJ == INSTANCE ForkJoin WITH phase <- Phase

ImplementsForkJoin == FJ!FJSpec

AllDone == dm_pc = "done" /\ \A i \in Cores : pc[i] = "done"

(* "Destroy an OpenMP session so all cores exit cleanly" (omp.h:64): once  *)
(* the master is in eu_exit, every core, the DM core included, gets past   *)
(* the last barrier.                                                       *)
CleanExit == (pc[Master] = "exit.load") ~> AllDone

(* The same for a program that finds the DM core asleep: wake_dm returns,  *)
(* no wake-up of a worker is lost although the workers are woken before    *)
(* the DM core, and all cores meet at the last barrier.                    *)
CleanExitOfSleepers == (pc[Master] = "exit.load" /\ dm_pc = "wfi") ~> AllDone
=============================================================================
