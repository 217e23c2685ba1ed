----------------------------- MODULE DataMover ------------------------------
(***************************************************************************)
(* The data mover of sw/snRuntime/src/dm.h: compute cores (the clients)    *)
(* queue copies for the DM core, wake it and wait for it through the       *)
(* struct dm_t in L1.  The DM core runs dm_main; the DMA engine behind it  *)
(* is external and completes its transfers when it likes.                  *)
(*                                                                         *)
(* One action per access to shared memory, to the interrupt register or to *)
(* the DMA; wake-up is the cluster-local interrupt (DM_USE_GLOBAL_CLINT    *)
(* undefined, the default of the header).  A clear of the interrupt takes  *)
(* effect after its store, but before the answer to a later load, as in    *)
(* EventUnit.                                                              *)
(***************************************************************************)
EXTENDS Naturals, Sequences, FiniteSets

CONSTANTS
    Clients,        \* the cores that use the data mover
    Calls,          \* the functions they call
    QueueSize,      \* DM_TASK_QUEUE_SIZE
    DmaDepth,       \* transfers the DMA engine takes before it would block
    MaxCalls        \* model bound: calls made by each client

ASSUME DmAssumption ==
    /\ IsFiniteSet(Clients)
    /\ Calls \subseteq {"copy", "start", "wait", "ready", "exit"}
    /\ QueueSize \in Nat \ {0} /\ DmaDepth \in Nat \ {0}
    /\ MaxCalls \in Nat

VARIABLES
    queue, queue_back, queue_front, queue_fill,     \* dm_t
    mutex, stat_q, stat_pvalid, dm_wfi,             \* dm_t
    irq,            \* the interrupt bit of the DM core
    clr,            \* whether its clear of that bit is under way
    dma,            \* transfers in the DMA engine
    dmpc, do_exit,  \* the DM core in dm_main
    pc,             \* where each client is
    call,           \* the function it is in
    calls,          \* how many calls it has made
    queued,         \* history: all tasks ever queued, in order
    issued,         \* history: all tasks given to the DMA, in order
    completed       \* history: the tasks whose transfer is complete

ring == <<queue, queue_back, queue_front, queue_fill>>
stat == <<stat_q, stat_pvalid>>
dmcore == <<dmpc, do_exit>>
client == <<pc, call, calls>>
vars == <<ring, mutex, stat, dm_wfi, irq, clr, dma, dmcore, client,
          queued, issued, completed>>

None == "none"
NoTask == <<>>
STAT_WAIT_IDLE == 1
STAT_EXIT == 2
STAT_READY == 3

(* The task of a client's k-th call. *)
Task(c) == <<c, calls[c]>>

(* dm_init has cleared the struct, the DM core enters dm_main. *)
Init ==
    /\ queue = [s \in 0..(QueueSize - 1) |-> NoTask]
    /\ queue_back = 0 /\ queue_front = 0 /\ queue_fill = 0
    /\ mutex = 0 /\ stat_q = 0 /\ stat_pvalid = 0 /\ dm_wfi = 0
    /\ irq = FALSE /\ clr = FALSE
    /\ dma = {}
    /\ dmpc = "top" /\ do_exit = FALSE
    /\ pc = [c \in Clients |-> "app"]
    /\ call = [c \in Clients |-> None]
    /\ calls = [c \in Clients |-> 0]
    /\ queued = <<>> /\ issued = <<>> /\ completed = {}

-----------------------------------------------------------------------------
(* The DM core: dm_main.                                                   *)

(* "if (dm_p->queue_fill)": the load may be served while the clear of      *)
(* wfi_dm is under way; the DM core goes on when that is answered.         *)
DmTop ==
    /\ dmpc = "top"
    /\ dmpc' = IF queue_fill > 0 THEN "issue" ELSE "stat"
    /\ UNCHANGED <<ring, mutex, stat, dm_wfi, irq, clr, dma, do_exit, client, queued,
                   issued, completed>>

(* Wait until the DMA would not block, start the task at queue_back. *)
DmIssue ==
    /\ dmpc = "issue"
    /\ ~clr
    /\ Cardinality(dma) < DmaDepth
    /\ dma' = dma \cup {queue[queue_back]}
    /\ issued' = Append(issued, queue[queue_back])
    /\ dmpc' = "bump"
    /\ UNCHANGED <<ring, mutex, stat, dm_wfi, irq, clr, do_exit, client, queued,
                   completed>>

(* Mutant: the slot is not advanced. *)
DmBumpNoAdvance ==
    /\ dmpc = "bump"
    /\ queue_fill' = queue_fill - 1
    /\ dmpc' = "stat"
    /\ UNCHANGED <<queue, queue_back, queue_front, mutex, stat, dm_wfi, irq, clr,
                   dma, do_exit, client, queued, issued, completed>>

(* "bump": queue_back is the DM core's own, queue_fill is atomic. *)
DmBump ==
    /\ dmpc = "bump"
    /\ queue_back' = (queue_back + 1) % QueueSize
    /\ queue_fill' = queue_fill - 1
    /\ dmpc' = "stat"
    /\ UNCHANGED <<queue, queue_front, mutex, stat, dm_wfi, irq, clr, dma, do_exit,
                   client, queued, issued, completed>>

(* "any STAT request pending?" and the switch. *)
DmStat ==
    /\ dmpc = "stat"
    /\ ~clr
    /\ dmpc' = CASE stat_q = STAT_WAIT_IDLE -> "idle"
                 [] stat_q = STAT_READY     -> "pvalid"
                 [] OTHER                   -> "chkfill"
    /\ do_exit' = (do_exit \/ stat_q = STAT_EXIT)
    /\ UNCHANGED <<ring, mutex, stat, dm_wfi, irq, clr, dma, client, queued, issued,
                   completed>>

(* Mutant: the answer does not wait for the DMA. *)
DmIdleUnchecked ==
    /\ dmpc = "idle"
    /\ dmpc' = "pvalid"
    /\ UNCHANGED <<ring, mutex, stat, dm_wfi, irq, clr, dma, do_exit, client, queued,
                   issued, completed>>

(* STAT_WAIT_IDLE: "__builtin_sdma_stat(DM_STATUS_BUSY) == 0" *)
DmIdle ==
    /\ dmpc = "idle"
    /\ dmpc' = IF dma = {} THEN "pvalid" ELSE "chkfill"
    /\ UNCHANGED <<ring, mutex, stat, dm_wfi, irq, clr, dma, do_exit, client, queued,
                   issued, completed>>

(* The answer: "stat_pvalid = 1", and in a second store "stat_q = 0". *)
DmAnswer ==
    /\ dmpc = "pvalid"
    /\ stat_pvalid' = 1
    /\ dmpc' = "clrq"
    /\ UNCHANGED <<ring, mutex, stat_q, dm_wfi, irq, clr, dma, do_exit, client,
                   queued, issued, completed>>

DmClearRequest ==
    /\ dmpc = "clrq"
    /\ stat_q' = 0
    /\ dmpc' = "chkfill"
    /\ UNCHANGED <<ring, mutex, stat_pvalid, dm_wfi, irq, clr, dma, do_exit, client,
                   queued, issued, completed>>

(* The end of the loop body: "while (!do_exit)". *)
LoopEnd == IF do_exit THEN "exited" ELSE "top"

(* Mutant: the DM core sleeps without a look at the queue. *)
DmCheckFillSkipped ==
    /\ dmpc = "chkfill"
    /\ dmpc' = "chkstat"
    /\ UNCHANGED <<ring, mutex, stat, dm_wfi, irq, clr, dma, do_exit, client, queued,
                   issued, completed>>

(* "if (!dm_p->queue_fill && !dm_p->stat_q)": two loads. *)
DmCheckFill ==
    /\ dmpc = "chkfill"
    /\ dmpc' = IF queue_fill = 0 THEN "chkstat" ELSE LoopEnd
    /\ UNCHANGED <<ring, mutex, stat, dm_wfi, irq, clr, dma, do_exit, client, queued,
                   issued, completed>>

DmCheckStat ==
    /\ dmpc = "chkstat"
    /\ dmpc' = IF stat_q = 0 THEN "wfi.inc" ELSE LoopEnd
    /\ UNCHANGED <<ring, mutex, stat, dm_wfi, irq, clr, dma, do_exit, client, queued,
                   issued, completed>>

(* wfi_dm: count, sleep, clear the own interrupt, uncount. *)
DmWfiInc ==
    /\ dmpc = "wfi.inc"
    /\ dm_wfi' = dm_wfi + 1
    /\ dmpc' = "wfi"
    /\ UNCHANGED <<ring, mutex, stat, irq, clr, dma, do_exit, client, queued, issued,
                   completed>>

DmWakeUp ==
    /\ dmpc = "wfi"
    /\ irq
    /\ dmpc' = "wfi.clr"
    /\ UNCHANGED <<ring, mutex, stat, dm_wfi, irq, clr, dma, do_exit, client, queued,
                   issued, completed>>

DmClearIrq ==
    /\ dmpc = "wfi.clr"
    /\ clr' = TRUE
    /\ dmpc' = "wfi.dec"
    /\ UNCHANGED <<ring, mutex, stat, dm_wfi, irq, dma, do_exit, client,
                   queued, issued, completed>>

(* The store reaches the peripheral. *)
IrqCleared ==
    /\ clr
    /\ irq' = FALSE
    /\ clr' = FALSE
    /\ UNCHANGED <<ring, mutex, stat, dm_wfi, dma, dmcore, client,
                   queued, issued, completed>>

DmWfiDec ==
    /\ dmpc = "wfi.dec"
    /\ dm_wfi' = dm_wfi - 1
    /\ dmpc' = LoopEnd
    /\ UNCHANGED <<ring, mutex, stat, irq, clr, dma, do_exit, client, queued, issued,
                   completed>>

(* External: the DMA engine completes one of its transfers. *)
DmaComplete ==
    /\ \E t \in dma : dma' = dma \ {t} /\ completed' = completed \cup {t}
    /\ UNCHANGED <<ring, mutex, stat, dm_wfi, irq, clr, dmcore, client, queued,
                   issued>>

-----------------------------------------------------------------------------
(* The clients.                                                            *)

Goto(c, l) == pc' = [pc EXCEPT ![c] = l]

(* The application calls one of the functions of dm.h. *)
Entry(f) ==
    CASE f = "copy"  -> "poll"
      [] f = "start" -> "wake"
      [] f = "wait"  -> "wake1"
      [] f = "ready" -> "lock"
      [] f = "exit"  -> "request"

CallFunction(c, f) ==
    /\ pc[c] = "app"
    /\ calls[c] < MaxCalls
    /\ call' = [call EXCEPT ![c] = f]
    /\ calls' = [calls EXCEPT ![c] = @ + 1]
    /\ Goto(c, Entry(f))
    /\ UNCHANGED <<ring, mutex, stat, dm_wfi, irq, clr, dma, dmcore, queued, issued,
                   completed>>

(* dm_memcpy_async and dm_memcpy2d_async: poll queue_fill, then lock. *)
PollFill(c) ==
    /\ pc[c] = "poll"
    /\ queue_fill < QueueSize
    /\ Goto(c, "lock")
    /\ UNCHANGED <<ring, mutex, stat, dm_wfi, irq, clr, dma, dmcore, call, calls,
                   queued, issued, completed>>

(* snrt_mutex_acquire: an atomic swap that found 0. *)
Lock(c) ==
    /\ pc[c] = "lock"
    /\ mutex = 0
    /\ mutex' = 1
    /\ Goto(c, IF call[c] = "copy" THEN "insert" ELSE "invalidate")
    /\ UNCHANGED <<ring, stat, dm_wfi, irq, clr, dma, dmcore, call, calls, queued,
                   issued, completed>>

(* Fill the slot at queue_front, bump queue_fill, bump queue_front. *)
Insert(c) ==
    /\ pc[c] = "insert"
    /\ queue' = [queue EXCEPT ![queue_front] = Task(c)]
    /\ Goto(c, "bumpfill")
    /\ UNCHANGED <<queue_back, queue_front, queue_fill, mutex, stat, dm_wfi, irq,
                   clr, dma, dmcore, call, calls, queued, issued, completed>>

BumpFill(c) ==
    /\ pc[c] = "bumpfill"
    /\ queue_fill' = queue_fill + 1
    /\ queued' = Append(queued, Task(c))
    /\ Goto(c, "bumpfront")
    /\ UNCHANGED <<queue, queue_back, queue_front, mutex, stat, dm_wfi, irq, clr,
                   dma, dmcore, call, calls, issued, completed>>

(* Mutant: queue_front is not wrapped. *)
BumpFrontNoWrap(c) ==
    /\ pc[c] = "bumpfront"
    /\ queue_front' = queue_front + 1
    /\ Goto(c, "unlock")
    /\ UNCHANGED <<queue, queue_back, queue_fill, mutex, stat, dm_wfi, irq, clr, dma,
                   dmcore, call, calls, queued, issued, completed>>

BumpFront(c) ==
    /\ pc[c] = "bumpfront"
    /\ queue_front' = (queue_front + 1) % QueueSize
    /\ Goto(c, "unlock")
    /\ UNCHANGED <<queue, queue_back, queue_fill, mutex, stat, dm_wfi, irq, clr, dma,
                   dmcore, call, calls, queued, issued, completed>>

(* snrt_mutex_release; the function returns. *)
Unlock(c) ==
    /\ pc[c] = "unlock"
    /\ mutex' = 0
    /\ Goto(c, "app")
    /\ UNCHANGED <<ring, stat, dm_wfi, irq, clr, dma, dmcore, call, calls, queued,
                   issued, completed>>

(* Mutant: the interrupt is only sent to a DM core that already sleeps, a  *)
(* busy one is not waited for.                                             *)
WakeDmNoWait(c) ==
    /\ pc[c] \in {"wake", "wake1"}
    /\ irq' = (irq \/ dm_wfi # 0)
    /\ Goto(c, CASE pc[c] = "wake1" -> "drain"
                 [] call[c] \in {"start", "exit"} -> "app"
                 [] OTHER -> "answer")
    /\ UNCHANGED <<ring, mutex, stat, dm_wfi, clr, dma, dmcore, call, calls,
                   queued, issued, completed>>

(* wake_dm: "wait for DM to sleep before sending wakeup". *)
WakeDm(c) ==
    /\ pc[c] \in {"wake", "wake1"}
    /\ dm_wfi # 0
    /\ Goto(c, IF pc[c] = "wake" THEN "setirq" ELSE "setirq1")
    /\ UNCHANGED <<ring, mutex, stat, dm_wfi, irq, clr, dma, dmcore, call, calls,
                   queued, issued, completed>>

SetIrq(c) ==
    /\ pc[c] \in {"setirq", "setirq1"}
    /\ irq' = TRUE
    /\ Goto(c, CASE pc[c] = "setirq1" -> "drain"
                 [] call[c] \in {"start", "exit"} -> "app"
                 [] OTHER -> "answer")
    /\ UNCHANGED <<ring, mutex, stat, dm_wfi, clr, dma, dmcore, call, calls,
                   queued, issued, completed>>

(* dm_wait: "wait for the dm queue to be empty and no request be pending" *)
DrainQueue(c) ==
    /\ pc[c] = "drain"
    /\ queue_fill = 0
    /\ Goto(c, "norequest")
    /\ UNCHANGED <<ring, mutex, stat, dm_wfi, irq, clr, dma, dmcore, call, calls,
                   queued, issued, completed>>

NoRequest(c) ==
    /\ pc[c] = "norequest"
    /\ stat_q = 0
    /\ Goto(c, "lock")
    /\ UNCHANGED <<ring, mutex, stat, dm_wfi, irq, clr, dma, dmcore, call, calls,
                   queued, issued, completed>>

(* "stat_pvalid = 0" *)
Invalidate(c) ==
    /\ pc[c] = "invalidate"
    /\ stat_pvalid' = 0
    /\ Goto(c, "request")
    /\ UNCHANGED <<ring, mutex, stat_q, dm_wfi, irq, clr, dma, dmcore, call, calls,
                   queued, issued, completed>>

(* "stat_q = ..." (dm_exit: without the lock), then wake_dm. *)
Request(c) ==
    /\ pc[c] = "request"
    /\ stat_q' = CASE call[c] = "wait"  -> STAT_WAIT_IDLE
                   [] call[c] = "ready" -> STAT_READY
                   [] call[c] = "exit"  -> STAT_EXIT
    /\ Goto(c, "wake")
    /\ UNCHANGED <<ring, mutex, stat_pvalid, dm_wfi, irq, clr, dma, dmcore, call,
                   calls, queued, issued, completed>>

(* "while (!dm_p->stat_pvalid)" *)
Answered(c) ==
    /\ pc[c] = "answer"
    /\ stat_pvalid = 1
    /\ Goto(c, "unlock")
    /\ UNCHANGED <<ring, mutex, stat, dm_wfi, irq, clr, dma, dmcore, call, calls,
                   queued, issued, completed>>

-----------------------------------------------------------------------------
DmStep ==
    \/ DmTop \/ DmIssue \/ DmBump \/ DmStat \/ DmIdle \/ DmAnswer
    \/ DmClearRequest \/ DmCheckFill \/ DmCheckStat
    \/ DmWfiInc \/ DmWakeUp \/ DmClearIrq \/ DmWfiDec

ClientStep(c) ==
    \/ PollFill(c) \/ Lock(c) \/ Insert(c) \/ BumpFill(c) \/ BumpFront(c)
    \/ Unlock(c) \/ WakeDm(c) \/ SetIrq(c) \/ DrainQueue(c) \/ NoRequest(c)
    \/ Invalidate(c) \/ Request(c) \/ Answered(c)

Next ==
    \/ DmStep
    \/ IrqCleared
    \/ DmaComplete
    \/ \E c \in Clients : ClientStep(c) \/ \E f \in Calls : CallFunction(c, f)

(* Every core executes its instructions, a store reaches its register and  *)
(* the DMA engine completes what it was given; what the application calls  *)
(* is its own.                                                             *)
Fairness ==
    /\ WF_vars(DmStep)
    /\ WF_vars(IrqCleared)
    /\ WF_vars(DmaComplete)
    /\ \A c \in Clients : WF_vars(ClientStep(c))

Spec == Init /\ [][Next]_vars /\ Fairness

-----------------------------------------------------------------------------
Tasks == Clients \X (1..MaxCalls)

(* The places in the functions of dm.h, and in dm_main. *)
Places ==
    {"app", "poll", "lock", "insert", "bumpfill", "bumpfront", "unlock",
     "wake", "setirq", "wake1", "setirq1", "drain", "norequest",
     "invalidate", "request", "answer"}

DmPlaces ==
    {"top", "issue", "bump", "stat", "idle", "pvalid", "clrq", "chkfill",
     "chkstat", "wfi.inc", "wfi", "wfi.clr", "wfi.dec", "exited"}

TypeOK ==
    /\ queue \in [0..(QueueSize - 1) -> Tasks \cup {NoTask}]
    /\ queue_back \in 0..(QueueSize - 1)
    /\ queue_front \in 0..(QueueSize - 1)
    /\ queue_fill \in Nat
    /\ mutex \in {0, 1}
    /\ stat_q \in 0..3
    /\ stat_pvalid \in {0, 1}
    /\ dm_wfi \in {0, 1}
    /\ irq \in BOOLEAN /\ clr \in BOOLEAN
    /\ dma \subseteq Tasks
    /\ dmpc \in DmPlaces
    /\ do_exit \in BOOLEAN
    /\ pc \in [Clients -> Places]
    /\ call \in [Clients -> Calls \cup {None}]
    /\ calls \in [Clients -> 0..MaxCalls]
    /\ queued \in Seq(Tasks)
    /\ issued \in Seq(Tasks)
    /\ completed \subseteq Tasks

(* Which function a client can be in at each place. *)
InFunction ==
    \A c \in Clients :
        /\ pc[c] \in {"poll", "insert", "bumpfill", "bumpfront"} => call[c] = "copy"
        /\ pc[c] \in {"wake1", "setirq1", "drain", "norequest"} => call[c] = "wait"
        /\ pc[c] \in {"invalidate", "answer"} => call[c] \in {"wait", "ready"}
        /\ pc[c] \in {"lock", "unlock"} => call[c] \in {"copy", "wait", "ready"}
        /\ pc[c] = "request" => call[c] \in {"wait", "ready", "exit"}
        /\ pc[c] \in {"wake", "setirq"} =>
               call[c] \in {"start", "wait", "ready", "exit"}
        /\ pc[c] # "app" => calls[c] \in 1..MaxCalls

(* Between snrt_mutex_acquire and snrt_mutex_release. *)
HoldsMutex(c) ==
    \/ pc[c] \in {"insert", "bumpfill", "bumpfront", "unlock", "invalidate", "answer"}
    \/ pc[c] \in {"request", "wake", "setirq"} /\ call[c] \in {"wait", "ready"}

MutualExclusion ==
    /\ \A c \in Clients : HoldsMutex(c) => mutex = 1
    /\ \A c, d \in Clients : HoldsMutex(c) /\ HoldsMutex(d) => c = d

(* dm_wfi tells whether the DM core sleeps or is about to. *)
WfiCounts ==
    dm_wfi = IF dmpc \in {"wfi", "wfi.clr", "wfi.dec"} THEN 1 ELSE 0

(* queue_fill counts the tasks queued and not yet started, plus the one    *)
(* that is started and not yet taken off; only the DM core takes it down.  *)
FillCounts ==
    /\ queue_fill + Len(issued) = Len(queued) + (IF dmpc = "bump" THEN 1 ELSE 0)
    /\ dmpc \in {"issue", "bump"} => queue_fill > 0
    /\ dmpc = "bump" => Len(issued) > 0

Inserting == \E c \in Clients : pc[c] = "bumpfront"

(* No slot is read before it is written, even by a client that finds the   *)
(* queue full: in the first round the indices are the counts.              *)
SlotsWritten ==
    /\ \A s \in 0..(QueueSize - 1) : s < Len(queued) => queue[s] \in Tasks
    /\ LET n == Len(queued) - (IF Inserting THEN 1 ELSE 0)
       IN  n < QueueSize => queue_front = n
    /\ LET n == Len(issued) - (IF dmpc = "bump" THEN 1 ELSE 0)
       IN  n < QueueSize => queue_back = n
    /\ \A c \in Clients : pc[c] = "bumpfill" => queue[queue_front] = Task(c)

(* The clients that have seen a queue that is not full and have not yet    *)
(* counted their task.                                                     *)
Pending ==
    {c \in Clients : call[c] = "copy" /\ pc[c] \in {"lock", "insert", "bumpfill"}}

(* The queue overflows by at most one task for each further client: the    *)
(* poll is outside the lock, so all of them may have seen the last slot.   *)
FillBounded ==
    queue_fill + Cardinality(Pending) < QueueSize + Cardinality(Clients)

(* A client whose request is in stat_q, or answered in stat_pvalid. *)
Asking(c) ==
    call[c] \in {"wait", "ready"} /\ pc[c] \in {"wake", "setirq", "answer"}

(* The DM core only answers a request that stands: an answer is never left *)
(* over from the request before, though the DM core clears stat_q after    *)
(* its client has gone on.                                                 *)
AnswersRequest ==
    /\ dmpc \in {"idle", "pvalid"} =>
           stat_pvalid = 0 /\ \E c \in Clients : Asking(c)
    /\ stat_q \in {STAT_WAIT_IDLE, STAT_READY} /\ dmpc # "clrq" =>
           /\ stat_pvalid = 0
           /\ \E c \in Clients :
                  Asking(c) /\ (call[c] = "wait" <=> stat_q = STAT_WAIT_IDLE)
    /\ \A c \in Clients :
           pc[c] = "request" /\ call[c] # "exit" => stat_pvalid = 0

(* What dm_wait has drained has been given to the DMA, and what was given  *)
(* to it is under way or complete.                                         *)
Draining(c) ==
    /\ call[c] = "wait"
    /\ pc[c] \in {"norequest", "lock", "invalidate", "request", "wake", "setirq",
                  "answer", "unlock"}

DrainedIssued ==
    /\ \A c \in Clients : Draining(c) =>
           \A k \in 1..Len(queued) : queued[k][1] = c => k <= Len(issued)
    /\ \A k \in 1..Len(issued) : issued[k] \in dma \cup completed

(* What holds for any number of clients. *)
BaseInv ==
    /\ TypeOK
    /\ InFunction
    /\ MutualExclusion
    /\ WfiCounts
    /\ FillCounts
    /\ SlotsWritten
    /\ FillBounded
    /\ AnswersRequest
    /\ DrainedIssued

(* The client that fills a slot has a free one. *)
InsertHasRoom ==
    \A c \in Clients : pc[c] \in {"insert", "bumpfill"} => queue_fill < QueueSize

(* The j-th slot after queue_back, around the ring. *)
Slot(j) ==
    IF queue_back + j < QueueSize THEN queue_back + j
                                  ELSE queue_back + j - QueueSize

(* The ring holds exactly the tasks queued and not yet taken off, in the   *)
(* order in which they were queued.                                        *)
RingHoldsQueued ==
    LET taken == Len(issued) - (IF dmpc = "bump" THEN 1 ELSE 0)
    IN  \A j \in 0..(queue_fill - 1) : queue[Slot(j)] = queued[taken + j + 1]

FrontAfterLast ==
    Slot(queue_fill) =
        IF Inserting THEN (queue_front + 1) % QueueSize ELSE queue_front

(* dm_wait has been told, or is about to be told, that all is done. *)
Told(c) ==
    /\ call[c] = "wait"
    /\ \/ pc[c] = "unlock"
       \/ Asking(c) /\ (stat_pvalid = 1 \/ dmpc = "pvalid")

Covered(c) ==
    \A k \in 1..Len(queued) : queued[k][1] = c => queued[k] \in completed

AnswerCovers == \A c \in Clients : Told(c) => Covered(c)

(* The queue never holds more than its DM_TASK_QUEUE_SIZE entries: a copy  *)
(* "block[s] only if DM queue is full" (dm.h:254), and then it does block. *)
QueueNotOverfull ==
    queue_fill <= QueueSize

(* Every copy is started once, in the order in which the copies were       *)
(* queued: none is skipped, repeated, or overwritten in the ring.          *)
IssuedInOrder ==
    /\ Len(issued) <= Len(queued)
    /\ \A k \in 1..Len(issued) : issued[k] = queued[k]

(* "Wait for all DMA transfers to complete" (dm.h:342): when dm_wait       *)
(* returns, every copy its caller has queued before is complete.           *)
WaitCovers ==
    \A c \in Clients :
        pc[c] = "unlock" /\ call[c] = "wait" =>
            \A k \in 1..Len(queued) : queued[k][1] = c => queued[k] \in completed

(* What holds as long as InsertHasRoom does, and with it the inductive     *)
(* invariant for one client, which always has room.                        *)
RingInv ==
    /\ QueueNotOverfull
    /\ RingHoldsQueued
    /\ FrontAfterLast
    /\ IssuedInOrder
    /\ AnswerCovers

IInv == BaseInv /\ RingInv

(* Every call that waits for the DM core returns: its request is answered, *)
(* its wake-up is not lost.  (A copy into a full queue may wait for ever:  *)
(* the DM core starts nothing before dm_start or dm_wait.)                 *)
CallsReturn ==
    \A c \in Clients :
        (pc[c] # "app" /\ call[c] # "copy") ~> (pc[c] = "app")

(* "Trigger the start of queued transfers" (dm.h:336): what a client has   *)
(* queued when it calls dm_start or dm_wait is started, whether the DM     *)
(* core sleeps, falls asleep or is busy at that moment.                    *)
StartedAfterStart ==
    \A c \in Clients : \A k \in 1..MaxCalls :
        (Len(queued) >= k /\ call[c] \in {"start", "wait"} /\ pc[c] # "app")
            ~> Len(issued) >= k
=============================================================================
