-------------------------- MODULE DataMoverProofs ---------------------------
(***************************************************************************)
(* For every queue size, DMA depth and number of calls: the invariants of  *)
(* the data mover (dm.h).  BaseInv holds for any finite set of clients,    *)
(* RingInv as long as the client that fills a slot has a free one, which   *)
(* one client always has.                                                  *)
(***************************************************************************)
EXTENDS DataMover, FiniteSetTheorems, TLAPS

USE DEF Places, DmPlaces

-----------------------------------------------------------------------------
(* A step around the ring. *)
LEMMA NextSlot ==
    ASSUME NEW s \in 0..(QueueSize - 1)
    PROVE  (s + 1) % QueueSize = IF s + 1 = QueueSize THEN 0 ELSE s + 1
<1>1. CASE s + 1 = QueueSize
  <2>1. QueueSize % QueueSize = 0
    BY DmAssumption
  <2> QED
    BY <1>1, <2>1
<1>2. CASE s + 1 # QueueSize
  <2>1. s + 1 \in 0..(QueueSize - 1)
    BY <1>2, DmAssumption
  <2>2. (s + 1) % QueueSize = s + 1
    BY <2>1, DmAssumption
  <2> QED
    BY <1>2, <2>2
<1> QED
  BY <1>1, <1>2

(* The pending clients are at most all clients. *)
LEMMA PendingCount ==
    /\ IsFiniteSet(Pending)
    /\ Cardinality(Pending) \in Nat
    /\ Cardinality(Clients) \in Nat
    /\ Cardinality(Pending) <= Cardinality(Clients)
<1>1. Pending \in SUBSET Clients
  BY DEF Pending
<1> QED
  BY <1>1, DmAssumption, FS_Subset, FS_CardinalityType

(* The initial state satisfies both invariants. *)
LEMMA InitBase == Init => BaseInv /\ RingInv
<1> SUFFICES ASSUME Init PROVE BaseInv /\ RingInv
  OBVIOUS
<1> USE DmAssumption DEF Init
<1>1. TypeOK
  <2>1. queued \in Seq(Tasks) /\ issued \in Seq(Tasks)
    OBVIOUS
  <2>2. QueueSize - 1 \in Nat /\ 0 \in 0..(QueueSize - 1)
    OBVIOUS
  <2>3. queue \in [0..(QueueSize - 1) -> Tasks \cup {NoTask}]
    OBVIOUS
  <2>4. /\ pc \in [Clients -> Places]
        /\ call \in [Clients -> Calls \cup {None}]
        /\ calls \in [Clients -> 0..MaxCalls]
    OBVIOUS
  <2>5. irq \in BOOLEAN /\ clr \in BOOLEAN /\ do_exit \in BOOLEAN
    BY Zenon
  <2> QED
    BY <2>1, <2>2, <2>3, <2>4, <2>5 DEF TypeOK
<1>2. InFunction
  BY DEF InFunction
<1>3. MutualExclusion
  BY DEF MutualExclusion, HoldsMutex
<1>4. WfiCounts /\ FillCounts
  BY DEF WfiCounts, FillCounts
<1>5. ~Inserting
  BY DEF Inserting
<1>6. SlotsWritten
  BY <1>5 DEF SlotsWritten
<1>7. FillBounded
  <2>1. Pending = {}
    BY DEF Pending
  <2> QED
    BY <2>1, FS_EmptySet, PendingCount DEF FillBounded
<1>8. AnswersRequest
  BY DEF AnswersRequest, STAT_WAIT_IDLE, STAT_READY
<1>9. DrainedIssued
  BY DEF DrainedIssued
<1>10. QueueNotOverfull /\ IssuedInOrder /\ RingHoldsQueued
  BY DEF QueueNotOverfull, IssuedInOrder, RingHoldsQueued
<1>11. FrontAfterLast
  BY <1>5 DEF FrontAfterLast, Slot
<1>12. AnswerCovers
  BY DEF AnswerCovers, Told, Asking
<1> QED
  BY <1>1, <1>2, <1>3, <1>4, <1>6, <1>7, <1>8, <1>9, <1>10, <1>11, <1>12
     DEF BaseInv, RingInv

-----------------------------------------------------------------------------
(* The DM core looks at the queue and at the request, sleeps and wakes:    *)
(* nothing but its own place, its flags and its interrupt changes.         *)
DmControl ==
    \/ DmTop \/ DmStat \/ DmIdle \/ DmCheckFill \/ DmCheckStat
    \/ DmWfiInc \/ DmWakeUp \/ DmClearIrq \/ DmWfiDec

(* What such a step changes, and where it leads. *)
LEMMA DmControlEffect ==
    ASSUME BaseInv, DmControl
    PROVE  /\ UNCHANGED <<ring, mutex, stat, dma, client, queued, issued, completed>>
           /\ dmpc # "bump" /\ dmpc' # "bump" /\ dmpc # "clrq" /\ dmpc' # "clrq"
           /\ dmpc' = "issue" => queue_fill > 0
           /\ dmpc' = "idle" => dmpc = "stat" /\ stat_q = STAT_WAIT_IDLE
           /\ dmpc' = "pvalid" =>
                  \/ dmpc = "stat" /\ stat_q = STAT_READY
                  \/ dmpc = "idle" /\ dma = {}
BY DEF DmControl, DmTop, DmStat, DmIdle, DmCheckFill, DmCheckStat, DmWfiInc,
       DmWakeUp, DmClearIrq, DmWfiDec, LoopEnd, stat

(* They keep the invariant. *)
LEMMA DmControlBase ==
    ASSUME BaseInv, DmControl
    PROVE  BaseInv'
<1> USE DmControlEffect DEF BaseInv
<1>1. TypeOK'
  <2>1. /\ dmpc' \in DmPlaces
        /\ dm_wfi' \in {0, 1}
    BY DEF TypeOK, WfiCounts, DmControl, DmTop, DmStat, DmIdle, DmCheckFill,
           DmCheckStat, DmWfiInc, DmWakeUp, DmClearIrq, DmWfiDec, LoopEnd
  <2>2. do_exit' \in BOOLEAN /\ irq' \in BOOLEAN /\ clr' \in BOOLEAN
    BY Zenon DEF TypeOK, DmControl, DmTop, DmStat, DmIdle, DmCheckFill,
                 DmCheckStat, DmWfiInc, DmWakeUp, DmClearIrq, DmWfiDec
  <2> QED
    BY <2>1, <2>2 DEF TypeOK, ring, stat, client
<1>2. WfiCounts'
  BY DEF TypeOK, WfiCounts, DmControl, DmTop, DmStat, DmIdle, DmCheckFill,
         DmCheckStat, DmWfiInc, DmWakeUp, DmClearIrq, DmWfiDec, LoopEnd
<1>3. InFunction' /\ MutualExclusion'
  BY DEF InFunction, MutualExclusion, HoldsMutex, client
<1>4. FillCounts'
  BY DEF FillCounts, ring
<1>5. SlotsWritten'
  BY DEF SlotsWritten, Inserting, Task, ring, client
<1>6. FillBounded'
  BY DEF FillBounded, Pending, ring, client
<1>7. AnswersRequest'
  BY DEF AnswersRequest, Asking, stat, client
<1>8. DrainedIssued'
  BY DEF DrainedIssued, Draining, client
<1> QED
  BY <1>1, <1>2, <1>3, <1>4, <1>5, <1>6, <1>7, <1>8

(* The DM core gives the task at queue_back to the DMA: the slot is        *)
(* written, since a task is queued that has not been started.              *)
LEMMA DmIssueBase ==
    ASSUME BaseInv, DmIssue
    PROVE  BaseInv'
<1> USE DEF BaseInv
<1> DEFINE t == queue[queue_back]
<1>1. /\ UNCHANGED <<ring, mutex, stat, dm_wfi, irq, clr, do_exit, client,
                     queued, completed>>
      /\ dmpc = "issue" /\ dmpc' = "bump"
      /\ dma' = dma \cup {t} /\ issued' = Append(issued, t)
  BY DEF DmIssue
<1>2. t \in Tasks
  <2>1. Len(issued) \in Nat /\ Len(queued) \in Nat /\ QueueSize \in Nat
    BY DmAssumption DEF TypeOK
  <2>2. Len(issued) < Len(queued)
    BY <1>1, <2>1 DEF FillCounts, TypeOK
  <2>3. CASE Len(issued) < QueueSize
    BY <1>1, <2>1, <2>2, <2>3 DEF SlotsWritten, TypeOK
  <2>4. CASE Len(issued) >= QueueSize
    BY <2>1, <2>2, <2>4 DEF SlotsWritten, TypeOK
  <2> QED
    BY <2>1, <2>3, <2>4
<1>3. /\ issued' \in Seq(Tasks) /\ Len(issued') = Len(issued) + 1
      /\ \A k \in 1..Len(issued) : issued'[k] = issued[k]
      /\ issued'[Len(issued) + 1] = t
      /\ Len(issued) \in Nat
  BY <1>1, <1>2 DEF TypeOK
<1>4. TypeOK'
  BY <1>1, <1>2, <1>3 DEF TypeOK, ring, stat, client
<1>5. InFunction' /\ MutualExclusion' /\ WfiCounts'
  BY <1>1 DEF InFunction, MutualExclusion, HoldsMutex, WfiCounts, client
<1>6. FillCounts'
  <2>1. queue_fill \in Nat /\ queue_fill' = queue_fill /\ Len(queued) \in Nat
    BY <1>1 DEF TypeOK, ring
  <2>2. queue_fill + Len(issued) = Len(queued) /\ queue_fill > 0
    BY <1>1, <2>1 DEF FillCounts
  <2>3. queue_fill + Len(issued') = Len(queued) + 1 /\ Len(issued') > 0
    BY <1>3, <2>1, <2>2
  <2> QED
    BY <1>1, <2>1, <2>2, <2>3 DEF FillCounts
<1>7. SlotsWritten'
  BY <1>1, <1>3 DEF SlotsWritten, Inserting, Task, ring, client
<1>8. FillBounded'
  BY <1>1 DEF FillBounded, Pending, ring, client
<1>9. AnswersRequest'
  BY <1>1 DEF AnswersRequest, Asking, stat, client
<1>10. DrainedIssued'
  <2>1. \A k \in 1..Len(issued') : issued'[k] \in dma' \cup completed'
    BY <1>1, <1>3 DEF DrainedIssued
  <2>2. \A c \in Clients : Draining(c)' <=> Draining(c)
    BY <1>1 DEF Draining, client
  <2>3. Len(queued) \in Nat
    BY DEF TypeOK
  <2>4. \A c \in Clients : Draining(c)' =>
            \A k \in 1..Len(queued) : queued[k][1] = c => k <= Len(issued')
    BY <1>3, <2>2, <2>3 DEF DrainedIssued
  <2> QED
    BY <1>1, <2>1, <2>4 DEF DrainedIssued
<1> QED
  BY <1>4, <1>5, <1>6, <1>7, <1>8, <1>9, <1>10

(* The DM core takes the task it has started off the ring. *)
LEMMA DmBumpBase ==
    ASSUME BaseInv, DmBump
    PROVE  BaseInv'
<1> USE DEF BaseInv
<1>1. /\ UNCHANGED <<queue, queue_front, mutex, stat, dm_wfi, irq, clr, dma, do_exit,
                     client, queued, issued, completed>>
      /\ dmpc = "bump" /\ dmpc' = "stat"
      /\ queue_fill' = queue_fill - 1
  BY DEF DmBump
<1>2. queue_back' = IF queue_back + 1 = QueueSize THEN 0 ELSE queue_back + 1
  BY NextSlot DEF DmBump, TypeOK
<1>3. /\ queue_fill \in Nat /\ queue_fill > 0 /\ Len(issued) > 0
      /\ Len(issued) \in Nat /\ QueueSize \in Nat \ {0}
  BY <1>1, DmAssumption DEF FillCounts, TypeOK
<1>4. TypeOK'
  <2>1. queue_back' \in 0..(QueueSize - 1) /\ queue_fill' \in Nat
    BY <1>1, <1>2, <1>3 DEF TypeOK
  <2> QED
    BY <1>1, <2>1 DEF TypeOK, stat, client
<1>5. InFunction' /\ MutualExclusion' /\ WfiCounts'
  BY <1>1 DEF InFunction, MutualExclusion, HoldsMutex, WfiCounts, client
<1>6. FillCounts'
  BY <1>1, <1>3 DEF FillCounts, TypeOK
<1>7. SlotsWritten'
  <2>1. Len(issued) < QueueSize => queue_back' = Len(issued)
    BY <1>1, <1>2, <1>3 DEF SlotsWritten, TypeOK
  <2> QED
    BY <1>1, <1>3, <2>1 DEF SlotsWritten, Inserting, Task, client
<1>8. FillBounded'
  <2>1. Pending' = Pending
    BY <1>1 DEF Pending, client
  <2> QED
    BY <1>1, <1>3, <2>1, PendingCount DEF FillBounded
<1>9. AnswersRequest'
  BY <1>1 DEF AnswersRequest, Asking, stat, client
<1>10. DrainedIssued'
  BY <1>1 DEF DrainedIssued, Draining, client
<1> QED
  BY <1>4, <1>5, <1>6, <1>7, <1>8, <1>9, <1>10

(* The answer, and the store that clears the request after it. *)
LEMMA DmAnswerBase ==
    ASSUME BaseInv, DmAnswer \/ DmClearRequest
    PROVE  BaseInv'
<1> USE DEF BaseInv
<1>1. /\ UNCHANGED <<ring, mutex, dm_wfi, irq, clr, dma, do_exit, client,
                     queued, issued, completed>>
      /\ \/ dmpc = "pvalid" /\ dmpc' = "clrq" /\ stat_pvalid' = 1 /\ stat_q' = stat_q
         \/ dmpc = "clrq" /\ dmpc' = "chkfill" /\ stat_q' = 0
            /\ stat_pvalid' = stat_pvalid
  BY DEF DmAnswer, DmClearRequest
<1>2. TypeOK'
  <2>1. stat_q' \in 0..3 /\ stat_pvalid' \in {0, 1}
    BY <1>1 DEF TypeOK
  <2> QED
    BY <1>1, <2>1 DEF TypeOK, ring, client
<1>3. InFunction' /\ MutualExclusion' /\ WfiCounts'
  BY <1>1 DEF InFunction, MutualExclusion, HoldsMutex, WfiCounts, client
<1>4. FillCounts' /\ FillBounded'
  BY <1>1 DEF FillCounts, FillBounded, Pending, ring, client
<1>5. SlotsWritten'
  BY <1>1 DEF SlotsWritten, Inserting, Task, ring, client
<1>6. AnswersRequest'
  <2>1. ASSUME NEW c \in Clients, pc[c] = "request", call[c] # "exit",
               dmpc = "pvalid"
        PROVE  FALSE
    BY <2>1 DEF AnswersRequest, Asking, MutualExclusion, HoldsMutex, InFunction
  <2> QED
    BY <1>1, <2>1 DEF AnswersRequest, Asking, client, STAT_WAIT_IDLE, STAT_READY
<1>7. DrainedIssued'
  BY <1>1 DEF DrainedIssued, Draining, client
<1> QED
  BY <1>2, <1>3, <1>4, <1>5, <1>6, <1>7

(* The DMA engine completes a transfer. *)
LEMMA DmaCompleteBase ==
    ASSUME BaseInv, DmaComplete
    PROVE  BaseInv'
<1> USE DEF BaseInv
<1>1. /\ UNCHANGED <<ring, mutex, stat, dm_wfi, irq, clr, dmcore, client,
                     queued, issued>>
      /\ dma' \subseteq dma
      /\ completed \subseteq completed' /\ completed' \subseteq Tasks
      /\ dma \cup completed = dma' \cup completed'
  BY DEF DmaComplete, TypeOK
<1>2. TypeOK'
  BY <1>1 DEF TypeOK, ring, stat, dmcore, client
<1>3. InFunction' /\ MutualExclusion' /\ WfiCounts'
  BY <1>1 DEF InFunction, MutualExclusion, HoldsMutex, WfiCounts, dmcore, client
<1>4. FillCounts' /\ FillBounded'
  BY <1>1 DEF FillCounts, FillBounded, Pending, ring, dmcore, client
<1>5. SlotsWritten'
  BY <1>1 DEF SlotsWritten, Inserting, Task, ring, dmcore, client
<1>6. AnswersRequest'
  BY <1>1 DEF AnswersRequest, Asking, stat, dmcore, client
<1>7. DrainedIssued'
  BY <1>1 DEF DrainedIssued, Draining, client
<1> QED
  BY <1>2, <1>3, <1>4, <1>5, <1>6, <1>7

(* A clear of the DM core's interrupt takes effect. *)
LEMMA IrqClearedBase ==
    ASSUME BaseInv, IrqCleared
    PROVE  BaseInv'
<1> USE DEF BaseInv
<1>1. /\ UNCHANGED <<ring, mutex, stat, dm_wfi, dma, dmcore, client,
                     queued, issued, completed>>
      /\ irq' = FALSE /\ clr' = FALSE
  BY DEF IrqCleared
<1>2. TypeOK'
  <2>1. irq' \in BOOLEAN /\ clr' \in BOOLEAN
    BY <1>1, Zenon
  <2> QED
    BY <1>1, <2>1 DEF TypeOK, ring, stat, dmcore, client
<1>3. InFunction' /\ MutualExclusion' /\ WfiCounts'
  BY <1>1 DEF InFunction, MutualExclusion, HoldsMutex, WfiCounts, dmcore, client
<1>4. FillCounts' /\ FillBounded'
  BY <1>1 DEF FillCounts, FillBounded, Pending, ring, dmcore, client
<1>5. SlotsWritten'
  BY <1>1 DEF SlotsWritten, Inserting, Task, ring, dmcore, client
<1>6. AnswersRequest'
  BY <1>1 DEF AnswersRequest, Asking, stat, dmcore, client
<1>7. DrainedIssued'
  BY <1>1 DEF DrainedIssued, Draining, client
<1> QED
  BY <1>2, <1>3, <1>4, <1>5, <1>6, <1>7

-----------------------------------------------------------------------------
(* A client calls a function: it holds nothing and waits for nothing yet.  *)
LEMMA CallFunctionBase ==
    ASSUME BaseInv, NEW c \in Clients, NEW f \in Calls, CallFunction(c, f)
    PROVE  BaseInv'
<1> USE DEF BaseInv
<1>1. /\ UNCHANGED <<ring, mutex, stat, dm_wfi, irq, clr, dma, dmcore,
                     queued, issued, completed>>
      /\ pc[c] = "app" /\ calls[c] < MaxCalls
  BY DEF CallFunction
<1>2. /\ \A d \in Clients \ {c} :
             pc'[d] = pc[d] /\ call'[d] = call[d] /\ calls'[d] = calls[d]
      /\ call'[c] = f /\ calls'[c] = calls[c] + 1
      /\ pc'[c] = Entry(f)
      /\ pc' \in [Clients -> Places]
      /\ call' \in [Clients -> Calls \cup {None}]
  BY DmAssumption DEF CallFunction, Goto, Entry, TypeOK
<1>3. \/ f = "copy" /\ pc'[c] = "poll"
      \/ f = "start" /\ pc'[c] = "wake"
      \/ f = "wait" /\ pc'[c] = "wake1"
      \/ f = "ready" /\ pc'[c] = "lock"
      \/ f = "exit" /\ pc'[c] = "request"
  BY <1>2, DmAssumption DEF Entry
<1>4. calls' \in [Clients -> 0..MaxCalls] /\ calls'[c] \in 1..MaxCalls
  BY <1>1, DmAssumption DEF CallFunction, TypeOK
<1>5. TypeOK'
  BY <1>1, <1>2, <1>4 DEF TypeOK, ring, stat, dmcore
<1>6. InFunction'
  BY <1>2, <1>3, <1>4 DEF InFunction
<1>7. MutualExclusion'
  <2>1. \A d \in Clients : HoldsMutex(d)' <=> HoldsMutex(d)
    BY <1>1, <1>2, <1>3 DEF HoldsMutex
  <2> QED
    BY <1>1, <2>1 DEF MutualExclusion
<1>8. WfiCounts' /\ FillCounts'
  BY <1>1 DEF WfiCounts, FillCounts, ring, dmcore
<1>9. SlotsWritten'
  <2>1. Inserting' <=> Inserting
    BY <1>1, <1>2, <1>3 DEF Inserting
  <2>2. \A d \in Clients : pc'[d] = "bumpfill" =>
            pc[d] = "bumpfill" /\ Task(d)' = Task(d)
    BY <1>2, <1>3 DEF Task
  <2> QED
    BY <1>1, <2>1, <2>2 DEF SlotsWritten, ring, dmcore
<1>10. FillBounded'
  <2>1. Pending' = Pending
    BY <1>1, <1>2, <1>3 DEF Pending
  <2> QED
    BY <1>1, <2>1 DEF FillBounded, ring
<1>11. AnswersRequest'
  <2>1. \A d \in Clients : Asking(d) => Asking(d)' /\ call'[d] = call[d]
    BY <1>1, <1>2 DEF Asking
  <2>2. \A d \in Clients : pc'[d] = "request" /\ call'[d] # "exit" =>
            pc[d] = "request" /\ call[d] # "exit"
    BY <1>2, <1>3
  <2> QED
    BY <1>1, <2>1, <2>2 DEF AnswersRequest, stat, dmcore
<1>12. DrainedIssued'
  <2>1. \A d \in Clients : Draining(d)' => Draining(d)
    BY <1>2, <1>3 DEF Draining
  <2> QED
    BY <1>1, <2>1 DEF DrainedIssued
<1> QED
  BY <1>5, <1>6, <1>7, <1>8, <1>9, <1>10, <1>11, <1>12

(* The steps of a client that only read what they wait for. *)
ClientWaits(c) ==
    PollFill(c) \/ WakeDm(c) \/ SetIrq(c) \/ DrainQueue(c) \/ NoRequest(c)
        \/ Answered(c)

(* Where they lead. *)
LEMMA ClientWaitsEffect ==
    ASSUME BaseInv, NEW c \in Clients, ClientWaits(c)
    PROVE  /\ UNCHANGED <<ring, mutex, stat, dm_wfi, dma, dmcore, call, calls,
                          queued, issued, completed>>
           /\ \A d \in Clients \ {c} : pc'[d] = pc[d]
           /\ \/ pc[c] = "poll" /\ pc'[c] = "lock" /\ queue_fill < QueueSize
              \/ pc[c] = "wake" /\ pc'[c] = "setirq"
              \/ pc[c] = "wake1" /\ pc'[c] = "setirq1"
              \/ pc[c] = "setirq" /\ call[c] \in {"start", "exit"} /\ pc'[c] = "app"
              \/ pc[c] = "setirq" /\ call[c] \in {"wait", "ready"}
                 /\ pc'[c] = "answer"
              \/ pc[c] = "setirq1" /\ pc'[c] = "drain"
              \/ pc[c] = "drain" /\ pc'[c] = "norequest" /\ queue_fill = 0
              \/ pc[c] = "norequest" /\ pc'[c] = "lock"
              \/ pc[c] = "answer" /\ pc'[c] = "unlock" /\ stat_pvalid = 1
<1>1. /\ UNCHANGED <<ring, mutex, stat, dm_wfi, dma, dmcore, call, calls,
                     queued, issued, completed>>
      /\ \A d \in Clients \ {c} : pc'[d] = pc[d]
  BY DEF ClientWaits, PollFill, WakeDm, SetIrq, DrainQueue, NoRequest, Answered,
         Goto, BaseInv, TypeOK
<1>2. CASE SetIrq(c)
  BY <1>1, <1>2 DEF SetIrq, Goto, BaseInv, TypeOK, InFunction
<1>3. CASE PollFill(c) \/ WakeDm(c) \/ DrainQueue(c) \/ NoRequest(c) \/ Answered(c)
  BY <1>1, <1>3 DEF PollFill, WakeDm, DrainQueue, NoRequest, Answered, Goto,
                    BaseInv, TypeOK
<1> QED
  BY <1>2, <1>3 DEF ClientWaits

(* They keep the invariant. *)
LEMMA ClientWaitsBase ==
    ASSUME BaseInv, NEW c \in Clients, ClientWaits(c)
    PROVE  BaseInv'
<1> USE ClientWaitsEffect DEF BaseInv
<1>1. TypeOK'
  <2>1. pc' \in [Clients -> Places]
    <3>1. pc' = [pc EXCEPT ![c] = pc'[c]]
      BY DEF ClientWaits, PollFill, WakeDm, SetIrq, DrainQueue, NoRequest,
             Answered, Goto, TypeOK
    <3> QED
      BY <3>1 DEF TypeOK
  <2>2. irq' \in BOOLEAN /\ clr' \in BOOLEAN
    BY Zenon DEF ClientWaits, PollFill, WakeDm, SetIrq, DrainQueue, NoRequest,
                 Answered, TypeOK
  <2>3. UNCHANGED <<ring, mutex, stat, dm_wfi, dma, dmcore, call, calls,
                    queued, issued, completed>>
    BY Zenon
  <2> QED
    BY <2>1, <2>2, <2>3, Zenon DEF TypeOK, ring, stat, dmcore
<1>2. InFunction'
  BY DEF InFunction
<1>3. MutualExclusion'
  <2>1. \A d \in Clients : HoldsMutex(d)' <=> HoldsMutex(d)
    BY DEF HoldsMutex, InFunction
  <2> QED
    BY <2>1 DEF MutualExclusion
<1>4. WfiCounts' /\ FillCounts'
  BY DEF WfiCounts, FillCounts, ring, dmcore
<1>5. SlotsWritten'
  <2>1. Inserting' <=> Inserting
    BY DEF Inserting
  <2>2. \A d \in Clients : pc'[d] = "bumpfill" =>
            pc[d] = "bumpfill" /\ Task(d)' = Task(d)
    BY DEF Task
  <2> QED
    BY <2>1, <2>2 DEF SlotsWritten, ring, dmcore
<1>6. FillBounded'
  <2>1. CASE pc[c] = "poll"
    <3>1. queue_fill' < QueueSize /\ queue_fill' \in Nat
      BY <2>1 DEF TypeOK, ring
    <3>2. /\ Cardinality(Pending') \in Nat /\ Cardinality(Clients) \in Nat
          /\ Cardinality(Pending') <= Cardinality(Clients)
      <4>1. Pending' \in SUBSET Clients
        BY DEF Pending
      <4> QED
        BY <4>1, DmAssumption, FS_Subset, FS_CardinalityType
    <3> QED
      BY <3>1, <3>2, DmAssumption DEF FillBounded
  <2>2. CASE pc[c] # "poll"
    <3>1. Pending' = Pending
      BY <2>2 DEF Pending, InFunction
    <3> QED
      BY <3>1 DEF FillBounded, ring
  <2> QED
    BY <2>1, <2>2
<1>7. AnswersRequest'
  <2>1. \A d \in Clients : pc'[d] = "request" => pc[d] = "request"
    OBVIOUS
  <2>2. CASE pc[c] = "answer"
    BY <2>1, <2>2 DEF AnswersRequest, stat, dmcore
  <2>3. CASE pc[c] # "answer"
    <3>1. \A d \in Clients : Asking(d) => Asking(d)'
      BY <2>3 DEF Asking
    <3> QED
      BY <2>1, <3>1 DEF AnswersRequest, stat, dmcore
  <2> QED
    BY <2>2, <2>3
<1>8. DrainedIssued'
  <2>1. CASE pc[c] = "drain"
    <3>1. Len(queued) <= Len(issued)
      <4>1. queue_fill = 0
        BY <2>1
      <4>2. Len(queued) \in Nat /\ Len(issued) \in Nat
        BY DEF TypeOK
      <4> QED
        BY <4>1, <4>2 DEF FillCounts
    <3>2. \A k \in 1..Len(queued) : k <= Len(issued)
      BY <3>1 DEF TypeOK
    <3> QED
      BY <3>2 DEF DrainedIssued
  <2>2. CASE pc[c] # "drain"
    <3>1. \A d \in Clients : Draining(d)' => Draining(d)
      BY <2>2 DEF Draining, InFunction
    <3> QED
      BY <3>1 DEF DrainedIssued
  <2> QED
    BY <2>1, <2>2
<1> QED
  BY <1>1, <1>2, <1>3, <1>4, <1>5, <1>6, <1>7, <1>8

(* The mutex is taken: nobody held it. *)
LEMMA LockBase ==
    ASSUME BaseInv, NEW c \in Clients, Lock(c)
    PROVE  BaseInv'
<1> USE DEF BaseInv
<1>1. /\ UNCHANGED <<ring, stat, dm_wfi, irq, clr, dma, dmcore, call, calls,
                     queued, issued, completed>>
      /\ pc[c] = "lock" /\ mutex = 0 /\ mutex' = 1
      /\ \A d \in Clients \ {c} : pc'[d] = pc[d]
      /\ \/ call[c] = "copy" /\ pc'[c] = "insert"
         \/ call[c] \in {"wait", "ready"} /\ pc'[c] = "invalidate"
  BY DEF Lock, Goto, TypeOK, InFunction
<1>2. TypeOK'
  BY <1>1 DEF Lock, Goto, TypeOK, ring, stat, dmcore
<1>3. InFunction'
  BY <1>1 DEF InFunction
<1>4. MutualExclusion'
  <2>1. \A d \in Clients : ~HoldsMutex(d)
    BY <1>1 DEF MutualExclusion
  <2>2. \A d \in Clients : HoldsMutex(d)' => d = c
    BY <1>1, <2>1 DEF HoldsMutex
  <2> QED
    BY <1>1, <2>2 DEF MutualExclusion
<1>5. WfiCounts' /\ FillCounts'
  BY <1>1 DEF WfiCounts, FillCounts, ring, dmcore
<1>6. SlotsWritten'
  <2>1. Inserting' <=> Inserting
    BY <1>1 DEF Inserting
  <2>2. \A d \in Clients : pc'[d] = "bumpfill" =>
            pc[d] = "bumpfill" /\ Task(d)' = Task(d)
    BY <1>1 DEF Task
  <2> QED
    BY <1>1, <2>1, <2>2 DEF SlotsWritten, ring, dmcore
<1>7. FillBounded'
  <2>1. Pending' = Pending
    BY <1>1 DEF Pending
  <2> QED
    BY <1>1, <2>1 DEF FillBounded, ring
<1>8. AnswersRequest'
  <2>1. \A d \in Clients : Asking(d) => Asking(d)'
    BY <1>1 DEF Asking
  <2> QED
    BY <1>1, <2>1 DEF AnswersRequest, stat, dmcore
<1>9. DrainedIssued'
  <2>1. \A d \in Clients : Draining(d)' => Draining(d)
    BY <1>1 DEF Draining
  <2> QED
    BY <1>1, <2>1 DEF DrainedIssued
<1> QED
  BY <1>2, <1>3, <1>4, <1>5, <1>6, <1>7, <1>8, <1>9

(* The slot at queue_front is filled. *)
LEMMA InsertBase ==
    ASSUME BaseInv, NEW c \in Clients, Insert(c)
    PROVE  BaseInv'
<1> USE DEF BaseInv
<1>1. /\ UNCHANGED <<queue_back, queue_front, queue_fill, mutex, stat, dm_wfi, irq, clr,
                     dma, dmcore, call, calls, queued, issued, completed>>
      /\ pc[c] = "insert" /\ pc'[c] = "bumpfill"
      /\ \A d \in Clients \ {c} : pc'[d] = pc[d]
  BY DEF Insert, Goto, TypeOK
<1>2. /\ Task(c) \in Tasks
      /\ queue' \in [0..(QueueSize - 1) -> Tasks \cup {NoTask}]
      /\ \A s \in 0..(QueueSize - 1) :
             queue'[s] = IF s = queue_front THEN Task(c) ELSE queue[s]
      /\ queue'[queue_front] = Task(c)
  <2>1. Task(c) \in Tasks
    BY <1>1 DEF Task, Tasks, TypeOK, InFunction
  <2> QED
    BY <2>1 DEF Insert, TypeOK
<1>3. TypeOK'
  <2>1. pc' \in [Clients -> Places]
    BY DEF Insert, Goto, TypeOK
  <2> QED
    BY <1>1, <1>2, <2>1 DEF TypeOK, stat, dmcore
<1>4. InFunction'
  BY <1>1 DEF InFunction
<1>5. MutualExclusion'
  <2>1. \A d \in Clients : HoldsMutex(d)' <=> HoldsMutex(d)
    BY <1>1 DEF HoldsMutex
  <2> QED
    BY <1>1, <2>1 DEF MutualExclusion
<1>6. WfiCounts' /\ FillCounts'
  BY <1>1 DEF WfiCounts, FillCounts, dmcore
<1>7. SlotsWritten'
  <2>1. Inserting' <=> Inserting
    BY <1>1 DEF Inserting
  <2>2. \A d \in Clients : pc'[d] = "bumpfill" => d = c
    BY <1>1 DEF MutualExclusion, HoldsMutex
  <2>3. Task(c)' = Task(c)
    BY <1>1 DEF Task
  <2> QED
    BY <1>1, <1>2, <2>1, <2>2, <2>3 DEF SlotsWritten, dmcore
<1>8. FillBounded'
  <2>1. Pending' = Pending
    BY <1>1 DEF Pending
  <2> QED
    BY <1>1, <2>1 DEF FillBounded
<1>9. AnswersRequest'
  <2>1. \A d \in Clients : Asking(d) => Asking(d)'
    BY <1>1 DEF Asking
  <2> QED
    BY <1>1, <2>1 DEF AnswersRequest, stat, dmcore
<1>10. DrainedIssued'
  <2>1. \A d \in Clients : Draining(d)' => Draining(d)
    BY <1>1 DEF Draining
  <2> QED
    BY <1>1, <2>1 DEF DrainedIssued
<1> QED
  BY <1>3, <1>4, <1>5, <1>6, <1>7, <1>8, <1>9, <1>10

(* The task is counted. *)
LEMMA BumpFillBase ==
    ASSUME BaseInv, NEW c \in Clients, BumpFill(c)
    PROVE  BaseInv'
<1> USE DEF BaseInv
<1>1. /\ UNCHANGED <<queue, queue_back, queue_front, mutex, stat, dm_wfi, irq, clr,
                     dma, dmcore, call, calls, issued, completed>>
      /\ pc[c] = "bumpfill" /\ pc'[c] = "bumpfront"
      /\ \A d \in Clients \ {c} : pc'[d] = pc[d]
      /\ queue_fill' = queue_fill + 1
      /\ queued' = Append(queued, Task(c))
  BY DEF BumpFill, Goto, TypeOK
<1>2. Task(c) \in Tasks /\ Task(c)[1] = c
  BY <1>1 DEF Task, Tasks, TypeOK, InFunction
<1>3. /\ queued' \in Seq(Tasks) /\ Len(queued') = Len(queued) + 1
      /\ \A k \in 1..Len(queued) : queued'[k] = queued[k]
      /\ queued'[Len(queued) + 1] = Task(c)
      /\ Len(queued) \in Nat /\ Len(issued) \in Nat
      /\ queue_fill \in Nat /\ QueueSize \in Nat
  BY <1>1, <1>2, DmAssumption DEF TypeOK
<1>4. TypeOK'
  <2>1. pc' \in [Clients -> Places]
    BY DEF BumpFill, Goto, TypeOK
  <2> QED
    BY <1>1, <1>3, <2>1 DEF TypeOK, stat, dmcore
<1>5. InFunction'
  BY <1>1 DEF InFunction
<1>6. MutualExclusion'
  <2>1. \A d \in Clients : HoldsMutex(d)' <=> HoldsMutex(d)
    BY <1>1 DEF HoldsMutex
  <2> QED
    BY <1>1, <2>1 DEF MutualExclusion
<1>7. WfiCounts' /\ FillCounts'
  BY <1>1, <1>3 DEF WfiCounts, FillCounts, dmcore
<1>8. SlotsWritten'
  <2>1. Inserting' /\ ~Inserting
    BY <1>1 DEF Inserting, MutualExclusion, HoldsMutex
  <2>2. \A d \in Clients : pc'[d] # "bumpfill"
    BY <1>1 DEF MutualExclusion, HoldsMutex
  <2>3. queue[queue_front] = Task(c)
    BY <1>1 DEF SlotsWritten
  <2>4. Len(queued) < QueueSize => queue_front = Len(queued)
    BY <1>3, <2>1 DEF SlotsWritten
  <2>5. \A s \in 0..(QueueSize - 1) : s < Len(queued') => queue'[s] \in Tasks
    <3>1. SUFFICES ASSUME NEW s \in 0..(QueueSize - 1), s < Len(queued) + 1
                   PROVE  queue[s] \in Tasks
      BY <1>1, <1>3
    <3>2. CASE s < Len(queued)
      BY <3>2 DEF SlotsWritten
    <3>3. CASE s = Len(queued)
      BY <1>2, <1>3, <2>3, <2>4, <3>3
    <3> QED
      BY <1>3, <3>1, <3>2, <3>3
  <2> QED
    BY <1>1, <1>3, <2>1, <2>2, <2>4, <2>5 DEF SlotsWritten, dmcore
<1>9. FillBounded'
  <2>1. c \in Pending /\ Pending' = Pending \ {c}
    BY <1>1 DEF Pending, InFunction
  <2>2. Cardinality(Pending') = Cardinality(Pending) - 1
    BY <2>1, PendingCount, FS_RemoveElement
  <2> QED
    BY <1>1, <1>3, <2>2, PendingCount DEF FillBounded
<1>10. AnswersRequest'
  <2>1. \A d \in Clients : Asking(d) => Asking(d)'
    BY <1>1 DEF Asking
  <2> QED
    BY <1>1, <2>1 DEF AnswersRequest, stat, dmcore
<1>11. DrainedIssued'
  <2>1. \A d \in Clients : Draining(d)' => Draining(d) /\ d # c
    BY <1>1 DEF Draining
  <2>2. \A d \in Clients : Draining(d)' =>
            \A k \in 1..Len(queued') : queued'[k][1] = d => k <= Len(issued')
    BY <1>1, <1>2, <1>3, <2>1 DEF DrainedIssued
  <2> QED
    BY <1>1, <2>2 DEF DrainedIssued
<1> QED
  BY <1>4, <1>5, <1>6, <1>7, <1>8, <1>9, <1>10, <1>11

(* queue_front moves on. *)
LEMMA BumpFrontBase ==
    ASSUME BaseInv, NEW c \in Clients, BumpFront(c)
    PROVE  BaseInv'
<1> USE DEF BaseInv
<1>1. /\ UNCHANGED <<queue, queue_back, queue_fill, mutex, stat, dm_wfi, irq, clr,
                     dma, dmcore, call, calls, queued, issued, completed>>
      /\ pc[c] = "bumpfront" /\ pc'[c] = "unlock"
      /\ \A d \in Clients \ {c} : pc'[d] = pc[d]
  BY DEF BumpFront, Goto, TypeOK
<1>2. queue_front' = IF queue_front + 1 = QueueSize THEN 0 ELSE queue_front + 1
  BY NextSlot DEF BumpFront, TypeOK
<1>3. TypeOK'
  <2>1. queue_front' \in 0..(QueueSize - 1)
    BY <1>2, DmAssumption DEF TypeOK
  <2>2. pc' \in [Clients -> Places]
    BY DEF BumpFront, Goto, TypeOK
  <2> QED
    BY <1>1, <2>1, <2>2 DEF TypeOK, stat, dmcore
<1>4. InFunction'
  BY <1>1 DEF InFunction
<1>5. MutualExclusion'
  <2>1. \A d \in Clients : HoldsMutex(d)' <=> HoldsMutex(d)
    BY <1>1 DEF HoldsMutex
  <2> QED
    BY <1>1, <2>1 DEF MutualExclusion
<1>6. WfiCounts' /\ FillCounts'
  BY <1>1 DEF WfiCounts, FillCounts, dmcore
<1>7. SlotsWritten'
  <2>1. Inserting /\ ~Inserting'
    BY <1>1 DEF Inserting, MutualExclusion, HoldsMutex
  <2>2. \A d \in Clients : pc'[d] # "bumpfill"
    BY <1>1 DEF MutualExclusion, HoldsMutex
  <2>3. Len(queued) \in Nat /\ QueueSize \in Nat
    BY DmAssumption DEF TypeOK
  <2>4. Len(queued) - 1 < QueueSize => queue_front = Len(queued) - 1
    BY <2>1 DEF SlotsWritten
  <2>5. Len(queued) < QueueSize => queue_front' = Len(queued)
    BY <1>2, <2>3, <2>4
  <2> QED
    BY <1>1, <2>1, <2>2, <2>3, <2>5 DEF SlotsWritten, dmcore
<1>8. FillBounded'
  <2>1. Pending' = Pending
    BY <1>1 DEF Pending
  <2> QED
    BY <1>1, <2>1 DEF FillBounded
<1>9. AnswersRequest'
  <2>1. \A d \in Clients : Asking(d) => Asking(d)'
    BY <1>1 DEF Asking
  <2> QED
    BY <1>1, <2>1 DEF AnswersRequest, stat, dmcore
<1>10. DrainedIssued'
  <2>1. \A d \in Clients : Draining(d)' => Draining(d)
    BY <1>1 DEF Draining, InFunction
  <2> QED
    BY <1>1, <2>1 DEF DrainedIssued
<1> QED
  BY <1>3, <1>4, <1>5, <1>6, <1>7, <1>8, <1>9, <1>10

(* The mutex is released by the client that holds it. *)
LEMMA UnlockBase ==
    ASSUME BaseInv, NEW c \in Clients, Unlock(c)
    PROVE  BaseInv'
<1> USE DEF BaseInv
<1>1. /\ UNCHANGED <<ring, stat, dm_wfi, irq, clr, dma, dmcore, call, calls,
                     queued, issued, completed>>
      /\ pc[c] = "unlock" /\ pc'[c] = "app" /\ mutex' = 0
      /\ \A d \in Clients \ {c} : pc'[d] = pc[d]
  BY DEF Unlock, Goto, TypeOK
<1>2. TypeOK'
  BY <1>1 DEF Unlock, Goto, TypeOK, ring, stat, dmcore
<1>3. InFunction'
  BY <1>1 DEF InFunction
<1>4. MutualExclusion'
  <2>1. \A d \in Clients : ~HoldsMutex(d)'
    BY <1>1 DEF MutualExclusion, HoldsMutex
  <2> QED
    BY <2>1 DEF MutualExclusion
<1>5. WfiCounts' /\ FillCounts'
  BY <1>1 DEF WfiCounts, FillCounts, ring, dmcore
<1>6. SlotsWritten'
  <2>1. Inserting' <=> Inserting
    BY <1>1 DEF Inserting
  <2>2. \A d \in Clients : pc'[d] = "bumpfill" =>
            pc[d] = "bumpfill" /\ Task(d)' = Task(d)
    BY <1>1 DEF Task
  <2> QED
    BY <1>1, <2>1, <2>2 DEF SlotsWritten, ring, dmcore
<1>7. FillBounded'
  <2>1. Pending' = Pending
    BY <1>1 DEF Pending
  <2> QED
    BY <1>1, <2>1 DEF FillBounded, ring
<1>8. AnswersRequest'
  <2>1. \A d \in Clients : Asking(d) => Asking(d)'
    BY <1>1 DEF Asking
  <2> QED
    BY <1>1, <2>1 DEF AnswersRequest, stat, dmcore
<1>9. DrainedIssued'
  <2>1. \A d \in Clients : Draining(d)' => Draining(d)
    BY <1>1 DEF Draining
  <2> QED
    BY <1>1, <2>1 DEF DrainedIssued
<1> QED
  BY <1>2, <1>3, <1>4, <1>5, <1>6, <1>7, <1>8, <1>9

(* The request: stat_pvalid is cleared, then stat_q is written.  Nobody    *)
(* else asks meanwhile, so the DM core is not about to answer.             *)
LEMMA RequestBase ==
    ASSUME BaseInv, NEW c \in Clients, Invalidate(c) \/ Request(c)
    PROVE  BaseInv'
<1> USE DEF BaseInv
<1>1. /\ UNCHANGED <<ring, mutex, dm_wfi, irq, clr, dma, dmcore, call, calls,
                     queued, issued, completed>>
      /\ \/ pc[c] = "invalidate" /\ pc'[c] = "request"
            /\ stat_pvalid' = 0 /\ stat_q' = stat_q
         \/ pc[c] = "request" /\ pc'[c] = "wake" /\ stat_pvalid' = stat_pvalid
      /\ \A d \in Clients \ {c} : pc'[d] = pc[d]
  BY DEF Invalidate, Request, Goto, TypeOK
<1>2. pc[c] = "request" =>
          \/ call[c] = "wait" /\ stat_q' = STAT_WAIT_IDLE
          \/ call[c] = "ready" /\ stat_q' = STAT_READY
          \/ call[c] = "exit" /\ stat_q' = STAT_EXIT
  BY DEF Invalidate, Request, InFunction
<1>3. TypeOK'
  <2>1. stat_q' \in 0..3 /\ stat_pvalid' \in {0, 1}
    BY <1>1, <1>2 DEF TypeOK, STAT_WAIT_IDLE, STAT_READY, STAT_EXIT
  <2>2. pc' \in [Clients -> Places]
    BY DEF Invalidate, Request, Goto, TypeOK
  <2> QED
    BY <1>1, <2>1, <2>2 DEF TypeOK, ring, dmcore
<1>4. InFunction'
  BY <1>1, <1>2 DEF InFunction
<1>5. MutualExclusion'
  <2>1. \A d \in Clients : HoldsMutex(d)' <=> HoldsMutex(d)
    BY <1>1 DEF HoldsMutex, InFunction
  <2> QED
    BY <1>1, <2>1 DEF MutualExclusion
<1>6. WfiCounts' /\ FillCounts'
  BY <1>1 DEF WfiCounts, FillCounts, ring, dmcore
<1>7. SlotsWritten'
  <2>1. Inserting' <=> Inserting
    BY <1>1 DEF Inserting
  <2>2. \A d \in Clients : pc'[d] = "bumpfill" =>
            pc[d] = "bumpfill" /\ Task(d)' = Task(d)
    BY <1>1 DEF Task
  <2> QED
    BY <1>1, <2>1, <2>2 DEF SlotsWritten, ring, dmcore
<1>8. FillBounded'
  <2>1. Pending' = Pending
    BY <1>1 DEF Pending
  <2> QED
    BY <1>1, <2>1 DEF FillBounded, ring
<1>9. AnswersRequest'
  <2>1. \A d \in Clients : Asking(d) => Asking(d)'
    BY <1>1 DEF Asking
  <2>2. CASE pc[c] = "invalidate" \/ call[c] # "exit"
    <3>1. \A d \in Clients : ~Asking(d)
      BY <1>1, <2>2 DEF Asking, MutualExclusion, HoldsMutex, InFunction
    <3>2. /\ dmpc \notin {"idle", "pvalid"}
          /\ stat_q \in {STAT_WAIT_IDLE, STAT_READY} => dmpc = "clrq"
      BY <3>1 DEF AnswersRequest
    <3>3. CASE pc[c] = "invalidate"
      BY <1>1, <3>2, <3>3 DEF AnswersRequest, dmcore
    <3>4. CASE pc[c] = "request"
      <4>1. stat_pvalid' = 0 /\ Asking(c)' /\ call'[c] = call[c]
        BY <1>1, <1>2, <2>2, <3>4 DEF AnswersRequest, Asking
      <4>2. call'[c] = "wait" <=> stat_q' = STAT_WAIT_IDLE
        BY <1>1, <1>2, <2>2, <3>4 DEF STAT_WAIT_IDLE, STAT_READY
      <4> QED
        BY <1>1, <3>2, <4>1, <4>2 DEF AnswersRequest, dmcore
    <3> QED
      BY <1>1, <3>3, <3>4
  <2>3. CASE pc[c] = "request" /\ call[c] = "exit"
    <3>1. stat_q' \notin {STAT_WAIT_IDLE, STAT_READY}
      BY <1>2, <2>3 DEF STAT_WAIT_IDLE, STAT_READY, STAT_EXIT
    <3> QED
      BY <1>1, <2>1, <2>3, <3>1 DEF AnswersRequest, dmcore
  <2> QED
    BY <1>1, <2>2, <2>3
<1>10. DrainedIssued'
  <2>1. \A d \in Clients : Draining(d)' => Draining(d)
    BY <1>1 DEF Draining
  <2> QED
    BY <1>1, <2>1 DEF DrainedIssued
<1> QED
  BY <1>3, <1>4, <1>5, <1>6, <1>7, <1>8, <1>9, <1>10

(* Nothing happens. *)
LEMMA StutterBase ==
    ASSUME BaseInv, UNCHANGED vars
    PROVE  BaseInv'
<1> USE DEF BaseInv, vars, ring, stat, dmcore, client
<1>1. TypeOK' /\ InFunction' /\ WfiCounts' /\ FillCounts'
  BY DEF TypeOK, InFunction, WfiCounts, FillCounts
<1>2. MutualExclusion' /\ AnswersRequest'
  BY DEF MutualExclusion, HoldsMutex, AnswersRequest, Asking
<1>3. SlotsWritten' /\ FillBounded' /\ DrainedIssued'
  BY DEF SlotsWritten, Inserting, Task, FillBounded, Pending, DrainedIssued,
         Draining
<1> QED
  BY <1>1, <1>2, <1>3

(* A step is one of those above. *)
LEMMA Steps ==
    ASSUME [Next]_vars
    PROVE  \/ DmControl \/ DmIssue \/ DmBump \/ DmAnswer \/ DmClearRequest
           \/ IrqCleared \/ DmaComplete
           \/ \E c \in Clients : \E f \in Calls : CallFunction(c, f)
           \/ \E c \in Clients :
                  \/ ClientWaits(c) \/ Lock(c) \/ Insert(c) \/ BumpFill(c)
                  \/ BumpFront(c) \/ Unlock(c) \/ Invalidate(c) \/ Request(c)
           \/ UNCHANGED vars
BY DEF Next, DmStep, ClientStep, DmControl, ClientWaits

(* BaseInv is inductive. *)
LEMMA NextBase == BaseInv /\ [Next]_vars => BaseInv'
<1> SUFFICES ASSUME BaseInv, [Next]_vars PROVE BaseInv'
  OBVIOUS
<1> QED
  BY Steps, DmControlBase, DmIssueBase, DmBumpBase, DmAnswerBase,
     IrqClearedBase, DmaCompleteBase, CallFunctionBase, ClientWaitsBase, LockBase,
     InsertBase, BumpFillBase, BumpFrontBase, UnlockBase, RequestBase, StutterBase

(* Whatever the number of clients, the data mover (dm.h) keeps BaseInv:    *)
(* the mutex excludes, queue_fill counts, no slot is read before it is     *)
(* written, and the DM core answers no request but the one that stands.    *)
THEOREM BaseInvariance == Spec => []BaseInv
BY InitBase, NextBase, PTL DEF Spec

-----------------------------------------------------------------------------
(* The order of the ring.                                                  *)
RingOrder ==
    QueueNotOverfull /\ RingHoldsQueued /\ FrontAfterLast /\ IssuedInOrder

(* A step that does not touch the ring keeps its order. *)
LEMMA OrderFrame ==
    ASSUME RingOrder, UNCHANGED <<ring, queued, issued>>,
           dmpc = "bump" <=> dmpc' = "bump", Inserting <=> Inserting'
    PROVE  RingOrder'
<1>1. QueueNotOverfull' /\ IssuedInOrder'
  BY DEF RingOrder, QueueNotOverfull, IssuedInOrder, ring
<1>2. RingHoldsQueued'
  BY DEF RingOrder, RingHoldsQueued, Slot, ring
<1>3. FrontAfterLast'
  BY DEF RingOrder, FrontAfterLast, Slot, ring
<1> QED
  BY <1>1, <1>2, <1>3 DEF RingOrder

(* The slots behind the one taken off are the same ones. *)
LEMMA SlotsShift ==
    ASSUME BaseInv, DmBump, NEW j \in 0..(QueueSize - 1)
    PROVE  Slot(j)' = Slot(j + 1)
<1>1. queue_back' = IF queue_back + 1 = QueueSize THEN 0 ELSE queue_back + 1
  BY NextSlot DEF DmBump, BaseInv, TypeOK
<1>2. queue_back \in 0..(QueueSize - 1) /\ QueueSize \in Nat \ {0}
  BY DmAssumption DEF BaseInv, TypeOK
<1> QED
  BY <1>1, <1>2 DEF Slot

(* Slots that are less than a round apart are different, and the next one  *)
(* is one step on.                                                         *)
LEMMA SlotsApart ==
    ASSUME BaseInv, NEW j \in 0..(QueueSize - 1)
    PROVE  /\ Slot(j) \in 0..(QueueSize - 1)
           /\ \A i \in 0..(QueueSize - 1) : Slot(i) = Slot(j) => i = j
           /\ (Slot(j) + 1) % QueueSize = Slot(j + 1)
<1>1. queue_back \in 0..(QueueSize - 1) /\ QueueSize \in Nat \ {0}
  BY DmAssumption DEF BaseInv, TypeOK
<1>2. Slot(j) \in 0..(QueueSize - 1)
  BY <1>1 DEF Slot
<1>3. \A i \in 0..(QueueSize - 1) : Slot(i) = Slot(j) => i = j
  BY <1>1 DEF Slot
<1>4. (Slot(j) + 1) % QueueSize = Slot(j + 1)
  BY <1>1, <1>2, NextSlot DEF Slot
<1> QED
  BY <1>2, <1>3, <1>4

(* The DM core starts the oldest queued task. *)
LEMMA DmIssueOrder ==
    ASSUME BaseInv, RingOrder, DmIssue
    PROVE  RingOrder'
<1> USE DEF RingOrder
<1>1. /\ UNCHANGED <<ring, client, queued>>
      /\ dmpc = "issue" /\ dmpc' = "bump"
      /\ issued' = Append(issued, queue[queue_back])
  BY DEF DmIssue
<1>2. /\ Len(issued) \in Nat /\ Len(queued) \in Nat /\ queue_fill \in Nat
      /\ queue_back \in 0..(QueueSize - 1) /\ QueueSize \in Nat \ {0}
      /\ queue_fill > 0 /\ queue_fill + Len(issued) = Len(queued)
  BY <1>1, DmAssumption DEF BaseInv, TypeOK, FillCounts
<1>3. queue[queue_back] = queued[Len(issued) + 1]
  <2>1. Slot(0) = queue_back
    BY <1>2 DEF Slot
  <2>2. queue[Slot(0)] = queued[Len(issued) + 1]
    BY <1>1, <1>2 DEF RingHoldsQueued
  <2> QED
    BY <2>1, <2>2
<1>4. /\ Len(issued') = Len(issued) + 1
      /\ \A k \in 1..Len(issued) : issued'[k] = issued[k]
      /\ issued'[Len(issued) + 1] = queue[queue_back]
  <2>1. issued \in Seq(Tasks)
    BY DEF BaseInv, TypeOK
  <2> QED
    BY <1>1, <2>1
<1>5. IssuedInOrder'
  BY <1>1, <1>2, <1>3, <1>4 DEF IssuedInOrder
<1>6. RingHoldsQueued'
  BY <1>1, <1>2, <1>4 DEF RingHoldsQueued, Slot, ring
<1>7. QueueNotOverfull' /\ FrontAfterLast'
  BY <1>1 DEF QueueNotOverfull, FrontAfterLast, Slot, Inserting, ring, client
<1> QED
  BY <1>5, <1>6, <1>7

(* It takes that task off: all others move up by one. *)
LEMMA DmBumpOrder ==
    ASSUME BaseInv, RingOrder, DmBump
    PROVE  RingOrder'
<1> USE DEF RingOrder
<1>1. /\ UNCHANGED <<queue, queue_front, client, queued, issued>>
      /\ dmpc = "bump" /\ dmpc' = "stat"
      /\ queue_fill' = queue_fill - 1
  BY DEF DmBump
<1>2. /\ Len(issued) \in Nat /\ queue_fill \in Nat /\ QueueSize \in Nat \ {0}
      /\ queue_fill > 0 /\ queue_fill <= QueueSize
  BY <1>1, DmAssumption DEF BaseInv, TypeOK, FillCounts, QueueNotOverfull
<1>3. QueueNotOverfull' /\ IssuedInOrder'
  BY <1>1, <1>2 DEF QueueNotOverfull, IssuedInOrder
<1>4. RingHoldsQueued'
  <2> SUFFICES ASSUME NEW j \in 0..(queue_fill - 2)
               PROVE  queue[Slot(j)'] = queued[Len(issued) + j + 1]
    <3>1. /\ queue' = queue /\ queued' = queued /\ issued' = issued
          /\ dmpc' # "bump"
          /\ 0..(queue_fill' - 1) = 0..(queue_fill - 2)
          /\ Len(issued) - 0 = Len(issued)
      BY <1>1, <1>2
    <3> QED
      BY <3>1, Zenon DEF RingHoldsQueued
  <2>1. Slot(j)' = Slot(j + 1)
    BY <1>2, SlotsShift
  <2>2. queue[Slot(j + 1)] = queued[Len(issued) - 1 + (j + 1) + 1]
    BY <1>1, <1>2 DEF RingHoldsQueued
  <2>3. Len(issued) - 1 + (j + 1) + 1 = Len(issued) + j + 1
    BY <1>2
  <2> QED
    BY <2>1, <2>2, <2>3
<1>5. FrontAfterLast'
  <2>1. Slot(queue_fill)' = Slot(queue_fill)
    <3>1. PICK j \in 0..(QueueSize - 1) : queue_fill' = j /\ queue_fill = j + 1
      BY <1>1, <1>2
    <3>2. Slot(j)' = Slot(j + 1)
      BY SlotsShift
    <3> QED
      BY <3>1, <3>2 DEF Slot
  <2>2. Inserting' <=> Inserting
    BY <1>1 DEF Inserting, client
  <2> QED
    BY <1>1, <2>1, <2>2 DEF FrontAfterLast
<1> QED
  BY <1>3, <1>4, <1>5

(* The slot that a client fills is not one that still holds a task. *)
LEMMA InsertOrder ==
    ASSUME BaseInv, RingOrder, InsertHasRoom, NEW c \in Clients, Insert(c)
    PROVE  RingOrder'
<1> USE DEF RingOrder
<1>1. /\ UNCHANGED <<queue_back, queue_front, queue_fill, dmpc, queued, issued>>
      /\ pc[c] = "insert" /\ pc'[c] = "bumpfill"
      /\ \A d \in Clients \ {c} : pc'[d] = pc[d]
      /\ \A s \in 0..(QueueSize - 1) : s # queue_front => queue'[s] = queue[s]
  BY DEF Insert, Goto, BaseInv, TypeOK, dmcore
<1>2. /\ queue_fill \in Nat /\ queue_fill < QueueSize /\ QueueSize \in Nat
  BY <1>1, DmAssumption DEF InsertHasRoom, BaseInv, TypeOK
<1>3. ~Inserting /\ ~Inserting'
  BY <1>1 DEF Inserting, BaseInv, MutualExclusion, HoldsMutex
<1>4. Slot(queue_fill) = queue_front
  BY <1>3 DEF FrontAfterLast
<1>5. \A j \in 0..(queue_fill - 1) : queue'[Slot(j)] = queue[Slot(j)]
  <2> SUFFICES ASSUME NEW j \in 0..(queue_fill - 1)
               PROVE  queue'[Slot(j)] = queue[Slot(j)]
    OBVIOUS
  <2>1. /\ j \in 0..(QueueSize - 1) /\ queue_fill \in 0..(QueueSize - 1)
        /\ j # queue_fill
    BY <1>2
  <2>2. Slot(j) \in 0..(QueueSize - 1) /\ Slot(j) # Slot(queue_fill)
    BY <2>1, SlotsApart
  <2> QED
    BY <1>1, <1>4, <2>2
<1>6. RingHoldsQueued'
  BY <1>1, <1>5 DEF RingHoldsQueued, Slot
<1>7. FrontAfterLast'
  BY <1>1, <1>3 DEF FrontAfterLast, Slot
<1>8. QueueNotOverfull' /\ IssuedInOrder'
  BY <1>1 DEF QueueNotOverfull, IssuedInOrder
<1> QED
  BY <1>6, <1>7, <1>8

(* The filled slot becomes the last one that holds a task. *)
LEMMA BumpFillOrder ==
    ASSUME BaseInv, RingOrder, InsertHasRoom, NEW c \in Clients, BumpFill(c)
    PROVE  RingOrder'
<1> USE DEF RingOrder
<1>1. /\ UNCHANGED <<queue, queue_back, queue_front, dmpc, issued>>
      /\ pc[c] = "bumpfill" /\ pc'[c] = "bumpfront"
      /\ \A d \in Clients \ {c} : pc'[d] = pc[d]
      /\ queue_fill' = queue_fill + 1
      /\ queued' = Append(queued, Task(c))
  BY DEF BumpFill, Goto, BaseInv, TypeOK, dmcore
<1> DEFINE taken == Len(issued) - (IF dmpc = "bump" THEN 1 ELSE 0)
<1>2. /\ queue_fill \in Nat /\ queue_fill < QueueSize /\ QueueSize \in Nat \ {0}
      /\ Len(queued) \in Nat /\ Len(issued) \in Nat
      /\ taken \in Nat /\ taken + queue_fill = Len(queued)
  BY <1>1, DmAssumption DEF InsertHasRoom, BaseInv, TypeOK, FillCounts
<1>3. /\ Len(queued') = Len(queued) + 1
      /\ \A k \in 1..Len(queued) : queued'[k] = queued[k]
      /\ queued'[Len(queued) + 1] = Task(c)
  <2>1. queued \in Seq(Tasks) /\ Task(c) \in Tasks
    BY <1>1 DEF BaseInv, TypeOK, InFunction, Task, Tasks
  <2> QED
    BY <1>1, <2>1
<1>4. ~Inserting /\ Inserting'
  BY <1>1 DEF Inserting, BaseInv, MutualExclusion, HoldsMutex
<1>5. Slot(queue_fill) = queue_front
  BY <1>4 DEF FrontAfterLast
<1>6. queue[queue_front] = Task(c)
  BY <1>1 DEF BaseInv, SlotsWritten
<1>7. \A j \in 0..queue_fill : queue[Slot(j)] = queued'[taken + j + 1]
  <2> SUFFICES ASSUME NEW j \in 0..queue_fill
               PROVE  queue[Slot(j)] = queued'[taken + j + 1]
    OBVIOUS
  <2>1. CASE j = queue_fill
    BY <1>2, <1>3, <1>5, <1>6, <2>1
  <2>2. CASE j # queue_fill
    <3>1. j \in 0..(queue_fill - 1) /\ taken + j + 1 \in 1..Len(queued)
      BY <1>2, <2>2
    <3>2. queue[Slot(j)] = queued[taken + j + 1]
      BY <3>1 DEF RingHoldsQueued
    <3> QED
      BY <1>3, <3>1, <3>2
  <2> QED
    BY <2>1, <2>2
<1>8. RingHoldsQueued'
  <2>1. queue_fill' - 1 = queue_fill
    BY <1>1, <1>2
  <2> QED
    BY <1>1, <1>7, <2>1 DEF RingHoldsQueued, Slot
<1>9. FrontAfterLast'
  <2>1. queue_fill \in 0..(QueueSize - 1)
    BY <1>2
  <2>2. (queue_front + 1) % QueueSize = Slot(queue_fill + 1)
    BY <1>5, <2>1, SlotsApart
  <2> QED
    BY <1>1, <1>4, <2>2 DEF FrontAfterLast, Slot
<1>10. QueueNotOverfull' /\ IssuedInOrder'
  BY <1>1, <1>2, <1>3 DEF QueueNotOverfull, IssuedInOrder
<1> QED
  BY <1>8, <1>9, <1>10

(* queue_front follows. *)
LEMMA BumpFrontOrder ==
    ASSUME BaseInv, RingOrder, NEW c \in Clients, BumpFront(c)
    PROVE  RingOrder'
<1> USE DEF RingOrder
<1>1. /\ UNCHANGED <<queue, queue_back, queue_fill, dmpc, queued, issued>>
      /\ pc[c] = "bumpfront" /\ pc'[c] = "unlock"
      /\ \A d \in Clients \ {c} : pc'[d] = pc[d]
      /\ queue_front' = (queue_front + 1) % QueueSize
  BY DEF BumpFront, Goto, BaseInv, TypeOK, dmcore
<1>2. Inserting /\ ~Inserting'
  BY <1>1 DEF Inserting, BaseInv, MutualExclusion, HoldsMutex
<1>3. FrontAfterLast'
  BY <1>1, <1>2 DEF FrontAfterLast, Slot
<1>4. QueueNotOverfull' /\ IssuedInOrder' /\ RingHoldsQueued'
  BY <1>1 DEF QueueNotOverfull, IssuedInOrder, RingHoldsQueued, Slot
<1> QED
  BY <1>3, <1>4

(* Every step keeps the order of the ring, if there is room. *)
LEMMA NextOrder ==
    ASSUME BaseInv, RingOrder, InsertHasRoom, [Next]_vars
    PROVE  RingOrder'
<1>1. CASE \/ DmControl \/ DmAnswer \/ DmClearRequest \/ DmaComplete
           \/ IrqCleared \/ UNCHANGED vars
  <2>1. /\ UNCHANGED <<ring, queued, issued, client>>
        /\ dmpc = "bump" <=> dmpc' = "bump"
    BY <1>1, DmControlEffect
       DEF DmAnswer, DmClearRequest, DmaComplete, IrqCleared, vars, dmcore
  <2>2. Inserting <=> Inserting'
    BY <2>1 DEF Inserting, client
  <2> QED
    BY <2>1, <2>2, OrderFrame
<1>2. ASSUME NEW c \in Clients, NEW f \in Calls, CallFunction(c, f)
      PROVE  RingOrder'
  <2>1. UNCHANGED <<ring, queued, issued, dmpc>>
    BY <1>2 DEF CallFunction, dmcore
  <2>2. Inserting <=> Inserting'
    BY <1>2, DmAssumption
    DEF CallFunction, Goto, Entry, Inserting, BaseInv, TypeOK
  <2> QED
    BY <2>1, <2>2, OrderFrame
<1>3. ASSUME NEW c \in Clients,
             ClientWaits(c) \/ Lock(c) \/ Unlock(c) \/ Invalidate(c) \/ Request(c)
      PROVE  RingOrder'
  <2>1. UNCHANGED <<ring, queued, issued, dmpc>>
    BY <1>3, ClientWaitsEffect DEF Lock, Unlock, Invalidate, Request, dmcore
  <2>2. /\ \A d \in Clients \ {c} : pc'[d] = pc[d]
        /\ pc[c] # "bumpfront" /\ pc'[c] # "bumpfront"
    BY <1>3, ClientWaitsEffect
       DEF Lock, Unlock, Invalidate, Request, Goto, BaseInv, TypeOK
  <2>3. Inserting <=> Inserting'
    BY <2>2 DEF Inserting
  <2> QED
    BY <2>1, <2>3, OrderFrame
<1> QED
  BY <1>1, <1>2, <1>3, Steps, DmIssueOrder, DmBumpOrder, InsertOrder,
     BumpFillOrder, BumpFrontOrder

-----------------------------------------------------------------------------
(* The DM core finds the DMA idle: what its client has drained is done. *)
LEMMA IdleCovers ==
    ASSUME BaseInv, IssuedInOrder, NEW c \in Clients, Draining(c), dma = {}
    PROVE  Covered(c)
<1> SUFFICES ASSUME NEW k \in 1..Len(queued), queued[k][1] = c
             PROVE  queued[k] \in completed
  BY DEF Covered
<1>1. Len(queued) \in Nat /\ Len(issued) \in Nat
  BY DEF BaseInv, TypeOK
<1>2. k \in 1..Len(issued)
  BY <1>1 DEF BaseInv, DrainedIssued
<1>3. issued[k] = queued[k] /\ issued[k] \in dma \cup completed
  BY <1>2 DEF BaseInv, DrainedIssued, IssuedInOrder
<1> QED
  BY <1>3

(* A step that tells no client anything new keeps what was said true. *)
LEMMA CoverFrame ==
    ASSUME AnswerCovers, queued' = queued, completed \subseteq completed',
           \A c \in Clients : Told(c)' => Told(c)
    PROVE  AnswerCovers'
BY DEF AnswerCovers, Covered

(* Every step keeps what dm_wait is told true. *)
LEMMA NextCovers ==
    ASSUME BaseInv, RingOrder, AnswerCovers, [Next]_vars
    PROVE  AnswerCovers'
<1>1. CASE DmControl
  <2>1. UNCHANGED <<stat, client, queued, completed>>
    BY <1>1, DmControlEffect
  <2> SUFFICES ASSUME NEW c \in Clients, Told(c)' PROVE Covered(c)
    BY <2>1 DEF AnswerCovers, Covered
  <2>2. CASE dmpc' # "pvalid" \/ pc[c] = "unlock"
    BY <2>1, <2>2 DEF Told, Asking, stat, client, AnswerCovers
  <2>3. CASE dmpc' = "pvalid" /\ pc[c] # "unlock"
    <3>1. call[c] = "wait" /\ Asking(c)
      BY <2>1, <2>3 DEF Told, Asking, stat, client
    <3>2. \A d \in Clients : Asking(d) => d = c
      BY <3>1 DEF Asking, BaseInv, MutualExclusion, HoldsMutex
    <3>3. ~(dmpc = "stat" /\ stat_q = STAT_READY)
      BY <3>1, <3>2 DEF BaseInv, AnswersRequest, STAT_READY, STAT_WAIT_IDLE
    <3>4. dma = {}
      BY <1>1, <2>3, <3>3, DmControlEffect
    <3> QED
      BY <3>1, <3>4, IdleCovers DEF RingOrder, Asking, Draining
  <2> QED
    BY <2>2, <2>3
<1>2. CASE \/ DmIssue \/ DmBump \/ DmAnswer \/ DmClearRequest \/ DmaComplete
           \/ IrqCleared \/ UNCHANGED vars
  <2>1. /\ queued' = queued /\ completed \subseteq completed' /\ client' = client
        /\ \/ stat_pvalid' = stat_pvalid /\ (dmpc' = dmpc \/ dmpc' # "pvalid")
           \/ dmpc = "pvalid"
    BY <1>2 DEF DmIssue, DmBump, DmAnswer, DmClearRequest, DmaComplete, IrqCleared,
                vars, stat, dmcore
  <2>2. \A c \in Clients : Told(c)' => Told(c)
    BY <2>1 DEF Told, Asking, client
  <2> QED
    BY <2>1, <2>2, CoverFrame
<1>3. ASSUME NEW c \in Clients, NEW f \in Calls, CallFunction(c, f)
      PROVE  AnswerCovers'
  <2>1. UNCHANGED <<stat, dmpc, queued, completed>>
    BY <1>3 DEF CallFunction, dmcore
  <2>2. /\ \A d \in Clients \ {c} : pc'[d] = pc[d] /\ call'[d] = call[d]
        /\ call'[c] = f /\ pc'[c] = Entry(f)
    BY <1>3 DEF CallFunction, Goto, BaseInv, TypeOK
  <2>3. \A d \in Clients : Told(d)' => Told(d)
    BY <2>1, <2>2 DEF Told, Asking, Entry, stat
  <2> QED
    BY <2>1, <2>3, CoverFrame
<1>4. ASSUME NEW c \in Clients, ClientWaits(c) \/ Lock(c) \/ Insert(c)
                                    \/ BumpFront(c) \/ Unlock(c) \/ Invalidate(c)
      PROVE  AnswerCovers'
  <2>1. /\ UNCHANGED <<dmpc, call, queued, completed>>
        /\ stat_pvalid' = stat_pvalid \/ stat_pvalid' = 0
        /\ \A d \in Clients \ {c} : pc'[d] = pc[d]
    BY <1>4, ClientWaitsEffect
       DEF Lock, Insert, BumpFront, Unlock, Invalidate, Goto, stat, dmcore,
           BaseInv, TypeOK
  <2>2. Told(c)' => Told(c)
    <3>1. CASE ClientWaits(c)
      BY <3>1, <2>1, ClientWaitsEffect
      DEF Told, Asking, stat, BaseInv, InFunction
    <3>2. CASE Lock(c) \/ Insert(c) \/ BumpFront(c) \/ Unlock(c) \/ Invalidate(c)
      BY <3>2, <2>1 DEF Lock, Insert, BumpFront, Unlock, Invalidate, Goto, Told,
                        Asking, BaseInv, TypeOK, InFunction
    <3> QED
      BY <1>4, <3>1, <3>2
  <2>3. \A d \in Clients : Told(d)' => Told(d)
    BY <2>1, <2>2 DEF Told, Asking
  <2> QED
    BY <2>1, <2>3, CoverFrame
<1>5. ASSUME NEW c \in Clients, BumpFill(c)
      PROVE  AnswerCovers'
  <2>1. /\ UNCHANGED call
        /\ pc[c] = "bumpfill" /\ pc'[c] = "bumpfront" /\ call[c] = "copy"
        /\ \A d \in Clients \ {c} : pc'[d] = pc[d]
    BY <1>5 DEF BumpFill, Goto, BaseInv, TypeOK, InFunction
  <2>2. \A d \in Clients : ~Told(d)'
    BY <2>1 DEF Told, Asking, BaseInv, MutualExclusion, HoldsMutex
  <2> QED
    BY <2>2 DEF AnswerCovers
<1>6. ASSUME NEW c \in Clients, Request(c)
      PROVE  AnswerCovers'
  <2>1. /\ UNCHANGED <<stat_pvalid, dmpc, call, queued, completed>>
        /\ pc[c] = "request" /\ pc'[c] = "wake"
        /\ \A d \in Clients \ {c} : pc'[d] = pc[d]
    BY <1>6 DEF Request, Goto, BaseInv, TypeOK, dmcore
  <2>2. ~Told(c)'
    <3>1. SUFFICES ASSUME call[c] = "wait"
                   PROVE  stat_pvalid # 1 /\ dmpc # "pvalid"
      BY <2>1 DEF Told
    <3>2. \A d \in Clients : ~Asking(d)
      BY <2>1, <3>1 DEF Asking, BaseInv, MutualExclusion, HoldsMutex
    <3> QED
      BY <2>1, <3>1, <3>2 DEF BaseInv, AnswersRequest
  <2>3. \A d \in Clients : Told(d)' => Told(d)
    BY <2>1, <2>2 DEF Told, Asking
  <2> QED
    BY <2>1, <2>3, CoverFrame
<1> QED
  BY <1>1, <1>2, <1>3, <1>4, <1>5, <1>6, Steps

(* Both invariants together are inductive, as long as there is room. *)
LEMMA NextIInv ==
    ASSUME IInv, InsertHasRoom, [Next]_vars
    PROVE  IInv'
<1>1. BaseInv'
  BY NextBase DEF IInv
<1>2. RingOrder' /\ AnswerCovers'
  BY NextOrder, NextCovers DEF IInv, RingInv, RingOrder
<1> QED
  BY <1>1, <1>2 DEF IInv, RingInv, RingOrder

-----------------------------------------------------------------------------
(* Each further client can overfill the ring by at most one task: what the *)
(* poll outside the lock (dm.h) costs.                                     *)
THEOREM OverfillBounded ==
    Spec => [](queue_fill < QueueSize + Cardinality(Clients))
<1>1. BaseInv => queue_fill < QueueSize + Cardinality(Clients)
  BY PendingCount, DmAssumption DEF BaseInv, TypeOK, FillBounded
<1> QED
  BY <1>1, BaseInvariance, PTL

(* However many clients use the data mover: as long as the client that     *)
(* fills a slot has a free one, the ring holds the queued tasks in their   *)
(* order, every task is started once and in that order, and dm_wait is     *)
(* told the truth.                                                         *)
THEOREM RingWithRoom == Spec /\ []InsertHasRoom => []IInv
<1>1. Init => IInv
  BY InitBase DEF IInv
<1> QED
  BY <1>1, NextIInv, PTL DEF Spec

(* One client always has room: nobody fills the ring after its poll. *)
LEMMA OneClientHasRoom ==
    ASSUME Cardinality(Clients) = 1, BaseInv
    PROVE  InsertHasRoom
<1> SUFFICES ASSUME NEW c \in Clients, pc[c] \in {"insert", "bumpfill"}
             PROVE  queue_fill < QueueSize
  BY DEF InsertHasRoom
<1>1. c \in Pending
  BY DEF Pending, BaseInv, InFunction
<1>2. Cardinality(Pending) # 0
  BY <1>1, PendingCount, FS_EmptySet
<1> QED
  BY <1>2, PendingCount, DmAssumption DEF BaseInv, TypeOK, FillBounded

(* A single client: the data mover keeps the whole invariant. *)
THEOREM Invariance ==
    ASSUME Cardinality(Clients) = 1
    PROVE  Spec => []IInv
BY BaseInvariance, OneClientHasRoom, RingWithRoom, PTL

(* The copies of a single client are started once each and in the order in *)
(* which they were queued.                                                 *)
THEOREM InOrder ==
    ASSUME Cardinality(Clients) = 1
    PROVE  Spec => []IssuedInOrder
<1>1. IInv => IssuedInOrder
  BY DEF IInv, RingInv
<1> QED
  BY <1>1, Invariance, PTL

(* When dm_wait returns to a client, every copy that client had queued is  *)
(* complete, provided no slot was filled while the ring was full.          *)
THEOREM WaitIsHonest == Spec /\ []InsertHasRoom => []WaitCovers
<1>1. IInv => WaitCovers
  BY DEF IInv, RingInv, AnswerCovers, Told, Covered, WaitCovers
<1> QED
  BY <1>1, RingWithRoom, PTL
=============================================================================
