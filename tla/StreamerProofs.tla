--------------------------- MODULE StreamerProofs ---------------------------
(***************************************************************************)
(* Proofs about the SNAX streamer, for any number of ports, loops and jobs *)
(* and any depth of the FIFOs and of the accelerator.  In this order: the  *)
(* units of a direction and their handshakes; how far the reader is ahead  *)
(* of the writer; the data between them; what the core has configured; the *)
(* counters of the loops as digits of the number of an iteration; and from *)
(* these the streams of all jobs.                                          *)
(***************************************************************************)
EXTENDS Streamer, DataTheorems

(* The pointer whose port p is granted has a response, in a register or on *)
(* the wire.                                                               *)
Got(p) == p \in DOMAIN rsp \/ rspbuf.valid_reg[p]

Reg(m, p) == mover[m].req_ready_reg[p]

(* The word of a pointer the reader has done with waits for the FIFO. *)
WordWaits == \A p \in Ports : Got(p) /\ ~Reg("reader", p)

(* All that is known of the fields of an address generation unit. *)
IsAgu(a) ==
    /\ a = [busy |-> a.busy, loopBounds |-> a.loopBounds, strides |-> a.strides,
            ptr |-> a.ptr, loop_counters |-> a.loop_counters]
    /\ a.busy \in BOOLEAN

IsSeq(s) == \E S : s \in Seq(S)

Shape ==
    /\ busy \in BOOLEAN /\ offer \in BOOLEAN
    /\ \A m \in Movers :
          /\ IsAgu(agu[m])
          /\ datamover_states[m] \in BOOLEAN
          /\ mover[m].busy \in BOOLEAN
          /\ \A p \in Ports : Reg(m, p) \in BOOLEAN
    /\ \A p \in Ports : rspbuf.valid_reg[p] \in BOOLEAN
    /\ IsSeq(rfifo) /\ IsSeq(wfifo) /\ IsSeq(acc)
    /\ offer => acc # <<>>

(* The units of a mover work together, and none when the streamer is idle. *)
UnitsTogether ==
    \A m \in Movers :
        /\ mover[m].busy <=> agu[m].busy
        /\ datamover_states[m] <=> agu[m].busy
        /\ agu[m].busy => busy
        /\ \A p \in Ports : Reg(m, p) => agu[m].busy

(* The writer is done with a pointer when its last port is granted. *)
WriterMoves == \E p \in Ports : ~Reg("writer", p)

(* The ports with a response are those that were granted for the pointer,  *)
(* or there is a response of all ports for the pointer before it.          *)
ResponsesPaired ==
    WordWaits \/ \A p \in Ports : Got(p) <=> Reg("reader", p)

ControlInv == Shape /\ UnitsTogether /\ WriterMoves /\ ResponsesPaired

-----------------------------------------------------------------------------
(* There is a port. *)
LEMMA PortsExist == 0 \in Ports
BY MoverAssumption DEF Ports

(* Appending to a sequence. *)
LEMMA AppendSeq ==
    ASSUME NEW s, IsSeq(s), NEW x
    PROVE  /\ IsSeq(Append(s, x))
           /\ Len(Append(s, x)) = Len(s) + 1
           /\ Append(s, x) # <<>>
           /\ Head(Append(s, x)) = IF s = <<>> THEN x ELSE Head(s)
<1>1. PICK S : s \in Seq(S)
  BY DEF IsSeq
<1>2. s \in Seq(S \cup {x})
  BY <1>1
<1>3. Append(s, x) \in Seq(S \cup {x})
  BY <1>2
<1>4. /\ Len(Append(s, x)) = Len(s) + 1
      /\ Append(s, x)[1] = IF Len(s) = 0 THEN x ELSE s[1]
      /\ Len(s) \in Nat /\ (Len(s) = 0 <=> s = <<>>)
  BY <1>2
<1>5. Head(Append(s, x)) = Append(s, x)[1] /\ (s # <<>> => Head(s) = s[1])
  BY <1>2, <1>3, <1>4
<1>6. IsSeq(Append(s, x))
  BY <1>3 DEF IsSeq
<1>7. Append(s, x) # <<>>
  BY <1>4
<1> QED
  BY <1>4, <1>5, <1>6, <1>7

(* Taking the first element away. *)
LEMMA TailSeq ==
    ASSUME NEW s, IsSeq(s), s # <<>>
    PROVE  /\ IsSeq(Tail(s))
           /\ Len(s) \in Nat \ {0}
           /\ Len(Tail(s)) = Len(s) - 1
<1>1. PICK S : s \in Seq(S)
  BY DEF IsSeq
<1>2. Tail(s) \in Seq(S)
  BY <1>1
<1> QED
  BY <1>1, <1>2 DEF IsSeq

(* The length of a sequence. *)
LEMMA SeqLen ==
    ASSUME NEW s, IsSeq(s)
    PROVE  Len(s) \in Nat /\ (Len(s) = 0 <=> s = <<>>)
BY DEF IsSeq

(* A cycle of the FIFO: what it holds afterwards. *)
LEMMA FifoCycle ==
    ASSUME NEW f, IsSeq(f), NEW in_valid \in BOOLEAN, NEW word,
           NEW out_ready \in BOOLEAN, out_ready => FifoValid(f, in_valid)
    PROVE  LET g == FifoNext(f, in_valid, word, out_ready)
           IN  /\ IsSeq(g)
               /\ Len(g) = Len(f) + (IF in_valid /\ FifoReady(f) THEN 1 ELSE 0)
                                  - (IF out_ready THEN 1 ELSE 0)
<1> DEFINE w == FifoWith(f, in_valid, word)
<1>1. /\ IsSeq(w)
      /\ Len(w) = Len(f) + IF in_valid /\ FifoReady(f) THEN 1 ELSE 0
      /\ Len(f) \in Nat
  BY AppendSeq, SeqLen DEF FifoWith
<1>2. out_ready => w # <<>>
  BY <1>1, SeqLen, MoverAssumption DEF FifoValid, FifoReady
<1>3. FifoNext(f, in_valid, word, out_ready) = IF out_ready THEN Tail(w) ELSE w
  BY <1>2 DEF FifoNext
<1> QED
  BY <1>1, <1>2, <1>3, TailSeq

(* A word at the output that is not taken stays there. *)
LEMMA FifoHolds ==
    ASSUME NEW f, IsSeq(f), NEW in_valid \in BOOLEAN, NEW word,
           FifoValid(f, in_valid)
    PROVE  LET g == FifoNext(f, in_valid, word, FALSE)
           IN  g # <<>> /\ Head(g) = FifoOut(f, word)
<1>1. /\ Len(f) \in Nat
      /\ Len(f) = 0 <=> f = <<>>
      /\ f = <<>> => in_valid /\ FifoReady(f)
  BY SeqLen, MoverAssumption DEF FifoValid, FifoReady
<1> QED
  BY <1>1, AppendSeq DEF FifoNext, FifoWith, FifoOut

-----------------------------------------------------------------------------
AllLast(a) == \A i \in Dims : CounterLast(a, i)

Zeros == [i \in Dims |-> 0]

(* A cycle of an address generation unit. *)
LEMMA AguCycle ==
    ASSUME NEW a, IsAgu(a), NEW start \in BOOLEAN, NEW config,
           NEW ready \in BOOLEAN, start => ~a.busy
    PROVE  LET b == AguNext(a, start, config, ready)
           IN  /\ IsAgu(b)
               /\ b.busy <=> IF a.busy THEN ~(ready /\ AllLast(a)) ELSE start
               /\ a.busy /\ ~ready => b = a
               /\ b.loopBounds = IF start THEN config.loopBounds ELSE a.loopBounds
               /\ b.strides = IF start THEN config.strides ELSE a.strides
               /\ b.ptr = IF start THEN config.ptr ELSE a.ptr
               /\ b.loop_counters =
                      IF ~a.busy THEN Zeros
                      ELSE IF ready THEN CountersNext(a) ELSE a.loop_counters
<1> DEFINE b == AguNext(a, start, config, ready)
<1>1. AddrGenDone(a, ready) \in BOOLEAN
      /\ (a.busy => (AddrGenDone(a, ready) <=> ready /\ AllLast(a)))
  BY DEF AddrGenDone, AllLast
<1>2. CASE ~a.busy /\ start
  <2>1. b = [busy |-> TRUE, loopBounds |-> config.loopBounds,
             strides |-> config.strides, ptr |-> config.ptr,
             loop_counters |-> Zeros]
    BY <1>2 DEF AguNext, Zeros
  <2>2. IsAgu(b) /\ b.busy = TRUE
    BY <2>1 DEF IsAgu
  <2>3. /\ b.loopBounds = config.loopBounds /\ b.loop_counters = Zeros
        /\ b.strides = config.strides /\ b.ptr = config.ptr
    BY <2>1
  <2> QED
    BY <1>2, <2>2, <2>3, Zenon
<1>3. CASE ~a.busy /\ ~start
  <2>1. b = [a EXCEPT !.loop_counters = Zeros]
    BY <1>3 DEF AguNext, Zeros
  <2>2. b = [busy |-> a.busy, loopBounds |-> a.loopBounds, strides |-> a.strides,
             ptr |-> a.ptr, loop_counters |-> Zeros]
    BY <2>1 DEF IsAgu
  <2> QED
    BY <1>3, <2>2 DEF IsAgu
<1>4. CASE a.busy /\ ready
  <2>1. b = [a EXCEPT !.busy = ~AddrGenDone(a, ready),
                      !.loop_counters = CountersNext(a)]
    BY <1>4 DEF AguNext
  <2>2. b = [busy |-> ~AddrGenDone(a, ready), loopBounds |-> a.loopBounds,
             strides |-> a.strides, ptr |-> a.ptr,
             loop_counters |-> CountersNext(a)]
    BY <2>1 DEF IsAgu
  <2>3. b.busy = ~AddrGenDone(a, ready)
    BY <2>2
  <2>4. IsAgu(b)
    BY <2>2, <2>3, Zenon DEF IsAgu
  <2>5. /\ b.loopBounds = a.loopBounds /\ b.loop_counters = CountersNext(a)
        /\ b.strides = a.strides /\ b.ptr = a.ptr
    BY <2>2
  <2> QED
    BY <1>1, <1>4, <2>3, <2>4, <2>5, Zenon
<1>5. CASE a.busy /\ ~ready
  <2>1. b = a
    BY <1>5 DEF AguNext
  <2> QED
    BY <1>5, <2>1
<1> QED
  BY <1>2, <1>3, <1>4, <1>5 DEF IsAgu

-----------------------------------------------------------------------------
(* The wires of a cycle. *)

Start == ConfigValid(csrm, req, ~busy)

(* A start is passed on only by an idle streamer. *)
LEMMA StartWhenIdle == Start \in BOOLEAN /\ (Start => ~busy)
BY DEF Start, ConfigValid, ReqFire, ReqReady, StartRequest

(* When a mover is done with its pointer, and which ports can be granted. *)
LEMMA Wires ==
    ASSUME ControlInv, NEW granted \in Grants, NEW m \in Movers
    PROVE  /\ PtrReady(m, granted[m]) \in BOOLEAN
           /\ PtrReady(m, granted[m]) <=>
                 /\ agu[m].busy
                 /\ \A p \in Ports : p \in granted[m] \/ Reg(m, p)
                 /\ m = "reader" => FifoReady(rfifo)
           /\ granted[m] \subseteq Ports
           /\ \A p \in granted[m] :
                 /\ agu[m].busy /\ ~Reg(m, p)
                 /\ m = "reader" => FifoReady(rfifo) \/ \E q \in Ports : ~Got(q)
                 /\ m = "writer" => FifoValid(wfifo, offer)
<1> USE DEF ControlInv
<1>1. granted[m] \subseteq Requests(m)
  BY DEF Grants
<1>2. mover[m].busy <=> agu[m].busy
  BY DEF UnitsTogether
<1>3. CASE m = "reader"
  BY <1>1, <1>2, <1>3
  DEF PtrReady, ReaderPtrReady, TcdmReqReady, Reg, Requests, ReaderReqValid,
      PtrValid, TcdmRspValid, Got
<1>4. CASE m = "writer"
  BY <1>1, <1>2, <1>4
  DEF PtrReady, WriterPtrReady, TcdmReqReady, Reg, Requests, WriterReqValid,
      PtrValid
<1> QED
  BY <1>3, <1>4 DEF Movers

-----------------------------------------------------------------------------
(* A cycle of the units of one mover. *)

(* The address generation unit of a direction: it starts with the          *)
(* streamer, advances when the mover is done with its pointer, and ends    *)
(* with the last.                                                          *)
LEMMA AguOfCycle ==
    ASSUME ControlInv, NEW granted \in Grants, NEW take \in Takes,
           Cycle(granted, take), NEW m \in Movers
    PROVE  LET ready == PtrReady(m, granted[m])
           IN  /\ IsAgu(agu'[m])
               /\ agu'[m].busy <=>
                     IF agu[m].busy THEN ~(ready /\ AllLast(agu[m])) ELSE Start
               /\ agu[m].busy /\ ~ready => agu'[m] = agu[m]
               /\ agu'[m].loopBounds =
                     IF Start THEN Config(csrm.csr, m).loopBounds
                              ELSE agu[m].loopBounds
               /\ agu'[m].strides =
                     IF Start THEN Config(csrm.csr, m).strides ELSE agu[m].strides
               /\ agu'[m].ptr =
                     IF Start THEN Config(csrm.csr, m).ptr ELSE agu[m].ptr
               /\ agu'[m].loop_counters =
                     IF ~agu[m].busy THEN Zeros
                     ELSE IF ready THEN CountersNext(agu[m])
                     ELSE agu[m].loop_counters
<1> DEFINE ready == PtrReady(m, granted[m])
<1>1. agu'[m] = AguNext(agu[m], Start, Config(csrm.csr, m), ready)
  BY DEF Cycle, StreamerStep, Start
<1>2. Start => ~agu[m].busy
  BY StartWhenIdle DEF ControlInv, UnitsTogether
<1>3. IsAgu(agu[m]) /\ ready \in BOOLEAN /\ Start \in BOOLEAN
  BY Wires, StartWhenIdle DEF ControlInv, Shape
<1> QED
  BY <1>1, <1>2, <1>3, AguCycle

(* The data mover and the state bit follow it; a port is marked as granted *)
(* until the mover is done with the pointer.                               *)
LEMMA MoverOfCycle ==
    ASSUME ControlInv, NEW granted \in Grants, NEW take \in Takes,
           Cycle(granted, take), NEW m \in Movers
    PROVE  LET ready == PtrReady(m, granted[m])
           IN  /\ mover'[m].busy \in BOOLEAN
               /\ datamover_states'[m] \in BOOLEAN
               /\ mover'[m].busy <=> agu'[m].busy
               /\ datamover_states'[m] <=> agu'[m].busy
               /\ mover'[m].spatialStrides =
                     IF Start THEN <<csrm.csr[SpatialStrideCsr(m)]>>
                              ELSE mover[m].spatialStrides
               /\ \A p \in Ports :
                     /\ Reg(m, p)' \in BOOLEAN
                     /\ Reg(m, p)' <=> ~ready /\ (p \in granted[m] \/ Reg(m, p))
<1> DEFINE ready == PtrReady(m, granted[m])
           done == AddrGenDone(agu[m], ready)
<1> USE DEF ControlInv
<1>1. /\ done <=> agu[m].busy /\ ready /\ AllLast(agu[m])
      /\ done => TcdmReqReady(mover[m], granted[m])
      /\ done \in BOOLEAN
  BY Wires DEF AddrGenDone, AllLast, TcdmReqReady, Reg
<1>2. /\ mover[m].busy <=> agu[m].busy
      /\ datamover_states[m] <=> agu[m].busy
      /\ mover[m].busy \in BOOLEAN /\ datamover_states[m] \in BOOLEAN
      /\ Start => ~busy /\ ~agu[m].busy
      /\ \A p \in Ports : Reg(m, p) \in BOOLEAN /\ (Reg(m, p) => agu[m].busy)
  BY StartWhenIdle DEF UnitsTogether, Shape
<1>3. /\ mover'[m].busy = IF mover[m].busy THEN ~done ELSE Start
      /\ mover'[m].spatialStrides = IF Start /\ ~mover[m].busy
                                    THEN <<csrm.csr[SpatialStrideCsr(m)]>>
                                    ELSE mover[m].spatialStrides
      /\ mover'[m].req_ready_reg =
            ReadyRegNext(mover[m], agu[m].busy, ready, granted[m])
  BY DEF Cycle, StreamerStep, Start, MoverNext, PtrValid
<1>4. datamover_states'[m] = IF Start /\ ~busy THEN TRUE
                             ELSE /\ datamover_states[m]
                                  /\ ~DataMovementDone(mover[m], done, granted[m])
  BY DEF Cycle, StreamerStep, Start
<1>5. \A p \in Ports : /\ Reg(m, p)' \in BOOLEAN
                       /\ Reg(m, p)' <=> ~ready /\ (p \in granted[m] \/ Reg(m, p))
  BY <1>2, <1>3, Wires DEF ReadyRegNext, Reg
<1>6. agu'[m].busy <=> IF agu[m].busy THEN ~done ELSE Start
  BY <1>1, AguOfCycle
<1>7. datamover_states'[m] <=> IF agu[m].busy THEN ~done ELSE Start
  BY <1>1, <1>2, <1>4, StartWhenIdle DEF DataMovementDone
<1>8. mover'[m].busy \in BOOLEAN /\ datamover_states'[m] \in BOOLEAN
  BY <1>3, <1>4, StartWhenIdle, Zenon
<1> QED
  BY <1>2, <1>3, <1>5, <1>6, <1>7, <1>8, AguOfCycle

Full == TcdmRspValid(rspbuf, rsp)

(* A cycle of the reader's response registers. *)
LEMMA ResponsesOfCycle ==
    ASSUME ControlInv, NEW granted \in Grants, NEW take \in Takes,
           Cycle(granted, take), NEW p \in Ports
    PROVE  /\ rspbuf'.valid_reg[p] \in BOOLEAN
           /\ Got(p)' <=> \/ p \in granted["reader"]
                          \/ Got(p) /\ ~(Full /\ FifoReady(rfifo))
<1>1. DOMAIN rsp' = granted["reader"]
  BY DEF Cycle, TcdmStep
<1>2. rspbuf'.valid_reg[p] = (~(Full /\ FifoReady(rfifo)) /\ Got(p))
  BY DEF Cycle, StreamerStep, RspNext, Full, Got
<1> QED
  BY <1>1, <1>2 DEF Got

One(b) == IF b THEN 1 ELSE 0

(* The writer takes a word only if there is one. *)
LEMMA WriterHasWord ==
    ASSUME ControlInv, NEW granted \in Grants, PtrReady("writer", granted["writer"])
    PROVE  FifoValid(wfifo, offer)
<1>1. PICK p \in Ports : ~Reg("writer", p)
  BY DEF ControlInv, WriterMoves
<1> QED
  BY <1>1, Wires DEF Movers

(* A cycle of the FIFOs and of the accelerator. *)
LEMMA WordsOfCycle ==
    ASSUME ControlInv, NEW granted \in Grants, NEW take \in Takes,
           Cycle(granted, take)
    PROVE  LET push == Full /\ FifoReady(rfifo)
               given == offer /\ FifoReady(wfifo)
               ready == PtrReady("writer", granted["writer"])
           IN  /\ IsSeq(rfifo') /\ IsSeq(wfifo') /\ IsSeq(acc')
               /\ Len(rfifo') = Len(rfifo) + One(push) - One(take)
               /\ Len(acc') = Len(acc) + One(take) - One(given)
               /\ Len(wfifo') = Len(wfifo) + One(given) - One(ready)
               /\ offer' \in BOOLEAN
               /\ offer' => acc' # <<>>
<1> DEFINE given == offer /\ FifoReady(wfifo)
           ready == PtrReady("writer", granted["writer"])
<1> USE DEF ControlInv
<1>1. /\ IsSeq(rfifo) /\ IsSeq(wfifo) /\ IsSeq(acc)
      /\ offer \in BOOLEAN /\ (offer => acc # <<>>)
  BY DEF Shape
<1>2. IsSeq(rfifo') /\ Len(rfifo') = Len(rfifo) + One(Full /\ FifoReady(rfifo))
                                    - One(take)
  <2>1. rfifo' = FifoNext(rfifo, Full, DataFifoInput(rspbuf, rsp), take)
    BY DEF Cycle, StreamerStep, Full
  <2>2. take \in BOOLEAN /\ Full \in BOOLEAN /\ (take => FifoValid(rfifo, Full))
    BY DEF Takes, Full, TcdmRspValid
  <2> QED
    BY <1>1, <2>1, <2>2, FifoCycle DEF One
<1>3. IsSeq(wfifo') /\ Len(wfifo') = Len(wfifo) + One(given) - One(ready)
  <2>1. wfifo' = FifoNext(wfifo, offer, OfferedWord, ready)
    BY DEF Cycle, StreamerStep, Movers
  <2>2. ready \in BOOLEAN
    BY Wires DEF Movers
  <2> QED
    BY <1>1, <2>1, <2>2, WriterHasWord, FifoCycle DEF One
<1>4. PICK k : /\ k = IF given THEN Tail(acc) ELSE acc
               /\ IsSeq(k) /\ Len(k) = Len(acc) - One(given) /\ Len(k) \in Nat
  <2>1. Len(acc) \in Nat
    BY <1>1, SeqLen
  <2>2. CASE given
    <3>1. IsSeq(Tail(acc)) /\ Len(Tail(acc)) = Len(acc) - 1 /\ Len(acc) # 0
      BY <1>1, <2>2, TailSeq
    <3>2. One(given) = 1 /\ Len(acc) - 1 \in Nat
      BY <2>1, <2>2, <3>1 DEF One
    <3> HIDE DEF given
    <3> QED
      BY <2>2, <3>1, <3>2, Zenon
  <2>3. CASE ~given
    BY <1>1, <2>1, <2>3 DEF One
  <2> QED
    BY <2>2, <2>3
<1>5. /\ IsSeq(acc') /\ Len(acc') = Len(acc) + One(take) - One(given)
  <2>1. acc' = IF take THEN Append(k, FifoOut(rfifo, DataFifoInput(rspbuf, rsp)))
                       ELSE k
    BY <1>4 DEF Cycle, AcceleratorStep
  <2>2. Len(acc) \in Nat /\ take \in BOOLEAN
    BY <1>1, SeqLen DEF Takes
  <2>3. IsSeq(acc') /\ Len(acc') = Len(k) + One(take)
    <3>1. CASE take
      <4>1. PICK x : acc' = Append(k, x)
        BY <2>1, <3>1
      <4> QED
        BY <1>4, <3>1, <4>1, AppendSeq DEF One
    <3>2. CASE ~take
      BY <1>4, <2>1, <3>2 DEF One
    <3> QED
      BY <3>1, <3>2
  <2> QED
    BY <1>4, <2>2, <2>3 DEF One
<1>6. offer' \in BOOLEAN /\ (offer' => acc' # <<>>)
  BY DEF Cycle, AcceleratorStep
<1> QED
  BY <1>2, <1>3, <1>5, <1>6

-----------------------------------------------------------------------------
(* ControlInv is inductive. *)

(* The units start idle. *)
LEMMA InitControl == Init => ControlInv
<1> SUFFICES ASSUME Init
             PROVE  ControlInv
  OBVIOUS
<1>1. \A m \in Movers : agu[m] = AguInit /\ mover[m] = MoverInit
                      /\ datamover_states[m] = FALSE
  BY DEF Init
<1>2. \A m \in Movers : IsAgu(agu[m]) /\ agu[m].busy = FALSE
  <2>1. IsAgu(AguInit) /\ AguInit.busy = FALSE
    BY DEF AguInit, IsAgu
  <2> QED
    BY <1>1, <2>1
<1>3. \A m \in Movers : mover[m].busy = FALSE
                      /\ \A p \in Ports : Reg(m, p) = FALSE
  BY <1>1 DEF MoverInit, Reg
<1>4. \A p \in Ports : Got(p) = FALSE /\ rspbuf.valid_reg[p] = FALSE
  BY DEF Init, RspInit, Got
<1>5. IsSeq(rfifo) /\ IsSeq(wfifo) /\ IsSeq(acc)
  BY DEF Init, IsSeq
<1>6. Shape
  BY <1>1, <1>2, <1>3, <1>4, <1>5 DEF Init, Shape
<1>7. UnitsTogether
  BY <1>1, <1>2, <1>3 DEF UnitsTogether
<1>8. WriterMoves /\ ResponsesPaired
  BY <1>3, <1>4, PortsExist DEF WriterMoves, ResponsesPaired, Movers
<1> QED
  BY <1>6, <1>7, <1>8 DEF ControlInv

(* A clock cycle keeps the control invariant. *)
LEMMA CycleControl ==
    ASSUME ControlInv, NEW granted \in Grants, NEW take \in Takes,
           Cycle(granted, take)
    PROVE  ControlInv'
<1> USE DEF ControlInv
<1>1. busy' \in BOOLEAN
  BY StartWhenIdle DEF Cycle, StreamerStep, Start, StreamingFinish
<1>2. Shape'
  BY <1>1, AguOfCycle, MoverOfCycle, ResponsesOfCycle, WordsOfCycle DEF Shape
<1>3. UnitsTogether'
  <2> SUFFICES ASSUME NEW m \in Movers
               PROVE  UnitsTogether!(m)'
    BY DEF UnitsTogether
  <2>1. agu'[m].busy => busy'
    <3>1. busy' = IF busy THEN ~StreamingFinish ELSE Start
      BY DEF Cycle, StreamerStep, Start
    <3>2. agu[m].busy => busy /\ ~StreamingFinish
      BY DEF UnitsTogether, StreamingFinish
    <3>3. ~agu[m].busy /\ agu'[m].busy => Start /\ ~busy
      BY AguOfCycle, StartWhenIdle
    <3> QED
      BY <3>1, <3>2, <3>3
  <2>2. \A p \in Ports : Reg(m, p)' => agu'[m].busy
    BY AguOfCycle, MoverOfCycle, Wires DEF UnitsTogether
  <2> QED
    BY <2>1, <2>2, MoverOfCycle
<1>4. WriterMoves'
  <2>1. CASE PtrReady("writer", granted["writer"])
    BY <2>1, MoverOfCycle, PortsExist DEF WriterMoves, Movers
  <2>2. CASE ~PtrReady("writer", granted["writer"])
    <3>1. \/ \E p \in Ports : ~(p \in granted["writer"] \/ Reg("writer", p))
          \/ ~agu["writer"].busy
      BY <2>2, Wires DEF Movers
    <3>2. ~agu["writer"].busy =>
              \A p \in Ports : ~(p \in granted["writer"] \/ Reg("writer", p))
      BY Wires DEF Movers, UnitsTogether
    <3> QED
      BY <3>1, <3>2, MoverOfCycle, PortsExist DEF WriterMoves, Movers
  <2> QED
    BY <2>1, <2>2
<1>5. ResponsesPaired'
  <2> DEFINE ready == PtrReady("reader", granted["reader"])
             F == FifoReady(rfifo)
  <2>1. \A p \in Ports :
           /\ Got(p)' <=> p \in granted["reader"] \/ (Got(p) /\ ~(Full /\ F))
           /\ Reg("reader", p)' <=>
                 ~ready /\ (p \in granted["reader"] \/ Reg("reader", p))
    <3>1. "reader" \in Movers
      BY DEF Movers
    <3> QED
      BY <3>1, ResponsesOfCycle, MoverOfCycle
  <2>2. /\ ready <=> /\ agu["reader"].busy
                     /\ \A p \in Ports : p \in granted["reader"] \/ Reg("reader", p)
                     /\ F
        /\ \A p \in granted["reader"] : /\ p \in Ports /\ agu["reader"].busy
                                         /\ ~Reg("reader", p) /\ (F \/ ~Full)
        /\ \A p \in Ports : Reg("reader", p) => agu["reader"].busy
        /\ Full <=> \A p \in Ports : Got(p)
    BY Wires DEF Movers, UnitsTogether, Full, TcdmRspValid, Got
  <2>3. CASE WordWaits
    <3>1. Full /\ \A p \in Ports : Got(p) /\ ~Reg("reader", p)
      BY <2>2, <2>3 DEF WordWaits
    <3>2. CASE ~F
      <4>1. \A p \in Ports : Got(p)' /\ ~Reg("reader", p)'
        BY <2>1, <2>2, <3>1, <3>2
      <4> QED
        BY <4>1 DEF WordWaits, ResponsesPaired
    <3>3. CASE F /\ ready
      <4>1. \A p \in Ports : Got(p)' /\ ~Reg("reader", p)'
        BY <2>1, <2>2, <3>1, <3>3
      <4> QED
        BY <4>1 DEF WordWaits, ResponsesPaired
    <3>4. CASE F /\ ~ready
      <4>1. \A p \in Ports : Got(p)' <=> Reg("reader", p)'
        BY <2>1, <3>1, <3>4
      <4> QED
        BY <4>1 DEF ResponsesPaired
    <3> QED
      BY <3>2, <3>3, <3>4
  <2>4. CASE \A p \in Ports : Got(p) <=> Reg("reader", p)
    BY <2>1, <2>2, <2>4, PortsExist DEF WordWaits, ResponsesPaired
  <2> QED
    BY <2>3, <2>4 DEF ResponsesPaired
<1> QED
  BY <1>2, <1>3, <1>4, <1>5

(* So does every step. *)
LEMMA NextControl == ControlInv /\ [Next]_vars => ControlInv'
<1> SUFFICES ASSUME ControlInv, [Next]_vars
             PROVE  ControlInv'
  OBVIOUS
<1>1. CASE Next
  BY <1>1, CycleControl DEF Next
<1>2. CASE UNCHANGED vars
  BY <1>2
  DEF vars, units, ControlInv, Shape, UnitsTogether, WriterMoves,
      ResponsesPaired, WordWaits, Got, Reg
<1> QED
  BY <1>1, <1>2

(* In every reachable state the address generation unit, the data mover    *)
(* and the state bit of a direction are busy together, and every response  *)
(* belongs to the pointer of its grant or to the one before it.            *)
THEOREM ControlInvariance == Spec => []ControlInv
BY InitControl, NextControl, PTL DEF Spec

-----------------------------------------------------------------------------
(* Requests that are not granted. *)

(* The mover of a port that requests and is not granted keeps its pointer  *)
(* and its address.                                                        *)
LEMMA MoverHeld ==
    ASSUME ControlInv, NEW granted \in Grants, NEW take \in Takes,
           Cycle(granted, take), NEW m \in Movers,
           NEW p \in Requests(m) \ granted[m]
    PROVE  /\ p \in Ports /\ agu[m].busy /\ ~Reg(m, p)
           /\ ~PtrReady(m, granted[m])
           /\ agu'[m] = agu[m]
           /\ ~Reg(m, p)'
           /\ Address(m, p)' = Address(m, p)
<1>1. p \in Ports /\ agu[m].busy /\ ~Reg(m, p)
  BY DEF Requests, ReaderReqValid, WriterReqValid, PtrValid, Reg
<1>2. ~PtrReady(m, granted[m])
  BY <1>1, Wires
<1>3. agu'[m] = agu[m]
  BY <1>1, <1>2, AguOfCycle
<1>4. ~Reg(m, p)' /\ mover'[m].spatialStrides = mover[m].spatialStrides
  <2>1. ~Start
    BY <1>1, StartWhenIdle DEF ControlInv, UnitsTogether
  <2> QED
    BY <1>1, <2>1, MoverOfCycle
<1> QED
  BY <1>1, <1>2, <1>3, <1>4 DEF Address

(* A read that is not granted is requested again: its port has no response *)
(* yet, so the buffer is not full.                                         *)
LEMMA ReadHeld ==
    ASSUME ControlInv, NEW granted \in Grants, NEW take \in Takes,
           Cycle(granted, take), NEW p \in Requests("reader") \ granted["reader"]
    PROVE  p \in Requests("reader")'
<1>1. "reader" \in Movers
  BY DEF Movers
<1>2. /\ p \in Ports /\ agu["reader"].busy /\ ~Reg("reader", p)
      /\ agu'["reader"] = agu["reader"] /\ ~Reg("reader", p)'
  BY <1>1, MoverHeld
<1>3. FifoReady(rfifo) \/ ~Full
  BY DEF Requests, ReaderReqValid, Full
<1>4. Full <=> \A q \in Ports : Got(q)
  BY DEF Full, TcdmRspValid, Got
<1>5. ~Got(p)'
  <2>1. CASE Full
    BY <1>2, <1>3, <2>1, ResponsesOfCycle
  <2>2. CASE ~Full
    <3>1. ~Got(p)
      BY <1>2, <1>4, <2>2 DEF ControlInv, ResponsesPaired, WordWaits
    <3> QED
      BY <1>2, <3>1, ResponsesOfCycle
  <2> QED
    BY <2>1, <2>2
<1> QED
  BY <1>2, <1>5
  DEF Requests, ReaderReqValid, PtrValid, TcdmRspValid, Got, Reg

(* A write that is not granted is requested again, with the same datum. *)
LEMMA WriteHeld ==
    ASSUME ControlInv, NEW granted \in Grants, NEW take \in Takes,
           Cycle(granted, take), NEW p \in Requests("writer") \ granted["writer"]
    PROVE  p \in Requests("writer")' /\ WriteWord' = WriteWord
<1>1. "writer" \in Movers
  BY DEF Movers
<1>2. /\ p \in Ports /\ agu["writer"].busy /\ ~Reg("writer", p)'
      /\ agu'["writer"] = agu["writer"]
      /\ PtrReady("writer", granted["writer"]) = FALSE
  BY <1>1, MoverHeld, Wires
<1>3. FifoValid(wfifo, offer)
  BY DEF Requests, WriterReqValid
<1>4. wfifo' = FifoNext(wfifo, offer, OfferedWord, FALSE)
  BY <1>1, <1>2 DEF Cycle, StreamerStep
<1>5. wfifo' # <<>> /\ Head(wfifo') = WriteWord
  BY <1>3, <1>4, FifoHolds DEF ControlInv, Shape, WriteWord
<1> QED
  BY <1>2, <1>5
  DEF Requests, WriterReqValid, PtrValid, FifoValid, Reg, WriteWord, FifoOut

(* Every request of a cycle that is not granted is one of the next. *)
LEMMA CycleHolds ==
    ASSUME ControlInv, NEW granted \in Grants, NEW take \in Takes,
           Cycle(granted, take)
    PROVE  RequestsHeld'
<1> SUFFICES ASSUME NEW w \in RequestWires, w[2] \notin granted[w[1]]
             PROVE  w \in RequestWires'
  BY DEF RequestsHeld, Cycle, TcdmStep
<1>1. PICK m \in Movers : \E p \in Requests(m) :
         w = <<m, p, Address(m, p), IF m = "writer" THEN WriteWord[p] ELSE None>>
  BY DEF RequestWires
<1>2. PICK p \in Requests(m) :
         w = <<m, p, Address(m, p), IF m = "writer" THEN WriteWord[p] ELSE None>>
  BY <1>1
<1>3. p \notin granted[m]
  BY <1>2
<1>4. Address(m, p)' = Address(m, p)
  BY <1>3, MoverHeld
<1>5. p \in Requests(m)' /\ (m = "writer" => WriteWord' = WriteWord)
  BY <1>3, ReadHeld, WriteHeld DEF Movers
<1> QED
  BY <1>2, <1>4, <1>5 DEF RequestWires

(* A TCDM request that is not granted is made again in the next cycle with *)
(* the same address and datum: the reader never withdraws a request when   *)
(* its buffer fills (DataReader.scala), nor does the datum of a write that *)
(* came straight through the FIFO get lost (FIFO.scala).                   *)
THEOREM RequestsAreHeld == Spec => []RequestsHeld
<1>1. Init => RequestsHeld
  BY DEF Init, RequestsHeld
<1>2. ControlInv /\ RequestsHeld /\ [Next]_vars => RequestsHeld'
  <2>1. CASE Next
    BY <2>1, CycleHolds DEF Next
  <2>2. CASE UNCHANGED vars
    BY <2>2
    DEF vars, units, RequestsHeld, RequestWires, Requests, Address, WriteWord,
        OfferedWord
  <2> QED
    BY <2>1, <2>2
<1> QED
  BY <1>1, <1>2, ControlInvariance, PTL DEF Spec

-----------------------------------------------------------------------------
(* Between the reader and the writer: the words that the reader has done   *)
(* with and the writer has not.                                            *)
InFlight == One(WordWaits) + Len(rfifo) + Len(acc) + Len(wfifo)

(* One iteration of the loops, and whether c is the last. *)
Point(b, c) == [loopBounds |-> b, loop_counters |-> c]
Advance(b, c) == CountersNext(Point(b, c))
IsLast(b, c) == AllLast(Point(b, c))

(* q leads in k iterations from the counters first to the counters end;    *)
(* none of them is the last, but for the one before end when no iteration  *)
(* is left.                                                                *)
Chain(q, k, b, first, end, left) ==
    /\ q[0] = first
    /\ q[k] = end
    /\ \A n \in 0..(k - 1) :
          /\ q[n + 1] = Advance(b, q[n])
          /\ IsLast(b, q[n]) <=> n = k - 1 /\ ~left

(* The reader is ahead of the writer by as many iterations as there are    *)
(* words between them, and the writer works as long as there is one or the *)
(* reader works.                                                           *)
FlightInv ==
    /\ agu["reader"].loopBounds = agu["writer"].loopBounds
    /\ \A m \in Movers : ~agu[m].busy => agu[m].loop_counters = Zeros
    /\ agu["writer"].busy <=> agu["reader"].busy \/ InFlight > 0
    /\ \E q : Chain(q, InFlight, agu["writer"].loopBounds,
                    agu["writer"].loop_counters, agu["reader"].loop_counters,
                    agu["reader"].busy)

IInv == ControlInv /\ FlightInv

(* A unit advances its counters as Advance does, and is done when IsLast   *)
(* says so; then its counters are back at 0.                               *)
LEMMA UnitAdvances ==
    ASSUME NEW a
    PROVE  /\ CountersNext(a) = Advance(a.loopBounds, a.loop_counters)
           /\ AllLast(a) <=> IsLast(a.loopBounds, a.loop_counters)
           /\ AllLast(a) => CountersNext(a) = Zeros
<1>1. \A i \in Dims : CounterLast(a, i) <=>
                        CounterLast(Point(a.loopBounds, a.loop_counters), i)
  BY DEF CounterLast, CounterNext, Point
<1>2. AllLast(a) <=> IsLast(a.loopBounds, a.loop_counters)
  BY <1>1 DEF AllLast, IsLast
<1>3. CountersNext(a) = Advance(a.loopBounds, a.loop_counters)
  BY DEF CountersNext, Advance, CounterLast, CounterNext, Point
<1>4. AllLast(a) => CountersNext(a) = Zeros
  <2> SUFFICES ASSUME AllLast(a)
               PROVE  CountersNext(a) = Zeros
    OBVIOUS
  <2>1. \A i \in Dims : \A j \in 1..(i - 1) : j \in Dims
    BY AddrGenAssumption DEF Dims
  <2> QED
    BY <2>1 DEF CountersNext, Zeros, AllLast
<1> QED
  BY <1>2, <1>3, <1>4

(* A chain with x at its end, and one without its first. *)
Grown(q, k, x) == [n \in 0..(k + 1) |-> IF n = k + 1 THEN x ELSE q[n]]
Shrunk(q, k) == [n \in 0..(k - 1) |-> q[n + 1]]

(* The reader accepts a pointer. *)
LEMMA ChainGrows ==
    ASSUME NEW q, NEW k \in Nat, NEW b, NEW first, NEW end, NEW left \in BOOLEAN,
           Chain(q, k, b, first, end, TRUE),
           left <=> ~IsLast(b, end)
    PROVE  Chain(Grown(q, k, Advance(b, end)), k + 1, b, first, Advance(b, end), left)
<1> DEFINE r == [n \in 0..(k + 1) |-> IF n = k + 1 THEN Advance(b, end) ELSE q[n]]
<1>1. r[0] = first /\ r[k] = end /\ r[k + 1] = Advance(b, end)
  BY DEF Chain
<1>2. \A n \in 0..(k - 1) : r[n] = q[n] /\ r[n + 1] = q[n + 1]
  OBVIOUS
<1>3. ASSUME NEW n \in 0..((k + 1) - 1)
      PROVE  /\ r[n + 1] = Advance(b, r[n])
             /\ IsLast(b, r[n]) <=> n = (k + 1) - 1 /\ ~left
  <2> HIDE DEF r
  <2>1. CASE n = k
    BY <1>1, <2>1
  <2>2. CASE n \in 0..(k - 1)
    BY <1>2, <2>2 DEF Chain
  <2> QED
    BY <2>1, <2>2
<1>4. Chain(r, k + 1, b, first, Advance(b, end), left)
  <2> HIDE DEF r
  <2> QED
    BY <1>1, <1>3 DEF Chain
<1> QED
  BY <1>4 DEF Grown

(* The writer accepts a pointer. *)
LEMMA ChainShrinks ==
    ASSUME NEW q, NEW k \in Nat \ {0}, NEW b, NEW first, NEW end, NEW left,
           Chain(q, k, b, first, end, left)
    PROVE  Chain(Shrunk(q, k), k - 1, b, Advance(b, first), end, left)
<1> DEFINE r == [n \in 0..(k - 1) |-> q[n + 1]]
<1>1. r[0] = Advance(b, first) /\ r[k - 1] = end
  BY DEF Chain
<1>2. \A n \in 0..((k - 1) - 1) : r[n] = q[n + 1] /\ r[n + 1] = q[(n + 1) + 1]
  OBVIOUS
<1>3. ASSUME NEW n \in 0..((k - 1) - 1)
      PROVE  /\ r[n + 1] = Advance(b, r[n])
             /\ IsLast(b, r[n]) <=> n = (k - 1) - 1 /\ ~left
  <2> HIDE DEF r
  <2>1. n + 1 \in 0..(k - 1) /\ (n + 1 = k - 1 <=> n = (k - 1) - 1)
    OBVIOUS
  <2> QED
    BY <1>2, <2>1 DEF Chain
<1>4. Chain(r, k - 1, b, Advance(b, first), end, left)
  <2> HIDE DEF r
  <2> QED
    BY <1>1, <1>3 DEF Chain
<1> QED
  BY <1>4 DEF Shrunk

(* The names of the movers. *)
LEMMA MoverNames == "reader" \in Movers /\ "writer" \in Movers
BY DEF Movers

(* When a word waits for the FIFO after a cycle: it waited and the FIFO is *)
(* full, or the reader is done with a pointer now and its responses are    *)
(* not yet in the FIFO.                                                    *)
LEMMA WaitsOfCycle ==
    ASSUME ControlInv, NEW granted \in Grants, NEW take \in Takes,
           Cycle(granted, take)
    PROVE  LET r == PtrReady("reader", granted["reader"])
               push == Full /\ FifoReady(rfifo)
           IN  /\ push => WordWaits \/ r
               /\ r => FifoReady(rfifo)
               /\ WordWaits => Full
               /\ WordWaits' <=> \/ WordWaits /\ ~FifoReady(rfifo)
                                 \/ r /\ (push <=> WordWaits)
               /\ One(WordWaits') = One(WordWaits) + One(r) - One(push)
<1> DEFINE r == PtrReady("reader", granted["reader"])
           F == FifoReady(rfifo)
<1> USE DEF ControlInv
<1>1. \A p \in Ports :
         /\ Got(p)' <=> p \in granted["reader"] \/ (Got(p) /\ ~(Full /\ F))
         /\ Reg("reader", p)' <=>
               ~r /\ (p \in granted["reader"] \/ Reg("reader", p))
  BY MoverNames, ResponsesOfCycle, MoverOfCycle
<1>2. /\ r <=> /\ agu["reader"].busy
               /\ \A p \in Ports : p \in granted["reader"] \/ Reg("reader", p)
               /\ F
      /\ \A p \in granted["reader"] : /\ p \in Ports /\ agu["reader"].busy
                                       /\ ~Reg("reader", p) /\ (F \/ ~Full)
      /\ \A p \in Ports : Reg("reader", p) => agu["reader"].busy
      /\ Full <=> \A p \in Ports : Got(p)
  BY MoverNames, Wires DEF UnitsTogether, Full, TcdmRspValid, Got
<1>3. WordWaits' <=> \A p \in Ports : Got(p)' /\ ~Reg("reader", p)'
  BY DEF WordWaits
<1>4. CASE WordWaits
  <2>1. Full /\ \A p \in Ports : Got(p) /\ ~Reg("reader", p)
    BY <1>2, <1>4 DEF WordWaits
  <2>2. CASE ~F
    <3>1. WordWaits' /\ ~r
      BY <1>1, <1>2, <1>3, <2>1, <2>2
    <3> QED
      BY <1>2, <1>4, <2>1, <2>2, <3>1 DEF One
  <2>3. CASE F /\ r
    <3>1. WordWaits'
      BY <1>1, <1>2, <1>3, <2>1, <2>3
    <3> QED
      BY <1>4, <2>1, <2>3, <3>1 DEF One
  <2>4. CASE F /\ ~r
    <3>1. ~WordWaits'
      BY <1>1, <1>3, <2>1, <2>4, PortsExist
    <3> QED
      BY <1>4, <2>1, <2>4, <3>1 DEF One
  <2> QED
    BY <2>2, <2>3, <2>4
<1>5. CASE ~WordWaits
  <2>1. \A p \in Ports : Got(p) <=> Reg("reader", p)
    BY <1>5 DEF ResponsesPaired
  <2>2. CASE Full /\ F
    <3>1. r /\ ~WordWaits'
      BY <1>1, <1>2, <1>3, <2>1, <2>2, PortsExist
    <3> QED
      BY <1>5, <2>2, <3>1 DEF One
  <2>3. CASE Full /\ ~F
    <3>1. ~r /\ ~WordWaits'
      BY <1>1, <1>2, <1>3, <2>1, <2>3, PortsExist
    <3> QED
      BY <1>5, <2>3, <3>1 DEF One
  <2>4. CASE ~Full
    <3>1. r <=> WordWaits'
      BY <1>1, <1>2, <1>3, <2>1, <2>4, PortsExist
    <3> QED
      BY <1>2, <1>5, <2>4, <3>1 DEF One
  <2> QED
    BY <2>2, <2>3, <2>4
<1> QED
  BY <1>4, <1>5

(* A word enters when the reader accepts a pointer and leaves when the     *)
(* writer does.                                                            *)
LEMMA FlightCount ==
    ASSUME ControlInv, NEW granted \in Grants, NEW take \in Takes,
           Cycle(granted, take)
    PROVE  LET r == PtrReady("reader", granted["reader"])
               w == PtrReady("writer", granted["writer"])
           IN  /\ InFlight \in Nat
               /\ InFlight' = InFlight + One(r) - One(w)
               /\ w => InFlight > 0
<1> DEFINE r == PtrReady("reader", granted["reader"])
           w == PtrReady("writer", granted["writer"])
           F == FifoReady(rfifo)
           given == offer /\ FifoReady(wfifo)
<1> USE DEF ControlInv
<1>1. "reader" \in Movers /\ "writer" \in Movers
  BY DEF Movers
<1>2. One(WordWaits') = One(WordWaits) + One(r) - One(Full /\ F)
  BY WaitsOfCycle
<1>3. /\ Len(rfifo) \in Nat /\ Len(acc) \in Nat /\ Len(wfifo) \in Nat
      /\ (acc # <<>> => Len(acc) > 0) /\ (wfifo # <<>> => Len(wfifo) > 0)
  BY SeqLen DEF Shape
<1>4. w => Len(wfifo) > 0 \/ Len(acc) > 0
  BY <1>3, WriterHasWord DEF FifoValid, Shape
<1>5. /\ Len(rfifo') = Len(rfifo) + One(Full /\ F) - One(take)
      /\ Len(acc') = Len(acc) + One(take) - One(given)
      /\ Len(wfifo') = Len(wfifo) + One(given) - One(w)
  BY WordsOfCycle
<1>6. /\ One(WordWaits) \in Nat /\ One(r) \in Nat /\ One(w) \in Nat
      /\ One(Full /\ F) \in Nat /\ One(take) \in Nat /\ One(given) \in Nat
  BY DEF One
<1>7. InFlight' = One(WordWaits') + Len(rfifo') + Len(acc') + Len(wfifo')
  BY DEF InFlight, One
<1> HIDE DEF r, w, F, given
<1>8. InFlight' = InFlight + One(r) - One(w)
  <2>1. InFlight = One(WordWaits) + Len(rfifo) + Len(acc) + Len(wfifo)
    BY DEF InFlight
  <2>2. PICK x \in Nat, y \in Nat, u \in Nat, v \in Nat, g \in Nat, s \in Nat :
           /\ x = One(r) /\ y = One(w) /\ u = One(Full /\ F)
           /\ v = One(take) /\ g = One(given) /\ s = One(WordWaits)
    BY <1>6, Zenon
  <2>3. /\ One(WordWaits') = s + x - u
        /\ Len(rfifo') = Len(rfifo) + u - v
        /\ Len(acc') = Len(acc) + v - g
        /\ Len(wfifo') = Len(wfifo) + g - y
        /\ InFlight = s + Len(rfifo) + Len(acc) + Len(wfifo)
    BY <1>2, <1>5, <2>1, <2>2, Zenon
  <2>4. InFlight' = InFlight + x - y
    BY <1>3, <1>7, <2>3
  <2> QED
    BY <2>2, <2>4, Zenon
<1>9. InFlight \in Nat /\ (w => InFlight > 0)
  BY <1>3, <1>4, <1>6 DEF InFlight
<1> QED
  BY <1>8, <1>9 DEF r, w

(* An idle streamer is started: the units begin together, with nothing     *)
(* between them.                                                           *)
LEMMA StartFlight ==
    ASSUME IInv, NEW granted \in Grants, NEW take \in Takes,
           Cycle(granted, take), Start
    PROVE  FlightInv'
<1> USE DEF IInv
<1>1. "reader" \in Movers /\ "writer" \in Movers
  BY DEF Movers
<1>2. \A m \in Movers : ~agu[m].busy
  BY StartWhenIdle DEF ControlInv, UnitsTogether
<1>3. \A m \in Movers : agu'[m].busy /\ agu'[m].loop_counters = Zeros
  BY <1>2, AguOfCycle
<1>4. \A m \in Movers : agu'[m].loopBounds = Config(csrm.csr, m).loopBounds
  BY AguOfCycle
<1>5. Config(csrm.csr, "reader").loopBounds = Config(csrm.csr, "writer").loopBounds
  BY DEF Config
<1>6. /\ ~PtrReady("reader", granted["reader"])
      /\ ~PtrReady("writer", granted["writer"])
  BY <1>1, <1>2, Wires DEF ControlInv
<1>7. InFlight' = 0
  <2>1. InFlight = 0
    BY <1>1, <1>2, FlightCount DEF FlightInv
  <2> QED
    BY <1>6, <2>1, FlightCount DEF One
<1>8. Chain([n \in {0} |-> Zeros], 0, agu'["writer"].loopBounds, Zeros, Zeros,
            agu'["reader"].busy)
  BY DEF Chain
<1> QED
  BY <1>1, <1>3, <1>4, <1>5, <1>7, <1>8 DEF FlightInv

(* A unit that is not started: its counters, and when it ends. *)
LEMMA UnitGoesOn ==
    ASSUME IInv, NEW granted \in Grants, NEW take \in Takes,
           Cycle(granted, take), ~Start, NEW m \in Movers
    PROVE  LET ready == PtrReady(m, granted[m])
               b == agu[m].loopBounds
               c == agu[m].loop_counters
           IN  /\ agu'[m].loopBounds = b
               /\ agu'[m].loop_counters = IF ready THEN Advance(b, c) ELSE c
               /\ agu'[m].busy <=> agu[m].busy /\ ~(ready /\ IsLast(b, c))
               /\ ready => agu[m].busy
               /\ ~agu'[m].busy => agu'[m].loop_counters = Zeros
<1> DEFINE ready == PtrReady(m, granted[m])
<1> USE DEF IInv
<1>1. ready => agu[m].busy
  BY Wires
<1>2. ~agu[m].busy => agu[m].loop_counters = Zeros
  BY DEF FlightInv
<1>3. /\ agu'[m].busy <=> agu[m].busy /\ ~(ready /\ AllLast(agu[m]))
      /\ agu'[m].loopBounds = agu[m].loopBounds
      /\ agu'[m].loop_counters = IF ~agu[m].busy THEN Zeros
                                 ELSE IF ready THEN CountersNext(agu[m])
                                 ELSE agu[m].loop_counters
  BY AguOfCycle
<1> HIDE DEF ready
<1>4. /\ agu'[m].loop_counters =
            IF ready THEN Advance(agu[m].loopBounds, agu[m].loop_counters)
                     ELSE agu[m].loop_counters
      /\ ~agu'[m].busy => agu'[m].loop_counters = Zeros
  BY <1>1, <1>2, <1>3, UnitAdvances
<1>5. AllLast(agu[m]) <=> IsLast(agu[m].loopBounds, agu[m].loop_counters)
  BY UnitAdvances
<1> QED
  BY <1>1, <1>3, <1>4, <1>5 DEF ready

(* The iterations between the units in a cycle without a start: the reader *)
(* adds one at the end, the writer takes the first one away.               *)
LEMMA ChainOfCycle ==
    ASSUME IInv, NEW granted \in Grants, NEW take \in Takes,
           Cycle(granted, take), ~Start, NEW q,
           Chain(q, InFlight, agu["writer"].loopBounds,
                 agu["writer"].loop_counters, agu["reader"].loop_counters,
                 agu["reader"].busy)
    PROVE  LET r == PtrReady("reader", granted["reader"])
               w == PtrReady("writer", granted["writer"])
           IN  \E q1, q2 :
                  /\ \A n \in 0..InFlight : q1[n] = q[n]
                  /\ Chain(q2, InFlight', agu'["writer"].loopBounds,
                           agu'["writer"].loop_counters,
                           agu'["reader"].loop_counters, agu'["reader"].busy)
                  /\ \A n \in 0..InFlight' : q2[n] = q1[n + One(w)]
<1> DEFINE r == PtrReady("reader", granted["reader"])
           w == PtrReady("writer", granted["writer"])
           b == agu["writer"].loopBounds
           cr == agu["reader"].loop_counters
           cw == agu["writer"].loop_counters
           k == InFlight
<1> USE DEF IInv
<1>1. agu["reader"].loopBounds = b
  BY DEF FlightInv
<1>2. /\ agu'["reader"].loop_counters = IF r THEN Advance(b, cr) ELSE cr
      /\ agu'["reader"].busy <=> agu["reader"].busy /\ ~(r /\ IsLast(b, cr))
      /\ r => agu["reader"].busy
  BY <1>1, MoverNames, UnitGoesOn
<1>3. /\ agu'["writer"].loopBounds = b
      /\ agu'["writer"].loop_counters = IF w THEN Advance(b, cw) ELSE cw
  BY MoverNames, UnitGoesOn
<1>4. /\ k \in Nat
      /\ InFlight' = k + One(r) - One(w)
      /\ w => k > 0
      /\ r \in BOOLEAN /\ w \in BOOLEAN
  BY MoverNames, FlightCount, Wires
<1>5. agu["reader"].busy \in BOOLEAN /\ agu'["reader"].busy \in BOOLEAN
  BY MoverNames, AguOfCycle DEF ControlInv, Shape, IsAgu
<1>6. Chain(q, k, b, cw, cr, agu["reader"].busy)
  OBVIOUS
<1> HIDE DEF r, w, b, cr, cw, k
(* First the reader's step, then the writer's. *)
<1>7. PICK q1 : /\ Chain(q1, k + One(r), b, cw, agu'["reader"].loop_counters,
                         agu'["reader"].busy)
                /\ \A n \in 0..k : q1[n] = q[n]
  <2>1. CASE r
    <3>1. agu["reader"].busy = TRUE /\ (agu'["reader"].busy <=> ~IsLast(b, cr))
      BY <1>2, <1>5, <2>1
    <3>2. \E q1 : /\ Chain(q1, k + 1, b, cw, Advance(b, cr), agu'["reader"].busy)
                  /\ \A n \in 0..k : q1[n] = q[n]
      <4>1. PICK left \in BOOLEAN : left = agu'["reader"].busy
        BY <1>5
      <4>2. Chain(q, k, b, cw, cr, TRUE) /\ (left <=> ~IsLast(b, cr))
        BY <1>6, <3>1, <4>1
      <4>3. Chain(Grown(q, k, Advance(b, cr)), k + 1, b, cw, Advance(b, cr), left)
        BY <1>4, <4>1, <4>2, ChainGrows
      <4>4. \A n \in 0..k : Grown(q, k, Advance(b, cr))[n] = q[n]
        BY <1>4 DEF Grown
      <4> QED
        BY <4>1, <4>3, <4>4
    <3> QED
      BY <1>2, <2>1, <3>2 DEF One
  <2>2. CASE ~r
    <3>1. agu'["reader"].busy = agu["reader"].busy
      BY <1>2, <1>5, <2>2
    <3>2. k + One(r) = k /\ agu'["reader"].loop_counters = cr
      BY <1>2, <1>4, <2>2 DEF One
    <3> QED
      BY <1>6, <3>1, <3>2
  <2> QED
    BY <1>4, <2>1, <2>2
<1>8. PICK q2 : /\ Chain(q2, InFlight', b, agu'["writer"].loop_counters,
                         agu'["reader"].loop_counters, agu'["reader"].busy)
                /\ \A n \in 0..InFlight' : q2[n] = q1[n + One(w)]
  <2>1. CASE w
    <3>1. k + One(r) \in Nat \ {0} /\ InFlight' = (k + One(r)) - 1
      BY <1>4, <2>1 DEF One
    <3>2. PICK q2 : /\ Chain(q2, (k + One(r)) - 1, b, Advance(b, cw),
                             agu'["reader"].loop_counters, agu'["reader"].busy)
                    /\ \A n \in 0..((k + One(r)) - 1) : q2[n] = q1[n + 1]
      <4>1. PICK j \in Nat \ {0} : j = k + One(r)
        BY <3>1
      <4>2. Chain(Shrunk(q1, j), j - 1, b, Advance(b, cw),
                  agu'["reader"].loop_counters, agu'["reader"].busy)
        BY <1>7, <4>1, ChainShrinks
      <4>3. \A n \in 0..(j - 1) : Shrunk(q1, j)[n] = q1[n + 1]
        BY DEF Shrunk
      <4> QED
        BY <4>1, <4>2, <4>3
    <3>3. One(w) = 1 /\ agu'["writer"].loop_counters = Advance(b, cw)
      BY <1>3, <2>1 DEF One
    <3> QED
      BY <3>1, <3>2, <3>3
  <2>2. CASE ~w
    <3>1. InFlight' = k + One(r) /\ agu'["writer"].loop_counters = cw
      BY <1>3, <1>4, <2>2 DEF One
    <3>2. \A n \in 0..InFlight' : n + One(w) = n
      BY <2>2 DEF One
    <3> QED
      BY <1>7, <3>1, <3>2
  <2> QED
    BY <1>4, <2>1, <2>2
<1> QED
  BY <1>3, <1>7, <1>8 DEF k, w

(* A cycle without a start. *)
LEMMA GoOnFlight ==
    ASSUME IInv, NEW granted \in Grants, NEW take \in Takes,
           Cycle(granted, take), ~Start
    PROVE  FlightInv'
<1> DEFINE r == PtrReady("reader", granted["reader"])
           w == PtrReady("writer", granted["writer"])
           b == agu["writer"].loopBounds
           cr == agu["reader"].loop_counters
           cw == agu["writer"].loop_counters
           k == InFlight
<1> USE DEF IInv
<1>1. "reader" \in Movers /\ "writer" \in Movers
  BY MoverNames
<1>2. /\ agu["reader"].loopBounds = b
      /\ agu["writer"].busy <=> agu["reader"].busy \/ k > 0
  BY DEF FlightInv
<1>3. /\ agu'["reader"].loopBounds = b
      /\ agu'["reader"].busy <=> agu["reader"].busy /\ ~(r /\ IsLast(b, cr))
      /\ r => agu["reader"].busy
  BY <1>1, <1>2, UnitGoesOn
<1>4. /\ agu'["writer"].loopBounds = b
      /\ agu'["writer"].busy <=> agu["writer"].busy /\ ~(w /\ IsLast(b, cw))
      /\ w => agu["writer"].busy
  BY <1>1, UnitGoesOn
<1>5. /\ k \in Nat
      /\ InFlight' = k + One(r) - One(w)
      /\ w => k > 0
      /\ r \in BOOLEAN /\ w \in BOOLEAN
  BY <1>1, FlightCount, Wires
<1>6. PICK q : Chain(q, k, b, cw, cr, agu["reader"].busy)
  BY DEF FlightInv
<1>7. k > 0 => (IsLast(b, cw) <=> k = 1 /\ ~agu["reader"].busy)
  BY <1>5, <1>6 DEF Chain
<1>8. \E q2 : Chain(q2, InFlight', agu'["writer"].loopBounds,
                    agu'["writer"].loop_counters, agu'["reader"].loop_counters,
                    agu'["reader"].busy)
  BY <1>6, ChainOfCycle
<1> HIDE DEF r, w, b, cr, cw, k
<1>9. agu'["writer"].busy <=> agu'["reader"].busy \/ InFlight' > 0
  BY <1>2, <1>3, <1>4, <1>5, <1>7 DEF One
<1>10. \A m \in Movers : ~agu'[m].busy => agu'[m].loop_counters = Zeros
  BY UnitGoesOn
<1> QED
  BY <1>3, <1>4, <1>8, <1>9, <1>10 DEF FlightInv

(* At the start there is no word between reader and writer. *)
LEMMA InitIInv == Init => IInv
<1> SUFFICES ASSUME Init
             PROVE  FlightInv
  BY InitControl DEF IInv
<1>1. \A m \in Movers : agu[m] = AguInit
  BY DEF Init
<1>2. /\ AguInit.loop_counters = Zeros
      /\ AguInit.busy = FALSE
  BY DEF AguInit, Zeros
<1>3. InFlight = 0
  <2>1. ~WordWaits
    BY PortsExist DEF WordWaits, Got, Init, RspInit
  <2> QED
    BY <2>1 DEF Init, InFlight, One
<1>4. Chain([n \in {0} |-> Zeros], 0, AguInit.loopBounds, Zeros, Zeros, FALSE)
  BY DEF Chain
<1>5. /\ agu["reader"] = AguInit /\ agu["writer"] = AguInit
  BY <1>1 DEF Movers
<1>6. ~(0 > 0)
  OBVIOUS
<1> QED
  BY <1>1, <1>2, <1>3, <1>4, <1>5, <1>6, Zenon DEF FlightInv

(* Every step keeps the invariant. *)
LEMMA NextIInv == IInv /\ [Next]_vars => IInv'
<1> SUFFICES ASSUME IInv, [Next]_vars
             PROVE  FlightInv'
  BY NextControl DEF IInv
<1>1. CASE Next
  <2>1. PICK granted \in Grants, take \in Takes : Cycle(granted, take)
    BY <1>1 DEF Next
  <2> QED
    BY <2>1, StartFlight, GoOnFlight
<1>2. CASE UNCHANGED vars
  <2>1. (agu' = agu) /\ (InFlight' = InFlight)
    BY <1>2 DEF vars, units, InFlight, WordWaits, Got, Reg, One
  <2> QED
    BY <2>1 DEF IInv, FlightInv
<1> QED
  BY <1>1, <1>2

(* In every reachable state the reader is ahead of the writer by as many   *)
(* iterations of the loops as there are words between them, and the writer *)
(* stops exactly when the reader has stopped and no word is left.          *)
THEOREM Invariance == Spec => []IInv
BY InitIInv, NextIInv, PTL DEF Spec

(* What an idle streamer holds. *)
LEMMA NothingLeft ==
    ASSUME IInv, ~busy
    PROVE  /\ rfifo = <<>> /\ acc = <<>> /\ wfifo = <<>>
           /\ \A p \in Ports : ~Got(p)
           /\ UnitsIdleTogether
<1> USE DEF IInv
<1>1. \A m \in Movers : /\ ~agu[m].busy /\ ~mover[m].busy
                        /\ \A p \in Ports : ~Reg(m, p)
  BY DEF ControlInv, UnitsTogether
<1>2. ~(InFlight > 0)
  BY <1>1 DEF FlightInv, Movers
<1>3. /\ Len(rfifo) \in Nat /\ (Len(rfifo) = 0 => rfifo = <<>>)
      /\ Len(acc) \in Nat /\ (Len(acc) = 0 => acc = <<>>)
      /\ Len(wfifo) \in Nat /\ (Len(wfifo) = 0 => wfifo = <<>>)
  BY SeqLen DEF ControlInv, Shape
<1>4. rfifo = <<>> /\ acc = <<>> /\ wfifo = <<>> /\ ~WordWaits
  BY <1>2, <1>3 DEF InFlight, One
<1>5. \A p \in Ports : ~Got(p)
  BY <1>1, <1>4 DEF ControlInv, ResponsesPaired, Movers
<1>6. UnitsIdleTogether
  BY <1>1, <1>5 DEF UnitsIdleTogether, Reg, Got
<1> QED
  BY <1>4, <1>5, <1>6

(* When the streamer reports that it is idle, all units of both directions *)
(* are, so that the next start reaches them all (Streamer.scala does not   *)
(* look at their own ready), and no bit of a handshake is left in them.    *)
THEOREM IdleTogether == Spec => []UnitsIdleTogether
<1>1. IInv => UnitsIdleTogether
  BY NothingLeft DEF UnitsIdleTogether
<1> QED
  BY <1>1, Invariance, PTL

(* Nor is a word of the job left in a FIFO, in the accelerator, in the     *)
(* response registers or on the wires of the TCDM.                         *)
THEOREM IdleAndEmpty ==
    Spec => [](~busy => /\ rfifo = <<>> /\ acc = <<>> /\ wfifo = <<>>
                        /\ \A p \in Ports : ~Got(p))
<1>1. IInv => (~busy => /\ rfifo = <<>> /\ acc = <<>> /\ wfifo = <<>>
                        /\ \A p \in Ports : ~Got(p))
  BY NothingLeft
<1> QED
  BY <1>1, Invariance, PTL

-----------------------------------------------------------------------------
(* The data, from the accelerator to the TCDM.                             *)

(* The words c given to the accelerator are d words that are written, the  *)
(* words w in the writer's FIFO and the words a in the accelerator.        *)
Carries(c, d, w, a) ==
    /\ Len(c) = d + Len(w) + Len(a)
    /\ \A k \in 1..Len(w) : w[k] = c[d + k]
    /\ \A k \in 1..Len(a) : a[k] = c[d + Len(w) + k]

(* Port p has written d words, and one more if it is ahead of other ports; *)
(* that word is still in the FIFO.                                         *)
PortWrote(p, d) ==
    /\ IsSeq(written[p])
    /\ Len(written[p]) = d + One(Reg("writer", p))
    /\ Reg("writer", p) => wfifo # <<>>
    /\ \A k \in 1..Len(written[p]) : written[p][k][2] = consumed[k][p]

DataInv ==
    /\ IsSeq(consumed)
    /\ DOMAIN written = Ports
    /\ \E d \in Nat : /\ Carries(consumed, d, wfifo, acc)
                      /\ \A p \in Ports : PortWrote(p, d)

(* The elements of a sequence with one more or one less. *)
LEMMA SeqElements ==
    ASSUME NEW s, IsSeq(s), NEW x
    PROVE  /\ \A k \in 1..Len(s) : Append(s, x)[k] = s[k]
           /\ Append(s, x)[Len(s) + 1] = x
           /\ s # <<>> => /\ Head(s) = s[1]
                          /\ \A k \in 1..(Len(s) - 1) : Tail(s)[k] = s[k + 1]
<1>1. PICK S : s \in Seq(S)
  BY DEF IsSeq
<1>2. s \in Seq(S \cup {x})
  BY <1>1
<1>3. /\ \A k \in 1..Len(s) : Append(s, x)[k] = s[k]
      /\ Append(s, x)[Len(s) + 1] = x
  BY <1>2
<1>4. s # <<>> => /\ Head(s) = s[1]
                  /\ \A k \in 1..(Len(s) - 1) : Tail(s)[k] = s[k + 1]
  BY <1>1
<1> QED
  BY <1>3, <1>4

(* The accelerator gives its first word to the FIFO. *)
LEMMA CarriesGive ==
    ASSUME NEW c, NEW d \in Nat, NEW w, NEW a, IsSeq(w), IsSeq(a), a # <<>>,
           Carries(c, d, w, a)
    PROVE  Carries(c, d, Append(w, Head(a)), Tail(a))
<1>1. PICK v, b : v = Append(w, Head(a)) /\ b = Tail(a)
  OBVIOUS
<1>2. /\ Len(w) \in Nat /\ Len(a) \in Nat \ {0}
      /\ Len(v) = Len(w) + 1 /\ Len(b) = Len(a) - 1
  BY <1>1, AppendSeq, TailSeq, SeqLen
<1>3. /\ \A k \in 1..Len(w) : v[k] = w[k]
      /\ v[Len(w) + 1] = a[1]
      /\ \A k \in 1..(Len(a) - 1) : b[k] = a[k + 1]
  BY <1>1, SeqElements
<1>4. Len(c) = d + Len(v) + Len(b)
  BY <1>2 DEF Carries
<1>5. ASSUME NEW k \in 1..Len(v)
      PROVE  v[k] = c[d + k]
  <2>1. CASE k \in 1..Len(w)
    BY <1>3, <2>1 DEF Carries
  <2>2. CASE k = Len(w) + 1
    <3>1. a[1] = c[d + Len(w) + 1] /\ d + Len(w) + 1 = d + (Len(w) + 1)
      BY <1>2 DEF Carries
    <3> QED
      BY <1>3, <2>2, <3>1
  <2> QED
    BY <1>2, <2>1, <2>2
<1>6. ASSUME NEW k \in 1..Len(b)
      PROVE  b[k] = c[d + Len(v) + k]
  <2>1. k + 1 \in 1..Len(a) /\ d + Len(w) + (k + 1) = d + Len(v) + k
    BY <1>2
  <2>2. b[k] = a[k + 1] /\ a[k + 1] = c[d + Len(w) + (k + 1)]
    BY <1>2, <1>3, <2>1 DEF Carries
  <2> QED
    BY <2>1, <2>2
<1> QED
  BY <1>1, <1>4, <1>5, <1>6 DEF Carries

(* The accelerator takes a word. *)
LEMMA CarriesTake ==
    ASSUME NEW c, NEW d \in Nat, NEW w, NEW a, NEW x, IsSeq(c), IsSeq(w), IsSeq(a),
           Carries(c, d, w, a)
    PROVE  Carries(Append(c, x), d, w, Append(a, x))
<1>1. PICK e, b : e = Append(c, x) /\ b = Append(a, x)
  OBVIOUS
<1>2. /\ Len(w) \in Nat /\ Len(a) \in Nat /\ Len(c) = d + Len(w) + Len(a)
      /\ Len(e) = Len(c) + 1 /\ Len(b) = Len(a) + 1
  BY <1>1, AppendSeq, SeqLen DEF Carries
<1>3. /\ \A k \in 1..Len(c) : e[k] = c[k]
      /\ e[Len(c) + 1] = x
      /\ \A k \in 1..Len(a) : b[k] = a[k]
      /\ b[Len(a) + 1] = x
  BY <1>1, SeqElements
<1>4. Len(e) = d + Len(w) + Len(b)
  BY <1>2
<1>5. ASSUME NEW k \in 1..Len(w)
      PROVE  w[k] = e[d + k]
  <2>1. d + k \in 1..Len(c)
    BY <1>2
  <2> QED
    BY <1>3, <2>1 DEF Carries
<1>6. ASSUME NEW k \in 1..Len(b)
      PROVE  b[k] = e[d + Len(w) + k]
  <2>1. CASE k \in 1..Len(a)
    <3>1. d + Len(w) + k \in 1..Len(c)
      BY <1>2, <2>1
    <3> QED
      BY <1>3, <2>1, <3>1 DEF Carries
  <2>2. CASE k = Len(a) + 1
    <3>1. d + Len(w) + k = Len(c) + 1
      BY <1>2, <2>2
    <3> QED
      BY <1>3, <2>2, <3>1
  <2> QED
    BY <1>2, <2>1, <2>2
<1> QED
  BY <1>1, <1>4, <1>5, <1>6 DEF Carries

(* The writer is done with the first word of the FIFO. *)
LEMMA CarriesPop ==
    ASSUME NEW c, NEW d \in Nat, NEW w, NEW a, IsSeq(w), IsSeq(a), w # <<>>,
           Carries(c, d, w, a)
    PROVE  Carries(c, d + 1, Tail(w), a)
<1>1. PICK v : v = Tail(w)
  OBVIOUS
<1>2. /\ Len(w) \in Nat \ {0} /\ Len(a) \in Nat /\ Len(v) = Len(w) - 1
      /\ \A k \in 1..(Len(w) - 1) : v[k] = w[k + 1]
  BY <1>1, TailSeq, SeqLen, SeqElements
<1>3. Len(c) = (d + 1) + Len(v) + Len(a)
  BY <1>2 DEF Carries
<1>4. ASSUME NEW k \in 1..Len(v)
      PROVE  v[k] = c[(d + 1) + k]
  <2>1. k + 1 \in 1..Len(w) /\ d + (k + 1) = (d + 1) + k
    BY <1>2
  <2>2. v[k] = w[k + 1] /\ w[k + 1] = c[d + (k + 1)]
    BY <1>2, <2>1 DEF Carries
  <2> QED
    BY <2>1, <2>2
<1>5. ASSUME NEW k \in 1..Len(a)
      PROVE  a[k] = c[(d + 1) + Len(v) + k]
  <2>1. (d + 1) + Len(v) + k = d + Len(w) + k
    BY <1>2
  <2> QED
    BY <2>1 DEF Carries
<1> QED
  BY <1>1, <1>3, <1>4, <1>5 DEF Carries

(* A cycle carries the words on. *)
LEMMA CycleData ==
    ASSUME ControlInv, DataInv, NEW granted \in Grants, NEW take \in Takes,
           Cycle(granted, take)
    PROVE  DataInv'
<1> DEFINE given == offer /\ FifoReady(wfifo)
           ready == PtrReady("writer", granted["writer"])
           w2 == FifoWith(wfifo, offer, OfferedWord)
           a2 == IF given THEN Tail(acc) ELSE acc
           word == FifoOut(rfifo, DataFifoInput(rspbuf, rsp))
<1>1. PICK d \in Nat : /\ Carries(consumed, d, wfifo, acc)
                       /\ \A p \in Ports : PortWrote(p, d)
  BY DEF DataInv
<1>2. /\ IsSeq(wfifo) /\ IsSeq(acc) /\ IsSeq(consumed)
      /\ offer \in BOOLEAN /\ (offer => acc # <<>>)
  BY DEF ControlInv, Shape, DataInv
<1>3. ready \in BOOLEAN /\ take \in BOOLEAN
  BY Wires DEF Movers, Takes
<1>4. /\ wfifo' = IF ready /\ w2 # <<>> THEN Tail(w2) ELSE w2
      /\ acc' = IF take THEN Append(a2, word) ELSE a2
      /\ consumed' = IF take THEN Append(consumed, word) ELSE consumed
  BY DEF Cycle, StreamerStep, AcceleratorStep, FifoNext, Movers
<1>5. /\ IsSeq(w2) /\ IsSeq(a2) /\ Carries(consumed, d, w2, a2)
      /\ (wfifo # <<>> => w2 # <<>>)
  <2>1. CASE given
    <3>1. w2 = Append(wfifo, Head(acc)) /\ a2 = Tail(acc)
      BY <2>1 DEF FifoWith, OfferedWord
    <3> HIDE DEF w2, a2
    <3> QED
      BY <1>1, <1>2, <2>1, <3>1, CarriesGive, AppendSeq, TailSeq
  <2>2. CASE ~given
    <3>1. w2 = wfifo /\ a2 = acc
      BY <2>2 DEF FifoWith
    <3> HIDE DEF w2, a2
    <3> QED
      BY <1>1, <1>2, <3>1
  <2> QED
    BY <2>1, <2>2
<1>6. \A p \in granted["writer"] : w2 # <<>> /\ WriteWord = w2[1]
  <2> SUFFICES ASSUME FifoValid(wfifo, offer)
               PROVE  w2 # <<>> /\ WriteWord = w2[1]
    BY Wires DEF Movers
  <2>1. wfifo = <<>> => offer /\ FifoReady(wfifo)
    BY <1>2, MoverAssumption DEF FifoValid, FifoReady
  <2>2. w2 # <<>> /\ WriteWord = Head(w2)
    BY <1>2, <2>1, AppendSeq DEF FifoWith, WriteWord, FifoOut, OfferedWord
  <2> HIDE DEF w2
  <2> QED
    BY <1>5, <2>2, SeqElements
<1> HIDE DEF given, w2, a2, word, ready
<1>7. /\ IsSeq(consumed')
      /\ \A k \in 1..Len(consumed) : consumed'[k] = consumed[k]
      /\ Carries(consumed', d, w2, acc') /\ IsSeq(acc')
  <2>1. CASE take
    BY <1>2, <1>4, <1>5, <2>1, CarriesTake, AppendSeq, SeqElements
  <2>2. CASE ~take
    BY <1>2, <1>4, <1>5, <2>2
  <2> QED
    BY <1>3, <2>1, <2>2
<1>8. \A p \in granted["writer"] :
         d + 1 \in 1..Len(consumed) /\ WriteWord = consumed[d + 1]
  <2>1. w2 # <<>> => /\ d + 1 \in 1..Len(consumed)
                     /\ w2[1] = consumed[d + 1]
    <3>1. Len(w2) \in Nat /\ Len(a2) \in Nat /\ (w2 # <<>> => Len(w2) # 0)
      BY <1>5, SeqLen
    <3> QED
      BY <1>5, <3>1 DEF Carries
  <2> QED
    BY <1>6, <2>1
<1>9. ready => w2 # <<>>
  <2>1. ready => FifoValid(wfifo, offer)
    BY WriterHasWord DEF ready
  <2>2. wfifo = <<>> => Len(wfifo) = 0
    BY <1>2, SeqLen
  <2>3. FifoValid(wfifo, offer) => w2 # <<>>
    BY <1>2, <2>2, AppendSeq, MoverAssumption DEF w2, FifoWith, FifoValid, FifoReady
  <2> QED
    BY <2>1, <2>3
<1>10. PICK e \in Nat : /\ e = d + One(ready)
                        /\ Carries(consumed', e, wfifo', acc')
  <2>1. CASE ready
    BY <1>4, <1>5, <1>7, <1>9, <2>1, CarriesPop DEF One
  <2>2. CASE ~ready
    BY <1>4, <1>7, <2>2 DEF One
  <2> QED
    BY <1>3, <2>1, <2>2
<1>11. \A p \in Ports :
          written'[p] = IF p \in granted["writer"]
                        THEN Append(written[p], <<Address("writer", p), WriteWord[p]>>)
                        ELSE written[p]
  BY DEF Cycle, TcdmStep
<1>12. ASSUME NEW p \in Ports
       PROVE  PortWrote(p, e)'
  <2>1. /\ Reg("writer", p)' \in BOOLEAN
        /\ Reg("writer", p)' <=>
              ~ready /\ (p \in granted["writer"] \/ Reg("writer", p))
        /\ ready => p \in granted["writer"] \/ Reg("writer", p)
        /\ p \in granted["writer"] => ~Reg("writer", p)
    BY MoverOfCycle, Wires DEF Movers, ready
  <2>2. /\ IsSeq(written[p])
        /\ Len(written[p]) = d + One(Reg("writer", p))
        /\ Reg("writer", p) => wfifo # <<>>
        /\ \A k \in 1..Len(written[p]) : written[p][k][2] = consumed[k][p]
    BY <1>1 DEF PortWrote
  <2>3. Len(written[p]) \in Nat
    BY <2>2, SeqLen
  <2>4. Reg("writer", p)' => wfifo' # <<>>
    BY <1>4, <1>5, <1>6, <2>1, <2>2
  <2>5. \A k \in 1..Len(written[p]) : k \in 1..Len(consumed)
    <3>1. Len(consumed) \in Nat /\ Len(consumed) >= d
      BY <1>1, <1>2, SeqLen DEF Carries
    <3>2. Reg("writer", p) => Len(consumed) >= d + 1
      BY <1>1, <1>2, <2>2, SeqLen DEF Carries
    <3> QED
      BY <2>2, <2>3, <3>1, <3>2 DEF One
  <2>6. CASE p \in granted["writer"]
    <3>1. PICK y : y = <<Address("writer", p), WriteWord[p]>>
      OBVIOUS
    <3>2. written'[p] = Append(written[p], y) /\ Len(written[p]) = d
      <4>1. written'[p] = Append(written[p], y)
        BY <1>11, <2>6, <3>1, Zenon
      <4>2. Len(written[p]) = d + 0
        BY <2>1, <2>2, <2>6, Zenon DEF One
      <4> QED
        BY <4>1, <4>2
    <3>3. /\ IsSeq(written'[p]) /\ Len(written'[p]) = d + 1
          /\ \A k \in 1..d : written'[p][k] = written[p][k]
          /\ written'[p][d + 1] = y
      BY <2>2, <3>2, AppendSeq, SeqElements
    <3>4. Len(written'[p]) = e + One(Reg("writer", p)')
      BY <1>3, <1>10, <2>1, <2>6, <3>3 DEF One
    <3>5. y[2] = consumed'[d + 1][p]
      BY <1>7, <1>8, <2>6, <3>1
    <3>6. \A k \in 1..Len(written'[p]) : written'[p][k][2] = consumed'[k][p]
      <4>1. \A k \in 1..d : written'[p][k][2] = consumed'[k][p]
        BY <1>7, <2>2, <2>5, <3>2, <3>3
      <4> QED
        BY <3>3, <3>5, <4>1
    <3> QED
      BY <2>4, <3>3, <3>4, <3>6 DEF PortWrote, One
  <2>7. CASE p \notin granted["writer"]
    <3>1. written'[p] = written[p]
      BY <1>11, <2>7
    <3>2. Len(written[p]) = e + One(Reg("writer", p)')
      BY <1>3, <1>10, <2>1, <2>2, <2>7 DEF One
    <3>3. \A k \in 1..Len(written[p]) : written[p][k][2] = consumed'[k][p]
      BY <1>7, <2>2, <2>5
    <3> QED
      BY <2>2, <2>4, <3>1, <3>2, <3>3 DEF PortWrote, One
  <2> QED
    BY <2>6, <2>7
<1>13. DOMAIN written' = Ports
  BY DEF Cycle, TcdmStep
<1> QED
  BY <1>7, <1>10, <1>12, <1>13 DEF DataInv

(* The k-th datum a port has written is its part of the k-th word. *)
WritesCarryConsumed ==
    \A p \in Ports : \A k \in 1..Len(written[p]) :
        k <= Len(consumed) /\ written[p][k][2] = consumed[k][p]

(* Nothing is given or written at the start. *)
LEMMA InitData == Init => DataInv
<1> SUFFICES ASSUME Init
             PROVE  DataInv
  OBVIOUS
<1>1. IsSeq(<<>>) /\ Len(<<>>) = 0
  <2>1. <<>> \in Seq({})
    OBVIOUS
  <2> QED
    BY <2>1 DEF IsSeq
<1>2. /\ consumed = <<>> /\ wfifo = <<>> /\ acc = <<>>
      /\ DOMAIN written = Ports
      /\ \A p \in Ports : written[p] = <<>> /\ ~Reg("writer", p)
  BY DEF Init, MoverInit, Reg, Movers
<1>3. Carries(consumed, 0, wfifo, acc)
  BY <1>1, <1>2 DEF Carries
<1>4. \A p \in Ports : PortWrote(p, 0)
  BY <1>1, <1>2 DEF PortWrote, One
<1> QED
  BY <1>1, <1>2, <1>3, <1>4 DEF DataInv

(* Every step keeps the invariant. *)
LEMMA NextData == ControlInv /\ DataInv /\ [Next]_vars => DataInv'
<1> SUFFICES ASSUME ControlInv, DataInv, [Next]_vars
             PROVE  DataInv'
  OBVIOUS
<1>1. CASE Next
  BY <1>1, CycleData DEF Next
<1>2. CASE UNCHANGED vars
  BY <1>2 DEF vars, units, DataInv, PortWrote, Reg, One
<1> QED
  BY <1>1, <1>2

(* In every reachable state the words given to the accelerator are those   *)
(* that every port has written, those in the writer's FIFO and those in    *)
(* the accelerator, in this order, and a port that is ahead of the others  *)
(* is ahead by the first word of the FIFO.                                 *)
THEOREM DataInvariance == Spec => []DataInv
BY InitData, NextData, ControlInvariance, PTL DEF Spec

(* What a port has written was consumed. *)
LEMMA DataOfPort ==
    ASSUME ControlInv, DataInv
    PROVE  /\ WritesCarryConsumed
           /\ (wfifo = <<>> /\ acc = <<>>) =>
                 \A p \in Ports : Len(written[p]) = Len(consumed)
<1>1. PICK d \in Nat : /\ Carries(consumed, d, wfifo, acc)
                       /\ \A p \in Ports : PortWrote(p, d)
  BY DEF DataInv
<1>2. /\ Len(wfifo) \in Nat /\ (Len(wfifo) = 0 <=> wfifo = <<>>)
      /\ Len(acc) \in Nat /\ (Len(acc) = 0 <=> acc = <<>>)
      /\ Len(consumed) = d + Len(wfifo) + Len(acc)
  BY <1>1, SeqLen DEF ControlInv, Shape, Carries
<1>3. ASSUME NEW p \in Ports
      PROVE  /\ Len(written[p]) \in Nat /\ Len(written[p]) <= Len(consumed)
             /\ wfifo = <<>> => Len(written[p]) = d
  BY <1>1, <1>2, SeqLen DEF PortWrote, One
<1>4. WritesCarryConsumed
  BY <1>1, <1>2, <1>3 DEF PortWrote, WritesCarryConsumed
<1> QED
  BY <1>2, <1>3, <1>4

(* The streamer never loses, doubles or reorders a word on its way from    *)
(* the accelerator to the TCDM, nor mixes two words: the k-th datum that a *)
(* port of the writer writes is that port's part of the k-th word the      *)
(* accelerator was given, whatever ports are granted in a cycle            *)
(* (DataWriter.scala, FIFO.scala).                                         *)
THEOREM WrittenAsConsumed == Spec => []WritesCarryConsumed
<1>1. ControlInv /\ DataInv => WritesCarryConsumed
  BY DataOfPort
<1> QED
  BY <1>1, ControlInvariance, DataInvariance, PTL

(* When the streamer reports that it is idle, every port has written its   *)
(* part of every word the accelerator was given: a core that sees the end  *)
(* of a job finds all its results in the TCDM.                             *)
THEOREM IdleAllWritten ==
    Spec => [](~busy => \A p \in Ports : Len(written[p]) = Len(consumed))
<1>1. IInv /\ DataInv =>
          (~busy => \A p \in Ports : Len(written[p]) = Len(consumed))
  BY NothingLeft, DataOfPort DEF IInv
<1> QED
  BY <1>1, Invariance, DataInvariance, PTL

-----------------------------------------------------------------------------
(* The data and the loops.                                                 *)

(* What the reader's units put out at the loop counters c: the address of  *)
(* port p, and the word at these addresses (the datum at an address is the *)
(* address).                                                               *)
ReadAgu(c) ==
    [busy |-> TRUE, loopBounds |-> agu["reader"].loopBounds,
     strides |-> agu["reader"].strides, ptr |-> agu["reader"].ptr,
     loop_counters |-> c]

ReadAddr(c, p) ==
    SpatialAddr(<<TcdmPortsNum>>, mover["reader"].spatialStrides,
                PtrOut(ReadAgu(c)), p)

ReadWord(c) == [p \in Ports |-> ReadAddr(c, p)]

(* The responses, from the registers or the wires. *)
Datum == DataFifoInput(rspbuf, rsp)

(* The n-th word on its way, from the oldest: w, a and f are the FIFO of   *)
(* the writer, the accelerator and the FIFO of the reader, x the responses.*)
Position(w, a, f, x, n) ==
    IF n <= Len(w) THEN w[n]
    ELSE IF n <= Len(w) + Len(a) THEN a[n - Len(w)]
    ELSE IF n <= Len(w) + Len(a) + Len(f) THEN f[n - (Len(w) + Len(a))]
    ELSE x

OneResponse == \A p \in Ports : ~(p \in DOMAIN rsp /\ rspbuf.valid_reg[p])

(* The responses for the pointer the reader works on. *)
ResponsesMatch ==
    ~WordWaits =>
        \A p \in Ports :
            Got(p) => Datum[p] = ReadAddr(agu["reader"].loop_counters, p)

(* The n-th word on its way was read in the n-th iteration from the        *)
(* writer's on.                                                            *)
FlightMatches ==
    \E q : /\ Chain(q, InFlight, agu["writer"].loopBounds,
                    agu["writer"].loop_counters, agu["reader"].loop_counters,
                    agu["reader"].busy)
           /\ \A n \in 1..InFlight :
                 Position(wfifo, acc, rfifo, Datum, n) = ReadWord(q[n - 1])

CopyInv == OneResponse /\ ResponsesMatch /\ FlightMatches

(* A word moves from the accelerator into the writer's FIFO. *)
LEMMA PositionGive ==
    ASSUME NEW w, NEW a, NEW f, NEW x, NEW n \in Nat \ {0},
           IsSeq(w), IsSeq(a), IsSeq(f), a # <<>>
    PROVE  Position(Append(w, Head(a)), Tail(a), f, x, n) = Position(w, a, f, x, n)
<1>1. PICK v, b : v = Append(w, Head(a)) /\ b = Tail(a)
  OBVIOUS
<1>2. /\ Len(w) \in Nat /\ Len(a) \in Nat \ {0} /\ Len(f) \in Nat
      /\ Len(v) = Len(w) + 1 /\ Len(b) = Len(a) - 1
  BY <1>1, AppendSeq, TailSeq, SeqLen
<1>3. /\ \A k \in 1..Len(w) : v[k] = w[k]
      /\ v[Len(w) + 1] = a[1]
      /\ \A k \in 1..(Len(a) - 1) : b[k] = a[k + 1]
  BY <1>1, SeqElements
<1>4. Position(v, b, f, x, n) = Position(w, a, f, x, n)
  <2>1. CASE n <= Len(w)
    BY <1>2, <1>3, <2>1 DEF Position
  <2>2. CASE n = Len(w) + 1
    BY <1>2, <1>3, <2>2 DEF Position
  <2>3. CASE n > Len(w) + 1 /\ n <= Len(w) + Len(a)
    <3>1. n - Len(v) \in 1..(Len(a) - 1) /\ (n - Len(v)) + 1 = n - Len(w)
      BY <1>2, <2>3
    <3>2. b[n - Len(v)] = a[n - Len(w)]
      BY <1>3, <3>1
    <3> QED
      BY <1>2, <2>3, <3>2 DEF Position
  <2>4. CASE n > Len(w) + Len(a)
    <3>1. Len(v) + Len(b) = Len(w) + Len(a)
      BY <1>2
    <3> QED
      BY <1>2, <2>4, <3>1 DEF Position
  <2> QED
    BY <1>2, <2>1, <2>2, <2>3, <2>4
<1> QED
  BY <1>1, <1>4

(* A word moves from the reader's FIFO into the accelerator. *)
LEMMA PositionTake ==
    ASSUME NEW w, NEW a, NEW f, NEW x, NEW n \in Nat \ {0},
           IsSeq(w), IsSeq(a), IsSeq(f), f # <<>>
    PROVE  Position(w, Append(a, Head(f)), Tail(f), x, n) = Position(w, a, f, x, n)
<1>1. PICK v, b : v = Append(a, Head(f)) /\ b = Tail(f)
  OBVIOUS
<1>2. /\ Len(w) \in Nat /\ Len(f) \in Nat \ {0} /\ Len(a) \in Nat
      /\ Len(v) = Len(a) + 1 /\ Len(b) = Len(f) - 1
  BY <1>1, AppendSeq, TailSeq, SeqLen
<1>3. /\ \A k \in 1..Len(a) : v[k] = a[k]
      /\ v[Len(a) + 1] = f[1]
      /\ \A k \in 1..(Len(f) - 1) : b[k] = f[k + 1]
  BY <1>1, SeqElements
<1>4. Position(w, v, b, x, n) = Position(w, a, f, x, n)
  <2>1. CASE n <= Len(w)
    BY <1>2, <2>1 DEF Position
  <2>2. CASE n > Len(w) /\ n <= Len(w) + Len(a)
    <3>1. n - Len(w) \in 1..Len(a)
      BY <1>2, <2>2
    <3> QED
      BY <1>2, <1>3, <2>2, <3>1 DEF Position
  <2>3. CASE n = Len(w) + Len(a) + 1
    <3>1. n - Len(w) = Len(a) + 1 /\ n - (Len(w) + Len(a)) = 1
      BY <1>2, <2>3
    <3> QED
      BY <1>2, <1>3, <2>3, <3>1 DEF Position
  <2>4. CASE n > Len(w) + Len(a) + 1
    <3>1. /\ n - (Len(w) + Len(v)) = n - (Len(w) + Len(a)) - 1
          /\ Len(w) + Len(v) + Len(b) = Len(w) + Len(a) + Len(f)
      BY <1>2
    <3>2. n <= Len(w) + Len(a) + Len(f) =>
              b[n - (Len(w) + Len(v))] = f[n - (Len(w) + Len(a))]
      <4>1. PICK k \in Int : k = n - (Len(w) + Len(v))
        <5>1. n - (Len(w) + Len(v)) \in Int
          BY <1>2
        <5> QED
          BY <5>1
      <4>2. n <= Len(w) + Len(a) + Len(f) => k \in 1..(Len(f) - 1)
        BY <1>2, <2>4, <4>1
      <4>3. k + 1 = n - (Len(w) + Len(a))
        BY <1>2, <4>1
      <4> QED
        BY <1>3, <4>1, <4>2, <4>3
    <3> QED
      BY <1>2, <2>4, <3>1, <3>2 DEF Position
  <2> QED
    BY <1>2, <2>1, <2>2, <2>3, <2>4
<1> QED
  BY <1>1, <1>4

(* The responses go into the reader's FIFO. *)
LEMMA PositionPush ==
    ASSUME NEW w, NEW a, NEW f, NEW x, NEW y, IsSeq(w), IsSeq(a), IsSeq(f),
           NEW n \in 1..(Len(w) + Len(a) + Len(f) + 1)
    PROVE  Position(w, a, Append(f, x), y, n) = Position(w, a, f, x, n)
<1>1. PICK g : g = Append(f, x)
  OBVIOUS
<1>2. /\ Len(w) \in Nat /\ Len(a) \in Nat /\ Len(f) \in Nat
      /\ Len(g) = Len(f) + 1
      /\ \A k \in 1..Len(f) : g[k] = f[k]
      /\ g[Len(f) + 1] = x
  BY <1>1, AppendSeq, SeqLen, SeqElements
<1>3. PICK k \in Int : k = n - (Len(w) + Len(a))
  <2>1. n - (Len(w) + Len(a)) \in Int
    BY <1>2
  <2> QED
    BY <2>1
<1>4. CASE k <= 0
  BY <1>2, <1>3, <1>4 DEF Position
<1>5. CASE k \in 1..Len(f)
  BY <1>1, <1>2, <1>3, <1>5 DEF Position
<1>6. CASE k = Len(f) + 1
  BY <1>1, <1>2, <1>3, <1>6 DEF Position
<1> QED
  BY <1>2, <1>3, <1>4, <1>5, <1>6

(* The writer is done with its word. *)
LEMMA PositionPop ==
    ASSUME NEW w, NEW a, NEW f, NEW x, NEW n \in Nat \ {0},
           IsSeq(w), IsSeq(a), IsSeq(f), w # <<>>
    PROVE  Position(Tail(w), a, f, x, n) = Position(w, a, f, x, n + 1)
<1>1. PICK v : v = Tail(w)
  OBVIOUS
<1>2. /\ Len(w) \in Nat \ {0} /\ Len(a) \in Nat /\ Len(f) \in Nat
      /\ Len(v) = Len(w) - 1
      /\ \A k \in 1..(Len(w) - 1) : v[k] = w[k + 1]
  BY <1>1, TailSeq, SeqLen, SeqElements
<1>3. /\ n <= Len(v) <=> n + 1 <= Len(w)
      /\ n <= Len(v) + Len(a) <=> n + 1 <= Len(w) + Len(a)
      /\ n <= Len(v) + Len(a) + Len(f) <=> n + 1 <= Len(w) + Len(a) + Len(f)
      /\ n - Len(v) = (n + 1) - Len(w)
      /\ n - (Len(v) + Len(a)) = (n + 1) - (Len(w) + Len(a))
      /\ n <= Len(v) => n \in 1..(Len(w) - 1)
  BY <1>2
<1> QED
  BY <1>1, <1>2, <1>3 DEF Position

(* The configuration of the reader stays until the next start. *)
LEMMA ReadAddrKept ==
    ASSUME ControlInv, NEW granted \in Grants, NEW take \in Takes,
           Cycle(granted, take), ~Start, NEW c, NEW p
    PROVE  ReadAddr(c, p)' = ReadAddr(c, p)
<1>1. /\ agu'["reader"].loopBounds = agu["reader"].loopBounds
      /\ agu'["reader"].strides = agu["reader"].strides
      /\ agu'["reader"].ptr = agu["reader"].ptr
  BY MoverNames, AguOfCycle
<1>2. mover'["reader"].spatialStrides = mover["reader"].spatialStrides
  BY MoverNames, MoverOfCycle
<1>3. ReadAgu(c)' = ReadAgu(c)
  BY <1>1 DEF ReadAgu
<1> QED
  BY <1>2, <1>3 DEF ReadAddr

(* What a busy reader requests. *)
LEMMA AddressIsReadAddr ==
    ASSUME ControlInv, agu["reader"].busy, NEW p
    PROVE  Address("reader", p) = ReadAddr(agu["reader"].loop_counters, p)
<1>1. agu["reader"].busy = TRUE /\ IsAgu(agu["reader"])
  BY MoverNames DEF ControlInv, Shape, IsAgu
<1>2. ReadAgu(agu["reader"].loop_counters) = agu["reader"]
  BY <1>1 DEF ReadAgu, IsAgu
<1> QED
  BY <1>2 DEF Address, ReadAddr

(* A cycle of the responses: a granted read is answered, and a response    *)
(* that does not go into the FIFO stays.                                   *)
LEMMA DatumOfCycle ==
    ASSUME ControlInv, OneResponse, NEW granted \in Grants, NEW take \in Takes,
           Cycle(granted, take), NEW p \in Ports
    PROVE  /\ p \in granted["reader"] =>
                 /\ Datum'[p] = ReadAddr(agu["reader"].loop_counters, p)
                 /\ ~rspbuf'.valid_reg[p]
           /\ Got(p) /\ ~(Full /\ FifoReady(rfifo)) => Datum'[p] = Datum[p]
<1>1. /\ rspbuf'.valid_reg[p] = (~(Full /\ FifoReady(rfifo)) /\ Got(p))
      /\ rspbuf'.data_buffer[p] =
            IF p \in DOMAIN rsp THEN rsp[p] ELSE rspbuf.data_buffer[p]
  BY DEF Cycle, StreamerStep, RspNext, Full, Got
<1>2. Datum'[p] = IF rspbuf'.valid_reg[p] THEN rspbuf'.data_buffer[p] ELSE rsp'[p]
  BY DEF Datum, DataFifoInput
<1>3. Datum[p] = IF rspbuf.valid_reg[p] THEN rspbuf.data_buffer[p] ELSE rsp[p]
  BY DEF Datum, DataFifoInput
<1>4. ASSUME p \in granted["reader"]
      PROVE  /\ Datum'[p] = ReadAddr(agu["reader"].loop_counters, p)
             /\ ~rspbuf'.valid_reg[p]
  <2>1. /\ agu["reader"].busy /\ ~Reg("reader", p)
        /\ FifoReady(rfifo) \/ ~Full
    BY <1>4, MoverNames, Wires DEF Full, TcdmRspValid, Got
  <2>2. Got(p) => Full
    BY <2>1 DEF ControlInv, ResponsesPaired, WordWaits, Full, TcdmRspValid, Got
  <2>3. ~rspbuf'.valid_reg[p]
    BY <1>1, <2>1, <2>2
  <2>4. rsp'[p] = Address("reader", p)
    BY <1>4 DEF Cycle, TcdmStep
  <2> QED
    BY <1>2, <2>1, <2>3, <2>4, AddressIsReadAddr
<1>5. ASSUME Got(p), ~(Full /\ FifoReady(rfifo))
      PROVE  Datum'[p] = Datum[p]
  BY <1>1, <1>2, <1>3, <1>5 DEF OneResponse, Got
<1> QED
  BY <1>4, <1>5

(* The wires of the reader in a cycle. *)
LEMMA ReaderOfCycle ==
    ASSUME ControlInv, NEW granted \in Grants, NEW take \in Takes,
           Cycle(granted, take)
    PROVE  LET r == PtrReady("reader", granted["reader"])
               push == Full /\ FifoReady(rfifo)
           IN  /\ r \in BOOLEAN /\ push \in BOOLEAN
               /\ r => \A p \in Ports : p \in granted["reader"] \/ Reg("reader", p)
               /\ \A p \in granted["reader"] :
                     ~Reg("reader", p) /\ (FifoReady(rfifo) \/ ~Full)
               /\ Full <=> \A p \in Ports : Got(p)
               /\ One(WordWaits') = One(WordWaits) + One(r) - One(push)
<1>1. Full <=> \A p \in Ports : Got(p)
  BY DEF Full, TcdmRspValid, Got
<1> QED
  BY <1>1, MoverNames, Wires, WaitsOfCycle DEF Full, TcdmRspValid

(* The responses of the next cycle, if they are not for a pointer the      *)
(* reader is done with.                                                    *)
LEMMA ResponsesGoOn ==
    ASSUME IInv, CopyInv, NEW granted \in Grants, NEW take \in Takes,
           Cycle(granted, take), ~Start
    PROVE  ResponsesMatch'
<1> DEFINE r == PtrReady("reader", granted["reader"])
           push == Full /\ FifoReady(rfifo)
           cr == agu["reader"].loop_counters
<1> SUFFICES ASSUME ~WordWaits', NEW p \in Ports, Got(p)'
             PROVE  Datum'[p] = ReadAddr(agu["reader"].loop_counters, p)'
  BY DEF ResponsesMatch
<1>1. /\ r \in BOOLEAN /\ push \in BOOLEAN
      /\ One(WordWaits') = One(WordWaits) + One(r) - One(push)
      /\ Full <=> \A x \in Ports : Got(x)
      /\ p \in granted["reader"] => ~Reg("reader", p)
  BY ReaderOfCycle DEF IInv
<1>2. Got(p)' <=> p \in granted["reader"] \/ (Got(p) /\ ~push)
  BY ResponsesOfCycle DEF IInv
<1>3. WordWaits \/ (Got(p) <=> Reg("reader", p))
  BY DEF IInv, ControlInv, ResponsesPaired
<1>4. ~(push /\ ~WordWaits)
  BY <1>1, <1>2, <1>3
<1>5. ~r
  BY <1>1, <1>4 DEF One
<1>6. agu'["reader"].loop_counters = cr
  BY <1>5, MoverNames, UnitGoesOn
<1>7. Datum'[p] = ReadAddr(cr, p)
  <2>1. CASE p \in granted["reader"]
    BY <2>1, DatumOfCycle DEF IInv, CopyInv
  <2>2. CASE p \notin granted["reader"]
    <3>1. Got(p) /\ ~push
      BY <1>2, <2>2
    <3>2. ~WordWaits
      BY <1>1, <3>1 DEF One
    <3> QED
      BY <3>1, <3>2, DatumOfCycle DEF IInv, CopyInv, ResponsesMatch
  <2> QED
    BY <2>1, <2>2
<1>8. PICK c : c = cr
  OBVIOUS
<1>9. ReadAddr(c, p)' = ReadAddr(c, p)
  BY ReadAddrKept DEF IInv
<1> HIDE DEF cr
<1> QED
  BY <1>6, <1>7, <1>8, <1>9

(* The words on their way, before any of them moves on, and the one that   *)
(* the reader completes in this cycle.                                     *)
LEMMA FlightGrows ==
    ASSUME IInv, CopyInv, NEW granted \in Grants, NEW take \in Takes,
           Cycle(granted, take), ~Start, NEW q, NEW k \in Nat, k = InFlight,
           q[k] = agu["reader"].loop_counters,
           \A n \in 1..k :
               Position(wfifo, acc, rfifo, Datum, n) = ReadWord(q[n - 1]),
           NEW n \in 1..(k + One(PtrReady("reader", granted["reader"])))
    PROVE  Position(wfifo, acc, FifoWith(rfifo, Full, Datum), Datum', n)
              = ReadWord(q[n - 1])
<1> DEFINE r == PtrReady("reader", granted["reader"])
           push == Full /\ FifoReady(rfifo)
           cr == agu["reader"].loop_counters
           f2 == FifoWith(rfifo, Full, Datum)
<1>1. /\ r \in BOOLEAN /\ push \in BOOLEAN
      /\ r => \A p \in Ports : p \in granted["reader"] \/ Reg("reader", p)
      /\ \A p \in granted["reader"] :
            ~Reg("reader", p) /\ (FifoReady(rfifo) \/ ~Full)
      /\ Full <=> \A p \in Ports : Got(p)
      /\ One(WordWaits') = One(WordWaits) + One(r) - One(push)
  BY ReaderOfCycle DEF IInv
<1>2. /\ IsSeq(wfifo) /\ IsSeq(acc) /\ IsSeq(rfifo)
      /\ Len(wfifo) \in Nat /\ Len(acc) \in Nat /\ Len(rfifo) \in Nat
  BY SeqLen DEF IInv, ControlInv, Shape
<1>3. PICK t \in Nat : /\ t = Len(wfifo) + Len(acc) + Len(rfifo)
                       /\ k = t + One(WordWaits)
  <2>1. Len(wfifo) + Len(acc) + Len(rfifo) \in Nat
    BY <1>2
  <2>2. k = Len(wfifo) + Len(acc) + Len(rfifo) + One(WordWaits)
    <3>1. One(WordWaits) \in Nat
      BY DEF One
    <3> QED
      BY <1>2, <3>1 DEF InFlight
  <2> QED
    BY <2>1, <2>2
<1>4. WordWaits => Full /\ \A p \in Ports : Got(p) /\ ~Reg("reader", p)
  BY <1>1 DEF WordWaits
<1>5. ~WordWaits => \A p \in Ports : /\ Got(p) <=> Reg("reader", p)
                                     /\ Got(p) => Datum[p] = ReadAddr(cr, p)
  BY DEF IInv, CopyInv, ControlInv, ResponsesPaired, ResponsesMatch
<1>6. \A p \in Ports :
         /\ p \in granted["reader"] => Datum'[p] = ReadAddr(cr, p)
         /\ Got(p) /\ ~push => Datum'[p] = Datum[p]
  BY DatumOfCycle DEF IInv, CopyInv
<1>7. /\ Datum = [p \in Ports |-> Datum[p]]
      /\ Datum' = [p \in Ports |-> Datum'[p]]
  BY DEF Datum, DataFifoInput
<1>8. ReadWord(q[k]) = [p \in Ports |-> ReadAddr(cr, p)]
  BY DEF ReadWord
<1>9. \A x, y : /\ Position(wfifo, acc, rfifo, x, t + 1) = x
                /\ \A j \in 1..t : Position(wfifo, acc, rfifo, x, j)
                                      = Position(wfifo, acc, rfifo, y, j)
  BY <1>2, <1>3 DEF Position
<1>10. CASE push
  <2>1. f2 = Append(rfifo, Datum)
    BY <1>10 DEF FifoWith
  <2>2. /\ \A y : Position(wfifo, acc, f2, y, t + 2) = y
        /\ \A j \in 1..(t + 1) : Position(wfifo, acc, f2, Datum', j)
                                     = Position(wfifo, acc, rfifo, Datum, j)
    <3>1. Len(f2) = Len(rfifo) + 1
      BY <1>2, <2>1, AppendSeq
    <3>2. \A y : Position(wfifo, acc, f2, y, t + 2) = y
      BY <1>2, <1>3, <3>1 DEF Position
    <3>3. \A j \in 1..(t + 1) : Position(wfifo, acc, f2, Datum', j)
                                     = Position(wfifo, acc, rfifo, Datum, j)
      BY <1>2, <1>3, <2>1, PositionPush
    <3> QED
      BY <3>2, <3>3
  <2>3. CASE n <= k
    BY <1>3, <2>2, <2>3 DEF One
  <2>4. CASE n = k + 1 /\ ~WordWaits
    <3>1. n = t + 1 /\ n - 1 = k
      BY <1>3, <2>4 DEF One
    <3>2. Datum = ReadWord(q[k])
      BY <1>1, <1>5, <1>7, <1>8, <1>10, <2>4
    <3> QED
      BY <1>3, <1>9, <2>2, <3>1, <3>2
  <2>5. CASE n = k + 1 /\ WordWaits
    <3>1. n = t + 2 /\ n - 1 = k /\ r
      BY <1>1, <1>3, <2>5 DEF One
    <3>2. Datum' = ReadWord(q[k])
      BY <1>1, <1>4, <1>6, <1>7, <1>8, <2>5, <3>1
    <3> QED
      BY <2>2, <3>1, <3>2
  <2> QED
    BY <1>1, <2>3, <2>4, <2>5 DEF One
<1>11. CASE ~push
  <2>1. f2 = rfifo
    BY <1>11 DEF FifoWith
  <2>2. CASE n <= t
    <3>1. n <= k
      BY <1>3, <2>2 DEF One
    <3>2. n \in 1..t /\ n \in 1..k
      BY <2>2, <3>1
    <3> QED
      BY <1>9, <2>1, <3>2
  <2>3. CASE n = t + 1 /\ WordWaits
    <3>1. ~r /\ n \in 1..k
      BY <1>1, <1>3, <1>11, <2>3 DEF One
    <3>2. Datum' = Datum
      BY <1>4, <1>6, <1>7, <1>11, <2>3
    <3> QED
      BY <2>1, <3>1, <3>2
  <2>4. CASE n = t + 1 /\ ~WordWaits
    <3>1. r /\ n - 1 = k
      BY <1>1, <1>3, <2>4 DEF One
    <3>2. Datum' = ReadWord(q[k])
      BY <1>1, <1>5, <1>6, <1>7, <1>8, <1>11, <2>4, <3>1
    <3> QED
      BY <1>9, <2>1, <2>4, <3>1, <3>2
  <2>5. n <= t + 1
    BY <1>1, <1>3, <1>11 DEF One
  <2> QED
    BY <1>3, <2>2, <2>3, <2>4, <2>5
<1> QED
  BY <1>1, <1>10, <1>11

(* The words move on in a cycle, and the first one leaves when the writer  *)
(* is done with its pointer.                                               *)
LEMMA FlightMoves ==
    ASSUME ControlInv, NEW granted \in Grants, NEW take \in Takes,
           Cycle(granted, take), NEW x, NEW n \in Nat \ {0}
    PROVE  Position(wfifo', acc', rfifo', x, n)
              = Position(wfifo, acc, FifoWith(rfifo, Full, Datum), x,
                         n + One(PtrReady("writer", granted["writer"])))
<1> DEFINE given == offer /\ FifoReady(wfifo)
           ready == PtrReady("writer", granted["writer"])
           w2 == FifoWith(wfifo, offer, OfferedWord)
           a2 == IF given THEN Tail(acc) ELSE acc
           f2 == FifoWith(rfifo, Full, Datum)
           word == FifoOut(rfifo, Datum)
<1>1. /\ IsSeq(wfifo) /\ IsSeq(acc) /\ IsSeq(rfifo)
      /\ offer \in BOOLEAN /\ (offer => acc # <<>>)
      /\ ready \in BOOLEAN /\ take \in BOOLEAN /\ Full \in BOOLEAN
  BY MoverNames, Wires DEF ControlInv, Shape, Takes, Full, TcdmRspValid
<1>2. /\ wfifo' = IF ready /\ w2 # <<>> THEN Tail(w2) ELSE w2
      /\ acc' = IF take THEN Append(a2, word) ELSE a2
      /\ rfifo' = IF take /\ f2 # <<>> THEN Tail(f2) ELSE f2
  BY MoverNames DEF Cycle, StreamerStep, AcceleratorStep, FifoNext, Datum, Full
<1>3. IsSeq(f2)
  BY <1>1, AppendSeq DEF FifoWith
<1>4. take => f2 # <<>> /\ word = Head(f2)
  <2>1. take => FifoValid(rfifo, Full)
    BY DEF Takes, Full
  <2>2. rfifo = <<>> => FifoReady(rfifo)
    BY <1>1, SeqLen, MoverAssumption DEF FifoReady
  <2> QED
    BY <1>1, <2>1, <2>2, AppendSeq DEF FifoWith, FifoOut, FifoValid
<1>5. /\ IsSeq(w2) /\ IsSeq(a2)
      /\ \A f : \A j \in Nat \ {0} : IsSeq(f) =>
            Position(w2, a2, f, x, j) = Position(wfifo, acc, f, x, j)
  <2>1. CASE given
    <3>1. w2 = Append(wfifo, Head(acc)) /\ a2 = Tail(acc)
      BY <2>1 DEF FifoWith, OfferedWord
    <3> HIDE DEF w2, a2
    <3> QED
      BY <1>1, <2>1, <3>1, PositionGive, AppendSeq, TailSeq
  <2>2. CASE ~given
    <3>1. w2 = wfifo /\ a2 = acc
      BY <2>2 DEF FifoWith
    <3> HIDE DEF w2, a2
    <3> QED
      BY <1>1, <3>1
  <2> QED
    BY <2>1, <2>2
<1>6. ready => w2 # <<>>
  <2>1. ready => FifoValid(wfifo, offer)
    BY WriterHasWord DEF ready
  <2>2. wfifo = <<>> => FifoReady(wfifo)
    BY <1>1, SeqLen, MoverAssumption DEF FifoReady
  <2> QED
    BY <1>1, <2>1, <2>2, AppendSeq DEF FifoWith, FifoValid
<1> HIDE DEF given, w2, a2, word, ready, f2
<1>7. /\ IsSeq(acc') /\ IsSeq(rfifo')
      /\ \A w : \A j \in Nat \ {0} : IsSeq(w) =>
            Position(w, acc', rfifo', x, j) = Position(w, a2, f2, x, j)
  <2>1. CASE take
    BY <1>2, <1>3, <1>4, <1>5, <2>1, PositionTake, AppendSeq, TailSeq
  <2>2. CASE ~take
    BY <1>2, <1>3, <1>5, <2>2
  <2> QED
    BY <1>1, <2>1, <2>2
<1>8. PICK j \in Nat \ {0} : j = n + One(ready)
  BY DEF One
<1>9. Position(wfifo', acc', rfifo', x, n) = Position(w2, acc', rfifo', x, j)
  <2>1. CASE ready
    BY <1>2, <1>5, <1>6, <1>7, <1>8, <2>1, PositionPop DEF One
  <2>2. CASE ~ready
    BY <1>2, <1>8, <2>2 DEF One
  <2> QED
    BY <1>1, <2>1, <2>2
<1>10. Position(w2, acc', rfifo', x, j) = Position(wfifo, acc, f2, x, j)
  BY <1>3, <1>5, <1>7
<1> QED
  BY <1>8, <1>9, <1>10 DEF f2, ready

(* A cycle without a start. *)
LEMMA CopyGoesOn ==
    ASSUME IInv, CopyInv, NEW granted \in Grants, NEW take \in Takes,
           Cycle(granted, take), ~Start
    PROVE  FlightMatches'
<1> DEFINE r == PtrReady("reader", granted["reader"])
           w == PtrReady("writer", granted["writer"])
<1>1. PICK k \in Nat : k = InFlight
  BY FlightCount DEF IInv
<1>2. PICK q : /\ Chain(q, k, agu["writer"].loopBounds,
                        agu["writer"].loop_counters, agu["reader"].loop_counters,
                        agu["reader"].busy)
               /\ \A n \in 1..k :
                     Position(wfifo, acc, rfifo, Datum, n) = ReadWord(q[n - 1])
  BY <1>1 DEF CopyInv, FlightMatches
<1>3. PICK q1, q2 :
         /\ \A n \in 0..k : q1[n] = q[n]
         /\ Chain(q2, InFlight', agu'["writer"].loopBounds,
                  agu'["writer"].loop_counters,
                  agu'["reader"].loop_counters, agu'["reader"].busy)
         /\ \A n \in 0..InFlight' : q2[n] = q1[n + One(w)]
  BY <1>1, <1>2, ChainOfCycle
<1>4. PICK i \in Nat, j \in Nat, l \in Nat :
         /\ i = One(r) /\ j = One(w) /\ l = InFlight' /\ l = k + i - j /\ i <= 1
  <2>1. r \in BOOLEAN /\ w \in BOOLEAN /\ InFlight' = k + One(r) - One(w)
        /\ (w => k > 0)
    BY <1>1, MoverNames, FlightCount, Wires DEF IInv
  <2> HIDE DEF r, w
  <2>2. One(r) \in Nat /\ One(w) \in Nat /\ InFlight' \in Nat /\ One(r) <= 1
    BY <2>1 DEF One
  <2> QED
    BY <2>1, <2>2
<1>5. ASSUME NEW n \in 1..l
      PROVE  Position(wfifo', acc', rfifo', Datum', n) = ReadWord(q2[n - 1])'
  <2>1. PICK m \in 1..(k + i) : m = n + j
    <3>1. n + j \in 1..(k + i)
      BY <1>4
    <3> QED
      BY <3>1
  <2>2. PICK x : x = Datum'
    OBVIOUS
  <2>3. Position(wfifo', acc', rfifo', x, n)
            = Position(wfifo, acc, FifoWith(rfifo, Full, Datum), x, m)
    BY <1>4, <2>1, FlightMoves DEF IInv
  <2>4. Position(wfifo, acc, FifoWith(rfifo, Full, Datum), x, m)
            = ReadWord(q[m - 1])
    <3>1. q[k] = agu["reader"].loop_counters
      BY <1>2 DEF Chain
    <3> QED
      BY <1>1, <1>2, <1>4, <2>2, <3>1, FlightGrows
  <2>5. q2[n - 1] = q[m - 1]
    <3>1. /\ n - 1 \in 0..l /\ (n - 1) + j = m - 1 /\ m - 1 \in 0..k
      BY <1>4, <2>1
    <3> QED
      BY <1>3, <1>4, <3>1
  <2>6. PICK c : c = q2[n - 1]
    OBVIOUS
  <2>7. ReadWord(c)' = ReadWord(c)
    BY ReadAddrKept DEF ReadWord, IInv
  <2> QED
    BY <2>2, <2>3, <2>4, <2>5, <2>6, <2>7
<1> QED
  BY <1>3, <1>4, <1>5 DEF FlightMatches

(* An idle streamer is started: nothing is on its way. *)
LEMMA CopyStarts ==
    ASSUME IInv, CopyInv, NEW granted \in Grants, NEW take \in Takes,
           Cycle(granted, take), Start
    PROVE  ResponsesMatch' /\ FlightMatches'
<1>1. ~busy
  BY StartWhenIdle
<1>2. \A m \in Movers : ~agu[m].busy
  BY <1>1 DEF IInv, ControlInv, UnitsTogether
<1>3. \A p \in Ports : ~Got(p)'
  <2>1. \A p \in Ports : ~Got(p) /\ p \notin granted["reader"]
    BY <1>1, <1>2, NothingLeft, Wires, MoverNames DEF IInv
  <2> QED
    BY <2>1, ResponsesOfCycle DEF IInv
<1>4. InFlight' = 0
  <2>1. InFlight = 0
    BY <1>2, MoverNames, FlightCount DEF IInv, FlightInv
  <2>2. /\ ~PtrReady("reader", granted["reader"])
        /\ ~PtrReady("writer", granted["writer"])
    BY <1>2, MoverNames, Wires DEF IInv
  <2> QED
    BY <2>1, <2>2, FlightCount DEF IInv, One
<1>5. FlightInv'
  BY StartFlight
<1> QED
  BY <1>3, <1>4, <1>5 DEF ResponsesMatch, FlightMatches, FlightInv

(* Nothing is read at the start. *)
LEMMA InitCopy == Init => CopyInv
<1> SUFFICES ASSUME Init
             PROVE  CopyInv
  OBVIOUS
<1>1. FlightInv
  BY InitIInv DEF IInv
<1>2. \A p \in Ports : ~Got(p) /\ ~rspbuf.valid_reg[p]
  BY DEF Init, Got, RspInit
<1>3. InFlight = 0
  BY <1>2, PortsExist DEF Init, InFlight, WordWaits, One
<1> QED
  BY <1>1, <1>2, <1>3
  DEF CopyInv, OneResponse, ResponsesMatch, FlightMatches, FlightInv

(* Every step keeps the invariant. *)
LEMMA NextCopy == IInv /\ CopyInv /\ [Next]_vars => CopyInv'
<1> SUFFICES ASSUME IInv, CopyInv, [Next]_vars
             PROVE  CopyInv'
  OBVIOUS
<1>1. CASE Next
  <2>1. PICK granted \in Grants, take \in Takes : Cycle(granted, take)
    BY <1>1 DEF Next
  <2>2. OneResponse'
    <3>1. \A p \in Ports : p \in DOMAIN rsp' => ~rspbuf'.valid_reg[p]
      <4>1. DOMAIN rsp' = granted["reader"]
        BY <2>1 DEF Cycle, TcdmStep
      <4> QED
        BY <2>1, <4>1, DatumOfCycle DEF IInv, CopyInv
    <3> QED
      BY <3>1 DEF OneResponse
  <2>3. ResponsesMatch' /\ FlightMatches'
    BY <2>1, CopyStarts, CopyGoesOn, ResponsesGoOn
  <2> QED
    BY <2>2, <2>3 DEF CopyInv
<1>2. CASE UNCHANGED vars
  <2>1. /\ agu' = agu /\ mover' = mover /\ rspbuf' = rspbuf /\ rsp' = rsp
        /\ wfifo' = wfifo /\ acc' = acc /\ rfifo' = rfifo
    BY <1>2 DEF vars, units
  <2>2. InFlight' = InFlight /\ Datum' = Datum /\ (WordWaits' <=> WordWaits)
    BY <2>1 DEF InFlight, Datum, WordWaits, Got, Reg, One
  <2>3. /\ \A c, p : ReadAddr(c, p)' = ReadAddr(c, p)
        /\ \A c : ReadWord(c)' = ReadWord(c)
    BY <2>1 DEF ReadWord, ReadAddr, ReadAgu
  <2>4. OneResponse' /\ ResponsesMatch'
    BY <2>1, <2>2, <2>3 DEF CopyInv, OneResponse, ResponsesMatch, Got
  <2>5. FlightMatches'
    BY <2>1, <2>2, <2>3 DEF CopyInv, FlightMatches
  <2> QED
    BY <2>4, <2>5 DEF CopyInv
<1> QED
  BY <1>1, <1>2

(* In every reachable state the n-th word between the reader and the       *)
(* writer, wherever it is, was read in the n-th iteration of the loops     *)
(* from the one the writer is in.                                          *)
THEOREM CopyInvariance == Spec => []CopyInv
BY InitCopy, NextCopy, Invariance, PTL DEF Spec

(* What the writer requests to write is the datum at the address that the  *)
(* reader's configuration gives for the same loop counters.                *)
CopiesMatch ==
    \A p \in Requests("writer") :
        WriteWord[p] = ReadAddr(agu["writer"].loop_counters, p)

(* The streamer copies as its configuration says: a write of any port, at  *)
(* the address of the writer's loops, carries the datum at the address of  *)
(* the reader's loops in the same iteration, whatever the delays of the    *)
(* TCDM at each port, of the accelerator and of the core, in every job.    *)
THEOREM WritesMatchReads == Spec => []CopiesMatch
<1>1. IInv /\ CopyInv => CopiesMatch
  <2> SUFFICES ASSUME IInv, CopyInv, NEW p \in Requests("writer")
               PROVE  WriteWord[p] = ReadAddr(agu["writer"].loop_counters, p)
    BY DEF CopiesMatch
  <2>1. p \in Ports /\ FifoValid(wfifo, offer)
    BY DEF Requests, WriterReqValid
  <2>2. /\ IsSeq(wfifo) /\ IsSeq(acc) /\ IsSeq(rfifo) /\ (offer => acc # <<>>)
    BY DEF IInv, ControlInv, Shape
  <2>3. /\ Len(wfifo) \in Nat /\ (Len(wfifo) = 0 <=> wfifo = <<>>)
        /\ Len(acc) \in Nat /\ (Len(acc) = 0 <=> acc = <<>>)
        /\ Len(rfifo) \in Nat
    BY <2>2, SeqLen
  <2>4. InFlight \in Nat /\ 1 \in 1..InFlight
    BY <2>1, <2>2, <2>3 DEF InFlight, One, FifoValid
  <2>5. PICK q : /\ q[0] = agu["writer"].loop_counters
                 /\ Position(wfifo, acc, rfifo, Datum, 1) = ReadWord(q[1 - 1])
    BY <2>4 DEF CopyInv, FlightMatches, Chain
  <2>6. WriteWord = Position(wfifo, acc, rfifo, Datum, 1)
    <3>1. CASE wfifo # <<>>
      <4>1. WriteWord = wfifo[1]
        BY <2>2, <3>1, SeqElements DEF WriteWord, FifoOut
      <4> QED
        BY <2>3, <3>1, <4>1 DEF Position
    <3>2. CASE wfifo = <<>>
      <4>1. acc # <<>> /\ WriteWord = acc[1]
        BY <2>1, <2>2, <3>2, SeqElements
        DEF WriteWord, FifoOut, OfferedWord, FifoValid
      <4> QED
        BY <2>3, <3>2, <4>1 DEF Position
    <3> QED
      BY <3>1, <3>2
  <2>7. 1 - 1 = 0
    OBVIOUS
  <2> QED
    BY <2>1, <2>5, <2>6, <2>7 DEF ReadWord
<1> QED
  BY <1>1, Invariance, CopyInvariance, PTL

-----------------------------------------------------------------------------
(* The nested loops.                                                       *)

(* What the recursive function in the definition of Volume computes. *)
IsVolumes(v, b, n) == v = [i \in 0..n |-> IF i = 0 THEN 1 ELSE v[i - 1] * b[i]]

(* Volume is this recursion. *)
LEMMA VolumeIsRecursion ==
    ASSUME NEW b, NEW n
    PROVE  Volume(b, n) = (CHOOSE v : IsVolumes(v, b, n))[n]
BY DEF Volume, IsVolumes

(* F[n] is the number of iterations of the n innermost of N loops. *)
Volumes(F, b, N) ==
    /\ \A i \in 1..N : b[i] \in Nat \ {0}
    /\ F \in [Nat -> Nat \ {0}]
    /\ F[0] = 1
    /\ \A i \in 0..(N - 1) : F[i + 1] = F[i] * b[i + 1]

(* It is well-defined. *)
LEMMA VolumePrefixes ==
    ASSUME NEW N \in Nat, NEW b, NEW F, Volumes(F, b, N), NEW n \in 0..N
    PROVE  Volume(b, n) = F[n]
<1> USE DEF Volumes
<1>1. PICK h : h = [i \in 0..n |-> F[i]]
  OBVIOUS
<1>2. \A i \in 1..N : F[i] = F[i - 1] * b[i]
  <2> SUFFICES ASSUME NEW i \in 1..N
               PROVE  F[i] = F[i - 1] * b[i]
    OBVIOUS
  <2>1. i - 1 \in 0..(N - 1) /\ (i - 1) + 1 = i
    OBVIOUS
  <2> QED
    BY <2>1
<1>3. \A i \in 0..n : F[i] = IF i = 0 THEN 1 ELSE h[i - 1] * b[i]
  <2> SUFFICES ASSUME NEW i \in 0..n, i # 0
               PROVE  F[i] = h[i - 1] * b[i]
    OBVIOUS
  <2>1. i \in 1..N /\ i - 1 \in 0..n
    OBVIOUS
  <2> QED
    BY <1>1, <1>2, <2>1
<1>4. IsVolumes(h, b, n)
  BY <1>1, <1>3 DEF IsVolumes
<1>5. PICK w : w = (CHOOSE v : IsVolumes(v, b, n)) /\ IsVolumes(w, b, n)
  BY <1>4
<1> DEFINE P == {i \in Nat : i \in 0..n => w[i] = F[i]}
<1>6. 0 \in P
  BY <1>5 DEF IsVolumes
<1>7. ASSUME NEW i \in Nat, i \in P
      PROVE  i + 1 \in P
  <2> SUFFICES ASSUME i + 1 \in 0..n
               PROVE  w[i + 1] = F[i + 1]
    OBVIOUS
  <2>1. PICK k \in 1..N : k = i + 1 /\ k - 1 = i /\ k \in 0..n /\ k # 0 /\ i \in 0..n
    OBVIOUS
  <2>2. w[k] = w[k - 1] * b[k]
    BY <1>5, <2>1 DEF IsVolumes
  <2>3. w[i] = F[i]
    BY <1>7, <2>1
  <2> QED
    BY <1>2, <2>1, <2>2, <2>3
<1>8. Nat \subseteq P
  <2> HIDE DEF P
  <2> QED
    BY <1>6, <1>7, NatSetInduction
<1>9. w[n] = F[n]
  BY <1>8
<1> QED
  BY <1>5, <1>9, VolumeIsRecursion

(* The iterations of no loop, and of one loop more. *)
LEMMA VolumeSteps ==
    ASSUME NEW N \in Nat, NEW b, \A i \in 1..N : b[i] \in Nat \ {0}
    PROVE  /\ Volume(b, 0) = 1
           /\ \A i \in 0..N : Volume(b, i) \in Nat \ {0}
           /\ \A i \in 1..N : Volume(b, i) = Volume(b, i - 1) * b[i]
<1> DEFINE V == Nat \ {0}
           step == [x \in Nat \X V |-> IF x[1] < N THEN x[2] * b[x[1] + 1] ELSE x[2]]
<1>1. step \in [Nat \X V -> V]
  <2> SUFFICES ASSUME NEW x \in Nat \X V
               PROVE  (IF x[1] < N THEN x[2] * b[x[1] + 1] ELSE x[2]) \in V
    OBVIOUS
  <2>1. PICK i \in Nat, v \in Nat \ {0} : i = x[1] /\ v = x[2]
    OBVIOUS
  <2>2. i < N => v * b[i + 1] \in Nat \ {0}
    <3> SUFFICES ASSUME i < N PROVE v * b[i + 1] \in Nat \ {0}
      OBVIOUS
    <3>1. i + 1 \in 1..N
      BY <2>1
    <3>2. PICK y \in Nat \ {0} : y = b[i + 1]
      BY <3>1
    <3> QED
      BY <2>1, <3>2, Products
  <2> QED
    BY <2>1, <2>2
<1>2. PICK F : Iterates(F, V, 1, step)
  <2>1. 1 \in V
    OBVIOUS
  <2> HIDE DEF step, V
  <2> QED
    BY <1>1, <2>1, NatRecursion
<1>3. /\ F \in [Nat -> V] /\ F[0] = 1
      /\ \A i \in Nat : F[i + 1] = step[<<i, F[i]>>]
  <2> HIDE DEF step, V
  <2> QED
    BY <1>2 DEF Iterates
<1>4. \A i \in 0..(N - 1) : F[i + 1] = F[i] * b[i + 1]
  <2> SUFFICES ASSUME NEW i \in 0..(N - 1)
               PROVE  F[i + 1] = F[i] * b[i + 1]
    OBVIOUS
  <2>1. PICK x \in Nat \X V : x = <<i, F[i]>> /\ x[1] = i /\ x[2] = F[i] /\ i < N
    <3>1. i \in Nat /\ F[i] \in V /\ i < N
      BY <1>3
    <3>2. <<i, F[i]>> \in Nat \X V
      BY <3>1
    <3> QED
      BY <3>1, <3>2
  <2>2. step[x] = F[i] * b[i + 1]
    BY <2>1
  <2>3. F[i + 1] = step[x]
    <3> HIDE DEF step
    <3> QED
      BY <1>3, <2>1
  <2> QED
    BY <2>2, <2>3
<1>5. Volumes(F, b, N)
  BY <1>3, <1>4 DEF Volumes
<1>6. \A n \in 0..N : Volume(b, n) = F[n]
  BY <1>5, VolumePrefixes
<1>7. \A i \in 0..N : Volume(b, i) \in Nat \ {0}
  BY <1>3, <1>6
<1>8. ASSUME NEW i \in 1..N
      PROVE  Volume(b, i) = Volume(b, i - 1) * b[i]
  <2>1. i - 1 \in 0..(N - 1) /\ (i - 1) + 1 = i /\ i \in 0..N /\ i - 1 \in 0..N
    OBVIOUS
  <2> QED
    BY <1>4, <1>6, <2>1
<1> QED
  BY <1>3, <1>6, <1>7, <1>8

(* The bounds of a job, and its loop counters in the k-th iteration, which *)
(* NestedLoopAddr computes by division.                                    *)
Bounds == [Dims -> 1..(2^LoopBoundWidth - 1)]

Counters(b, k) == [i \in Dims |-> (k \div Volume(b, i - 1)) % b[i]]

(* The bounds are positive numbers, and so is every volume. *)
LEMMA BoundsVolumes ==
    ASSUME NEW b \in Bounds
    PROVE  /\ Volume(b, 0) = 1
           /\ \A i \in 0..LoopDim : Volume(b, i) \in Nat \ {0}
           /\ \A i \in Dims : /\ b[i] \in Nat \ {0} /\ b[i] < 2^LoopBoundWidth
                              /\ i - 1 \in 0..LoopDim
                              /\ Volume(b, i) = Volume(b, i - 1) * b[i]
<1>1. LoopDim \in Nat /\ \A i \in 1..LoopDim : b[i] \in Nat \ {0}
  BY AddrGenAssumption, PowersAssumption DEF Bounds, Dims
<1>2. \A i \in Dims : b[i] < 2^LoopBoundWidth /\ i - 1 \in 0..LoopDim
  BY AddrGenAssumption, PowersAssumption DEF Bounds, Dims
<1> QED
  BY <1>1, <1>2, VolumeSteps DEF Dims

(* The iterations of the loops outside the i innermost ones. *)
Outer(b, k, i) == k \div Volume(b, i)

(* The carry out of the i innermost loops. *)
Carry(b, k, i) == \A j \in 1..i : Counters(b, k)[j] = b[j] - 1

(* One loop more. *)
LEMMA OuterStep ==
    ASSUME NEW b \in Bounds, NEW k \in Nat, NEW i \in Dims
    PROVE  /\ Outer(b, k, i - 1) \in Nat
           /\ Outer(b, k, i) = Outer(b, k, i - 1) \div b[i]
           /\ Counters(b, k)[i] = Outer(b, k, i - 1) % b[i]
           /\ Counters(b, k)[i] \in 0..(b[i] - 1)
<1>1. PICK x \in Nat \ {0} : x = Volume(b, i - 1)
  BY BoundsVolumes
<1>2. PICK y \in Nat \ {0} : y = b[i]
  BY BoundsVolumes
<1>3. Volume(b, i) = x * y
  BY <1>1, <1>2, BoundsVolumes
<1>4. (k \div x) \div y = k \div (x * y)
  BY <1>1, <1>2, NestedDivision
<1>5. PICK q \in Nat : q = k \div x
  BY <1>1, Division
<1>6. q % y \in 0..(y - 1)
  BY <1>2, <1>5, Division
<1> QED
  BY <1>1, <1>2, <1>3, <1>4, <1>5, <1>6 DEF Outer, Counters

(* The next iteration: the loops outside advance with a carry. *)
LEMMA OuterAdvances ==
    ASSUME NEW b \in Bounds, NEW k \in Nat, NEW i \in 0..LoopDim
    PROVE  Outer(b, k + 1, i) = Outer(b, k, i) + One(Carry(b, k, i))
<1> DEFINE P == {n \in Nat : n \in 0..LoopDim =>
                     Outer(b, k + 1, n) = Outer(b, k, n) + One(Carry(b, k, n))}
<1>1. 0 \in P
  <2>1. Outer(b, k + 1, 0) = k + 1 /\ Outer(b, k, 0) = k
    BY BoundsVolumes DEF Outer
  <2>2. One(Carry(b, k, 0)) = 1
    BY DEF Carry, One
  <2> QED
    BY <2>1, <2>2
<1>2. ASSUME NEW n \in Nat, n \in P
      PROVE  n + 1 \in P
  <2> SUFFICES ASSUME n + 1 \in 0..LoopDim
               PROVE  Outer(b, k + 1, n + 1)
                          = Outer(b, k, n + 1) + One(Carry(b, k, n + 1))
    OBVIOUS
  <2>1. PICK j \in Dims : j = n + 1 /\ j - 1 = n
    BY AddrGenAssumption DEF Dims
  <2>2. PICK q \in Nat, y \in Nat \ {0} : q = Outer(b, k, n) /\ y = b[j]
    BY <2>1, OuterStep, BoundsVolumes
  <2>3. Outer(b, k, j) = q \div y /\ Counters(b, k)[j] = q % y
    BY <2>1, <2>2, OuterStep
  <2>4. PICK r : r = Outer(b, k + 1, n) /\ r = q + One(Carry(b, k, n))
    BY <1>2, <2>1, <2>2, AddrGenAssumption
  <2>5. Outer(b, k + 1, j) = r \div y
    <3>1. k + 1 \in Nat
      OBVIOUS
    <3> QED
      BY <2>1, <2>2, <2>4, <3>1, OuterStep
  <2>6. Carry(b, k, j) <=> Carry(b, k, n) /\ q % y = y - 1
    <3>1. 1..j = (1..n) \cup {j}
      BY <2>1
    <3> QED
      BY <2>2, <2>3, <3>1 DEF Carry
  <2>7. q \div y \in Nat
    BY <2>2, Division
  <2>8. CASE Carry(b, k, n)
    <3>1. r \div y = IF q % y = y - 1 THEN (q \div y) + 1 ELSE q \div y
      BY <2>2, <2>4, <2>8, NextDivision DEF One
    <3> QED
      BY <2>1, <2>3, <2>5, <2>6, <2>7, <2>8, <3>1 DEF One
  <2>9. CASE ~Carry(b, k, n)
    BY <2>1, <2>2, <2>3, <2>4, <2>5, <2>6, <2>7, <2>9 DEF One
  <2> QED
    BY <2>8, <2>9
<1>3. Nat \subseteq P
  <2> HIDE DEF P
  <2> QED
    BY <1>1, <1>2, NatSetInduction
<1> QED
  BY <1>3, AddrGenAssumption

(* When a counter is within its bound, adding 1 does not overflow.         *)
LEMMA PointCounters ==
    ASSUME NEW b \in Bounds, NEW c, \A i \in Dims : c[i] \in 0..(b[i] - 1),
           NEW i \in Dims
    PROVE  /\ CounterNext(Point(b, c), i) = c[i] + 1
           /\ CounterLast(Point(b, c), i) <=> c[i] = b[i] - 1
<1>1. PICK n \in Nat, y \in Nat \ {0}, w \in Nat :
          n = c[i] /\ y = b[i] /\ w = 2^LoopBoundWidth /\ n + 1 <= y /\ y < w
  BY BoundsVolumes, PowersAssumption
<1>2. (n + 1) % w = n + 1
  BY <1>1
<1>3. PICK a : a = Point(b, c)
  OBVIOUS
<1>4. a.loopBounds = b /\ a.loop_counters = c
  BY <1>3 DEF Point
<1>5. CounterNext(a, i) = n + 1
  BY <1>1, <1>2, <1>4 DEF CounterNext
<1> QED
  BY <1>1, <1>3, <1>4, <1>5 DEF CounterLast

(* The loop counters of the next iteration. *)
LEMMA CountersAdvance ==
    ASSUME NEW b \in Bounds, NEW k \in Nat
    PROVE  Advance(b, Counters(b, k)) = Counters(b, k + 1)
<1>1. PICK c : c = Counters(b, k) /\ \A i \in Dims : c[i] \in 0..(b[i] - 1)
  BY OuterStep
<1>2. PICK a : a = Point(b, c)
  OBVIOUS
<1>3. \A i \in Dims : /\ CounterNext(a, i) = c[i] + 1
                      /\ CounterLast(a, i) <=> c[i] = b[i] - 1
  BY <1>1, <1>2, PointCounters
<1>4. ASSUME NEW i \in Dims
      PROVE  CountersNext(a)[i] = Counters(b, k + 1)[i]
  <2>1. CountersNext(a)[i] =
            IF \A j \in 1..(i - 1) : CounterLast(a, j)
            THEN IF CounterLast(a, i) THEN 0 ELSE CounterNext(a, i) ELSE c[i]
    BY <1>2 DEF CountersNext, Point
  <2>2. (\A j \in 1..(i - 1) : CounterLast(a, j)) <=> Carry(b, k, i - 1)
    <3>1. 1..(i - 1) \subseteq Dims
      BY AddrGenAssumption DEF Dims
    <3>2. \A j \in 1..(i - 1) : CounterLast(a, j) <=> c[j] = b[j] - 1
      BY <1>3, <3>1, Zenon
    <3> QED
      BY <1>1, <3>2, Zenon DEF Carry
  <2>3. PICK q \in Nat, y \in Nat \ {0} : q = Outer(b, k, i - 1) /\ y = b[i]
    BY OuterStep, BoundsVolumes
  <2>4. c[i] = q % y
    BY <1>1, <2>3, OuterStep
  <2>5. Outer(b, k + 1, i - 1) = q + One(Carry(b, k, i - 1))
    BY <2>3, BoundsVolumes, OuterAdvances
  <2>6. Counters(b, k + 1)[i] = (q + One(Carry(b, k, i - 1))) % y
    <3>1. k + 1 \in Nat
      OBVIOUS
    <3> QED
      BY <2>3, <2>5, <3>1, OuterStep
  <2>7. CASE Carry(b, k, i - 1)
    <3>1. (q + 1) % y = IF q % y = y - 1 THEN 0 ELSE (q % y) + 1
      BY <2>3, NextDivision
    <3>2. CountersNext(a)[i] = IF c[i] = y - 1 THEN 0 ELSE c[i] + 1
      <4>1. CounterNext(a, i) = c[i] + 1 /\ (CounterLast(a, i) <=> c[i] = y - 1)
        BY <1>3, <2>3, Zenon
      <4> QED
        BY <2>1, <2>2, <2>7, <4>1, Zenon
    <3>3. Counters(b, k + 1)[i] = (q + 1) % y
      BY <2>6, <2>7 DEF One
    <3> QED
      BY <2>4, <3>1, <3>2, <3>3
  <2>8. CASE ~Carry(b, k, i - 1)
    <3>1. CountersNext(a)[i] = c[i]
      BY <2>1, <2>2, <2>8
    <3>2. Counters(b, k + 1)[i] = q % y
      BY <2>3, <2>6, <2>8 DEF One
    <3> QED
      BY <2>4, <3>1, <3>2
  <2> QED
    BY <2>7, <2>8
<1>5. Advance(b, c) = CountersNext(a)
  BY <1>2 DEF Advance
<1>6. CountersNext(a) = [i \in Dims |-> CountersNext(a)[i]]
  BY DEF CountersNext
<1>7. Counters(b, k + 1) = [i \in Dims |-> Counters(b, k + 1)[i]]
  BY DEF Counters
<1> QED
  BY <1>1, <1>4, <1>5, <1>6, <1>7

(* All counters are at their last value in the last iteration, and only    *)
(* there.                                                                  *)
LEMMA LastIteration ==
    ASSUME NEW b \in Bounds, NEW k \in Nat, k < Volume(b, LoopDim)
    PROVE  IsLast(b, Counters(b, k)) <=> k + 1 = Volume(b, LoopDim)
<1>1. PICK V \in Nat \ {0} : V = Volume(b, LoopDim) /\ k < V
  BY BoundsVolumes, AddrGenAssumption
<1>2. Outer(b, k + 1, LoopDim) = Outer(b, k, LoopDim) + One(Carry(b, k, LoopDim))
  BY OuterAdvances, AddrGenAssumption
<1>3. k \div V = 0
  <2>1. k = V * 0 + k /\ k \in 0..(V - 1)
    BY <1>1
  <2> QED
    BY <1>1, <2>1, DivisionUnique
<1>4. k + 1 = V => (k + 1) \div V = 1
  <2>1. k + 1 = V => k + 1 = V * 1 + 0
    BY <1>1
  <2>2. k + 1 \in Nat /\ 0 \in 0..(V - 1)
    BY <1>1
  <2> QED
    BY <1>1, <2>1, <2>2, DivisionUnique
<1>5. k + 1 # V => (k + 1) \div V = 0
  <2>1. k + 1 # V => k + 1 = V * 0 + (k + 1) /\ k + 1 \in 0..(V - 1)
    BY <1>1
  <2>2. k + 1 \in Nat
    OBVIOUS
  <2> QED
    BY <1>1, <2>1, <2>2, DivisionUnique
<1>6. Carry(b, k, LoopDim) <=> k + 1 = V
  BY <1>1, <1>2, <1>3, <1>4, <1>5 DEF Outer, One
<1>7. PICK c : c = Counters(b, k) /\ \A i \in Dims : c[i] \in 0..(b[i] - 1)
  BY OuterStep
<1>8. PICK a : a = Point(b, c)
  OBVIOUS
<1>9. \A i \in Dims : CounterLast(a, i) <=> c[i] = b[i] - 1
  BY <1>7, <1>8, PointCounters
<1> QED
  BY <1>1, <1>6, <1>7, <1>8, <1>9 DEF IsLast, AllLast, Carry, Dims

-----------------------------------------------------------------------------
(* Addresses.                                                              *)

(* The fields of a job as the core may ask for it. *)
IsJob(j) ==
    /\ j.loopBounds \in Bounds
    /\ j.strides \in [Movers -> [Dims -> Nat]]
    /\ j.spatialStrides \in [Movers -> Nat]
    /\ j.ptr \in [Movers -> Nat]

Addr == 0..(2^AddrWidth - 1)

(* The sum of products that makes an address is an integer. *)
LEMMA SumOfStrides ==
    ASSUME NEW c, NEW s, \A i \in Dims : c[i] \in Nat /\ s[i] \in Nat
    PROVE  SumFunction([i \in Dims |-> c[i] * s[i]]) \in Int
<1>1. PICK f : f = [i \in Dims |-> c[i] * s[i]]
  OBVIOUS
<1>2. DOMAIN f = Dims /\ \A i \in Dims : f[i] \in Int
  BY <1>1
<1>3. IsFiniteSet(Dims)
  BY FS_Interval, AddrGenAssumption DEF Dims
<1>4. SumFunctionOnSet(f, Dims) \in Int
  BY <1>2, <1>3, SumOnSet
<1> QED
  BY <1>1, <1>2, <1>4 DEF SumFunction

(* The pointer of a unit fits in the address bits. *)
LEMMA PtrOutType ==
    ASSUME NEW a, a.ptr \in Nat,
           \A i \in Dims : a.loop_counters[i] \in Nat /\ a.strides[i] \in Nat
    PROVE  PtrOut(a) \in Addr
<1>1. PICK t \in Int :
          t = SumFunction([i \in Dims |-> a.loop_counters[i] * a.strides[i]])
  BY SumOfStrides
<1>2. PICK z \in Nat \ {0}, n \in Int : z = 2^AddrWidth /\ n = a.ptr + t
  BY PowersAssumption
<1>3. n % z \in 0..(z - 1)
  BY <1>2
<1> QED
  BY <1>1, <1>2, <1>3 DEF PtrOut, Addr

(* The spatial unit adds the port's multiple of the spatial stride. *)
LEMMA SpatialAddrOfPort ==
    ASSUME NEW s \in Nat, NEW ptr \in Nat, NEW p \in Ports
    PROVE  /\ SpatialAddr(<<TcdmPortsNum>>, <<s>>, ptr, p) = (ptr + p * s) % 2^AddrWidth
           /\ SpatialAddr(<<TcdmPortsNum>>, <<s>>, ptr, p) \in Addr
<1>1. PICK b, st : b = <<TcdmPortsNum>> /\ st = <<s>>
  OBVIOUS
<1>2. DOMAIN b = {1} /\ b[1] = TcdmPortsNum /\ st[1] = s
  BY <1>1
<1>3. Volume(b, 0) = 1
  <2>1. 0 \in Nat /\ \A i \in 1..0 : b[i] \in Nat \ {0}
    OBVIOUS
  <2> QED
    BY <2>1, VolumeSteps
<1>4. p \in Nat /\ p < TcdmPortsNum /\ TcdmPortsNum \in Nat \ {0}
  BY MoverAssumption DEF Ports
<1>5. SpatialLoopIndex(b, p, 1) = p
  <2>1. p \div 1 = p /\ p % TcdmPortsNum = p
    BY <1>4
  <2> QED
    BY <1>2, <1>3, <2>1 DEF SpatialLoopIndex
<1>6. PICK f : f = [j \in DOMAIN b |-> SpatialLoopIndex(b, p, j) * st[j]]
  OBVIOUS
<1>7. DOMAIN f = {1} /\ f[1] = p * s /\ p * s \in Nat
  BY <1>2, <1>4, <1>5, <1>6, Products
<1>8. SumFunction(f) = p * s
  <2>0. p * s \in Int
    BY <1>7
  <2>1. IsFiniteSet({1}) /\ \A x \in {1} : f[x] \in Int
    <3>1. IsFiniteSet({1})
      BY FS_Singleton
    <3> QED
      BY <1>7, <2>0, <3>1, Zenon
  <2>2. SumFunctionOnSet(f, {1}) = f[1] + SumFunctionOnSet(f, {1} \ {1})
    BY <2>1, SumOnSet
  <2>3. SumFunctionOnSet(f, {}) = 0
    BY SumOnSet, FS_EmptySet
  <2>4. {1} \ {1} = {}
    OBVIOUS
  <2>5. SumFunctionOnSet(f, {1}) = p * s + 0
    BY <1>7, <2>2, <2>3, <2>4, Zenon
  <2>6. p * s + 0 = p * s
    BY <1>7
  <2> QED
    BY <1>7, <2>5, <2>6, Zenon DEF SumFunction
<1>9. PICK z \in Nat \ {0}, n \in Nat : z = 2^AddrWidth /\ n = ptr + p * s
  BY <1>7, PowersAssumption
<1>10. n % z \in 0..(z - 1)
  BY <1>9
<1>11. SpatialAddr(b, st, ptr, p) = n % z
  BY <1>6, <1>8, <1>9 DEF SpatialAddr
<1> QED
  BY <1>1, <1>9, <1>10, <1>11 DEF Addr

(* The sequence of addresses of a job. *)
LEMMA JobAddrsType ==
    ASSUME NEW j, IsJob(j), NEW m \in Movers, NEW p \in Ports
    PROVE  /\ Volume(j.loopBounds, LoopDim) \in Nat \ {0}
           /\ JobAddrs(j, m, p) \in Seq(Int)
           /\ Len(JobAddrs(j, m, p)) = Volume(j.loopBounds, LoopDim)
<1>1. PICK V \in Nat \ {0} : V = Volume(j.loopBounds, LoopDim)
  BY BoundsVolumes, AddrGenAssumption DEF IsJob
<1>2. \A k \in 1..V :
          (NestedLoopAddr(JobConfig(j, m), k - 1) + p * j.spatialStrides[m])
              % 2^AddrWidth \in Int
  <2> SUFFICES ASSUME NEW k \in 1..V
               PROVE  (NestedLoopAddr(JobConfig(j, m), k - 1)
                          + p * j.spatialStrides[m]) % 2^AddrWidth \in Int
    OBVIOUS
  <2>1. PICK config : config = JobConfig(j, m)
    OBVIOUS
  <2>2. /\ config.loopBounds = j.loopBounds /\ config.strides = j.strides[m]
        /\ config.ptr = j.ptr[m]
    BY <2>1 DEF JobConfig
  <2>3. PICK c : c = Counters(j.loopBounds, k - 1)
    OBVIOUS
  <2>4. \A i \in Dims : c[i] \in Nat /\ config.strides[i] \in Nat
    <3>1. k - 1 \in Nat /\ j.loopBounds \in Bounds
      BY DEF IsJob
    <3>2. \A i \in Dims : c[i] \in Nat
      BY <2>3, <3>1, OuterStep, BoundsVolumes
    <3> QED
      BY <2>2, <3>2 DEF IsJob
  <2>5. NestedLoopAddr(config, k - 1)
           = (config.ptr + SumFunction([i \in Dims |-> c[i] * config.strides[i]]))
                 % 2^AddrWidth
    BY <2>2, <2>3 DEF NestedLoopAddr, Counters
  <2>6. PICK t \in Int : t = SumFunction([i \in Dims |-> c[i] * config.strides[i]])
    BY <2>4, SumOfStrides
  <2>7. PICK z \in Nat \ {0}, n \in Nat, u \in Int :
            z = 2^AddrWidth /\ n = config.ptr /\ u = p * j.spatialStrides[m]
    <3>1. p \in Int /\ j.spatialStrides[m] \in Int
      BY MoverAssumption DEF Ports, IsJob
    <3>2. p * j.spatialStrides[m] \in Int
      BY <3>1, Products
    <3> QED
      BY <2>2, <3>2, PowersAssumption DEF IsJob
  <2>8. (((n + t) % z) + u) % z \in Int
    BY <2>6, <2>7
  <2> QED
    BY <2>1, <2>5, <2>6, <2>7, <2>8
<1>3. JobAddrs(j, m, p) = [k \in 1..V |->
          (NestedLoopAddr(JobConfig(j, m), k - 1) + p * j.spatialStrides[m])
              % 2^AddrWidth]
  BY <1>1 DEF JobAddrs
<1> QED
  BY <1>1, <1>2, <1>3

(* The units put out the address of the k-th iteration when their counters *)
(* are those of the k-th iteration.                                        *)
LEMMA LoopAddress ==
    ASSUME NEW j, IsJob(j), NEW m \in Movers, NEW p \in Ports, NEW k \in Nat,
           k < Volume(j.loopBounds, LoopDim), NEW a,
           a.ptr = j.ptr[m], a.strides = j.strides[m],
           a.loop_counters = Counters(j.loopBounds, k)
    PROVE  SpatialAddr(<<TcdmPortsNum>>, <<j.spatialStrides[m]>>, PtrOut(a), p)
              = JobAddrs(j, m, p)[k + 1]
<1>1. PICK V \in Nat \ {0} : V = Volume(j.loopBounds, LoopDim)
  BY JobAddrsType
<1>2. k + 1 \in 1..V /\ (k + 1) - 1 = k
  BY <1>1
<1>3. JobAddrs(j, m, p)[k + 1] =
          (NestedLoopAddr(JobConfig(j, m), k) + p * j.spatialStrides[m]) % 2^AddrWidth
  BY <1>1, <1>2 DEF JobAddrs
<1>4. PICK config : config = JobConfig(j, m)
  OBVIOUS
<1>5. /\ config.loopBounds = j.loopBounds /\ config.strides = j.strides[m]
      /\ config.ptr = j.ptr[m]
  BY <1>4 DEF JobConfig
<1>6. NestedLoopAddr(config, k) = PtrOut(a)
  BY <1>5 DEF NestedLoopAddr, PtrOut, Counters
<1>7. PtrOut(a) \in Nat
  <2>1. \A i \in Dims : a.loop_counters[i] \in Nat /\ a.strides[i] \in Nat
    <3>1. \A i \in Dims : Counters(j.loopBounds, k)[i] \in Nat
      BY OuterStep, BoundsVolumes DEF IsJob
    <3> QED
      BY <3>1 DEF IsJob
  <2>2. a.ptr \in Nat
    BY DEF IsJob
  <2>3. PtrOut(a) \in Addr
    BY <2>1, <2>2, PtrOutType
  <2> QED
    BY <2>3, PowersAssumption DEF Addr
<1>8. j.spatialStrides[m] \in Nat
  BY DEF IsJob
<1> QED
  BY <1>3, <1>4, <1>6, <1>7, <1>8, SpatialAddrOfPort

-----------------------------------------------------------------------------
(* The CSRs.                                                               *)

(* Where the CSRs of a job are, and what the core writes into them. *)
LEMMA JobCsrs ==
    ASSUME NEW j, NEW m \in Movers, NEW i \in Dims
    PROVE  /\ BoundCsr(i) \in 0..(StartCsr - 1)
           /\ JobCsr(j, BoundCsr(i)) = j.loopBounds[i]
           /\ StrideCsr(m, i) \in 0..(StartCsr - 1)
           /\ JobCsr(j, StrideCsr(m, i)) = j.strides[m][i]
           /\ SpatialStrideCsr(m) \in 0..(StartCsr - 1)
           /\ JobCsr(j, SpatialStrideCsr(m)) = j.spatialStrides[m]
           /\ PtrCsr(m) \in 0..(StartCsr - 1)
           /\ JobCsr(j, PtrCsr(m)) = j.ptr[m]
<1>1. PICK L \in Nat \ {0} : L = LoopDim /\ StartCsr = 3 * L + 4 /\ Dims = 1..L
  BY AddrGenAssumption, StreamerAssumption DEF StartCsr, Dims
<1>2. \A n \in Dims : BoundCsr(n) = n - 1 /\ n \in 1..L
  BY <1>1 DEF BoundCsr
<1>3. \A u \in Movers : \A n \in Dims :
         StrideCsr(u, n) = (IF u = "reader" THEN L ELSE 2 * L) + n - 1
  BY <1>1 DEF StrideCsr, MoverIndex, Movers
<1>4. \A u \in Movers :
         /\ SpatialStrideCsr(u) = 3 * L + (IF u = "reader" THEN 0 ELSE 1)
         /\ PtrCsr(u) = 3 * L + 2 + (IF u = "reader" THEN 0 ELSE 1)
  BY <1>1 DEF SpatialStrideCsr, PtrCsr, MoverIndex
<1>5. BoundCsr(i) \in 0..(StartCsr - 1) /\ JobCsr(j, BoundCsr(i)) = j.loopBounds[i]
  <2>1. BoundCsr(i) \in 0..(StartCsr - 1) /\ BoundCsr(i) + 1 = i
    BY <1>1, <1>2
  <2>2. PICK a \in Int : a = BoundCsr(i) /\ a < L
    BY <1>1, <1>2
  <2>3. ~\E u \in Movers, n \in Dims : a = StrideCsr(u, n)
    BY <1>1, <1>2, <1>3, <2>2
  <2>4. ~\E u \in Movers : a = SpatialStrideCsr(u)
    BY <1>1, <1>4, <2>2
  <2>5. JobCsr(j, a) = j.loopBounds[a + 1]
    BY <2>2, <2>3, <2>4 DEF JobCsr
  <2> QED
    BY <2>1, <2>2, <2>5
<1>6. /\ StrideCsr(m, i) \in 0..(StartCsr - 1)
      /\ JobCsr(j, StrideCsr(m, i)) = j.strides[m][i]
  <2>1. PICK a \in Int : a = StrideCsr(m, i) /\ L <= a /\ a < 3 * L
    BY <1>1, <1>3
  <2>2. ~\E n \in Dims : a = BoundCsr(n)
    BY <1>2, <2>1
  <2>3. \A x \in Movers \X Dims : a = StrideCsr(x[1], x[2]) => x = <<m, i>>
    <3> SUFFICES ASSUME NEW u \in Movers, NEW n \in Dims, a = StrideCsr(u, n)
                 PROVE  u = m /\ n = i
      OBVIOUS
    <3>1. /\ u = "reader" => a = L + n - 1
          /\ u # "reader" => a = 2 * L + n - 1
          /\ m = "reader" => a = L + i - 1
          /\ m # "reader" => a = 2 * L + i - 1
      BY <1>3, <2>1
    <3>2. n \in 1..L /\ i \in 1..L /\ (u = "reader" <=> m = "reader")
      BY <1>1, <2>1, <3>1
    <3>3. u = m
      BY <3>2 DEF Movers
    <3>4. n = i
      BY <1>1, <2>1, <3>1, <3>2
    <3> QED
      BY <3>3, <3>4
  <2>4. <<m, i>> \in Movers \X Dims /\ a = StrideCsr(<<m, i>>[1], <<m, i>>[2])
    BY <2>1
  <2>5. (CHOOSE x \in Movers \X Dims : a = StrideCsr(x[1], x[2])) = <<m, i>>
    BY <2>3, <2>4
  <2>6. ~\E u \in Movers : a = SpatialStrideCsr(u)
    BY <1>1, <1>4, <2>1
  <2>7. \E u \in Movers, n \in Dims : a = StrideCsr(u, n)
    BY <2>1
  <2>8. JobCsr(j, a) = j.strides[<<m, i>>[1]][<<m, i>>[2]]
    BY <2>2, <2>5, <2>6, <2>7 DEF JobCsr
  <2> QED
    BY <1>1, <2>1, <2>8
<1>7. /\ SpatialStrideCsr(m) \in 0..(StartCsr - 1)
      /\ JobCsr(j, SpatialStrideCsr(m)) = j.spatialStrides[m]
  <2>1. PICK a \in Int : a = SpatialStrideCsr(m) /\ 3 * L <= a /\ a < 3 * L + 2
    BY <1>1, <1>4
  <2>2. ~\E n \in Dims : a = BoundCsr(n)
    BY <1>1, <1>2, <2>1
  <2>3. ~\E u \in Movers, n \in Dims : a = StrideCsr(u, n)
    BY <1>1, <1>2, <1>3, <2>1
  <2>4. \A u \in Movers : a = SpatialStrideCsr(u) => u = m
    <3> SUFFICES ASSUME NEW u \in Movers, a = SpatialStrideCsr(u)
                 PROVE  u = m
      OBVIOUS
    <3>1. /\ u = "reader" => a = 3 * L + 0
          /\ u # "reader" => a = 3 * L + 1
          /\ m = "reader" => a = 3 * L + 0
          /\ m # "reader" => a = 3 * L + 1
      BY <1>4, <2>1
    <3>2. u = "reader" <=> m = "reader"
      BY <1>1, <2>1, <3>1
    <3> QED
      BY <3>2 DEF Movers
  <2>5. (CHOOSE u \in Movers : a = SpatialStrideCsr(u)) = m
    BY <2>1, <2>4
  <2>6. JobCsr(j, a) = j.spatialStrides[m]
    BY <2>1, <2>2, <2>3, <2>5 DEF JobCsr
  <2> QED
    BY <1>1, <2>1, <2>6
<1>8. PtrCsr(m) \in 0..(StartCsr - 1) /\ JobCsr(j, PtrCsr(m)) = j.ptr[m]
  <2>1. PICK a \in Int : a = PtrCsr(m) /\ 3 * L + 2 <= a /\ a < 3 * L + 4
    BY <1>1, <1>4
  <2>2. ~\E n \in Dims : a = BoundCsr(n)
    BY <1>1, <1>2, <2>1
  <2>3. ~\E u \in Movers, n \in Dims : a = StrideCsr(u, n)
    BY <1>1, <1>2, <1>3, <2>1
  <2>4. ~\E u \in Movers : a = SpatialStrideCsr(u)
    BY <1>1, <1>4, <2>1
  <2>5. \A u \in Movers : a = PtrCsr(u) => u = m
    <3> SUFFICES ASSUME NEW u \in Movers, a = PtrCsr(u)
                 PROVE  u = m
      OBVIOUS
    <3>1. /\ u = "reader" => a = 3 * L + 2 + 0
          /\ u # "reader" => a = 3 * L + 2 + 1
          /\ m = "reader" => a = 3 * L + 2 + 0
          /\ m # "reader" => a = 3 * L + 2 + 1
      BY <1>4, <2>1
    <3>2. u = "reader" <=> m = "reader"
      BY <1>1, <2>1, <3>1
    <3> QED
      BY <3>2 DEF Movers
  <2>6. (CHOOSE u \in Movers : a = PtrCsr(u)) = m
    BY <2>1, <2>5
  <2>7. JobCsr(j, a) = j.ptr[m]
    BY <2>1, <2>2, <2>3, <2>4, <2>6 DEF JobCsr
  <2> QED
    BY <1>1, <2>1, <2>7
<1> QED
  BY <1>5, <1>6, <1>7, <1>8

(* What the core writes is a natural number. *)
LEMMA JobCsrNat ==
    ASSUME NEW j, IsJob(j), NEW a \in 0..(StartCsr - 1)
    PROVE  JobCsr(j, a) \in Nat
<1>1. PICK L \in Nat \ {0} : L = LoopDim /\ StartCsr = 3 * L + 4 /\ Dims = 1..L
  BY AddrGenAssumption, StreamerAssumption DEF StartCsr, Dims
<1>2. \/ \E i \in Dims : a = BoundCsr(i)
      \/ \E m \in Movers : \E i \in Dims : a = StrideCsr(m, i)
      \/ \E m \in Movers : a = SpatialStrideCsr(m) \/ a = PtrCsr(m)
  <2>1. CASE a < L
    <3>1. a + 1 \in Dims /\ a = (a + 1) - 1
      BY <1>1, <2>1
    <3> QED
      BY <3>1 DEF BoundCsr
  <2>2. CASE L <= a /\ a < 2 * L
    <3>1. PICK i \in Dims : a = L + 0 * L + i - 1
      <4>1. (a - L) + 1 \in Dims /\ a = L + 0 * L + ((a - L) + 1) - 1
        BY <1>1, <2>2
      <4> QED
        BY <4>1
    <3>2. a = StrideCsr("reader", i)
      BY <1>1, <3>1 DEF StrideCsr, MoverIndex
    <3> QED
      BY <3>1, <3>2, MoverNames
  <2>3. CASE 2 * L <= a /\ a < 3 * L
    <3>1. PICK i \in Dims : a = L + 1 * L + i - 1
      <4>1. (a - 2 * L) + 1 \in Dims /\ a = L + 1 * L + ((a - 2 * L) + 1) - 1
        BY <1>1, <2>3
      <4> QED
        BY <4>1
    <3>2. a = StrideCsr("writer", i)
      BY <1>1, <3>1 DEF StrideCsr, MoverIndex
    <3> QED
      BY <3>1, <3>2, MoverNames
  <2>4. CASE a \in 3 * L..(3 * L + 3)
    <3>1. a \in {3 * L, 3 * L + 1, 3 * L + 2, 3 * L + 3}
      BY <1>1, <2>4
    <3>2. /\ SpatialStrideCsr("reader") = 3 * L /\ SpatialStrideCsr("writer") = 3 * L + 1
          /\ PtrCsr("reader") = 3 * L + 2 /\ PtrCsr("writer") = 3 * L + 3
      BY <1>1 DEF SpatialStrideCsr, PtrCsr, MoverIndex
    <3> QED
      BY <3>1, <3>2, MoverNames
  <2> QED
    BY <1>1, <2>1, <2>2, <2>3, <2>4
<1>3. ASSUME NEW i \in Dims, a = BoundCsr(i)
      PROVE  JobCsr(j, a) \in Nat
  <2>1. JobCsr(j, a) = j.loopBounds[i]
    BY <1>3, JobCsrs, MoverNames
  <2> QED
    BY <2>1, BoundsVolumes DEF IsJob
<1>4. ASSUME NEW m \in Movers, NEW i \in Dims, a = StrideCsr(m, i)
      PROVE  JobCsr(j, a) \in Nat
  <2>1. JobCsr(j, a) = j.strides[m][i]
    BY <1>4, JobCsrs
  <2> QED
    BY <2>1 DEF IsJob
<1>5. ASSUME NEW m \in Movers, a = SpatialStrideCsr(m) \/ a = PtrCsr(m)
      PROVE  JobCsr(j, a) \in Nat
  <2>1. 1 \in Dims
    BY AddrGenAssumption DEF Dims
  <2>2. JobCsr(j, a) = j.spatialStrides[m] \/ JobCsr(j, a) = j.ptr[m]
    BY <1>5, <2>1, JobCsrs
  <2> QED
    BY <2>2 DEF IsJob
<1> QED
  BY <1>2, <1>3, <1>4, <1>5

(* The CSRs hold the configuration of job j. *)
Programmed(csr, j) == \A a \in 0..(StartCsr - 1) : csr[a] = JobCsr(j, a)

(* StreamerTop gives the movers the configuration of the job. *)
LEMMA ProgrammedConfig ==
    ASSUME NEW csr, NEW j, IsJob(j), Programmed(csr, j), NEW m \in Movers
    PROVE  /\ Config(csr, m).loopBounds = j.loopBounds
           /\ Config(csr, m).strides = j.strides[m]
           /\ Config(csr, m).ptr = j.ptr[m]
           /\ csr[SpatialStrideCsr(m)] = j.spatialStrides[m]
<1>1. 1 \in Dims
  BY AddrGenAssumption DEF Dims
<1>2. csr[PtrCsr(m)] = j.ptr[m] /\ csr[SpatialStrideCsr(m)] = j.spatialStrides[m]
  BY <1>1, JobCsrs DEF Programmed
<1>3. \A i \in Dims : csr[StrideCsr(m, i)] = j.strides[m][i]
  BY JobCsrs DEF Programmed
<1>4. \A i \in Dims : csr[BoundCsr(i)] % 2^LoopBoundWidth = j.loopBounds[i]
  <2> SUFFICES ASSUME NEW i \in Dims
               PROVE  csr[BoundCsr(i)] % 2^LoopBoundWidth = j.loopBounds[i]
    OBVIOUS
  <2>1. PICK n \in Nat, w \in Nat :
            n = j.loopBounds[i] /\ w = 2^LoopBoundWidth /\ n < w
    BY BoundsVolumes, PowersAssumption DEF IsJob
  <2>2. csr[BoundCsr(i)] = n
    BY <2>1, JobCsrs DEF Programmed
  <2>3. n % w = n
    BY <2>1
  <2> QED
    BY <2>1, <2>2, <2>3
<1>5. /\ Config(csr, m).loopBounds = [i \in Dims |-> csr[BoundCsr(i)] % 2^LoopBoundWidth]
      /\ Config(csr, m).strides = [i \in Dims |-> csr[StrideCsr(m, i)]]
      /\ Config(csr, m).ptr = csr[PtrCsr(m)]
  BY DEF Config
<1>6. [i \in Dims |-> csr[BoundCsr(i)] % 2^LoopBoundWidth] = j.loopBounds
  BY <1>4 DEF IsJob, Bounds
<1>7. [i \in Dims |-> csr[StrideCsr(m, i)]] = j.strides[m]
  BY <1>3 DEF IsJob
<1> QED
  BY <1>2, <1>5, <1>6, <1>7

(* What the core asks for: nothing, a read, the end of the job, a CSR of   *)
(* its next job, or, when the CSRs hold that job, its start.               *)
CoreAsks ==
    \/ req = NoRequest \/ req = Read(NumReadWrite) \/ req = Write(StartCsr, 0)
    \/ /\ started < Len(plan)
       /\ \E a \in 0..(StartCsr - 1) : req = Write(a, JobCsr(plan[started + 1], a))
    \/ /\ started < Len(plan)
       /\ req = Write(StartCsr, 1)
       /\ Programmed(csrm.csr, plan[started + 1])

CoreInv ==
    /\ plan \in Plans
    /\ started \in 0..Len(plan)
    /\ csrm.csr \in [0..(NumReadWrite - 1) -> Nat]
    /\ CoreAsks

(* Both directions work on the job that was started last. *)
ConfigInv ==
    started > 0 =>
        \A m \in Movers :
            /\ agu[m].loopBounds = plan[started].loopBounds
            /\ agu[m].strides = plan[started].strides[m]
            /\ agu[m].ptr = plan[started].ptr[m]
            /\ mover[m].spatialStrides = <<plan[started].spatialStrides[m]>>

(* The types of the state, those of the words in the accelerator and in    *)
(* the response registers included.                                        *)
TypeInv ==
    /\ TypeOK
    /\ \A m \in Movers : mover[m].spatialStrides[1] \in Nat
    /\ \A m \in Movers : mover[m].spatialStrides = <<mover[m].spatialStrides[1]>>
    /\ acc \in Seq(Word)
    /\ \A p \in Ports : rspbuf.valid_reg[p] => rspbuf.data_buffer[p] \in Addr

(* The words that every port has written. *)
WordsWritten == Len(consumed) - (Len(wfifo) + Len(acc))

(* The writer is in iteration k of V of the job that was started last. *)
AtIteration(k, b, V) ==
    /\ agu["writer"].busy <=> k < V
    /\ k < V => agu["writer"].loop_counters = Counters(b, k)
    /\ \A m \in Movers, p \in Ports : Len(StreamAddrs(m, p)) + k = WordsWritten + V

(* The accelerator was given the first words of s, and port p wrote to the *)
(* first addresses of s.                                                   *)
GivenOf(p, s) == \A n \in 1..Len(consumed) : n <= Len(s) /\ consumed[n][p] = s[n]

WroteTo(p, s) ==
    \A n \in 1..Len(written[p]) :
        n <= Len(s) /\ written[p][n] = <<s[n], written[p][n][2]>>

(* The position of the writer, and what was given and written so far. *)
StreamInv ==
    /\ started = 0 => ~agu["writer"].busy /\ consumed = <<>>
    /\ started > 0 =>
          \E k \in 0..Volume(plan[started].loopBounds, LoopDim) :
              AtIteration(k, plan[started].loopBounds,
                          Volume(plan[started].loopBounds, LoopDim))
    /\ \A p \in Ports : /\ GivenOf(p, StreamAddrs("reader", p))
                       /\ WroteTo(p, StreamAddrs("writer", p))

(* The jobs that the core may run. *)
LEMMA PlanOfJobs ==
    ASSUME NEW jobs \in Plans
    PROVE  /\ Len(jobs) \in Nat
           /\ \A n \in 1..Len(jobs) : IsJob(jobs[n])
<1>1. DOMAIN jobs = 1..Len(jobs) /\ Len(jobs) \in Nat
  BY StreamerAssumption
<1>2. ASSUME NEW n \in DOMAIN jobs
      PROVE  IsJob(jobs[n])
  BY StreamerAssumption DEF IsJob, Bounds
<1> QED
  BY <1>1, <1>2

(* The core starts a job only when the CSRs hold it. *)
LEMMA NextWriteOf ==
    ASSUME NEW csr, NEW j
    PROVE  \/ NextWrite(csr, j) = Write(StartCsr, 1) /\ Programmed(csr, j)
           \/ \E a \in 0..(StartCsr - 1) : NextWrite(csr, j) = Write(a, JobCsr(j, a))
<1> DEFINE differ == {a \in 0..(StartCsr - 1) : csr[a] # JobCsr(j, a)}
<1>1. CASE differ = {}
  BY <1>1 DEF NextWrite, Programmed
<1>2. CASE differ # {}
  <2>1. differ \subseteq Nat
    OBVIOUS
  <2>2. \E x \in differ : \A y \in differ : x <= y
    BY <1>2, <2>1, LeastNatural
  <2>3. Min(differ) \in differ
    BY <2>2 DEF Min
  <2> QED
    BY <1>2, <2>3 DEF NextWrite
<1> QED
  BY <1>1, <1>2

(* What a start finds in the CSRs. *)
LEMMA StartProgrammed ==
    ASSUME CoreInv, Start
    PROVE  started < Len(plan) /\ Programmed(csrm.csr, plan[started + 1])
<1>1. req.valid /\ req.write /\ req.addr = StartCsr /\ req.data = 1
  BY DEF Start, ConfigValid, StartRequest
<1>2. StartCsr \in Int
  BY CsrAssumption DEF StartCsr
<1>3. ~(req = NoRequest \/ req = Read(NumReadWrite) \/ req = Write(StartCsr, 0))
  BY <1>1 DEF NoRequest, Read, Write
<1>4. ASSUME NEW a \in 0..(StartCsr - 1), NEW d, req = Write(a, d)
      PROVE  FALSE
  BY <1>1, <1>2, <1>4 DEF Write
<1> QED
  BY <1>3, <1>4 DEF CoreInv, CoreAsks

(* A write that the core asks for. *)
LEMMA WriteOfCore ==
    ASSUME CoreInv, req.write
    PROVE  req.addr \in 0..(NumReadWrite - 1) /\ req.data \in Nat
<1>1. StartCsr \in 0..(NumReadWrite - 1) /\ StartCsr \in Int
  BY CsrAssumption DEF StartCsr
<1>2. ASSUME NEW a \in 0..(StartCsr - 1), started < Len(plan),
             req = Write(a, JobCsr(plan[started + 1], a))
      PROVE  req.addr \in 0..(NumReadWrite - 1) /\ req.data \in Nat
  <2>1. IsJob(plan[started + 1])
    <3>1. started + 1 \in 1..Len(plan)
      BY <1>2, PlanOfJobs DEF CoreInv
    <3> QED
      BY <3>1, PlanOfJobs DEF CoreInv
  <2>2. JobCsr(plan[started + 1], a) \in Nat /\ a \in 0..(NumReadWrite - 1)
    BY <1>1, <2>1, JobCsrNat, CsrAssumption
  <2> QED
    BY <1>2, <2>2 DEF Write
<1>3. ASSUME req = Write(StartCsr, 0) \/ req = Write(StartCsr, 1)
      PROVE  req.addr \in 0..(NumReadWrite - 1) /\ req.data \in Nat
  BY <1>1, <1>3 DEF Write
<1>4. ~(req = NoRequest \/ req = Read(NumReadWrite))
  BY DEF NoRequest, Read
<1> QED
  BY <1>2, <1>3, <1>4 DEF CoreInv, CoreAsks

(* A cycle of the core and of the CSR manager. *)
LEMMA CoreOfCycle ==
    ASSUME CoreInv, NEW granted, NEW take, Cycle(granted, take)
    PROVE  CoreInv'
<1> DEFINE fire == ReqFire(csrm, req, ~busy)
<1>1. /\ csrm'.csr = IF fire /\ req.write
                     THEN [csrm.csr EXCEPT ![req.addr] = req.data] ELSE csrm.csr
      /\ started' = IF Start THEN started + 1 ELSE started
      /\ req' \in IF req.valid /\ ~fire THEN {req}
                  ELSE CoreRequests(csrm'.csr, started')
      /\ plan' = plan
  BY DEF Cycle, CoreStep, CsrNext, Start
<1>2. csrm'.csr \in [0..(NumReadWrite - 1) -> Nat]
  BY <1>1, WriteOfCore DEF CoreInv
<1>3. started' \in 0..Len(plan)
  BY <1>1, StartProgrammed, PlanOfJobs DEF CoreInv
<1>4. CoreAsks'
  <2>1. CASE req.valid /\ ~fire
    <3>1. req' = req /\ csrm'.csr = csrm.csr /\ started' = started
      BY <1>1, <2>1 DEF Start, ConfigValid
    <3> QED
      BY <1>1, <3>1 DEF CoreInv, CoreAsks
  <2>2. CASE ~(req.valid /\ ~fire)
    <3>1. req' \in CoreRequests(csrm'.csr, started')
      BY <1>1, <2>2
    <3>2. \/ req' = NoRequest \/ req' = Write(StartCsr, 0)
          \/ started' < Len(plan) /\ req' = NextWrite(csrm'.csr, plan[started' + 1])
          \/ req' = Read(NumReadWrite)
      BY <3>1 DEF CoreRequests
    <3>3. PICK csr, j : csr = csrm'.csr /\ j = plan[started' + 1]
      OBVIOUS
    <3>4. \/ NextWrite(csr, j) = Write(StartCsr, 1) /\ Programmed(csr, j)
          \/ \E a \in 0..(StartCsr - 1) : NextWrite(csr, j) = Write(a, JobCsr(j, a))
      BY NextWriteOf
    <3> QED
      BY <1>1, <3>2, <3>3, <3>4 DEF CoreAsks
  <2> QED
    BY <2>1, <2>2
<1> QED
  BY <1>1, <1>2, <1>3, <1>4 DEF CoreInv

(* At the start the core has started nothing. *)
LEMMA InitCore == Init => CoreInv /\ ConfigInv
<1> SUFFICES ASSUME Init
             PROVE  CoreInv /\ ConfigInv
  OBVIOUS
<1>1. plan \in Plans /\ started = 0 /\ req = NoRequest
  BY DEF Init
<1>2. started \in 0..Len(plan)
  BY <1>1, PlanOfJobs
<1>3. csrm.csr \in [0..(NumReadWrite - 1) -> Nat]
  BY DEF Init, CsrInit
<1> QED
  BY <1>1, <1>2, <1>3 DEF CoreInv, CoreAsks, ConfigInv

(* A start configures both directions with the job. *)
LEMMA ConfigOfCycle ==
    ASSUME ControlInv, CoreInv, ConfigInv, NEW granted \in Grants,
           NEW take \in Takes, Cycle(granted, take)
    PROVE  ConfigInv'
<1>1. /\ started' = IF Start THEN started + 1 ELSE started
      /\ plan' = plan
  BY DEF Cycle, CoreStep, Start
<1>2. CASE Start
  <2>1. started' \in 1..Len(plan) /\ started' = started + 1
    BY <1>1, <1>2, StartProgrammed, PlanOfJobs DEF CoreInv
  <2>2. PICK j : j = plan[started'] /\ IsJob(j) /\ Programmed(csrm.csr, j)
    BY <1>2, <2>1, StartProgrammed, PlanOfJobs DEF CoreInv
  <2>3. ASSUME NEW m \in Movers
        PROVE  /\ agu'[m].loopBounds = j.loopBounds
               /\ agu'[m].strides = j.strides[m]
               /\ agu'[m].ptr = j.ptr[m]
               /\ mover'[m].spatialStrides = <<j.spatialStrides[m]>>
    BY <1>2, <2>2, ProgrammedConfig, AguOfCycle, MoverOfCycle
  <2> QED
    BY <1>1, <2>2, <2>3 DEF ConfigInv
<1>3. CASE ~Start
  <2>1. ASSUME NEW m \in Movers
        PROVE  /\ agu'[m].loopBounds = agu[m].loopBounds
               /\ agu'[m].strides = agu[m].strides
               /\ agu'[m].ptr = agu[m].ptr
               /\ mover'[m].spatialStrides = mover[m].spatialStrides
    BY <1>3, AguOfCycle, MoverOfCycle
  <2> QED
    BY <1>1, <1>3, <2>1 DEF ConfigInv
<1> QED
  BY <1>2, <1>3

(* Every step keeps both. *)
LEMMA NextCore ==
    ControlInv /\ CoreInv /\ ConfigInv /\ [Next]_vars => CoreInv' /\ ConfigInv'
<1> SUFFICES ASSUME ControlInv, CoreInv, ConfigInv, [Next]_vars
             PROVE  CoreInv' /\ ConfigInv'
  OBVIOUS
<1>1. CASE Next
  BY <1>1, CoreOfCycle, ConfigOfCycle DEF Next
<1>2. CASE UNCHANGED vars
  BY <1>2 DEF vars, units, core, CoreInv, CoreAsks, ConfigInv
<1> QED
  BY <1>1, <1>2

(* In every reachable state both directions hold the configuration of the  *)
(* job that the core started last, bit for bit what its fields say: a      *)
(* start never reaches CSRs that are only partly written, and the CSRs the *)
(* core writes for its next job do not disturb the one that runs           *)
(* (CsrManager.scala, StreamerTop.scala).                                  *)
THEOREM ConfiguredAsStarted == Spec => [](CoreInv /\ ConfigInv)
BY InitCore, NextCore, ControlInvariance, PTL DEF Spec

(* A cycle of the FIFO keeps the type and the depth. *)
LEMMA FifoType ==
    ASSUME NEW S, NEW f \in Seq(S), Len(f) <= FifoDepth, NEW in_valid \in BOOLEAN,
           NEW word, in_valid => word \in S, NEW out_ready \in BOOLEAN
    PROVE  /\ FifoNext(f, in_valid, word, out_ready) \in Seq(S)
           /\ Len(FifoNext(f, in_valid, word, out_ready)) <= FifoDepth
<1>1. PICK g : g = FifoWith(f, in_valid, word)
  OBVIOUS
<1>2. g \in Seq(S) /\ Len(g) <= FifoDepth
  <2>1. CASE in_valid /\ FifoReady(f)
    <3>1. g = Append(f, word) /\ word \in S
      BY <1>1, <2>1 DEF FifoWith
    <3> QED
      BY <2>1, <3>1, MoverAssumption DEF FifoReady
  <2>2. CASE ~(in_valid /\ FifoReady(f))
    BY <1>1, <2>2 DEF FifoWith
  <2> QED
    BY <2>1, <2>2
<1>3. g # <<>> => Tail(g) \in Seq(S) /\ Len(Tail(g)) <= FifoDepth
  BY <1>2, MoverAssumption
<1> QED
  BY <1>1, <1>2, <1>3 DEF FifoNext

(* What the units request is an address. *)
LEMMA AddressType ==
    ASSUME TypeInv, NEW m \in Movers, NEW p \in Ports
    PROVE  Address(m, p) \in Addr
<1>1. /\ agu[m].ptr \in Nat
      /\ \A i \in Dims : agu[m].loop_counters[i] \in Nat /\ agu[m].strides[i] \in Nat
  BY PowersAssumption DEF TypeInv, TypeOK
<1>2. PtrOut(agu[m]) \in Nat
  BY <1>1, PtrOutType, PowersAssumption DEF Addr
<1>3. PICK s \in Nat : mover[m].spatialStrides = <<s>>
  BY DEF TypeInv
<1> QED
  BY <1>2, <1>3, SpatialAddrOfPort DEF Address

(* The counters stay in their width. *)
LEMMA CountersType ==
    ASSUME NEW a, a.loop_counters \in [Dims -> 0..(2^LoopBoundWidth - 1)]
    PROVE  /\ CountersNext(a) \in [Dims -> 0..(2^LoopBoundWidth - 1)]
           /\ Zeros \in [Dims -> 0..(2^LoopBoundWidth - 1)]
<1>1. PICK w \in Nat \ {0, 1} : w = 2^LoopBoundWidth
  BY PowersAssumption
<1>2. \A i \in Dims : CounterNext(a, i) \in 0..(w - 1)
  BY <1>1 DEF CounterNext
<1>3. 0 \in 0..(w - 1)
  BY <1>1
<1> QED
  BY <1>1, <1>2, <1>3 DEF CountersNext, Zeros

(* The configuration that StreamerTop takes from the CSRs. *)
LEMMA ConfigType ==
    ASSUME NEW csr \in [0..(NumReadWrite - 1) -> Nat], NEW m \in Movers
    PROVE  /\ Config(csr, m).loopBounds \in [Dims -> Nat]
           /\ Config(csr, m).strides \in [Dims -> Nat]
           /\ Config(csr, m).ptr \in Nat
           /\ csr[SpatialStrideCsr(m)] \in Nat
<1>1. 0..(StartCsr - 1) \subseteq 0..(NumReadWrite - 1)
  BY CsrAssumption DEF StartCsr
<1>2. 1 \in Dims
  BY AddrGenAssumption DEF Dims
<1>3. /\ csr[SpatialStrideCsr(m)] \in Nat /\ csr[PtrCsr(m)] \in Nat
      /\ \A i \in Dims : csr[StrideCsr(m, i)] \in Nat /\ csr[BoundCsr(i)] \in Nat
  BY <1>1, <1>2, JobCsrs
<1>4. \A i \in Dims : csr[BoundCsr(i)] % 2^LoopBoundWidth \in Nat
  <2>1. PICK w \in Nat \ {0} : w = 2^LoopBoundWidth
    BY PowersAssumption
  <2>2. \A n \in Nat : n % w \in Nat
    BY <2>1
  <2> QED
    BY <1>3, <2>1, <2>2
<1> QED
  BY <1>3, <1>4 DEF Config

(* The registers of the address generation units. *)
AguType ==
    [busy : BOOLEAN, loopBounds : [Dims -> Nat], strides : [Dims -> Nat], ptr : Nat,
     loop_counters : [Dims -> 0..(2^LoopBoundWidth - 1)]]

(* A cycle of the address generation units keeps their types. *)
LEMMA AguTypeOfCycle ==
    ASSUME ControlInv, CoreInv, TypeInv, NEW granted \in Grants, NEW take \in Takes,
           Cycle(granted, take)
    PROVE  agu' \in [Movers -> AguType]
<1>1. DOMAIN agu' = Movers /\ agu' = [m \in Movers |-> agu'[m]]
  BY DEF Cycle, StreamerStep
<1>2. ASSUME NEW m \in Movers
      PROVE  agu'[m] \in AguType
  <2>1. PICK a, b : a = agu[m] /\ b = agu'[m]
    OBVIOUS
  <2>2. a \in AguType
    BY <2>1 DEF TypeInv, TypeOK, AguType
  <2>3. /\ IsAgu(b)
        /\ b.loopBounds = IF Start THEN Config(csrm.csr, m).loopBounds
                                   ELSE a.loopBounds
        /\ b.strides = IF Start THEN Config(csrm.csr, m).strides ELSE a.strides
        /\ b.ptr = IF Start THEN Config(csrm.csr, m).ptr ELSE a.ptr
        /\ \/ b.loop_counters = Zeros
           \/ b.loop_counters = CountersNext(a)
           \/ b.loop_counters = a.loop_counters
    BY <2>1, AguOfCycle
  <2>4. /\ a.loopBounds \in [Dims -> Nat] /\ a.strides \in [Dims -> Nat]
        /\ a.ptr \in Nat
        /\ a.loop_counters \in [Dims -> 0..(2^LoopBoundWidth - 1)]
    BY <2>2 DEF AguType
  <2>5. b.loop_counters \in [Dims -> 0..(2^LoopBoundWidth - 1)]
    BY <2>3, <2>4, CountersType
  <2>6. b.loopBounds \in [Dims -> Nat] /\ b.strides \in [Dims -> Nat] /\ b.ptr \in Nat
    BY <2>3, <2>4, ConfigType DEF CoreInv
  <2>7. b \in AguType
    BY <2>3, <2>5, <2>6 DEF IsAgu, AguType
  <2> QED
    BY <2>1, <2>7
<1> QED
  BY <1>1, <1>2

(* A cycle keeps the types of the words. *)
LEMMA WordTypesOfCycle ==
    ASSUME ControlInv, TypeInv, NEW granted \in Grants, NEW take \in Takes,
           Cycle(granted, take)
    PROVE  /\ rfifo' \in Seq(Word) /\ Len(rfifo') <= FifoDepth
           /\ wfifo' \in Seq(Word) /\ Len(wfifo') <= FifoDepth
           /\ acc' \in Seq(Word)
           /\ \A p \in Ports : rspbuf'.valid_reg[p] => rspbuf'.data_buffer[p] \in Addr
<1>1. /\ rfifo \in Seq(Word) /\ Len(rfifo) <= FifoDepth
      /\ wfifo \in Seq(Word) /\ Len(wfifo) <= FifoDepth
      /\ acc \in Seq(Word)
      /\ \A p \in Ports : rspbuf.valid_reg[p] => rspbuf.data_buffer[p] \in Addr
  BY DEF TypeInv, TypeOK
<1>2. \A p \in Ports : p \in DOMAIN rsp => rsp[p] \in Addr
  BY DEF TypeInv, TypeOK, Addr
<1>3. Full => Datum \in Word
  <2> SUFFICES ASSUME Full
               PROVE  Datum \in Word
    OBVIOUS
  <2>1. \A p \in Ports : (IF rspbuf.valid_reg[p] THEN rspbuf.data_buffer[p] ELSE rsp[p])
                            \in Addr
    BY <1>1, <1>2 DEF Full, TcdmRspValid
  <2> QED
    BY <2>1 DEF Datum, DataFifoInput, Word, Addr
<1>4. /\ take \in BOOLEAN /\ Full \in BOOLEAN /\ offer \in BOOLEAN
      /\ PtrReady("writer", granted["writer"]) \in BOOLEAN
      /\ offer => acc # <<>>
      /\ take => FifoValid(rfifo, Full)
  BY MoverNames, Wires DEF Takes, Full, TcdmRspValid, ControlInv, Shape
<1>5. rfifo' \in Seq(Word) /\ Len(rfifo') <= FifoDepth
  <2>1. rfifo' = FifoNext(rfifo, Full, Datum, take)
    BY DEF Cycle, StreamerStep, Full, Datum
  <2> QED
    BY <1>1, <1>3, <1>4, <2>1, FifoType
<1>6. offer => OfferedWord \in Word
  BY <1>1, <1>4 DEF OfferedWord
<1>7. wfifo' \in Seq(Word) /\ Len(wfifo') <= FifoDepth
  <2>1. wfifo' = FifoNext(wfifo, offer, OfferedWord,
                          PtrReady("writer", granted["writer"]))
    BY MoverNames DEF Cycle, StreamerStep
  <2> QED
    BY <1>1, <1>4, <1>6, <2>1, FifoType
<1>8. acc' \in Seq(Word)
  <2>1. take => FifoOut(rfifo, Datum) \in Word
    BY <1>1, <1>3, <1>4 DEF FifoOut, FifoValid
  <2>2. PICK kept \in Seq(Word) :
            acc' = IF take THEN Append(kept, FifoOut(rfifo, Datum)) ELSE kept
    <3>1. offer => Tail(acc) \in Seq(Word)
      BY <1>1, <1>4
    <3> QED
      BY <1>1, <3>1 DEF Cycle, AcceleratorStep, Datum
  <2> QED
    BY <2>1, <2>2
<1>9. ASSUME NEW p \in Ports, rspbuf'.valid_reg[p]
      PROVE  rspbuf'.data_buffer[p] \in Addr
  <2>1. /\ rspbuf'.valid_reg[p] => Got(p)
        /\ rspbuf'.data_buffer[p] =
              IF p \in DOMAIN rsp THEN rsp[p] ELSE rspbuf.data_buffer[p]
    BY DEF Cycle, StreamerStep, RspNext, Got
  <2> QED
    BY <1>1, <1>2, <1>9, <2>1 DEF Got
<1> QED
  BY <1>5, <1>7, <1>8, <1>9

(* A cycle keeps the types. *)
LEMMA TypesOfCycle ==
    ASSUME ControlInv, CoreInv, TypeInv, NEW granted \in Grants, NEW take \in Takes,
           Cycle(granted, take)
    PROVE  TypeInv'
<1>1. csrm'.csr \in [0..(NumReadWrite - 1) -> Nat]
  BY CoreOfCycle DEF CoreInv
<1>2. agu' \in [Movers -> AguType]
  BY AguTypeOfCycle
<1>3. rsp' \in UNION {[P -> 0..(2^AddrWidth - 1)] : P \in SUBSET Ports}
  <2>1. granted["reader"] \in SUBSET Ports
    BY MoverNames, Wires
  <2>2. rsp' = [p \in granted["reader"] |-> Address("reader", p)]
    BY DEF Cycle, TcdmStep
  <2>3. rsp' \in [granted["reader"] -> 0..(2^AddrWidth - 1)]
    BY <2>1, <2>2, AddressType, MoverNames DEF Addr
  <2> QED
    BY <2>1, <2>3
<1>4. ASSUME NEW m \in Movers
      PROVE  /\ mover'[m].spatialStrides[1] \in Nat
             /\ mover'[m].spatialStrides = <<mover'[m].spatialStrides[1]>>
  <2>1. PICK s \in Nat : mover[m].spatialStrides = <<s>>
    BY DEF TypeInv
  <2>2. PICK n \in Nat : n = csrm.csr[SpatialStrideCsr(m)]
    BY ConfigType DEF CoreInv
  <2>3. PICK x \in Nat : mover'[m].spatialStrides = <<x>>
    BY <2>1, <2>2, MoverOfCycle
  <2>4. <<x>>[1] = x
    OBVIOUS
  <2> QED
    BY <2>3, <2>4
<1> QED
  BY <1>1, <1>2, <1>3, <1>4, WordTypesOfCycle DEF TypeInv, TypeOK, AguType

(* The types at the start. *)
LEMMA InitTypes == Init => TypeInv
<1> SUFFICES ASSUME Init
             PROVE  TypeInv
  OBVIOUS
<1>1. csrm.csr \in [0..(NumReadWrite - 1) -> Nat]
  BY InitCore DEF CoreInv
<1>2. AguInit \in AguType
  <2>1. 0 \in 0..(2^LoopBoundWidth - 1)
    BY PowersAssumption
  <2> QED
    BY <2>1 DEF AguInit, AguType
<1>3. agu \in [Movers -> AguType]
  BY <1>2 DEF Init
<1>4. /\ <<>> \in Seq(Word) /\ Len(<<>>) <= FifoDepth
  BY MoverAssumption
<1>5. rsp \in UNION {[P -> 0..(2^AddrWidth - 1)] : P \in SUBSET Ports}
  <2>1. rsp \in [{} -> 0..(2^AddrWidth - 1)]
    BY DEF Init
  <2> QED
    BY <2>1
<1>6. \A m \in Movers : mover[m].spatialStrides = <<0>>
  BY DEF Init, MoverInit
<1>7. \A p \in Ports : ~rspbuf.valid_reg[p]
  BY DEF Init, RspInit
<1>8. <<0>>[1] = 0
  OBVIOUS
<1>9. rfifo = <<>> /\ wfifo = <<>> /\ acc = <<>>
  BY DEF Init
<1>10. TypeOK
  BY <1>1, <1>3, <1>4, <1>5, <1>9, Zenon DEF TypeOK, AguType
<1> QED
  BY <1>4, <1>6, <1>7, <1>8, <1>9, <1>10 DEF TypeInv

(* Every step keeps them. *)
LEMMA NextTypes == ControlInv /\ CoreInv /\ TypeInv /\ [Next]_vars => TypeInv'
<1> SUFFICES ASSUME ControlInv, CoreInv, TypeInv, [Next]_vars
             PROVE  TypeInv'
  OBVIOUS
<1>1. CASE Next
  BY <1>1, TypesOfCycle DEF Next
<1>2. CASE UNCHANGED vars
  BY <1>2 DEF vars, units, TypeInv, TypeOK
<1> QED
  BY <1>1, <1>2

(* The registers keep their types: the counters fit into their width, a    *)
(* FIFO never holds more words than it has room for, and every word in a   *)
(* FIFO and every response is made of addresses (data), never of the       *)
(* contents of an empty register.                                          *)
THEOREM TypeCorrect == Spec => []TypeOK
<1>1. Spec => []TypeInv
  BY InitTypes, NextTypes, ControlInvariance, ConfiguredAsStarted, PTL DEF Spec
<1>2. TypeInv => TypeOK
  BY DEF TypeInv
<1> QED
  BY <1>1, <1>2, PTL

(* The addresses of the first s jobs. *)
Stream(jobs, s, m, p) == FlattenSeq([n \in 1..s |-> JobAddrs(jobs[n], m, p)])

(* A job adds its addresses at the end. *)
LEMMA StreamGrows ==
    ASSUME NEW jobs, NEW s \in Nat, \A n \in 1..(s + 1) : IsJob(jobs[n]),
           NEW m \in Movers, NEW p \in Ports
    PROVE  /\ Stream(jobs, s, m, p) \in Seq(Int)
           /\ s = 0 => Stream(jobs, s, m, p) = <<>>
           /\ Stream(jobs, s + 1, m, p)
                 = Stream(jobs, s, m, p) \o JobAddrs(jobs[s + 1], m, p)
<1>1. PICK g : g = [n \in 1..(s + 1) |-> JobAddrs(jobs[n], m, p)]
  OBVIOUS
<1>2. \A n \in 1..(s + 1) : g[n] \in Seq(Int)
  BY <1>1, JobAddrsType
<1>3. First(g, s) = [n \in 1..s |-> JobAddrs(jobs[n], m, p)]
  BY <1>1 DEF First
<1>4. First(g, s + 1) = [n \in 1..(s + 1) |-> JobAddrs(jobs[n], m, p)]
  BY <1>1 DEF First
<1>5. g[s + 1] = JobAddrs(jobs[s + 1], m, p)
  BY <1>1
<1>6. /\ FlattenSeq(First(g, s)) \in Seq(Int)
      /\ s = 0 => FlattenSeq(First(g, s)) = <<>>
      /\ FlattenSeq(First(g, s + 1)) = FlattenSeq(First(g, s)) \o g[s + 1]
  BY <1>2, FlattenGrows
<1> QED
  BY <1>3, <1>4, <1>5, <1>6, Zenon DEF Stream

(* The last V elements of two sequences put together. *)
LEMMA ConcatElements ==
    ASSUME NEW s \in Seq(Int), NEW t \in Seq(Int)
    PROVE  /\ s \o t \in Seq(Int)
           /\ Len(s \o t) = Len(s) + Len(t)
           /\ \A i \in 1..Len(s) : (s \o t)[i] = s[i]
           /\ \A i \in 1..Len(t) : (s \o t)[Len(s) + i] = t[i]
OBVIOUS

(* Where the addresses of the job that was started last are. *)
LEMMA StreamEnds ==
    ASSUME CoreInv, NEW m \in Movers, NEW p \in Ports
    PROVE  /\ StreamAddrs(m, p) \in Seq(Int)
           /\ Len(StreamAddrs(m, p)) \in Nat
           /\ started = 0 => StreamAddrs(m, p) = <<>>
           /\ started > 0 =>
                 LET V == Volume(plan[started].loopBounds, LoopDim)
                 IN  /\ IsJob(plan[started])
                     /\ plan[started].loopBounds \in Bounds
                     /\ V \in Nat \ {0} /\ V <= Len(StreamAddrs(m, p))
                     /\ \A i \in 1..V :
                           StreamAddrs(m, p)[(Len(StreamAddrs(m, p)) - V) + i]
                              = JobAddrs(plan[started], m, p)[i]
<1>1. PICK st : st = StreamAddrs(m, p) /\ st = Stream(plan, started, m, p)
  BY DEF StreamAddrs, Stream
<1>2. /\ Len(plan) \in Nat /\ started \in 0..Len(plan)
      /\ \A n \in 1..Len(plan) : IsJob(plan[n])
  BY PlanOfJobs DEF CoreInv
<1>3. CASE started = 0
  <2>1. Stream(plan, 0, m, p) = FlattenSeq(<<>>)
    <3>1. [n \in 1..0 |-> JobAddrs(plan[n], m, p)] = <<>>
      OBVIOUS
    <3> QED
      BY <3>1 DEF Stream
  <2>2. FlattenSeq(<<>>) = <<>>
    <3>1. Len(<<>>) = 0
      OBVIOUS
    <3> QED
      BY <3>1, FlattenIsRecursion
  <2>3. st = <<>>
    BY <1>1, <1>3, <2>1, <2>2
  <2>4. st \in Seq(Int) /\ Len(st) \in Nat
    BY <2>3
  <2>5. ~(started > 0)
    BY <1>3
  <2> QED
    BY <1>1, <2>3, <2>4, <2>5
<1>4. CASE started > 0
  <2>1. PICK s \in Nat : started = s + 1
    <3>1. started - 1 \in Nat /\ started = (started - 1) + 1
      BY <1>2, <1>4
    <3> QED
      BY <3>1
  <2>2. \A n \in 1..(s + 1) : IsJob(plan[n])
    BY <1>2, <2>1
  <2>3. PICK t, u : t = Stream(plan, s, m, p) /\ u = JobAddrs(plan[s + 1], m, p)
    OBVIOUS
  <2>4. t \in Seq(Int) /\ st = t \o u
    BY <1>1, <2>1, <2>2, <2>3, StreamGrows
  <2>5. IsJob(plan[s + 1])
    BY <2>2
  <2>6. PICK V : V = Volume(plan[s + 1].loopBounds, LoopDim)
    OBVIOUS
  <2>7. V \in Nat \ {0} /\ u \in Seq(Int) /\ Len(u) = V
    BY <2>3, <2>5, <2>6, JobAddrsType
  <2>8. /\ st \in Seq(Int) /\ Len(st) = Len(t) + V /\ Len(t) \in Nat
        /\ \A i \in 1..V : st[Len(t) + i] = u[i]
    <3>1. /\ (t \o u) \in Seq(Int) /\ Len(t \o u) = Len(t) + Len(u)
          /\ \A i \in 1..Len(u) : (t \o u)[Len(t) + i] = u[i]
      BY <2>4, <2>7, ConcatElements, Zenon
    <3>2. Len(t) \in Nat
      BY <2>4
    <3> QED
      BY <2>4, <2>7, <3>1, <3>2, Zenon
  <2>9. (Len(st) - V) = Len(t) /\ V <= Len(st) /\ Len(st) \in Nat
    BY <2>7, <2>8
  <2>10. \A i \in 1..V : st[(Len(st) - V) + i] = u[i]
    BY <2>8, <2>9, Zenon
  <2>11. plan[s + 1].loopBounds \in Bounds
    BY <2>5 DEF IsJob
  <2>12. started # 0
    BY <1>4, <1>2
  <2> QED
    BY <1>1, <2>1, <2>3, <2>5, <2>6, <2>7, <2>8, <2>9, <2>10, <2>11, <2>12
<1> QED
  BY <1>2, <1>3, <1>4

(* The addresses after a cycle. *)
LEMMA StreamsOfCycle ==
    ASSUME CoreInv, NEW granted, NEW take, Cycle(granted, take),
           NEW m \in Movers, NEW p \in Ports
    PROVE  /\ ~Start => StreamAddrs(m, p)' = StreamAddrs(m, p) /\ started' = started
           /\ Start => /\ started' = started + 1 /\ started' > 0
                       /\ Len(StreamAddrs(m, p)') = Len(StreamAddrs(m, p))
                            + Volume(plan[started'].loopBounds, LoopDim)
           /\ \A i \in 1..Len(StreamAddrs(m, p)) :
                 StreamAddrs(m, p)'[i] = StreamAddrs(m, p)[i]
           /\ Len(StreamAddrs(m, p)) <= Len(StreamAddrs(m, p)')
           /\ plan' = plan
<1>1. /\ started' = IF Start THEN started + 1 ELSE started
      /\ plan' = plan
  BY DEF Cycle, CoreStep, Start
<1>2. PICK st, tt : /\ st = StreamAddrs(m, p) /\ st = Stream(plan, started, m, p)
                    /\ tt = StreamAddrs(m, p)' /\ tt = Stream(plan, started', m, p)
  BY <1>1 DEF StreamAddrs, Stream
<1>3. st \in Seq(Int) /\ Len(st) \in Nat
  BY <1>2, StreamEnds
<1>4. CASE ~Start
  <2>1. tt = st /\ started' = started
    BY <1>1, <1>2, <1>4
  <2> QED
    BY <1>1, <1>2, <1>3, <1>4, <2>1
<1>5. CASE Start
  <2>1. /\ started \in Nat /\ started' = started + 1
        /\ \A n \in 1..(started + 1) : IsJob(plan[n])
    <3>1. started < Len(plan)
      BY <1>5, StartProgrammed
    <3> QED
      BY <1>1, <1>5, <3>1, PlanOfJobs DEF CoreInv
  <2>2. PICK s \in Nat : s = started
    BY <2>1
  <2>3. PICK u, V : u = JobAddrs(plan[s + 1], m, p)
                 /\ V = Volume(plan[s + 1].loopBounds, LoopDim)
    OBVIOUS
  <2>4. tt = st \o u
    BY <1>2, <2>1, <2>2, <2>3, StreamGrows
  <2>5. u \in Seq(Int) /\ Len(u) = V /\ V \in Nat
    BY <2>1, <2>2, <2>3, JobAddrsType
  <2>6. /\ Len(tt) = Len(st) + V
        /\ \A i \in 1..Len(st) : tt[i] = st[i]
    BY <1>3, <2>4, <2>5, ConcatElements
  <2>7. Len(st) <= Len(tt) /\ started' > 0
    BY <1>3, <2>1, <2>5, <2>6
  <2> QED
    BY <1>1, <1>2, <1>5, <2>1, <2>2, <2>3, <2>6, <2>7
<1> QED
  BY <1>4, <1>5

(* The iterations between the writer, in iteration k, and the reader. *)
LEMMA ChainIterations ==
    ASSUME NEW b \in Bounds, NEW N \in Nat, NEW q, NEW k \in Nat,
           k < Volume(b, LoopDim), NEW end, NEW left \in BOOLEAN,
           Chain(q, N, b, Counters(b, k), end, left),
           NEW n \in 0..N, n < N \/ left
    PROVE  k + n < Volume(b, LoopDim) /\ q[n] = Counters(b, k + n)
<1> DEFINE T == {i \in Nat : i <= N /\ (i < N \/ left) =>
                     k + i < Volume(b, LoopDim) /\ q[i] = Counters(b, k + i)}
<1>1. 0 \in T
  <2>1. k + 0 = k /\ q[0] = Counters(b, k)
    BY DEF Chain
  <2> QED
    BY <2>1
<1>2. ASSUME NEW i \in Nat, i \in T
      PROVE  i + 1 \in T
  <2> SUFFICES ASSUME i + 1 <= N, i + 1 < N \/ left
               PROVE  /\ k + (i + 1) < Volume(b, LoopDim)
                      /\ q[i + 1] = Counters(b, k + (i + 1))
    OBVIOUS
  <2>1. PICK V \in Nat : V = Volume(b, LoopDim)
    BY BoundsVolumes, AddrGenAssumption
  <2>2. i < N /\ i \in 0..(N - 1)
    OBVIOUS
  <2>3. PICK l \in Nat : l = k + i
    OBVIOUS
  <2>4. l < V /\ q[i] = Counters(b, l)
    BY <1>2, <2>1, <2>2, <2>3
  <2>5. q[i + 1] = Counters(b, l + 1)
    BY <2>2, <2>4, CountersAdvance DEF Chain
  <2>6. ~IsLast(b, q[i])
    BY <2>2 DEF Chain
  <2>7. l + 1 # V
    BY <2>1, <2>4, <2>6, LastIteration
  <2>8. l + 1 = k + (i + 1) /\ l + 1 < V
    BY <2>1, <2>3, <2>4, <2>7
  <2> QED
    BY <2>1, <2>5, <2>8
<1>3. Nat \subseteq T
  <2> HIDE DEF T
  <2> QED
    BY <1>1, <1>2, NatSetInduction
<1>4. n \in T /\ n <= N
  BY <1>3
<1> QED
  BY <1>4

(* All that the proof of StreamInv rests on. *)
BaseInv == IInv /\ DataInv /\ CopyInv /\ CoreInv /\ ConfigInv

(* How many words are given and written. *)
LEMMA DataLengths ==
    ASSUME ControlInv, DataInv
    PROVE  /\ IsSeq(consumed) /\ Len(consumed) \in Nat
           /\ Len(wfifo) \in Nat /\ Len(acc) \in Nat /\ WordsWritten \in Nat
           /\ Len(consumed) = WordsWritten + (Len(wfifo) + Len(acc))
           /\ \A p \in Ports :
                 /\ IsSeq(written[p])
                 /\ Len(written[p]) = WordsWritten + One(Reg("writer", p))
<1>1. PICK d \in Nat : /\ Carries(consumed, d, wfifo, acc)
                       /\ \A p \in Ports : PortWrote(p, d)
  BY DEF DataInv
<1>2. /\ Len(wfifo) \in Nat /\ Len(acc) \in Nat
      /\ IsSeq(consumed) /\ Len(consumed) \in Nat
      /\ Len(consumed) = d + Len(wfifo) + Len(acc)
  BY <1>1, SeqLen DEF ControlInv, Shape, Carries, DataInv
<1>3. WordsWritten = d /\ Len(consumed) = d + (Len(wfifo) + Len(acc))
  BY <1>1, <1>2 DEF WordsWritten
<1> QED
  BY <1>1, <1>2, <1>3 DEF PortWrote

(* A word is written when the writer is done with a pointer. *)
LEMMA WrittenOfCycle ==
    ASSUME ControlInv, DataInv, NEW granted \in Grants, NEW take \in Takes,
           Cycle(granted, take)
    PROVE  WordsWritten' = WordsWritten + One(PtrReady("writer", granted["writer"]))
<1>1. PICK g, w, t \in Nat :
         /\ g = One(offer /\ FifoReady(wfifo))
         /\ w = One(PtrReady("writer", granted["writer"]))
         /\ t = One(take)
  BY DEF One
<1>2. /\ Len(acc') = Len(acc) + t - g
      /\ Len(wfifo') = Len(wfifo) + g - w
  BY <1>1, WordsOfCycle
<1>3. Len(consumed') = Len(consumed) + t
  <2>1. IsSeq(consumed) /\ take \in BOOLEAN
    BY DEF DataInv, Takes
  <2>2. PICK x : consumed' = IF take THEN Append(consumed, x) ELSE consumed
    BY DEF Cycle, AcceleratorStep
  <2> QED
    BY <1>1, <2>1, <2>2, AppendSeq, DataLengths DEF One
<1>4. /\ Len(consumed) \in Nat /\ Len(wfifo) \in Nat /\ Len(acc) \in Nat
  BY DataLengths
<1>5. WordsWritten' = Len(consumed') - (Len(wfifo') + Len(acc'))
  BY DEF WordsWritten
<1>6. WordsWritten = Len(consumed) - (Len(wfifo) + Len(acc))
  BY DEF WordsWritten
<1>7. WordsWritten' = WordsWritten + w
  <2>1. PICK c \in Nat, a \in Nat, f \in Nat :
            c = Len(consumed) /\ a = Len(acc) /\ f = Len(wfifo)
    BY <1>4
  <2>2. WordsWritten' = (c + t) - ((f + g - w) + (a + t - g))
    BY <1>2, <1>3, <1>5, <2>1, Zenon
  <2>3. WordsWritten = c - (f + a)
    BY <1>6, <2>1, Zenon
  <2>4. g \in Nat /\ w \in Nat /\ t \in Nat
    BY <1>1
  <2> QED
    BY <2>2, <2>3, <2>4
<1> QED
  BY <1>1, <1>7

(* The iteration of a writer that works, and where its addresses are. *)
LEMMA WriterIteration ==
    ASSUME BaseInv, StreamInv, agu["writer"].busy
    PROVE  /\ started > 0 /\ IsJob(plan[started])
           /\ plan[started].loopBounds \in Bounds
           /\ agu["writer"].loopBounds = plan[started].loopBounds
           /\ \E k \in Nat :
                 /\ k < Volume(plan[started].loopBounds, LoopDim)
                 /\ agu["writer"].loop_counters = Counters(plan[started].loopBounds, k)
                 /\ \A m \in Movers, p \in Ports :
                       \A i \in 1..(Volume(plan[started].loopBounds, LoopDim) - k) :
                          /\ WordsWritten + i <= Len(StreamAddrs(m, p))
                          /\ StreamAddrs(m, p)[WordsWritten + i]
                                = JobAddrs(plan[started], m, p)[k + i]
<1> USE DEF BaseInv
<1>1. started > 0
  BY DEF StreamInv, CoreInv
<1>2. PICK j, b, V : j = plan[started] /\ b = j.loopBounds /\ V = Volume(b, LoopDim)
  OBVIOUS
<1>3. IsJob(j) /\ b \in Bounds /\ V \in Nat \ {0}
  BY <1>1, <1>2, StreamEnds, MoverNames, PortsExist
<1>4. agu["writer"].loopBounds = b
  BY <1>1, <1>2, MoverNames DEF ConfigInv
<1>5. PICK k \in 0..V : AtIteration(k, b, V)
  BY <1>1, <1>2 DEF StreamInv
<1>6. k < V /\ agu["writer"].loop_counters = Counters(b, k)
  BY <1>5 DEF AtIteration
<1>7. ASSUME NEW m \in Movers, NEW p \in Ports, NEW i \in 1..(V - k)
      PROVE  /\ WordsWritten + i <= Len(StreamAddrs(m, p))
             /\ StreamAddrs(m, p)[WordsWritten + i] = JobAddrs(j, m, p)[k + i]
  <2>1. PICK st : st = StreamAddrs(m, p)
    OBVIOUS
  <2>2. /\ Len(st) \in Nat
        /\ \A n \in 1..V : st[(Len(st) - V) + n] = JobAddrs(j, m, p)[n]
    BY <1>1, <1>2, <2>1, StreamEnds
  <2>3. Len(st) + k = WordsWritten + V /\ WordsWritten \in Nat
    BY <1>5, <2>1, DataLengths DEF AtIteration, IInv
  <2>4. /\ (Len(st) - V) + (k + i) = WordsWritten + i
        /\ k + i \in 1..V /\ WordsWritten + i <= Len(st)
    <3>1. PICK L \in Nat, W \in Nat :
              L = Len(st) /\ W = WordsWritten /\ L + k = W + V
      BY <2>2, <2>3
    <3>2. V \in Nat /\ k \in Nat /\ k <= V
      BY <1>3, <1>5
    <3>3. /\ (L - V) + (k + i) = W + i
          /\ k + i \in 1..V /\ W + i <= L
      BY <3>1, <3>2
    <3> QED
      BY <3>1, <3>3, Zenon
  <2>5. st[(Len(st) - V) + (k + i)] = JobAddrs(j, m, p)[k + i]
    BY <2>2, <2>4
  <2> QED
    BY <2>1, <2>4, <2>5
<1>8. k \in Nat
  BY <1>3, <1>5
<1> QED
  BY <1>1, <1>2, <1>3, <1>4, <1>6, <1>7, <1>8

(* A write goes to the next address of the stream. *)
LEMMA WriteAddress ==
    ASSUME BaseInv, StreamInv, NEW granted \in Grants, NEW p \in granted["writer"]
    PROVE  /\ Len(written[p]) + 1 <= Len(StreamAddrs("writer", p))
           /\ Address("writer", p) = StreamAddrs("writer", p)[Len(written[p]) + 1]
<1> USE DEF BaseInv
<1>1. p \in Ports /\ agu["writer"].busy /\ ~Reg("writer", p)
  BY MoverNames, Wires DEF IInv
<1>2. PICK j, b, V : j = plan[started] /\ b = j.loopBounds /\ V = Volume(b, LoopDim)
  OBVIOUS
<1>3. /\ IsJob(j) /\ b \in Bounds /\ started > 0
  BY <1>1, <1>2, WriterIteration
<1>4. PICK k \in Nat :
         /\ k < V
         /\ agu["writer"].loop_counters = Counters(b, k)
         /\ \A i \in 1..(V - k) :
               /\ WordsWritten + i <= Len(StreamAddrs("writer", p))
               /\ StreamAddrs("writer", p)[WordsWritten + i]
                     = JobAddrs(j, "writer", p)[k + i]
  BY <1>1, <1>2, MoverNames, WriterIteration
<1>5. Len(written[p]) = WordsWritten
  BY <1>1, DataLengths DEF IInv, One
<1>6. V \in Nat
  BY <1>2, <1>3, BoundsVolumes, AddrGenAssumption
<1>7. 1 \in 1..(V - k)
  BY <1>4, <1>6
<1>8. /\ agu["writer"].ptr = j.ptr["writer"]
      /\ agu["writer"].strides = j.strides["writer"]
      /\ mover["writer"].spatialStrides = <<j.spatialStrides["writer"]>>
  BY <1>2, <1>3, MoverNames DEF ConfigInv
<1>9. Address("writer", p) = JobAddrs(j, "writer", p)[k + 1]
  <2>1. PICK a : a = agu["writer"]
    OBVIOUS
  <2>2. SpatialAddr(<<TcdmPortsNum>>, <<j.spatialStrides["writer"]>>, PtrOut(a), p)
           = JobAddrs(j, "writer", p)[k + 1]
    BY <1>1, <1>2, <1>3, <1>4, <1>8, <2>1, MoverNames, LoopAddress
  <2> QED
    BY <1>8, <2>1, <2>2 DEF Address
<1> QED
  BY <1>4, <1>5, <1>7, <1>9

(* The word the accelerator takes is the next word of the stream. *)
LEMMA TakenWord ==
    ASSUME BaseInv, StreamInv, NEW granted \in Grants, NEW take \in Takes,
           Cycle(granted, take), ~Start, take, NEW p \in Ports
    PROVE  /\ Len(consumed) + 1 <= Len(StreamAddrs("reader", p))
           /\ FifoOut(rfifo, Datum)[p] = StreamAddrs("reader", p)[Len(consumed) + 1]
<1> DEFINE r == PtrReady("reader", granted["reader"])
<1> USE DEF BaseInv
<1>1. PICK N \in Nat, o \in Nat : N = InFlight /\ o = One(r)
  BY FlightCount DEF IInv, One
<1>2. PICK q : /\ Chain(q, N, agu["writer"].loopBounds,
                        agu["writer"].loop_counters, agu["reader"].loop_counters,
                        agu["reader"].busy)
               /\ \A n \in 1..N :
                     Position(wfifo, acc, rfifo, Datum, n) = ReadWord(q[n - 1])
  BY <1>1 DEF CopyInv, FlightMatches
<1>3. /\ IsSeq(wfifo) /\ IsSeq(acc) /\ IsSeq(rfifo)
      /\ Len(wfifo) \in Nat /\ Len(acc) \in Nat /\ Len(rfifo) \in Nat
      /\ Len(rfifo) = 0 <=> rfifo = <<>>
  BY SeqLen DEF IInv, ControlInv, Shape
<1>4. PICK n \in Nat : n = Len(wfifo) + Len(acc)
  BY <1>3
<1>5. PICK f : f = FifoWith(rfifo, Full, Datum)
  OBVIOUS
<1>6. /\ FifoValid(rfifo, Full)
      /\ Full /\ FifoReady(rfifo) => WordWaits \/ r
      /\ rfifo = <<>> => FifoReady(rfifo)
  <2>1. rfifo = <<>> => FifoReady(rfifo)
    BY <1>3, MoverAssumption DEF FifoReady
  <2> QED
    BY <2>1, WaitsOfCycle DEF IInv, Takes, Full
<1>7. IsSeq(f) /\ f # <<>> /\ f[1] = FifoOut(rfifo, Datum) /\ Len(f) >= 1
  <2>1. CASE rfifo = <<>>
    <3>1. f = Append(rfifo, Datum) /\ FifoOut(rfifo, Datum) = Datum
      BY <1>5, <1>6, <2>1 DEF FifoWith, FifoOut, FifoValid
    <3>2. IsSeq(f) /\ Len(f) = Len(rfifo) + 1 /\ f # <<>>
      BY <1>3, <3>1, AppendSeq
    <3>3. f[Len(rfifo) + 1] = Datum
      BY <1>3, <3>1, SeqElements
    <3>4. Len(rfifo) + 1 = 1 /\ 1 >= 1
      BY <1>3, <2>1
    <3> QED
      BY <3>1, <3>2, <3>3, <3>4, Zenon
  <2>2. CASE rfifo # <<>>
    <3>1. FifoOut(rfifo, Datum) = rfifo[1] /\ Len(rfifo) >= 1
      BY <1>3, <2>2, SeqElements DEF FifoOut
    <3>2. CASE f = rfifo
      BY <1>3, <2>2, <3>1, <3>2
    <3>3. CASE f = Append(rfifo, Datum)
      <4>1. IsSeq(f) /\ Len(f) = Len(rfifo) + 1 /\ f # <<>>
        BY <1>3, <3>3, AppendSeq
      <4>2. 1 \in 1..Len(rfifo)
        BY <1>3, <3>1
      <4>3. f[1] = rfifo[1]
        BY <1>3, <3>3, <4>2, SeqElements
      <4> QED
        BY <1>3, <3>1, <4>1, <4>3
    <3> QED
      BY <1>5, <3>2, <3>3 DEF FifoWith
  <2> QED
    BY <2>1, <2>2
<1>8. \A x : Position(wfifo, acc, f, x, n + 1) = f[1]
  <2>1. Len(f) \in Nat
    BY <1>7, SeqLen
  <2>2. /\ ~(n + 1 <= Len(wfifo)) /\ ~(n + 1 <= Len(wfifo) + Len(acc))
        /\ n + 1 <= Len(wfifo) + Len(acc) + Len(f)
        /\ (n + 1) - (Len(wfifo) + Len(acc)) = 1
    BY <1>3, <1>4, <1>7, <2>1
  <2> QED
    BY <2>2 DEF Position
<1>9. n + 1 \in 1..(N + o) /\ n \in 0..N /\ (n < N \/ r)
  <2>1. N = One(WordWaits) + Len(rfifo) + Len(acc) + Len(wfifo)
    BY <1>1 DEF InFlight
  <2>2. (Len(rfifo) >= 1 \/ WordWaits) \/ r
    BY <1>3, <1>6 DEF FifoValid
  <2>3. CASE Len(rfifo) >= 1 \/ WordWaits
    <3>1. One(WordWaits) \in Nat /\ (WordWaits => One(WordWaits) = 1)
      BY DEF One
    <3>2. n < N
      BY <1>3, <1>4, <2>1, <2>3, <3>1
    <3>3. n + 1 \in 1..(N + o) /\ n \in 0..N
      BY <1>1, <1>4, <3>2
    <3> QED
      BY <3>2, <3>3
  <2>4. CASE r
    BY <1>1, <1>3, <1>4, <2>1, <2>4 DEF One
  <2> QED
    BY <2>2, <2>3, <2>4
<1>10. FifoOut(rfifo, Datum) = ReadWord(q[n])
  <2>1. q[N] = agu["reader"].loop_counters
    BY <1>2 DEF Chain
  <2>2. PICK i \in 1..(N + o) : i = n + 1 /\ i - 1 = n
    BY <1>4, <1>9
  <2>3. Position(wfifo, acc, f, Datum', i) = ReadWord(q[i - 1])
    BY <1>1, <1>2, <1>5, <2>1, FlightGrows
  <2> QED
    BY <1>7, <1>8, <2>2, <2>3
<1>11. agu["writer"].busy /\ (n < N \/ agu["reader"].busy)
  <2>1. r => agu["reader"].busy
    BY MoverNames, Wires DEF IInv
  <2>2. agu["writer"].busy <=> agu["reader"].busy \/ N > 0
    BY <1>1 DEF IInv, FlightInv
  <2> QED
    BY <1>4, <1>9, <2>1, <2>2
<1>12. PICK j, b, V : j = plan[started] /\ b = j.loopBounds /\ V = Volume(b, LoopDim)
  OBVIOUS
<1>13. /\ IsJob(j) /\ b \in Bounds /\ started > 0 /\ agu["writer"].loopBounds = b
  BY <1>11, <1>12, WriterIteration
<1>14. PICK k \in Nat :
         /\ k < V
         /\ agu["writer"].loop_counters = Counters(b, k)
         /\ \A i \in 1..(V - k) :
               /\ WordsWritten + i <= Len(StreamAddrs("reader", p))
               /\ StreamAddrs("reader", p)[WordsWritten + i]
                     = JobAddrs(j, "reader", p)[k + i]
  BY <1>11, <1>12, MoverNames, WriterIteration
<1>15. k + n < V /\ q[n] = Counters(b, k + n)
  <2>1. PICK left \in BOOLEAN : left = agu["reader"].busy
    BY MoverNames DEF IInv, ControlInv, Shape, IsAgu
  <2>2. Chain(q, N, b, Counters(b, k), agu["reader"].loop_counters, left)
    BY <1>2, <1>13, <1>14, <2>1
  <2>3. n \in 0..N /\ (n < N \/ left)
    BY <1>9, <1>11, <2>1
  <2> QED
    <3>1. PICK end : end = agu["reader"].loop_counters
      OBVIOUS
    <3>2. k < Volume(b, LoopDim) /\ k \in Nat
      BY <1>12, <1>14
    <3>3. Chain(q, N, b, Counters(b, k), end, left)
      BY <2>2, <3>1
    <3>4. k + n < Volume(b, LoopDim) /\ q[n] = Counters(b, k + n)
      BY <1>1, <1>13, <2>1, <2>3, <3>2, <3>3, ChainIterations
    <3> QED
      BY <1>12, <3>4
<1>16. /\ agu["reader"].ptr = j.ptr["reader"]
       /\ agu["reader"].strides = j.strides["reader"]
       /\ mover["reader"].spatialStrides = <<j.spatialStrides["reader"]>>
  BY <1>12, <1>13, MoverNames DEF ConfigInv
<1>17. ReadAddr(q[n], p) = JobAddrs(j, "reader", p)[(k + n) + 1]
  <2>1. PICK a : a = ReadAgu(q[n])
    OBVIOUS
  <2>2. /\ a.ptr = j.ptr["reader"] /\ a.strides = j.strides["reader"]
        /\ a.loop_counters = q[n]
    BY <1>16, <2>1 DEF ReadAgu
  <2>3. PICK l \in Nat : l = k + n
    BY <1>4, <1>14
  <2>4. SpatialAddr(<<TcdmPortsNum>>, <<j.spatialStrides["reader"]>>, PtrOut(a), p)
           = JobAddrs(j, "reader", p)[l + 1]
    BY <1>12, <1>13, <1>15, <2>2, <2>3, MoverNames, LoopAddress
  <2> QED
    BY <1>16, <2>1, <2>3, <2>4 DEF ReadAddr
<1>18. V \in Nat
  BY <1>12, <1>13, BoundsVolumes, AddrGenAssumption
<1>19. /\ n + 1 \in 1..(V - k) /\ (k + n) + 1 = k + (n + 1)
       /\ WordsWritten + (n + 1) = Len(consumed) + 1
  <2>1. Len(consumed) = WordsWritten + n /\ WordsWritten \in Nat
    BY <1>4, DataLengths DEF IInv
  <2> QED
    BY <1>4, <1>14, <1>15, <1>18, <2>1
<1>20. FifoOut(rfifo, Datum)[p] = ReadAddr(q[n], p)
  BY <1>10 DEF ReadWord
<1>21. PICK i \in 1..(V - k) : i = n + 1
  BY <1>19
<1> QED
  BY <1>14, <1>17, <1>19, <1>20, <1>21

(* Nothing is taken in the cycle of a start. *)
LEMMA StartTakesNothing ==
    ASSUME IInv, NEW granted \in Grants, NEW take \in Takes, Cycle(granted, take),
           Start
    PROVE  /\ ~take /\ (\A m \in Movers : granted[m] = {} /\ ~agu[m].busy)
           /\ ~PtrReady("writer", granted["writer"])
           /\ rfifo = <<>> /\ acc = <<>> /\ wfifo = <<>>
<1>1. ~busy
  BY StartWhenIdle
<1>2. /\ rfifo = <<>> /\ acc = <<>> /\ wfifo = <<>>
      /\ \A p \in Ports : ~Got(p)
  BY <1>1, NothingLeft
<1>3. \A m \in Movers : ~agu[m].busy
  BY <1>1 DEF IInv, ControlInv, UnitsTogether
<1>4. ~take
  <2>1. ~TcdmRspValid(rspbuf, rsp)
    BY <1>2, PortsExist DEF TcdmRspValid, Got
  <2> QED
    BY <1>2, <2>1 DEF Takes, FifoValid
<1>5. \A m \in Movers : granted[m] = {}
  <2>1. \A m \in Movers : \A p \in granted[m] : FALSE
    BY <1>3, Wires DEF IInv
  <2> QED
    BY <2>1
<1>6. ~PtrReady("writer", granted["writer"])
  BY <1>3, MoverNames, Wires DEF IInv
<1> QED
  BY <1>2, <1>3, <1>4, <1>5, <1>6

(* The accelerator is given the next word of the stream. *)
LEMMA GivenGoesOn ==
    ASSUME BaseInv, StreamInv, NEW granted \in Grants, NEW take \in Takes,
           Cycle(granted, take), NEW p \in Ports
    PROVE  GivenOf(p, StreamAddrs("reader", p))'
<1> USE DEF BaseInv
<1>1. PICK s, t : s = StreamAddrs("reader", p) /\ t = StreamAddrs("reader", p)'
  OBVIOUS
<1>2. /\ Len(s) \in Nat /\ Len(t) >= Len(s)
      /\ \A i \in 1..Len(s) : t[i] = s[i]
  BY <1>1, StreamEnds, StreamsOfCycle, MoverNames
<1>3. Len(t) \in Nat
  BY <1>1, <1>2, StreamsOfCycle, StreamEnds, CoreOfCycle, MoverNames
<1>4. \A n \in 1..Len(consumed) : n <= Len(s) /\ consumed[n][p] = s[n]
  BY <1>1 DEF StreamInv, GivenOf
<1>5. IsSeq(consumed) /\ Len(consumed) \in Nat
  BY DataLengths DEF IInv
<1>6. \A n \in 1..Len(consumed) : n <= Len(t) /\ consumed[n][p] = t[n]
  BY <1>2, <1>3, <1>4, <1>5
<1>7. CASE take
  <2>1. ~Start
    BY <1>7, StartTakesNothing
  <2>2. PICK x, c : x = FifoOut(rfifo, Datum) /\ c = Append(consumed, x)
    OBVIOUS
  <2>3. consumed' = c
    BY <1>7, <2>2 DEF Cycle, AcceleratorStep, Datum
  <2>4. Len(consumed) + 1 <= Len(s) /\ x[p] = s[Len(consumed) + 1] /\ t = s
    BY <1>1, <1>7, <2>1, <2>2, TakenWord, StreamsOfCycle, MoverNames
  <2>5. /\ Len(c) = Len(consumed) + 1
        /\ \A n \in 1..Len(consumed) : c[n] = consumed[n]
        /\ c[Len(consumed) + 1] = x
    BY <1>5, <2>2, AppendSeq, SeqElements
  <2>6. ASSUME NEW n \in 1..Len(c)
        PROVE  n <= Len(t) /\ c[n][p] = t[n]
    <3>1. n \in 1..Len(consumed) \/ n = Len(consumed) + 1
      BY <1>5, <2>5
    <3> QED
      BY <1>6, <2>4, <2>5, <3>1
  <2> QED
    BY <1>1, <2>3, <2>6 DEF GivenOf
<1>8. CASE ~take
  <2>1. consumed' = consumed
    BY <1>8 DEF Cycle, AcceleratorStep
  <2> QED
    BY <1>1, <1>6, <2>1 DEF GivenOf
<1> QED
  BY <1>7, <1>8 DEF Takes

(* A port writes to the next address of the stream. *)
LEMMA WroteGoesOn ==
    ASSUME BaseInv, StreamInv, NEW granted \in Grants, NEW take \in Takes,
           Cycle(granted, take), NEW p \in Ports
    PROVE  WroteTo(p, StreamAddrs("writer", p))'
<1> USE DEF BaseInv
<1>1. PICK s, t : s = StreamAddrs("writer", p) /\ t = StreamAddrs("writer", p)'
  OBVIOUS
<1>2. /\ Len(s) \in Nat /\ Len(t) >= Len(s)
      /\ \A i \in 1..Len(s) : t[i] = s[i]
  BY <1>1, StreamEnds, StreamsOfCycle, MoverNames
<1>3. Len(t) \in Nat
  BY <1>1, <1>2, StreamsOfCycle, StreamEnds, CoreOfCycle, MoverNames
<1>4. PICK w : w = written[p]
  OBVIOUS
<1>5. \A n \in 1..Len(w) : n <= Len(s) /\ w[n] = <<s[n], w[n][2]>>
  BY <1>1, <1>4 DEF StreamInv, WroteTo
<1>6. IsSeq(w) /\ Len(w) \in Nat
  BY <1>4, DataLengths, SeqLen DEF IInv
<1>7. \A n \in 1..Len(w) : n <= Len(t) /\ w[n] = <<t[n], w[n][2]>>
  BY <1>2, <1>3, <1>5, <1>6
<1>8. written'[p] = IF p \in granted["writer"]
                    THEN Append(w, <<Address("writer", p), WriteWord[p]>>) ELSE w
  BY <1>4 DEF Cycle, TcdmStep
<1>9. CASE p \in granted["writer"]
  <2>1. ~Start
    BY <1>9, StartTakesNothing, MoverNames
  <2>2. PICK a, d : a = Address("writer", p) /\ d = WriteWord[p]
    OBVIOUS
  <2>3. PICK x, v : x = <<a, d>> /\ v = Append(w, x)
    OBVIOUS
  <2>4. written'[p] = v
    BY <1>8, <1>9, <2>2, <2>3
  <2>5. Len(w) + 1 <= Len(s) /\ a = s[Len(w) + 1] /\ t = s
    BY <1>1, <1>4, <1>9, <2>1, <2>2, WriteAddress, StreamsOfCycle, MoverNames
  <2>6. /\ Len(v) = Len(w) + 1
        /\ \A n \in 1..Len(w) : v[n] = w[n]
        /\ v[Len(w) + 1] = x
    BY <1>6, <2>3, AppendSeq, SeqElements
  <2>7. x = <<a, x[2]>>
    BY <2>3
  <2>8. ASSUME NEW n \in 1..Len(v)
        PROVE  n <= Len(t) /\ v[n] = <<t[n], v[n][2]>>
    <3>1. CASE n \in 1..Len(w)
      BY <1>7, <2>6, <3>1, Zenon
    <3>2. CASE n = Len(w) + 1
      BY <2>5, <2>6, <2>7, <3>2
    <3>3. n \in 1..Len(w) \/ n = Len(w) + 1
      BY <1>6, <2>6
    <3> QED
      BY <3>1, <3>2, <3>3
  <2> QED
    BY <1>1, <2>4, <2>8 DEF WroteTo
<1>10. CASE p \notin granted["writer"]
  <2>1. written'[p] = w
    BY <1>8, <1>10
  <2> QED
    BY <1>1, <1>7, <2>1 DEF WroteTo
<1> QED
  BY <1>9, <1>10

(* The iteration of the writer after a cycle without a start. *)
LEMMA IterationGoesOn ==
    ASSUME BaseInv, StreamInv, NEW granted \in Grants, NEW take \in Takes,
           Cycle(granted, take), ~Start, started > 0, NEW b, NEW V,
           b = plan[started].loopBounds, V = Volume(b, LoopDim)
    PROVE  \E k \in 0..V : AtIteration(k, b, V)'
<1> DEFINE w == PtrReady("writer", granted["writer"])
<1> USE DEF BaseInv
<1>1. b \in Bounds /\ V \in Nat \ {0}
  BY StreamEnds, MoverNames, PortsExist
<1>2. PICK k \in 0..V : AtIteration(k, b, V)
  BY DEF StreamInv
<1>3. agu["writer"].loopBounds = b
  BY MoverNames DEF ConfigInv
<1>4. PICK c : c = agu["writer"].loop_counters
  OBVIOUS
<1>5. /\ agu'["writer"].loop_counters = IF w THEN Advance(b, c) ELSE c
      /\ agu'["writer"].busy <=> agu["writer"].busy /\ ~(w /\ IsLast(b, c))
      /\ w => agu["writer"].busy
  BY <1>3, <1>4, MoverNames, UnitGoesOn
<1>6. PICK o \in Nat : o = One(w) /\ (w => o = 1) /\ (~w => o = 0)
  BY DEF One
<1>7. WordsWritten' = WordsWritten + o /\ WordsWritten \in Nat
  BY <1>6, WrittenOfCycle, DataLengths DEF IInv
<1>8. ASSUME NEW m \in Movers, NEW p \in Ports
      PROVE  Len(StreamAddrs(m, p)') + (k + o) = WordsWritten' + V
  <2>1. PICK L \in Nat : L = Len(StreamAddrs(m, p)) /\ L = Len(StreamAddrs(m, p)')
    BY StreamEnds, StreamsOfCycle
  <2>2. L + k = WordsWritten + V
    BY <1>2, <2>1 DEF AtIteration
  <2>3. L + (k + o) = WordsWritten' + V
    <3>1. k \in Nat /\ V \in Nat
      BY <1>1, <1>2
    <3> QED
      BY <1>6, <1>7, <2>2, <3>1
  <2> QED
    BY <2>1, <2>3
<1>9. agu["writer"].busy <=> k < V
  BY <1>2 DEF AtIteration
<1>10. k < V => c = Counters(b, k)
  BY <1>2, <1>4 DEF AtIteration
<1> HIDE DEF w
<1>11. CASE w
  <2>1. k < V /\ o = 1 /\ k \in Nat
    <3>1. k \in Nat
      BY <1>1, <1>2
    <3>2. agu["writer"].busy /\ o = 1
      BY <1>5, <1>6, <1>11
    <3> QED
      BY <1>9, <3>1, <3>2
  <2>2. IsLast(b, c) <=> k + 1 = V
    BY <1>1, <1>10, <2>1, LastIteration
  <2>3. agu'["writer"].loop_counters = Counters(b, k + 1)
    BY <1>1, <1>5, <1>10, <1>11, <2>1, CountersAdvance
  <2>4. agu'["writer"].busy <=> k + 1 < V
    <3>1. k + 1 < V <=> k + 1 # V
      BY <1>1, <2>1
    <3> QED
      BY <1>5, <1>9, <1>11, <2>1, <2>2, <3>1
  <2>5. PICK l \in 0..V : l = k + 1
    BY <1>1, <2>1
  <2>6. AtIteration(l, b, V)'
    BY <1>8, <2>1, <2>3, <2>4, <2>5 DEF AtIteration
  <2> QED
    BY <2>6
<1>12. CASE ~w
  <2>1. o = 0 /\ k + o = k
    BY <1>2, <1>6, <1>12
  <2>2. AtIteration(k, b, V)'
    BY <1>4, <1>5, <1>8, <1>9, <1>10, <1>12, <2>1 DEF AtIteration
  <2> QED
    BY <2>2
<1> QED
  BY <1>11, <1>12

(* A job starts in iteration 0. *)
LEMMA IterationStarts ==
    ASSUME BaseInv, StreamInv, NEW granted \in Grants, NEW take \in Takes,
           Cycle(granted, take), Start, NEW b, NEW V,
           b = plan[started'].loopBounds, V = Volume(b, LoopDim)
    PROVE  \E k \in 0..V : AtIteration(k, b, V)'
<1> USE DEF BaseInv
<1>1. /\ started' = started + 1 /\ started' \in 1..Len(plan)
  <2>1. started' = started + 1
    BY StreamsOfCycle, MoverNames, PortsExist
  <2> QED
    BY <2>1, StartProgrammed, PlanOfJobs DEF CoreInv
<1>2. IsJob(plan[started'])
  BY <1>1, PlanOfJobs DEF CoreInv
<1>3. b \in Bounds /\ V \in Nat \ {0}
  BY <1>2, JobAddrsType, MoverNames, PortsExist DEF IsJob
<1>4. agu'["writer"].busy /\ agu'["writer"].loop_counters = Zeros
  BY MoverNames, AguOfCycle, StartTakesNothing DEF IInv
<1>5. Counters(b, 0) = Zeros
  <2>1. \A i \in Dims : (0 \div Volume(b, i - 1)) % b[i] = 0
    <3> SUFFICES ASSUME NEW i \in Dims
                 PROVE  (0 \div Volume(b, i - 1)) % b[i] = 0
      OBVIOUS
    <3>1. PICK x \in Nat \ {0}, y \in Nat \ {0} : x = Volume(b, i - 1) /\ y = b[i]
      BY <1>3, BoundsVolumes
    <3>2. 0 \div x = 0
      BY <3>1
    <3>3. 0 % y = 0
      BY <3>1
    <3> QED
      BY <3>1, <3>2, <3>3
  <2> QED
    BY <2>1 DEF Counters, Zeros
<1>6. WordsWritten' = WordsWritten /\ WordsWritten \in Nat
  <2>1. One(PtrReady("writer", granted["writer"])) = 0
    BY StartTakesNothing DEF One
  <2> QED
    BY <2>1, WrittenOfCycle, DataLengths DEF IInv
<1>7. ASSUME NEW m \in Movers, NEW p \in Ports
      PROVE  Len(StreamAddrs(m, p)') + 0 = WordsWritten' + V
  <2>1. PICK L \in Nat : L = Len(StreamAddrs(m, p)) /\ Len(StreamAddrs(m, p)') = L + V
    BY StreamEnds, StreamsOfCycle
  <2>2. L = WordsWritten
    <3>1. CASE started = 0
      <4>1. L = 0 /\ consumed = <<>>
        BY <2>1, <3>1, StreamEnds DEF StreamInv
      <4> QED
        BY <4>1, StartTakesNothing DEF WordsWritten
    <3>2. CASE started > 0
      <4>1. PICK x, U : x = plan[started].loopBounds /\ U = Volume(x, LoopDim)
        OBVIOUS
      <4>2. PICK k \in 0..U : AtIteration(k, x, U)
        BY <3>2, <4>1 DEF StreamInv
      <4>3. U \in Nat
        BY <3>2, <4>1, StreamEnds
      <4>4. ~(k < U) /\ L + k = WordsWritten + U
        BY <2>1, <4>2, StartTakesNothing, MoverNames DEF AtIteration
      <4>5. k = U
        BY <4>2, <4>3, <4>4
      <4> QED
        BY <1>6, <2>1, <4>3, <4>4, <4>5
    <3> QED
      BY <3>1, <3>2 DEF CoreInv
  <2> QED
    BY <1>3, <1>6, <2>1, <2>2
<1>8. 0 \in 0..V /\ 0 < V
  BY <1>3
<1>9. AtIteration(0, b, V)'
  BY <1>4, <1>5, <1>7, <1>8 DEF AtIteration
<1> QED
  BY <1>8, <1>9

(* A cycle keeps the streams in order. *)
LEMMA StreamOfCycle ==
    ASSUME BaseInv, StreamInv, NEW granted \in Grants, NEW take \in Takes,
           Cycle(granted, take)
    PROVE  StreamInv'
<1>1. /\ started' = IF Start THEN started + 1 ELSE started
      /\ plan' = plan
  BY DEF Cycle, CoreStep, Start
<1>2. started \in Nat
  BY PlanOfJobs DEF BaseInv, CoreInv
<1>3. started' = 0 => ~agu'["writer"].busy /\ consumed' = <<>>
  <2> SUFFICES ASSUME started' = 0
               PROVE  ~agu'["writer"].busy /\ consumed' = <<>>
    OBVIOUS
  <2>1. ~Start /\ started = 0
    BY <1>1, <1>2
  <2>2. ~agu["writer"].busy /\ consumed = <<>>
    BY <2>1 DEF StreamInv
  <2>3. ~agu'["writer"].busy
    BY <2>1, <2>2, UnitGoesOn, MoverNames DEF BaseInv
  <2>4. ~take
    <3> SUFFICES ASSUME take
                 PROVE  FALSE
      OBVIOUS
    <3>1. Len(consumed) + 1 <= Len(StreamAddrs("reader", 0))
      BY <2>1, TakenWord, PortsExist
    <3>2. StreamAddrs("reader", 0) = <<>>
      BY <2>1, StreamEnds, MoverNames, PortsExist DEF BaseInv
    <3> QED
      BY <2>2, <3>1, <3>2
  <2>5. consumed' = consumed
    BY <2>4 DEF Cycle, AcceleratorStep
  <2> QED
    BY <2>2, <2>3, <2>5
<1>4. PICK b, V : b = plan[started'].loopBounds /\ V = Volume(b, LoopDim)
  OBVIOUS
<1>5. started' > 0 => \E k \in 0..V : AtIteration(k, b, V)'
  <2>1. CASE Start
    BY <1>4, <2>1, IterationStarts
  <2>2. CASE ~Start
    BY <1>1, <1>4, <2>2, IterationGoesOn
  <2> QED
    BY <2>1, <2>2
<1>6. started' > 0 =>
          (\E k \in 0..Volume(plan[started].loopBounds, LoopDim) :
              AtIteration(k, plan[started].loopBounds,
                          Volume(plan[started].loopBounds, LoopDim)))'
  BY <1>1, <1>4, <1>5
<1>7. \A p \in Ports : /\ GivenOf(p, StreamAddrs("reader", p))'
                       /\ WroteTo(p, StreamAddrs("writer", p))'
  BY GivenGoesOn, WroteGoesOn
<1> QED
  BY <1>3, <1>6, <1>7 DEF StreamInv

(* Nothing is given or written before the first start. *)
LEMMA InitStream == Init => StreamInv
<1> SUFFICES ASSUME Init
             PROVE  StreamInv
  OBVIOUS
<1>1. started = 0 /\ consumed = <<>> /\ \A p \in Ports : written[p] = <<>>
  BY DEF Init
<1>2. ~agu["writer"].busy
  BY MoverNames DEF Init, AguInit
<1>3. 1..Len(<<>>) = {} /\ ~(0 > 0)
  OBVIOUS
<1> QED
  BY <1>1, <1>2, <1>3, Zenon DEF StreamInv, GivenOf, WroteTo

(* Every step keeps the streams in order. *)
LEMMA NextStream == BaseInv /\ StreamInv /\ [Next]_vars => StreamInv'
<1> SUFFICES ASSUME BaseInv, StreamInv, [Next]_vars
             PROVE  StreamInv'
  OBVIOUS
<1>1. CASE Next
  BY <1>1, StreamOfCycle DEF Next
<1>2. CASE UNCHANGED vars
  <2>1. /\ agu' = agu /\ started' = started /\ consumed' = consumed
        /\ written' = written /\ plan' = plan /\ wfifo' = wfifo /\ acc' = acc
    BY <1>2 DEF vars, units, core
  <2>2. \A m, p : StreamAddrs(m, p)' = StreamAddrs(m, p)
    BY <2>1 DEF StreamAddrs
  <2>3. WordsWritten' = WordsWritten
    BY <2>1 DEF WordsWritten
  <2>4. \A k, b, V : AtIteration(k, b, V) => AtIteration(k, b, V)'
    BY <2>1, <2>2, <2>3 DEF AtIteration
  <2>5. started > 0 => started' > 0 /\
          (\E k \in 0..Volume(plan[started].loopBounds, LoopDim) :
              AtIteration(k, plan[started].loopBounds,
                          Volume(plan[started].loopBounds, LoopDim)))'
    BY <2>1, <2>4 DEF StreamInv
  <2>6. \A p \in Ports : /\ GivenOf(p, StreamAddrs("reader", p))'
                         /\ WroteTo(p, StreamAddrs("writer", p))'
    BY <2>1, <2>2 DEF StreamInv, GivenOf, WroteTo
  <2> QED
    BY <2>1, <2>5, <2>6 DEF StreamInv
<1> QED
  BY <1>1, <1>2

(* In every reachable state the writer is in the iteration of its job that *)
(* the number of written words says, and what was given and written so far *)
(* are the first addresses of the nested loops of the jobs.                *)
THEOREM StreamInvariance == Spec => [](BaseInv /\ StreamInv)
<1>1. Spec => []BaseInv
  BY Invariance, DataInvariance, CopyInvariance, ConfiguredAsStarted, PTL
  DEF BaseInv
<1>2. Spec => []StreamInv
  BY <1>1, InitStream, NextStream, PTL DEF Spec
<1> QED
  BY <1>1, <1>2, PTL

(* The accelerator is given the words at the addresses of the nested loops *)
(* of all jobs, each once and in order, for every number of loops, ports   *)
(* and jobs and every depth of the FIFOs, whatever the delays.             *)
THEOREM ReadsAreInOrder == Spec => []ReadsInOrder
<1>1. BaseInv /\ StreamInv => ReadsInOrder
  <2> SUFFICES ASSUME BaseInv, StreamInv, NEW p \in Ports
               PROVE  IsPrefix([k \in 1..Len(consumed) |-> consumed[k][p]],
                               StreamAddrs("reader", p))
    BY DEF ReadsInOrder
  <2>1. PICK s, t : /\ s = [k \in 1..Len(consumed) |-> consumed[k][p]]
                    /\ t = StreamAddrs("reader", p)
    OBVIOUS
  <2>2. t \in Seq(Int) /\ Len(t) \in Nat
    BY <2>1, StreamEnds, MoverNames DEF BaseInv
  <2>3. PICK n \in Nat : n = Len(consumed)
    BY DataLengths DEF BaseInv, IInv
  <2>4. \A k \in 1..n : k <= Len(t) /\ consumed[k][p] = t[k]
    BY <2>1, <2>3 DEF StreamInv, GivenOf
  <2>5. n <= Len(t)
    <3>1. n = 0 \/ n \in 1..n
      BY <2>3
    <3> QED
      BY <2>2, <2>4, <3>1
  <2>6. s = [k \in 1..n |-> t[k]]
    BY <2>1, <2>3, <2>4
  <2>7. s \in Seq(Int) /\ Len(s) = n
    <3>1. \A k \in 1..n : t[k] \in Int
      BY <2>2, <2>4
    <3> QED
      BY <2>3, <2>6, <3>1
  <2>8. SubSeq(s, 1, n) = s
    BY <2>3, <2>7
  <2>9. SubSeq(t, 1, n) = [k \in 1..n |-> t[k]]
    BY <2>2, <2>3, <2>5
  <2> QED
    BY <2>1, <2>5, <2>6, <2>7, <2>8, <2>9 DEF IsPrefix
<1> QED
  BY <1>1, StreamInvariance, PTL

(* The k-th word of the stream that the reader's loops give is written to  *)
(* the k-th address that the writer's loops give, once at every port.      *)
THEOREM WritesAreInOrder == Spec => []WritesInOrder
<1>1. BaseInv /\ StreamInv => WritesInOrder
  <2> SUFFICES ASSUME BaseInv, StreamInv, NEW p \in Ports,
                      NEW k \in 1..Len(written[p])
               PROVE  /\ k <= Len(StreamAddrs("writer", p))
                      /\ written[p][k] = <<StreamAddrs("writer", p)[k],
                                           StreamAddrs("reader", p)[k]>>
    BY DEF WritesInOrder
  <2>1. /\ k <= Len(StreamAddrs("writer", p))
        /\ written[p][k] = <<StreamAddrs("writer", p)[k], written[p][k][2]>>
    BY DEF StreamInv, WroteTo
  <2>2. k <= Len(consumed) /\ written[p][k][2] = consumed[k][p]
    BY DataOfPort DEF BaseInv, IInv, WritesCarryConsumed
  <2>3. k \in 1..Len(consumed)
    <3>1. Len(written[p]) \in Nat /\ Len(consumed) \in Nat
      BY DataLengths, SeqLen DEF BaseInv, IInv
    <3> QED
      BY <2>2, <3>1
  <2>4. consumed[k][p] = StreamAddrs("reader", p)[k]
    BY <2>3 DEF StreamInv, GivenOf
  <2> QED
    BY <2>1, <2>2, <2>4
<1> QED
  BY <1>1, StreamInvariance, PTL

(* An idle streamer has written the results of all jobs that were started, *)
(* all of them, and holds no word.                                         *)
THEOREM IdleIsWritten == Spec => []IdleMeansWritten
<1>1. BaseInv /\ StreamInv => IdleMeansWritten
  <2> SUFFICES ASSUME BaseInv, StreamInv, ~busy
               PROVE  IdleMeansWritten
    BY DEF IdleMeansWritten
  <2>1. /\ rfifo = <<>> /\ acc = <<>> /\ wfifo = <<>>
    BY NothingLeft DEF BaseInv
  <2>2. /\ ~agu["writer"].busy
        /\ \A p \in Ports : ~Reg("writer", p)
    BY MoverNames DEF BaseInv, IInv, ControlInv, UnitsTogether
  <2>3. /\ WordsWritten = Len(consumed) /\ Len(consumed) \in Nat
        /\ \A p \in Ports : Len(written[p]) = WordsWritten
    <3>1. Len(<<>>) = 0
      OBVIOUS
    <3> QED
      BY <2>1, <2>2, <3>1, DataLengths DEF BaseInv, IInv, One
  <2>4. ASSUME NEW m \in Movers, NEW p \in Ports
        PROVE  Len(StreamAddrs(m, p)) = Len(consumed)
    <3>1. Len(StreamAddrs(m, p)) \in Nat
      BY StreamEnds DEF BaseInv
    <3>2. CASE started = 0
      BY <3>2, StreamEnds DEF BaseInv, StreamInv
    <3>3. CASE started > 0
      <4>1. PICK b, V : b = plan[started].loopBounds /\ V = Volume(b, LoopDim)
        OBVIOUS
      <4>2. PICK k \in 0..V : AtIteration(k, b, V)
        BY <3>3, <4>1 DEF StreamInv
      <4>3. V \in Nat
        BY <3>3, <4>1, StreamEnds DEF BaseInv
      <4>4. ~(k < V) /\ Len(StreamAddrs(m, p)) + k = WordsWritten + V
        BY <2>2, <4>2 DEF AtIteration
      <4>5. k = V
        BY <4>2, <4>3, <4>4
      <4> QED
        BY <2>3, <3>1, <4>3, <4>4, <4>5
    <3>4. started = 0 \/ started > 0
      BY DEF BaseInv, CoreInv
    <3> QED
      BY <3>2, <3>3, <3>4
  <2> QED
    BY <2>1, <2>3, <2>4, MoverNames, PortsExist DEF IdleMeansWritten
<1> QED
  BY <1>1, StreamInvariance, PTL
=============================================================================
