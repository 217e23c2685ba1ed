------------------------------ MODULE Streamer ------------------------------
(***************************************************************************)
(* The SNAX streamer (hw/chisel/.../streamer: StreamerTop.scala and        *)
(* Streamer.scala) with one reader and one writer, shared loop bounds and  *)
(* no stationarity: the CSR manager a core programs it through, an address *)
(* generation unit, a data mover and a FIFO per direction, and the state   *)
(* machine that starts them together.                                      *)
(*                                                                         *)
(* A step is a clock cycle.  Its inputs are free: which TCDM requests are  *)
(* granted, whether the accelerator takes and offers a word, what the core *)
(* requests and whether it takes a response.  External are the core, the   *)
(* accelerator (it hands on every word it takes) and the TCDM (a read is   *)
(* answered in the cycle after its grant; the datum at an address is the   *)
(* address).                                                               *)
(***************************************************************************)
EXTENDS AddrGen, CsrManager, StreamMover, SequencesExt

CONSTANTS
    Plans,          \* the sequences of jobs the core may run (model bound)
    AccDepth,       \* words inside the accelerator
    CounterWidth    \* bits of the performance counter

Movers == {"reader", "writer"}

ASSUME StreamerAssumption ==
    /\ AccDepth \in Nat \ {0} /\ CounterWidth \in Nat \ {0}
    /\ NumReadWrite = 3 * LoopDim + 5 /\ NumReadOnly = 1
    /\ \A jobs \in Plans : DOMAIN jobs = 1..Len(jobs) /\ Len(jobs) \in Nat
    /\ \A jobs \in Plans : \A n \in DOMAIN jobs : LET j == jobs[n] IN
        /\ j.loopBounds \in [Dims -> 1..(2^LoopBoundWidth - 1)]
        /\ j.strides \in [Movers -> [Dims -> Nat]]
        /\ j.spatialStrides \in [Movers -> Nat]
        /\ j.ptr \in [Movers -> Nat]

VARIABLES
    csrm,               \* the CSR manager
    busy, was_busy,     \* cstate = sBUSY, and in the cycle before
    datamover_states,   \* the movers that still work
    agu,                \* the address generation unit of each mover
    mover,              \* the data movers
    rspbuf,             \* the reader's response registers
    rfifo, wfifo,       \* the FIFOs
    performance_counter,
    req,                \* the core's CSR request
    plan,               \* the jobs the core is going to start
    rsp,                \* the TCDM's responses in this cycle
    acc, offer,         \* words in the accelerator; it offers the first
    started,            \* history: number of jobs started
    consumed,           \* history: the words given to the accelerator
    written,            \* history: the writes of each port, <<address, datum>>
    held                \* history: requests not granted in the cycle before

core == <<req, plan>>
units == <<csrm, busy, was_busy, datamover_states, agu, mover, rspbuf, rfifo, wfifo,
           performance_counter>>
vars == <<units, core, rsp, acc, offer, started, consumed, written, held>>

(* The CSRs of a job: bounds, strides of the reader and of the writer,     *)
(* spatial strides, pointers.                                              *)
MoverIndex(m) == IF m = "reader" THEN 0 ELSE 1
BoundCsr(i) == i - 1
StrideCsr(m, i) == LoopDim + MoverIndex(m) * LoopDim + i - 1
SpatialStrideCsr(m) == 3 * LoopDim + MoverIndex(m)
PtrCsr(m) == 3 * LoopDim + 2 + MoverIndex(m)

(* The configuration of a mover as StreamerTop splits the CSRs. *)
Config(csr, m) ==
    [loopBounds |-> [i \in Dims |-> csr[BoundCsr(i)] % 2^LoopBoundWidth],
     strides |-> [i \in Dims |-> csr[StrideCsr(m, i)]],
     ptr |-> csr[PtrCsr(m)]]

Init ==
    /\ csrm = CsrInit
    /\ busy = FALSE /\ was_busy = FALSE
    /\ datamover_states = [m \in Movers |-> FALSE]
    /\ agu = [m \in Movers |-> AguInit]
    /\ mover = [m \in Movers |-> MoverInit]
    /\ rspbuf = RspInit
    /\ rfifo = <<>> /\ wfifo = <<>>
    /\ performance_counter = 0
    /\ req = NoRequest
    /\ plan \in Plans
    /\ rsp = <<>>
    /\ acc = <<>> /\ offer = FALSE
    /\ started = 0 /\ consumed = <<>>
    /\ written = [p \in Ports |-> <<>>]
    /\ held = {}

-----------------------------------------------------------------------------
(* Wires of this cycle. *)

(* io.tcdm_req: the ports with a valid request, and its address. *)
Requests(m) ==
    {p \in Ports :
        IF m = "reader"
        THEN ReaderReqValid(mover[m], PtrValid(agu[m]), rspbuf, rsp, FifoReady(rfifo), p)
        ELSE WriterReqValid(mover[m], PtrValid(agu[m]), FifoValid(wfifo, offer), p)}

Address(m, p) ==
    SpatialAddr(<<TcdmPortsNum>>, mover[m].spatialStrides, PtrOut(agu[m]), p)

(* The word the accelerator offers, and the word a write request carries. *)
OfferedWord == IF offer THEN Head(acc) ELSE None

WriteWord == FifoOut(wfifo, OfferedWord)

(* Everything a request carries, for both movers. *)
RequestWires ==
    UNION {{<<m, p, Address(m, p), IF m = "writer" THEN WriteWord[p] ELSE None>> :
               p \in Requests(m)} : m \in Movers}

PtrReady(m, granted) ==
    IF m = "reader" THEN ReaderPtrReady(mover[m], granted, FifoReady(rfifo))
                    ELSE WriterPtrReady(mover[m], granted)

(* Mutant: the streamer is finished when one mover is. *)
StreamingFinishAny == \E m \in Movers : ~datamover_states[m]

StreamingFinish == \A m \in Movers : ~datamover_states[m]

-----------------------------------------------------------------------------
(* The streamer after this cycle. *)
StreamerStep(granted, take) ==
    LET config_valid == ConfigValid(csrm, req, ~busy)
        ready == [m \in Movers |-> PtrReady(m, granted[m])]
        done == [m \in Movers |-> AddrGenDone(agu[m], ready[m])]
    IN  /\ busy' = IF busy THEN ~StreamingFinish ELSE config_valid
        /\ datamover_states' = [m \in Movers |->
              IF config_valid /\ ~busy THEN TRUE
              ELSE /\ datamover_states[m]
                   /\ ~DataMovementDone(mover[m], done[m], granted[m])]
        /\ agu' = [m \in Movers |->
              AguNext(agu[m], config_valid, Config(csrm.csr, m), ready[m])]
        /\ mover' = [m \in Movers |->
              MoverNext(mover[m], config_valid, <<csrm.csr[SpatialStrideCsr(m)]>>,
                        PtrValid(agu[m]), ready[m], done[m], granted[m])]
        /\ rspbuf' = RspNext(rspbuf, rsp, FifoReady(rfifo))
        /\ rfifo' = FifoNext(rfifo, TcdmRspValid(rspbuf, rsp),
                             DataFifoInput(rspbuf, rsp), take)
        /\ wfifo' = FifoNext(wfifo, offer, OfferedWord, ready["writer"])

(* StreamerTop: the performance counter counts busy cycles and is reset in *)
(* the first idle one.                                                     *)
CounterStep ==
    /\ was_busy' = busy
    /\ performance_counter' =
          CASE busy              -> (performance_counter + 1) % 2^CounterWidth
            [] ~busy /\ was_busy -> 0
            [] OTHER             -> performance_counter

(* External: the TCDM answers the granted reads and does the writes. *)
TcdmStep(granted) ==
    /\ rsp' = [p \in granted["reader"] |-> Address("reader", p)]
    /\ written' = [p \in Ports |->
          IF p \in granted["writer"]
          THEN Append(written[p], <<Address("writer", p), WriteWord[p]>>)
          ELSE written[p]]
    /\ held' = {w \in RequestWires : w[2] \notin granted[w[1]]}

(* External: the accelerator takes a word if the reader's FIFO has one and *)
(* it has room, and gives up the word it offers when the writer's FIFO     *)
(* accepts it.  A word that is offered stays offered.                      *)
AcceleratorStep(take) ==
    LET word == FifoOut(rfifo, DataFifoInput(rspbuf, rsp))
        given == offer /\ FifoReady(wfifo)
        kept == IF given THEN Tail(acc) ELSE acc
    IN  /\ acc' = IF take THEN Append(kept, word) ELSE kept
        /\ consumed' = IF take THEN Append(consumed, word) ELSE consumed
        /\ offer' \in {o \in BOOLEAN : (offer /\ ~given => o) /\ (o => acc' # <<>>)}

(* External: the core writes the CSRs of its next job that differ and      *)
(* starts it; when it has no more jobs it reads the performance counter.   *)
(* At any time it may ask for the end of the job that runs (it writes 0).  *)
JobCsr(j, a) ==
    CASE \E i \in Dims : a = BoundCsr(i) -> j.loopBounds[a + 1]
      [] \E m \in Movers, i \in Dims : a = StrideCsr(m, i) ->
            LET x == CHOOSE x \in Movers \X Dims : a = StrideCsr(x[1], x[2])
            IN  j.strides[x[1]][x[2]]
      [] \E m \in Movers : a = SpatialStrideCsr(m) ->
            j.spatialStrides[CHOOSE m \in Movers : a = SpatialStrideCsr(m)]
      [] OTHER -> j.ptr[CHOOSE m \in Movers : a = PtrCsr(m)]

NextWrite(csr, j) ==
    LET differ == {a \in 0..(StartCsr - 1) : csr[a] # JobCsr(j, a)}
    IN  IF differ = {} THEN Write(StartCsr, 1)
        ELSE Write(Min(differ), JobCsr(j, Min(differ)))

CoreRequests(csr, n) ==
    {NoRequest, IF n < Len(plan) THEN NextWrite(csr, plan[n + 1])
                               ELSE Read(NumReadWrite)}
        \cup (IF n > 0 THEN {Write(StartCsr, 0)} ELSE {})

CoreStep ==
    /\ \E rsp_ready \in {TRUE, ~RspValid(csrm, req, ~busy)} :
          csrm' = CsrNext(csrm, req, ~busy, [a \in {0} |-> performance_counter], rsp_ready)
    /\ started' = IF ConfigValid(csrm, req, ~busy) THEN started + 1 ELSE started
    /\ req' \in IF req.valid /\ ~ReqFire(csrm, req, ~busy)
               THEN {req} ELSE CoreRequests(csrm'.csr, started')
    /\ UNCHANGED plan

(* One clock cycle. *)
Cycle(granted, take) ==
    /\ StreamerStep(granted, take)
    /\ TcdmStep(granted)
    /\ CounterStep
    /\ AcceleratorStep(take)
    /\ CoreStep

Grants == {g \in [Movers -> SUBSET Ports] : \A m \in Movers : g[m] \subseteq Requests(m)}

(* The accelerator is ready for the word at the output of the FIFO. *)
Takes == {t \in BOOLEAN : t => /\ FifoValid(rfifo, TcdmRspValid(rspbuf, rsp))
                              /\ Len(acc) < AccDepth}

Next == \E granted \in Grants, take \in Takes : Cycle(granted, take)

(* The environment does not stop: the clock runs (a busy streamer's        *)
(* counter goes on and comes round), the TCDM does not refuse a request    *)
(* for ever, the accelerator goes on taking and offering words.            *)
ClockRuns ==
    /\ []<>(busy => performance_counter = 0)
    /\ []<>(busy => performance_counter = 1)

TcdmGrants ==
    \A m \in Movers, p \in Ports : []<>(\A w \in held : <<w[1], w[2]>> # <<m, p>>)

AcceleratorRuns ==
    /\ []<>(rfifo # <<>> => Len(acc) = AccDepth)
    /\ []<>(acc # <<>> => offer)

Fairness == ClockRuns /\ TcdmGrants /\ AcceleratorRuns

Spec == Init /\ [][Next]_vars /\ Fairness

-----------------------------------------------------------------------------
Word == [Ports -> 0..(2^AddrWidth - 1)]

TypeOK ==
    /\ csrm.csr \in [0..(NumReadWrite - 1) -> Nat]
    /\ agu \in [Movers -> [busy : BOOLEAN, loopBounds : [Dims -> Nat],
                           strides : [Dims -> Nat], ptr : Nat,
                           loop_counters : [Dims -> 0..(2^LoopBoundWidth - 1)]]]
    /\ rfifo \in Seq(Word) /\ Len(rfifo) <= FifoDepth
    /\ wfifo \in Seq(Word) /\ Len(wfifo) <= FifoDepth
    /\ rsp \in UNION {[P -> 0..(2^AddrWidth - 1)] : P \in SUBSET Ports}

(* The addresses of a job as its nested loops give them, in order: those   *)
(* of mover m at port p.                                                   *)
JobConfig(j, m) == [loopBounds |-> j.loopBounds, strides |-> j.strides[m], ptr |-> j.ptr[m]]

JobAddrs(j, m, p) ==
    [k \in 1..Volume(j.loopBounds, LoopDim) |->
        (NestedLoopAddr(JobConfig(j, m), k - 1) + p * j.spatialStrides[m]) % 2^AddrWidth]

(* Those of all jobs that were started. *)
StreamAddrs(m, p) == FlattenSeq([n \in 1..started |-> JobAddrs(plan[n], m, p)])

(* The accelerator is given the words at the addresses of the nested       *)
(* loops, each word once and in order, whatever the delays of the TCDM at  *)
(* each port and of the accelerator: no response is overwritten, dropped   *)
(* or paired with a response to another pointer.                           *)
ReadsInOrder ==
    \A p \in Ports :
        IsPrefix([k \in 1..Len(consumed) |-> consumed[k][p]], StreamAddrs("reader", p))

(* The k-th word of the stream is written to the k-th address of the       *)
(* writer's loops, once at every port.                                     *)
WritesInOrder ==
    \A p \in Ports :
        LET from == StreamAddrs("reader", p)
            to == StreamAddrs("writer", p)
        IN  \A k \in 1..Len(written[p]) :
                k <= Len(to) /\ written[p][k] = <<to[k], from[k]>>

(* A core whose write of 0 to the start register is accepted, or that can  *)
(* start the next job, may rely on the end of the previous one: an idle    *)
(* streamer has written all results and left nothing in a FIFO.            *)
IdleMeansWritten ==
    ~busy => /\ \A p \in Ports : Len(written[p]) = Len(StreamAddrs("writer", p))
             /\ Len(consumed) = Len(StreamAddrs("reader", 0))
             /\ rfifo = <<>> /\ wfifo = <<>>

(* The streamer passes a start to units whose own ready it does not look   *)
(* at: when it is idle they are all idle, and no bit of the previous job   *)
(* is left in them.                                                        *)
UnitsIdleTogether ==
    ~busy => \A m \in Movers :
                /\ ~agu[m].busy /\ ~mover[m].busy
                /\ \A p \in Ports : ~mover[m].req_ready_reg[p] /\ ~rspbuf.valid_reg[p]

(* A TCDM request that is not granted stays, with the same address and     *)
(* datum: the reader, which stops requesting when its buffer fills, never  *)
(* withdraws one, and the datum of a write that comes straight through the *)
(* FIFO is still there in the next cycle (the interconnect asserts that it *)
(* is $stable, snitch_tcdm_interconnect.sv:117).                           *)
RequestsHeld == held \subseteq RequestWires

(* Every job ends. *)
JobsFinish == busy ~> ~busy
=============================================================================
