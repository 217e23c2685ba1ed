----------------------------- MODULE StreamMover -----------------------------
(***************************************************************************)
(* The data movers of the SNAX streamer (hw/chisel/.../streamer:           *)
(* DataMover.scala, DataReader.scala, DataWriter.scala and FIFO.scala) as  *)
(* synchronous circuits.  A mover takes pointers from its address          *)
(* generation unit, sends one TCDM request per port for each of them and   *)
(* passes words to, or takes them from, a FIFO.  A word is a function from *)
(* ports to data; the responses rsp of a cycle are one from the ports that *)
(* have a response.                                                        *)
(***************************************************************************)
EXTENDS Naturals, Sequences

CONSTANTS
    TcdmPortsNum,   \* TCDM ports of a mover
    FifoDepth,      \* depth of its FIFO
    None            \* model value

ASSUME MoverAssumption == TcdmPortsNum \in Nat \ {0} /\ FifoDepth \in Nat \ {0}

Ports == 0..(TcdmPortsNum - 1)

MoverInit ==
    [busy |-> FALSE,
     spatialStrides |-> <<0>>,
     req_ready_reg |-> [p \in Ports |-> FALSE]]

(* tcdm_req_ready: every port is granted now or was before. *)
TcdmReqReady(m, granted) == \A p \in Ports : p \in granted \/ m.req_ready_reg[p]

(* io.ptr_agu_i.ready of the base class, which the writer keeps. *)
WriterPtrReady(m, granted) == m.busy /\ TcdmReqReady(m, granted)

ReadyRegNext(m, ptr_valid, ptr_ready, granted) ==
    [p \in Ports |->
        /\ ~(ptr_valid /\ ptr_ready)
        /\ p \in granted \/ (ptr_valid /\ m.req_ready_reg[p])]

(* One clock cycle of the base class. *)
MoverNext(m, config_valid, strides, ptr_valid, ptr_ready, done, granted) ==
    [busy |-> IF m.busy THEN ~done ELSE config_valid,
     spatialStrides |-> IF config_valid /\ ~m.busy THEN strides ELSE m.spatialStrides,
     req_ready_reg |-> ReadyRegNext(m, ptr_valid, ptr_ready, granted)]

(* Mutant: the grants of this cycle are left out. *)
DataMovementDoneLate(m, done, granted) == done /\ \A p \in Ports : m.req_ready_reg[p]

DataMovementDone(m, done, granted) == done /\ TcdmReqReady(m, granted)

-----------------------------------------------------------------------------
(* DataWriter: a request needs a word of the FIFO. *)
WriterReqValid(m, ptr_valid, fifo_valid, p) ==
    ptr_valid /\ ~m.req_ready_reg[p] /\ fifo_valid

-----------------------------------------------------------------------------
(* DataReader: responses are collected until there is one for every port.  *)

RspInit == [valid_reg |-> [p \in Ports |-> FALSE], data_buffer |-> [p \in Ports |-> None]]

(* tcdm_rsp_valid, which is io.data_fifo_o.valid *)
TcdmRspValid(b, rsp) == \A p \in Ports : p \in DOMAIN rsp \/ b.valid_reg[p]

DataFifoInput(b, rsp) ==
    [p \in Ports |-> IF b.valid_reg[p] THEN b.data_buffer[p] ELSE rsp[p]]

RspNext(b, rsp, fifo_ready) ==
    [valid_reg |-> [p \in Ports |->
        /\ ~(TcdmRspValid(b, rsp) /\ fifo_ready)
        /\ p \in DOMAIN rsp \/ b.valid_reg[p]],
     data_buffer |-> [p \in Ports |->
        IF p \in DOMAIN rsp THEN rsp[p] ELSE b.data_buffer[p]]]

(* Mutant: a request is sent although the buffer is full and stays so. *)
ReaderReqValidUnchecked(m, ptr_valid, b, rsp, fifo_ready, p) ==
    ptr_valid /\ ~m.req_ready_reg[p]

(* Mutant: without the exception for an empty buffer. *)
ReaderReqValidNoException(m, ptr_valid, b, rsp, fifo_ready, p) ==
    ptr_valid /\ ~m.req_ready_reg[p] /\ fifo_ready

ReaderReqValid(m, ptr_valid, b, rsp, fifo_ready, p) ==
    /\ ptr_valid /\ ~m.req_ready_reg[p]
    /\ fifo_ready \/ ~TcdmRspValid(b, rsp)

ReaderPtrReady(m, granted, fifo_ready) ==
    m.busy /\ TcdmReqReady(m, granted) /\ fifo_ready

-----------------------------------------------------------------------------
(* FIFO: a queue whose input is visible at its output when it is empty. *)

(* Mutant: the queue takes one word too many. *)
FifoReadyOffByOne(fifo) == Len(fifo) <= FifoDepth

FifoReady(fifo) == Len(fifo) < FifoDepth

FifoWith(fifo, in_valid, word) ==
    IF in_valid /\ FifoReady(fifo) THEN Append(fifo, word) ELSE fifo

FifoValid(fifo, in_valid) == fifo # <<>> \/ in_valid

FifoOut(fifo, word) == IF fifo # <<>> THEN Head(fifo) ELSE word

FifoNext(fifo, in_valid, word, out_ready) ==
    LET f == FifoWith(fifo, in_valid, word)
    IN  IF out_ready /\ f # <<>> THEN Tail(f) ELSE f
=============================================================================
