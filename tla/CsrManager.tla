----------------------------- MODULE CsrManager -----------------------------
(***************************************************************************)
(* The CSR manager between a Snitch core and a SNAX streamer               *)
(* (hw/chisel/.../csr_manager/CsrManager.scala) as a synchronous circuit:  *)
(* its registers are the record m, its wires operators of m and of the     *)
(* request presented in this cycle.                                        *)
(***************************************************************************)
EXTENDS Naturals

CONSTANTS
    NumReadWrite,   \* csrNumReadWrite: CSRs 0 .. NumReadWrite - 1
    NumReadOnly     \* csrNumReadOnly: the CSRs after them

ASSUME CsrAssumption == NumReadWrite \in Nat \ {0} /\ NumReadOnly \in Nat

NoRequest == [valid |-> FALSE, write |-> FALSE, addr |-> 0, data |-> 0]
Write(a, d) == [valid |-> TRUE, write |-> TRUE, addr |-> a, data |-> d]
Read(a) == [valid |-> TRUE, write |-> FALSE, addr |-> a, data |-> 0]

(* The last read-write CSR starts the streamer (1) or waits for it (0). *)
StartCsr == NumReadWrite - 1

CsrInit ==
    [csr |-> [a \in 0..(NumReadWrite - 1) |-> 0],
     read_csr_busy |-> FALSE,
     read_csr_buffer |-> 0]

StartRequest(req) == req.valid /\ req.write /\ req.addr = StartCsr /\ req.data = 1
CheckRequest(req) == req.valid /\ req.write /\ req.addr = StartCsr /\ req.data = 0

(* Mutant: a start is accepted while the streamer is busy. *)
ReqReadyAlways(m, req, config_ready) == ~m.read_csr_busy

(* io.csr_config_in.req.ready *)
ReqReady(m, req, config_ready) ==
    /\ ~m.read_csr_busy
    /\ StartRequest(req) \/ CheckRequest(req) => config_ready

ReqFire(m, req, config_ready) == req.valid /\ ReqReady(m, req, config_ready)

(* io.csr_config_out.valid; its bits are the CSRs. *)
ConfigValid(m, req, config_ready) ==
    ReqFire(m, req, config_ready) /\ StartRequest(req)

(* io.csr_config_in.rsp *)
ReadCsr(m, req, config_ready) == ReqFire(m, req, config_ready) /\ ~req.write

RspValid(m, req, config_ready) ==
    ReadCsr(m, req, config_ready) \/ m.read_csr_busy

RspData(m, req, config_ready, read_only) ==
    CASE ReadCsr(m, req, config_ready) /\ req.addr < NumReadWrite -> m.csr[req.addr]
      [] ReadCsr(m, req, config_ready) /\ req.addr >= NumReadWrite ->
            read_only[req.addr - NumReadWrite]
      [] OTHER -> IF m.read_csr_busy THEN m.read_csr_buffer ELSE 0

(* One clock cycle. *)
CsrNext(m, req, config_ready, read_only, rsp_ready) ==
    [csr |-> IF ReqFire(m, req, config_ready) /\ req.write
             THEN [m.csr EXCEPT ![req.addr] = req.data] ELSE m.csr,
     read_csr_busy |-> RspValid(m, req, config_ready) /\ ~rsp_ready,
     read_csr_buffer |-> RspData(m, req, config_ready, read_only)]
=============================================================================
