------------------------------- MODULE MCDebug --------------------------------
(***************************************************************************)
(* A bench for the debug path.  Init picks the part whose clock runs, the  *)
(* rest keeps its reset state:                                             *)
(*   "mask"     the interrupt half of rtl/icb2debug_bus.sv, DbgIrqMask;    *)
(*   "request"  its transaction half, Icb2DebugBus, on any DMI;            *)
(*   "fast"     DebugTransport with a DM that answers in one cycle and     *)
(*              software that may reset its DTM at any time;               *)
(*   "slow"     DebugTransport with a DM that takes its time and software  *)
(*              that does not.                                             *)
(* The two halves share only the bus and the reset by a write of the       *)
(* control register.                                                       *)
(***************************************************************************)
EXTENDS DbgIrqMask

CONSTANTS
  Data, Ops, Addrs, ZeroData, NOP, ZeroAddr, None, Faults, SPACED, CTRL_WRITES,
  SLOW_DM, JtagReq, ONE_AT_A_TIME,
  d0, nop, rd, a0, a1

\* The debugger asks for one word; software has four to choose from, and one of them
\* fails in the DM.
OneJtagReq == {[data |-> d0, op |-> rd, addr |-> a1]}
OneFault   == {[data |-> d0, op |-> rd, addr |-> a0]}

VARIABLES
  part,
  reg_dbus_req_dword, reg_dbus_req_others, reg_dbus_rsp_dword, reg_dbus_rsp_others,
  dbus_op_start, we_dbus_req_others_d, dbus_req_op, dbus_rsp_stat_sticky, dbus_fsm_act,
  dbus_cmd, asked, refused,
  any_req_ready, any_resp_valid, any_resp_bits,   \* the DMI of the part "request"
  dm_req_bits, dm_req_vld, req_rdy, dtm_rsp_bits, dm_rsp_rdy, rsp_vld, dtm_src_last,
  trans_fsm_q, dm_phase, dm_cur, jtag_phase, jtag_req

dbusVars ==
  <<reg_dbus_req_dword, reg_dbus_req_others, reg_dbus_rsp_dword, reg_dbus_rsp_others,
    dbus_op_start, we_dbus_req_others_d, dbus_req_op, dbus_rsp_stat_sticky, dbus_fsm_act,
    dbus_cmd, asked, refused>>
anyVars == <<any_req_ready, any_resp_valid, any_resp_bits>>
pathVars ==
  <<dm_req_bits, dm_req_vld, req_rdy, dtm_rsp_bits, dm_rsp_rdy, rsp_vld, dtm_src_last,
    trans_fsm_q, dm_phase, dm_cur, jtag_phase, jtag_req>>
benchVars == <<part, vars, dbusVars, anyVars, pathVars>>

Alone == INSTANCE Icb2DebugBus WITH cmd <- dbus_cmd,
  dtm_req_ready <- any_req_ready, dtm_resp_valid <- any_resp_valid,
  dtm_resp_bits <- any_resp_bits
Fast == INSTANCE DebugTransport WITH cmd <- dbus_cmd
Slow == INSTANCE DebugTransport WITH cmd <- dbus_cmd, SLOW_DM <- TRUE, CTRL_WRITES <- FALSE

\* The bus-side DTM on the DMI of the part that runs.
Dtm == INSTANCE Icb2DebugBus WITH cmd <- dbus_cmd,
  dtm_req_ready  <- IF part = "request" THEN any_req_ready ELSE 1 \in req_rdy,
  dtm_resp_valid <- IF part = "request" THEN any_resp_valid ELSE 1 \in rsp_vld,
  dtm_resp_bits  <- IF part = "request" THEN any_resp_bits ELSE dtm_rsp_bits

ASSUME BenchAssumption == Alone!BusAssumption /\ Fast!TransportAssumption

BenchInit ==
  /\ part \in {"mask", "request", "fast", "slow"}
  /\ Init /\ (part # "mask" => cmd = [do |-> "none"] /\ dm_dbg_irq = {})
  /\ Fast!Init
  /\ Alone!WiresInit
  /\ part # "request" => ~any_req_ready /\ ~any_resp_valid /\ any_resp_bits = None

transport == part \in {"fast", "slow"}
On(p, A) == part = p /\ A /\ UNCHANGED part

SlowStep == On("slow", Slow!Next /\ UNCHANGED <<vars, anyVars>>)
BenchNext ==
  \/ On("mask", Next /\ UNCHANGED <<dbusVars, anyVars, pathVars>>)
  \/ On("request", Alone!Next /\ UNCHANGED <<vars, pathVars>>)
  \/ On("fast", Fast!Next /\ UNCHANGED <<vars, anyVars>>)
  \/ SlowStep

\* In the slow setting, the fairness of DebugTransport.
BenchSpec ==
  /\ BenchInit /\ [][BenchNext]_benchVars
  /\ WF_benchVars(SlowStep) /\ WF_benchVars(SlowStep /\ (Slow!Arb!DmRecover \/ Slow!Arb!DmFinish))

--------------------------------------------------------------------------------
\* The request that goes out is the one software wrote, in all three fields,
\* whatever it writes meanwhile, and it stays until it is taken or the DTM is
\* reset (icb2debug_bus.sv lines 369-440).
RequestUntorn == Dtm!RequestUntorn

\* A write refused while a request runs is told with the answer (line 367).
RefusalReported == Dtm!RefusalReported

\* A status read that shows the DTM not busy means the response registers hold the
\* answer to the request started last (icb2debug_bus.sv lines 119-123).
PollSound == transport => Fast!PollSound

\* Each DTM gets the answer to its own request, and only when it waits for one
\* (dmi_arbiter.sv lines 185-239).
OwnAnswers == transport => Fast!OwnAnswers

\* "data handshake complets when both valid and ready are asserted"
\* (dmi_arbiter.sv lines 31-32): a DTM that sees ready has handed its request over.
HandshakeCompletes == transport => Fast!HandshakeCompletes

\* Used one at a time, no DTM loses a request at its handshake, and neither waits
\* for ever, however long the DM takes (dmi_arbiter.sv lines 325-356).
EachAnswered ==
  /\ [][HandshakeCompletes']_benchVars
  /\ part = "slow" => Slow!NobodyWaits
================================================================================
