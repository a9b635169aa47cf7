------------------------------ MODULE Icb2DebugBus ------------------------------
(***************************************************************************)
(* rtl/icb2debug_bus.sv, the DTM that software drives over the ICB bus:    *)
(* its request, response, control and status registers and the FSM that    *)
(* runs one DMI transaction.  (The interrupt registers of the same file    *)
(* are in DbgIrqMask.)                                                     *)
(*                                                                         *)
(* A step is a rising edge of clk; cmd and the dtm_ inputs are the wires   *)
(* of the cycle that ends with it.  An ICB command takes one cycle: the    *)
(* coreplex ties icb_rsp_ready, hence icb_cmd_ready, high.  A response     *)
(* word is represented by the request it answers.                          *)
(***************************************************************************)
CONSTANTS
  Data, Ops, Addrs,   \* the three fields of a DMI request word
  ZeroData, NOP, ZeroAddr,
  None,
  Faults,             \* the words whose answer from the DM is a failure
  SPACED,             \* TRUE: the master waits for the response of a command,
                      \* registered one cycle later, before its next command
  CTRL_WRITES         \* TRUE: software writes the control register

BusAssumption ==
  /\ ZeroData \in Data /\ NOP \in Ops /\ ZeroAddr \in Addrs
  /\ None \notin [data : Data, op : Ops, addr : Addrs]
  /\ SPACED \in BOOLEAN /\ CTRL_WRITES \in BOOLEAN

VARIABLES
  reg_dbus_req_dword, reg_dbus_req_others,
  reg_dbus_rsp_dword, reg_dbus_rsp_others,
  dbus_op_start, we_dbus_req_others_d,
  dbus_req_op, dbus_rsp_stat_sticky, dbus_fsm_act,
  cmd,             \* input: the ICB command of this cycle
  dtm_req_ready, dtm_resp_valid, dtm_resp_bits,   \* inputs from the DMI
  asked,           \* auxiliary: the request software started last, None once
                   \* it has reset the DTM
  refused          \* auxiliary: a write was refused while that request ran

busFlops == <<reg_dbus_req_dword, reg_dbus_req_others, reg_dbus_rsp_dword,
              reg_dbus_rsp_others, dbus_op_start, we_dbus_req_others_d,
              dbus_req_op, dbus_rsp_stat_sticky, dbus_fsm_act>>
dmiWires == <<dtm_req_ready, dtm_resp_valid, dtm_resp_bits>>
aux      == <<asked, refused>>
busVars  == <<busFlops, cmd, dmiWires, aux>>

DmiReq  == [data : Data, op : Ops, addr : Addrs]
Answers == DmiReq \cup {None}

\* Reads have no side effect; the one that matters is of the status register.
Commands ==
  {[do |-> "none"], [do |-> "read"]}
  \cup [do : {"dword"}, data : Data]
  \cup [do : {"others"}, op : Ops, addr : Addrs]
  \cup (IF CTRL_WRITES THEN {[do |-> "ctrl"]} ELSE {})

--------------------------------------------------------------------------------
\* Write strobes and outputs

we_ctrl            == cmd.do = "ctrl"
we_dbus_req_dword  == cmd.do = "dword"
we_dbus_req_others == cmd.do = "others"
dtm_rst            == we_ctrl

\* Mutant: only the request phase counts as busy.
status_busy_RequestOnly == dbus_fsm_act = "REQ_BUSY"

status_busy   == dbus_fsm_act # "IDLE"
dtm_req_valid == dbus_fsm_act = "REQ_BUSY"

dtm_req_bits == [data |-> reg_dbus_req_dword,
                 op   |-> dbus_req_op,
                 addr |-> reg_dbus_req_others.addr]

\* Responses are drained in every state, also when nobody waits for one.
dtm_resp_ready == dtm_resp_valid

\* Mutant: an answer counts only in the cycle that takes the request.
dbus_op_done_AtOnce == dtm_resp_valid /\ dbus_fsm_act = "REQ_BUSY" /\ dtm_req_ready

dbus_op_done ==
  /\ dtm_resp_valid
  /\ \/ dbus_fsm_act = "REQ_BUSY" /\ dtm_req_ready
     \/ dbus_fsm_act = "RSP_BUSY"

\* The high bit is the refusal, the low bit the DM's own status.
dbus_rsp_stat ==
  IF dbus_rsp_stat_sticky
  THEN IF dtm_resp_bits \in Faults THEN "OP_RSP_BUSY" ELSE "OP_RSP_ERR"
  ELSE IF dtm_resp_bits \in Faults THEN "OP_RSP_RESERVED" ELSE "OP_RSP_OK"

--------------------------------------------------------------------------------
\* Processes

\* Mutant: the request registers can be written while a request runs.
p_req_regs_Unguarded ==
  /\ reg_dbus_req_others' =
       IF we_dbus_req_others THEN [op |-> cmd.op, addr |-> cmd.addr] ELSE reg_dbus_req_others
  /\ reg_dbus_req_dword' = IF we_dbus_req_dword THEN cmd.data ELSE reg_dbus_req_dword

p_req_regs ==
  /\ reg_dbus_req_others' =
       IF we_dbus_req_others /\ ~status_busy
       THEN [op |-> cmd.op, addr |-> cmd.addr] ELSE reg_dbus_req_others
  /\ reg_dbus_req_dword' =
       IF we_dbus_req_dword /\ ~status_busy THEN cmd.data ELSE reg_dbus_req_dword

p_resp_regs ==
  /\ reg_dbus_rsp_dword' = IF dbus_op_done THEN dtm_resp_bits ELSE reg_dbus_rsp_dword
  /\ reg_dbus_rsp_others' =
       IF dbus_op_done
       THEN [addr |-> reg_dbus_req_others.addr, stat |-> dbus_rsp_stat]
       ELSE reg_dbus_rsp_others

p_dbus_op_start ==
  /\ we_dbus_req_others_d' = we_dbus_req_others
  /\ dbus_op_start' = (we_dbus_req_others /\ ~we_dbus_req_others_d)

\* Mutant: an early write of the data register is not recorded.
p_dbus_stat_sticky_OthersOnly ==
  dbus_rsp_stat_sticky' =
    (~dtm_rst /\ (\/ dbus_rsp_stat_sticky
                  \/ we_dbus_req_others /\ status_busy))

p_dbus_stat_sticky ==
  dbus_rsp_stat_sticky' =
    (~dtm_rst /\ (\/ dbus_rsp_stat_sticky
                  \/ (we_dbus_req_dword \/ we_dbus_req_others) /\ status_busy))

p_dbus_req_op ==
  dbus_req_op' = IF dtm_rst THEN NOP
                 ELSE IF dbus_op_start /\ ~status_busy THEN reg_dbus_req_others.op
                 ELSE dbus_req_op

dbus_fsm_nxt ==
  IF dbus_fsm_act = "IDLE" THEN IF dbus_op_start THEN "REQ_BUSY" ELSE "IDLE"
  ELSE IF dbus_op_done THEN "IDLE"
  ELSE IF dbus_fsm_act = "REQ_BUSY" /\ ~dtm_req_ready THEN "REQ_BUSY"
  ELSE "RSP_BUSY"

p_dbus_fsm_act == dbus_fsm_act' = IF dtm_rst THEN "IDLE" ELSE dbus_fsm_nxt

--------------------------------------------------------------------------------
BusInit ==
  /\ reg_dbus_req_dword = ZeroData
  /\ reg_dbus_req_others = [op |-> NOP, addr |-> ZeroAddr]
  /\ reg_dbus_rsp_dword = None
  /\ reg_dbus_rsp_others = [addr |-> ZeroAddr, stat |-> "OP_RSP_OK"]
  /\ dbus_op_start = FALSE
  /\ we_dbus_req_others_d = FALSE
  /\ dbus_req_op = NOP
  /\ dbus_rsp_stat_sticky = FALSE
  /\ dbus_fsm_act = "IDLE"
  /\ asked = None
  /\ refused = FALSE
  /\ cmd = [do |-> "none"]

\* The auxiliary variables follow what software may believe it has started and
\* whether one of its writes came too early.
Asking ==
  /\ refused' = (~we_ctrl /\ (refused \/ we_dbus_req_dword \/ we_dbus_req_others)
                 /\ status_busy /\ ~dbus_op_done)
  /\ asked' = IF we_ctrl THEN None
              ELSE IF we_dbus_req_others /\ ~status_busy
              THEN [data |-> reg_dbus_req_dword, op |-> cmd.op, addr |-> cmd.addr]
              ELSE asked

BusClock ==
  /\ p_req_regs
  /\ p_resp_regs
  /\ p_dbus_op_start
  /\ p_dbus_stat_sticky
  /\ p_dbus_req_op
  /\ p_dbus_fsm_act
  /\ Asking

NextCommand ==
  cmd' \in IF SPACED /\ cmd.do # "none" THEN {[do |-> "none"]} ELSE Commands

\* The module alone, on a DMI that may do anything.
WiresInit ==
  /\ dtm_req_ready \in BOOLEAN
  /\ dtm_resp_valid \in BOOLEAN
  /\ dtm_resp_bits \in Answers

AnyDmi ==
  /\ dtm_req_ready' \in BOOLEAN
  /\ dtm_resp_valid' \in BOOLEAN
  /\ dtm_resp_bits' \in Answers

Init == BusInit /\ WiresInit

Next == BusClock /\ NextCommand /\ AnyDmi

Spec == Init /\ [][Next]_busVars

--------------------------------------------------------------------------------
\* A request on the wires is what was asked, and stays until it is taken.
ShownWhole ==
  dtm_req_valid =>
    /\ dtm_req_bits = asked
    /\ \/ dtm_req_ready \/ dtm_rst
       \/ dtm_req_valid' /\ dtm_req_bits' = dtm_req_bits

\* The operation is latched one cycle after the address and data registers are
\* written (p_dbus_req_op), yet the request that goes out is, in all three
\* fields, the one software wrote, whatever it writes meanwhile.  It stays, with
\* the same word, until it is taken or software resets the DTM.
RequestUntorn == [][ShownWhole]_busVars

RefusalTold ==
  (dbus_op_done /\ refused /\ ~dtm_rst) => reg_dbus_rsp_others'.stat \in {"OP_RSP_ERR", "OP_RSP_BUSY"}

\* Test 140 of isa-tests/soc/dtm.S: when software writes a request register
\* while a request runs, the write is refused and the answer to the running
\* request is stored with the error bit, whatever the DM says of it.
RefusalReported == [][RefusalTold]_busVars

--------------------------------------------------------------------------------
(***************************************************************************)
(* Why RequestUntorn and RefusalReported hold, for any words and any DMI.  *)
(* The registers are frozen while a request runs; between the start strobe *)
(* and the first busy cycle only the pause of a master that waits for its  *)
(* response keeps the next write away.                                     *)
(***************************************************************************)
RegistersHoldAsked ==
  asked = [data |-> reg_dbus_req_dword,
           op   |-> reg_dbus_req_others.op,
           addr |-> reg_dbus_req_others.addr]

\* Inductive when the master is SPACED: a strobe finds the registers at rest, a
\* strobe and a busy DTM find what was asked in them, a busy DTM has latched its
\* operation.
Latched ==
  /\ dbus_op_start => cmd.do = "none" /\ RegistersHoldAsked
  /\ status_busy => RegistersHoldAsked /\ dbus_req_op = reg_dbus_req_others.op
  /\ dbus_fsm_act \in {"IDLE", "REQ_BUSY", "RSP_BUSY"}

\* A refusal is remembered in the sticky bit for as long as the request runs.
RefusalKept == refused => dbus_rsp_stat_sticky
================================================================================
