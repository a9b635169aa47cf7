----------------------------- MODULE DebugTransport -----------------------------
(***************************************************************************)
(* The debug transport of rtl/zr_coreplex.sv: the JTAG DTM on port 0 and   *)
(* the bus-side DTM on port 1 of the DMI arbiter, in front of the DM, all  *)
(* on one clock.  The JTAG DTM (dmi_jtag) is external: it shows a request  *)
(* until it sees ready, then waits for one response, and is always ready   *)
(* for one.                                                                *)
(***************************************************************************)
EXTENDS TLAPS

CONSTANTS
  Data, Ops, Addrs, ZeroData, NOP, ZeroAddr, None, Faults,
  SPACED, CTRL_WRITES, SLOW_DM,   \* as in Icb2DebugBus and DebugModule
  JtagReq,          \* the requests the JTAG debugger sends
  ONE_AT_A_TIME     \* TRUE: the two DTMs are used one at a time, "the expected
                    \* use case" of dmi_arbiter.sv lines 26-27

VARIABLES
  reg_dbus_req_dword, reg_dbus_req_others, reg_dbus_rsp_dword,
  reg_dbus_rsp_others, dbus_op_start, we_dbus_req_others_d, dbus_req_op,
  dbus_rsp_stat_sticky, dbus_fsm_act, cmd, asked, refused,
  dm_req_bits, dm_req_vld, req_rdy, dtm_rsp_bits, dm_rsp_rdy, rsp_vld,
  dtm_src_last, trans_fsm_q,
  dm_phase, dm_cur,
  jtag_phase,       \* "idle", "asking" or "waiting"
  jtag_req          \* the request it shows or waits for

Bus == INSTANCE Icb2DebugBus WITH
  dtm_req_ready  <- 1 \in req_rdy,
  dtm_resp_valid <- 1 \in rsp_vld,
  dtm_resp_bits  <- dtm_rsp_bits

Arb == INSTANCE DmiArbiterProofs WITH
  Req      <- Bus!DmiReq,
  req_vld  <- (IF jtag_phase = "asking" THEN {0} ELSE {})
              \cup (IF Bus!dtm_req_valid THEN {1} ELSE {}),
  req_bits <- [p \in {0, 1} |-> IF p = 0 THEN jtag_req ELSE Bus!dtm_req_bits],
  rsp_rdy  <- {0} \cup (IF Bus!dtm_resp_ready THEN {1} ELSE {})

jtagVars == <<jtag_phase, jtag_req>>
vars == <<Bus!busFlops, cmd, Bus!aux, Arb!flops, dm_phase, dm_cur, jtagVars>>

TransportAssumption ==
  /\ JtagReq \subseteq Bus!DmiReq /\ JtagReq # {}
  /\ SLOW_DM \in BOOLEAN /\ ONE_AT_A_TIME \in BOOLEAN

--------------------------------------------------------------------------------
\* The bus-side DTM and the arbiter are at rest.
BusQuiet ==
  /\ dbus_fsm_act = "IDLE" /\ ~dbus_op_start
  /\ cmd.do # "others"
  /\ trans_fsm_q = "Q_REQ"

JtagStart ==
  /\ jtag_phase = "idle"
  /\ ONE_AT_A_TIME => BusQuiet
  /\ jtag_phase' = "asking"
  /\ jtag_req' \in JtagReq

JtagSent ==
  /\ jtag_phase = "asking" /\ 0 \in req_rdy
  /\ jtag_phase' = "waiting"
  /\ UNCHANGED jtag_req

JtagAnswered ==
  /\ jtag_phase = "waiting" /\ 0 \in rsp_vld
  /\ jtag_phase' = "idle"
  /\ UNCHANGED jtag_req

JtagStays ==
  /\ jtag_phase = "asking" => 0 \notin req_rdy
  /\ jtag_phase = "waiting" => 0 \notin rsp_vld
  /\ UNCHANGED jtagVars

JtagClock == JtagStart \/ JtagSent \/ JtagAnswered \/ JtagStays

Init ==
  /\ Bus!BusInit
  /\ Arb!ArbInit
  /\ Arb!DmInit
  /\ jtag_phase = "idle"
  /\ jtag_req \in JtagReq

\* One rising edge of clk.
Next ==
  /\ Bus!BusClock
  /\ Arb!ArbClock
  /\ Arb!DmClock(dm_req_vld, dm_req_bits, dm_rsp_rdy)
  /\ JtagClock
  /\ Bus!NextCommand
  /\ ONE_AT_A_TIME /\ cmd'.do = "others" => jtag_phase' = "idle"

Spec == Init /\ [][Next]_vars

\* The clock runs, and a slow DM neither stalls nor works for ever.
FairSpec == Spec /\ WF_vars(Next) /\ WF_vars(Next /\ (Arb!DmRecover \/ Arb!DmFinish))

--------------------------------------------------------------------------------
\* What software relies on (icb2debug_bus.sv lines 119-123): when a read of the
\* status register shows the DTM not busy, the response registers hold the
\* answer to the request it started last.
PollSound ==
  (cmd.do = "read" /\ ~Bus!status_busy /\ asked # None) =>
    /\ reg_dbus_rsp_dword = asked
    /\ reg_dbus_rsp_others.addr = asked.addr

\* A DTM that waits gets the answer to its own request, and an answer never
\* comes to a JTAG DTM that does not wait for one.
OwnAnswers ==
  /\ 0 \in rsp_vld => jtag_phase = "waiting" /\ dtm_rsp_bits = jtag_req
  /\ (1 \in rsp_vld /\ Bus!status_busy) => dtm_rsp_bits = asked

\* "data handshake complets when both valid and ready are asserted"
\* (dmi_arbiter.sv lines 31-32): a DTM that sees valid and ready has handed
\* its request over.
HandshakeCompletes ==
  \A p \in Arb!Ports :
    ((p = 0 /\ jtag_phase = "asking") \/ (p = 1 /\ Bus!dtm_req_valid)) /\ p \in req_rdy
      => Arb!dtm_req_accept(p)

\* Neither DTM waits for ever (dmi_arbiter.sv:325-356).
NobodyWaits ==
  /\ Bus!status_busy ~> ~Bus!status_busy
  /\ jtag_phase # "idle" ~> jtag_phase = "idle"

--------------------------------------------------------------------------------
(***************************************************************************)
(* The proof that the two DTMs, the arbiter and the DM never lose step.    *)
(* Neither the flops of the arbiter nor those of the bus-side DTM name the *)
(* transaction they take part in; the invariant says which one it is.      *)
(***************************************************************************)
\* How the transport is used: the master waits for its responses, the DTMs are
\* used one at a time, and the bus-side DTM is not reset behind a slow DM.
Discipline == SPACED /\ ONE_AT_A_TIME /\ (SLOW_DM => ~CTRL_WRITES)

RegsOK ==
  /\ reg_dbus_req_dword \in Data
  /\ reg_dbus_req_others \in [op : Ops, addr : Addrs]
  /\ dbus_req_op \in Ops
  /\ cmd \in Bus!Commands
  /\ jtag_phase \in {"idle", "asking", "waiting"}
  /\ jtag_req \in Bus!DmiReq

\* The JTAG DTM asks a free arbiter and waits while its own request runs; all
\* that time the bus-side DTM rests.
JtagInStep ==
  /\ jtag_phase = "asking" => Arb!Free
  /\ jtag_phase = "waiting" <=> (trans_fsm_q = "Q_RSP" /\ dtm_src_last = 0)
  /\ jtag_phase = "waiting" => dm_req_bits = jtag_req
  /\ jtag_phase # "idle" => dbus_fsm_act = "IDLE" /\ ~dbus_op_start /\ cmd.do # "others"

\* A transaction of port 1 that the bus-side DTM was reset out of.
Orphan == trans_fsm_q = "Q_RSP" /\ dtm_src_last = 1 /\ dbus_fsm_act = "IDLE"

\* The bus-side DTM asks a free arbiter and waits while its own request runs;
\* an orphan is drained before the next request can be there.
BusInStep ==
  /\ Bus!dtm_req_valid => Arb!Free
  /\ dbus_fsm_act = "RSP_BUSY" =>
       trans_fsm_q = "Q_RSP" /\ dtm_src_last = 1 /\ dm_req_bits = asked
  /\ Orphan => /\ ~SLOW_DM
               /\ Arb!Sent => cmd.do = "none" /\ ~dbus_op_start
               /\ Arb!Executing => ~dbus_op_start
  /\ SLOW_DM \/ dm_phase \in {"ready", "answered"}

\* What software asked last is yet to run, runs, or has its answer stored.
Stored ==
  /\ cmd.do # "none" => ~we_dbus_req_others_d
  /\ \/ asked = None \/ Bus!status_busy \/ dbus_op_start
     \/ reg_dbus_rsp_dword = asked /\ reg_dbus_rsp_others.addr = asked.addr

IInv ==
  /\ RegsOK /\ Bus!Latched /\ Arb!IInv
  /\ JtagInStep /\ BusInStep /\ Stored

\* A cycle of the bus-side DTM keeps what it has latched: the registers change
\* only in IDLE, and then towards what is asked.
LEMMA LatchedStep ==
  ASSUME SPACED, Bus!Latched, Bus!BusClock, Bus!NextCommand
  PROVE  Bus!Latched'
<1> USE DEF Bus!Latched, Bus!RegistersHoldAsked, Bus!status_busy
<1>1. (dbus_fsm_act \in {"IDLE", "REQ_BUSY", "RSP_BUSY"})'
  BY DEF Bus!BusClock, Bus!p_dbus_fsm_act, Bus!dbus_fsm_nxt
<1>2. ASSUME dbus_op_start' PROVE (cmd.do = "none")' /\ Bus!RegistersHoldAsked'
  <2>1. cmd.do = "others"
    BY <1>2 DEF Bus!BusClock, Bus!p_dbus_op_start, Bus!we_dbus_req_others
  <2>2. cmd'.do = "none"
    BY <2>1 DEF Bus!NextCommand
  <2>3. Bus!RegistersHoldAsked'
    <3>1. CASE Bus!status_busy
      BY <2>1, <3>1 DEF Bus!BusClock, Bus!p_req_regs, Bus!Asking, Bus!we_ctrl
    <3>2. CASE ~Bus!status_busy
      BY <2>1, <3>2 DEF Bus!BusClock, Bus!p_req_regs, Bus!Asking, Bus!we_ctrl,
        Bus!we_dbus_req_others, Bus!we_dbus_req_dword
    <3> QED BY <3>1, <3>2
  <2> QED BY <2>2, <2>3
<1>3. ASSUME Bus!status_busy'
      PROVE  Bus!RegistersHoldAsked' /\ (dbus_req_op = reg_dbus_req_others.op)'
  <2>1. ~Bus!dtm_rst
    BY <1>3 DEF Bus!BusClock, Bus!p_dbus_fsm_act
  <2>2. CASE Bus!status_busy
    BY <2>1, <2>2 DEF Bus!BusClock, Bus!p_req_regs, Bus!p_dbus_req_op, Bus!Asking, Bus!dtm_rst
  <2>3. CASE ~Bus!status_busy
    <3>1. dbus_op_start
      BY <1>1, <1>3, <2>1, <2>3 DEF Bus!BusClock, Bus!p_dbus_fsm_act, Bus!dbus_fsm_nxt
    <3>2. ~Bus!we_dbus_req_others /\ ~Bus!we_dbus_req_dword /\ ~Bus!we_ctrl
      BY <3>1 DEF Bus!we_dbus_req_others, Bus!we_dbus_req_dword, Bus!we_ctrl
    <3> QED
      BY <2>1, <2>3, <3>1, <3>2 DEF Bus!BusClock, Bus!p_req_regs, Bus!p_dbus_req_op, Bus!Asking
  <2> QED BY <2>2, <2>3
<1> QED BY <1>1, <1>2, <1>3

\* The words of the registers stay words.
LEMMA RegsStep ==
  ASSUME TransportAssumption, Bus!BusAssumption, RegsOK, Next
  PROVE  RegsOK'
<1> USE DEF RegsOK, Next, Bus!BusClock
<1>1. (reg_dbus_req_dword \in Data)' /\ (reg_dbus_req_others \in [op : Ops, addr : Addrs])'
  BY DEF Bus!p_req_regs, Bus!Commands, Bus!we_dbus_req_dword, Bus!we_dbus_req_others
<1>2. (dbus_req_op \in Ops)'
  BY DEF Bus!p_dbus_req_op, Bus!BusAssumption
<1>3. cmd' \in Bus!Commands
  BY DEF Bus!NextCommand, Bus!Commands
<1>4. (jtag_phase \in {"idle", "asking", "waiting"})' /\ (jtag_req \in Bus!DmiReq)'
  BY DEF JtagClock, JtagStart, JtagSent, JtagAnswered, JtagStays, jtagVars, TransportAssumption
<1> QED BY <1>1, <1>2, <1>3, <1>4

\* Every cycle of the transport is a cycle of the arbiter.
LEMMA ArbCycles ==
  ASSUME RegsOK', Next
  PROVE  Arb!Cycle
<1>1. Arb!AnyWires
  BY DEF RegsOK, Arb!AnyWires, Arb!Ports, Bus!DmiReq, Bus!dtm_req_bits
<1> QED BY <1>1 DEF Next, Arb!Cycle

LEMMA ArbStep ==
  ASSUME SLOW_DM \in BOOLEAN, Bus!BusAssumption, Arb!IInv, Arb!Cycle
  PROVE  Arb!IInv'
<1>1. None \notin Bus!DmiReq
  BY DEF Bus!BusAssumption, Bus!DmiReq
<1> QED BY <1>1, Arb!IInvNext DEF Arb!Next

LEMMA PhasesApart ==
  /\ Arb!Free => trans_fsm_q = "Q_REQ" /\ ~Arb!Sent /\ ~Arb!Executing /\ ~Arb!Answered
  /\ Arb!Sent => trans_fsm_q = "Q_RSP" /\ ~Arb!Executing /\ ~Arb!Answered
  /\ Arb!Executing => trans_fsm_q = "Q_RSP" /\ ~Arb!Answered
  /\ Arb!Answered => trans_fsm_q = "Q_RSP"
BY DEF Arb!Free, Arb!Sent, Arb!Executing, Arb!Answered

LEMMA PhasesApartNext ==
  /\ Arb!Free' => /\ trans_fsm_q' = "Q_REQ"
                  /\ ~Arb!Sent' /\ ~Arb!Executing' /\ ~Arb!Answered'
  /\ Arb!Sent' => trans_fsm_q' = "Q_RSP" /\ ~Arb!Executing' /\ ~Arb!Answered'
  /\ Arb!Executing' => trans_fsm_q' = "Q_RSP" /\ ~Arb!Answered'
  /\ Arb!Answered' => trans_fsm_q' = "Q_RSP"
BY DEF Arb!Free, Arb!Sent, Arb!Executing, Arb!Answered

\* A fast DM takes a request in the cycle that shows it and answers in the next.
LEMMA FastDm ==
  ASSUME ~SLOW_DM, dm_phase \in {"ready", "answered"}, Arb!IInv, Arb!Cycle,
         SLOW_DM \in BOOLEAN, Bus!BusAssumption
  PROVE  /\ dm_phase' \in {"ready", "answered"}
         /\ Arb!Sent => Arb!Executing'
         /\ Arb!Executing => Arb!Answered'
<1>1. dm_phase' \in {"ready", "answered"}
  BY DEF Arb!Cycle, Arb!DmClock, Arb!DmRecover, Arb!DmTake, Arb!DmFinish, Arb!DmHandOver, Arb!DmIdle
<1>2. None \notin Bus!DmiReq
  BY DEF Bus!BusAssumption, Bus!DmiReq
<1>3. ASSUME Arb!Sent PROVE Arb!Executing'
  <2>1. ~Arb!any_accept
    BY <1>2, <1>3, PhasesApart, Arb!NoAcceptInRsp
  <2>2. Arb!dm_req_done
    BY <1>3 DEF Arb!Sent, Arb!dm_req_done, Arb!dm_req_rdy
  <2>3. ~dm_req_vld'
    BY <2>1, <2>2 DEF Arb!Cycle, Arb!ArbClock, Arb!p_dm_req_vld
  <2> QED
    BY <1>2, <1>3, <2>3, Arb!SentStep DEF Arb!IInv, Arb!Sent
<1>4. ASSUME Arb!Executing PROVE Arb!Answered'
  <2>1. Arb!dm_rsp_accept /\ ~Arb!dm_rsp_done
    BY <1>4 DEF Arb!Executing, Arb!dm_rsp_accept, Arb!dm_rsp_vld, Arb!dm_rsp_done, Arb!dtm_rsp_clr
  <2>2. ~dm_rsp_rdy'
    BY <2>1 DEF Arb!Cycle, Arb!ArbClock, Arb!p_dm_rsp_rdy
  <2> QED
    BY <1>2, <1>4, <2>2, Arb!ExecutingStep DEF Arb!IInv, Arb!Executing
<1> QED BY <1>1, <1>3, <1>4

\* Only a write of the control register takes the bus-side DTM out of a request
\* early, and only software on a fast DM does that.
LEMMA BusMoves ==
  ASSUME Discipline, RegsOK, Next
  PROVE  /\ cmd.do = "ctrl" => dbus_fsm_act' = "IDLE" /\ ~SLOW_DM
         /\ cmd.do # "ctrl" => dbus_fsm_act' = Bus!dbus_fsm_nxt
         /\ cmd.do # "none" => cmd'.do = "none"
         /\ cmd.do # "others" => ~dbus_op_start'
         /\ (cmd.do # "ctrl" /\ Bus!status_busy) => asked' = asked
<1>1. cmd.do = "ctrl" => CTRL_WRITES
  BY DEF RegsOK, Bus!Commands
<1>2. cmd.do # "none" => cmd'.do = "none"
  BY DEF Next, Discipline, Bus!NextCommand
<1> QED
  BY <1>1, <1>2 DEF Next, Discipline, Bus!BusClock, Bus!p_dbus_fsm_act, Bus!dtm_rst, Bus!we_ctrl,
     Bus!p_dbus_op_start, Bus!we_dbus_req_others, Bus!Asking

\* While a DTM is served the other one keeps still.
LEMMA JtagMoves ==
  ASSUME Discipline, RegsOK, JtagInStep, Next
  PROVE  /\ jtag_phase = "idle" =>
              \/ jtag_phase' = "idle"
              \/ jtag_phase' = "asking" /\ BusQuiet
         /\ jtag_phase = "asking" /\ 0 \in req_rdy => jtag_phase' = "waiting"
         /\ jtag_phase = "waiting" /\ 0 \notin rsp_vld => jtag_phase' = "waiting"
         /\ jtag_phase = "waiting" /\ 0 \in rsp_vld => jtag_phase' = "idle"
         /\ jtag_phase # "idle" => jtag_req' = jtag_req
         /\ jtag_phase' # "idle" =>
              dbus_fsm_act' = "IDLE" /\ ~dbus_op_start' /\ cmd'.do # "others"
<1>1. cmd'.do = "others" => jtag_phase' = "idle"
  BY DEF Next, Discipline
<1>2. /\ jtag_phase = "idle" =>
              \/ jtag_phase' = "idle"
              \/ jtag_phase' = "asking" /\ BusQuiet
      /\ jtag_phase = "asking" /\ 0 \in req_rdy => jtag_phase' = "waiting"
      /\ jtag_phase = "waiting" /\ 0 \notin rsp_vld => jtag_phase' = "waiting"
      /\ jtag_phase = "waiting" /\ 0 \in rsp_vld => jtag_phase' = "idle"
      /\ jtag_phase # "idle" => jtag_req' = jtag_req
  BY DEF RegsOK, Next, Discipline, JtagClock, JtagStart, JtagSent, JtagAnswered, JtagStays, jtagVars
<1>3. ASSUME jtag_phase' # "idle"
      PROVE  dbus_fsm_act' = "IDLE" /\ ~dbus_op_start'
  <2>1. dbus_fsm_act = "IDLE" /\ ~dbus_op_start /\ cmd.do # "others"
    BY <1>2, <1>3 DEF BusQuiet, JtagInStep
  <2> QED
    BY <2>1, BusMoves DEF Bus!dbus_fsm_nxt
<1> QED BY <1>1, <1>2, <1>3

\* What a cycle finds, as the lemmas below assume it.
Found ==
  /\ Discipline /\ TransportAssumption /\ Bus!BusAssumption
  /\ RegsOK /\ Bus!Latched /\ Arb!IInv /\ Arb!TypeOK
  /\ JtagInStep /\ BusInStep
  /\ None \notin Bus!DmiReq /\ SLOW_DM \in BOOLEAN

LEMMA FreeCycle ==
  ASSUME Found, Next, Arb!Cycle, Arb!Free
  PROVE  JtagInStep' /\ BusInStep'
<1> USE DEF Found
<1>1. trans_fsm_q = "Q_REQ" /\ req_rdy = {0, 1} /\ rsp_vld = {}
  BY DEF Arb!Free, Arb!Ports
<1>2. jtag_phase # "waiting" /\ dbus_fsm_act \in {"IDLE", "REQ_BUSY"}
  BY <1>1 DEF JtagInStep, BusInStep, Bus!Latched
<1>3. SLOW_DM \/ dm_phase' \in {"ready", "answered"}
  BY FastDm DEF BusInStep
<1>4. CASE jtag_phase = "asking"
  <2>1. dbus_fsm_act = "IDLE"
    BY <1>4 DEF JtagInStep
  <2>2. Arb!dtm_req_accept(0)
    BY <1>1, <1>4, <2>1 DEF Arb!dtm_req_accept, Arb!dtm_req_allow, Arb!Other, Bus!dtm_req_valid
  <2>3. Arb!Sent' /\ dtm_src_last' = 0 /\ dm_req_bits' = jtag_req
    BY <2>2, Arb!AcceptedNext DEF Arb!Ports
  <2>4. jtag_phase' = "waiting" /\ jtag_req' = jtag_req
    BY <1>1, <1>4, JtagMoves
  <2>5. dbus_fsm_act' = "IDLE" /\ ~dbus_op_start' /\ cmd'.do # "others"
    BY <2>4, JtagMoves
  <2> QED
    BY <1>3, <2>3, <2>4, <2>5, PhasesApartNext DEF JtagInStep, BusInStep, Orphan,
       Bus!dtm_req_valid
<1>5. CASE jtag_phase # "asking" /\ dbus_fsm_act = "REQ_BUSY"
  <2>1. jtag_phase = "idle" /\ jtag_phase' = "idle"
    BY <1>2, <1>5, JtagMoves DEF RegsOK, BusQuiet
  <2>2. Arb!dtm_req_accept(1)
    BY <1>1, <1>5, <2>1 DEF Arb!dtm_req_accept, Arb!dtm_req_allow, Arb!Other, Bus!dtm_req_valid
  <2>3. Arb!Sent' /\ dtm_src_last' = 1 /\ dm_req_bits' = Bus!dtm_req_bits
    BY <2>2, Arb!AcceptedNext DEF Arb!Ports
  <2>4. Bus!dtm_req_bits = asked
    BY <1>5 DEF Bus!Latched, Bus!status_busy, Bus!RegistersHoldAsked, Bus!dtm_req_bits
  <2>5. CASE cmd.do = "ctrl"
    BY <1>3, <2>1, <2>3, <2>5, BusMoves, PhasesApartNext DEF JtagInStep, BusInStep, Orphan,
       Bus!dtm_req_valid
  <2>6. CASE cmd.do # "ctrl"
    <3>1. dbus_fsm_act' = "RSP_BUSY" /\ asked' = asked
      BY <1>1, <1>5, <2>6, BusMoves DEF Bus!dbus_fsm_nxt, Bus!dbus_op_done, Bus!status_busy
    <3> QED
      BY <1>3, <2>1, <2>3, <2>4, <3>1, PhasesApartNext DEF JtagInStep, BusInStep, Orphan,
         Bus!dtm_req_valid
  <2> QED BY <2>5, <2>6
<1>6. CASE jtag_phase # "asking" /\ dbus_fsm_act = "IDLE"
  <2>1. ~Arb!any_accept
    BY <1>2, <1>6 DEF RegsOK, Arb!any_accept, Arb!dtm_req_accept, Arb!Ports, Bus!dtm_req_valid
  <2>2. Arb!Free'
    BY <2>1, Arb!FreeStays
  <2>3. jtag_phase' # "waiting" /\ dbus_fsm_act' # "RSP_BUSY"
    BY <1>2, <1>6, JtagMoves, BusMoves DEF RegsOK, Bus!dbus_fsm_nxt
  <2> QED
    BY <1>3, <2>2, <2>3, JtagMoves, PhasesApartNext DEF JtagInStep, BusInStep, Orphan
<1> QED BY <1>2, <1>4, <1>5, <1>6

LEMMA JtagServed ==
  ASSUME Found, Next, Arb!Cycle, trans_fsm_q = "Q_RSP", dtm_src_last = 0
  PROVE  JtagInStep' /\ BusInStep'
<1> USE DEF Found
<1>1. jtag_phase = "waiting" /\ dm_req_bits = jtag_req
  BY DEF JtagInStep
<1>2. SLOW_DM \/ dm_phase' \in {"ready", "answered"}
  BY FastDm DEF BusInStep
<1>3. jtag_phase' \in {"idle", "waiting"} /\ jtag_req' = jtag_req
  BY <1>1, JtagMoves
<1>4. dbus_fsm_act' = "IDLE"
  BY <1>1, BusMoves DEF JtagInStep, Bus!dbus_fsm_nxt
<1>5. dtm_src_last' = 0 /\ dm_req_bits' = dm_req_bits
  BY PhasesApart, Arb!SentStep, Arb!ExecutingStep, Arb!AnsweredStep DEF Arb!IInv, Arb!PhaseInv
<1>6. CASE Arb!Sent \/ Arb!Executing
  <2>1. rsp_vld = {}
    BY <1>6 DEF Arb!Sent, Arb!Executing
  <2>2. jtag_phase' = "waiting"
    BY <1>1, <2>1, JtagMoves
  <2>3. trans_fsm_q' = "Q_RSP"
    BY <1>6, Arb!SentStep, Arb!ExecutingStep, PhasesApartNext DEF Arb!IInv
  <2> QED
    BY <1>1, <1>2, <1>3, <1>4, <1>5, <2>2, <2>3, JtagMoves DEF JtagInStep, BusInStep, Orphan,
       Bus!dtm_req_valid
<1>7. CASE Arb!Answered
  <2>1. 0 \in rsp_vld
    BY <1>7 DEF Arb!Answered
  <2>2. jtag_phase' = "idle"
    BY <1>1, <2>1, JtagMoves
  <2>3. Arb!Free'
    BY <1>7, Arb!AnsweredStep
  <2> QED
    BY <1>2, <1>4, <1>5, <2>2, <2>3, PhasesApartNext DEF JtagInStep, BusInStep, Orphan
<1> QED BY <1>6, <1>7, PhasesApart DEF Arb!IInv, Arb!PhaseInv

LEMMA BusServed ==
  ASSUME Found, Next, Arb!Cycle, trans_fsm_q = "Q_RSP", dtm_src_last = 1
  PROVE  JtagInStep' /\ BusInStep'
<1> USE DEF Found
<1>1. jtag_phase = "idle"
  BY PhasesApart DEF JtagInStep, RegsOK
<1>2. jtag_phase' = "idle"
  BY <1>1, JtagMoves DEF BusQuiet
<1>3. SLOW_DM \/ dm_phase' \in {"ready", "answered"}
  BY FastDm DEF BusInStep
<1>4. dtm_src_last' = 1 /\ dm_req_bits' = dm_req_bits
  BY PhasesApart, Arb!SentStep, Arb!ExecutingStep, Arb!AnsweredStep DEF Arb!IInv, Arb!PhaseInv
<1>5. dbus_fsm_act \in {"IDLE", "RSP_BUSY"}
  BY PhasesApart DEF Bus!Latched, BusInStep, Bus!dtm_req_valid
<1>6. CASE Arb!Sent \/ Arb!Executing
  <2>1. rsp_vld = {}
    BY <1>6 DEF Arb!Sent, Arb!Executing
  <2>2. ~dbus_op_start \/ dbus_fsm_act = "RSP_BUSY"
    BY <1>5, <1>6 DEF BusInStep, Orphan
  <2>3. trans_fsm_q' = "Q_RSP"
    BY <1>6, Arb!SentStep, Arb!ExecutingStep, PhasesApartNext DEF Arb!IInv
  <2>4. dbus_fsm_act' \in {"IDLE", "RSP_BUSY"}
    BY <1>5, <2>1, <2>2, BusMoves DEF Bus!dbus_fsm_nxt, Bus!dbus_op_done
  <2>5. ASSUME dbus_fsm_act' = "RSP_BUSY"
        PROVE  dm_req_bits' = asked'
    <3>1. cmd.do # "ctrl"
      BY <2>5, BusMoves
    <3>2. dbus_fsm_act = "RSP_BUSY"
      BY <1>5, <2>2, <2>5, <3>1, BusMoves DEF Bus!dbus_fsm_nxt
    <3> QED
      BY <1>4, <3>1, <3>2, BusMoves DEF BusInStep, Bus!status_busy
  <2>6. ASSUME dbus_fsm_act' = "IDLE"
        PROVE  /\ ~SLOW_DM
               /\ ~Arb!Sent'
               /\ Arb!Executing' => ~dbus_op_start'
    <3>1. cmd.do = "ctrl" \/ dbus_fsm_act = "IDLE"
      BY <1>5, <2>1, <2>6, BusMoves DEF Bus!dbus_fsm_nxt, Bus!dbus_op_done
    <3>2. ~SLOW_DM
      BY <3>1, BusMoves DEF BusInStep, Orphan
    <3>3. Arb!Sent => cmd.do # "others"
      BY <3>1 DEF BusInStep, Orphan
    <3> QED
      BY <1>6, <3>2, <3>3, FastDm, BusMoves, PhasesApartNext DEF BusInStep
  <2> QED
    BY <1>2, <1>3, <1>4, <2>3, <2>4, <2>5, <2>6, JtagMoves DEF JtagInStep, BusInStep, Orphan,
       Bus!dtm_req_valid
<1>7. CASE Arb!Answered
  <2>1. rsp_vld = {1}
    BY <1>7 DEF Arb!Answered
  <2>2. Arb!Free'
    BY <1>7, <2>1, Arb!AnsweredStep DEF Bus!dtm_resp_ready
  <2>3. dbus_fsm_act' # "RSP_BUSY"
    BY <1>5, <2>1, BusMoves DEF Bus!dbus_fsm_nxt, Bus!dbus_op_done
  <2> QED
    BY <1>2, <1>3, <2>2, <2>3, PhasesApartNext DEF JtagInStep, BusInStep, Orphan
<1> QED BY <1>6, <1>7, PhasesApart DEF Arb!IInv, Arb!PhaseInv

LEMMA StoredStep ==
  ASSUME Found, Next, Stored
  PROVE  Stored'
<1> USE DEF Found
<1>1. (cmd.do # "none" => ~we_dbus_req_others_d)'
  BY BusMoves DEF Next, Bus!BusClock, Bus!p_dbus_op_start, Bus!we_dbus_req_others
<1>2. CASE cmd.do = "ctrl"
  BY <1>1, <1>2 DEF Stored, Next, Bus!BusClock, Bus!Asking, Bus!we_ctrl
<1>3. CASE cmd.do # "ctrl" /\ Bus!status_busy
  <2>1. asked' = asked
    BY <1>3, BusMoves
  <2>2. CASE ~Bus!dbus_op_done
    <3>1. Bus!status_busy'
      BY <1>3, <2>2, BusMoves DEF Bus!status_busy, Bus!dbus_fsm_nxt
    <3> QED BY <1>1, <3>1 DEF Stored
  <2>3. CASE Bus!dbus_op_done
    <3>1. 1 \in rsp_vld
      BY <2>3 DEF Bus!dbus_op_done
    <3>2. Arb!Answered /\ dbus_fsm_act = "RSP_BUSY"
      BY <1>3, <3>1, PhasesApart DEF Arb!IInv, Arb!PhaseInv, Arb!Free, Arb!Sent, Arb!Executing,
         Bus!Latched, BusInStep, Bus!dtm_req_valid, Bus!status_busy
    <3>3. dtm_rsp_bits = asked
      BY <3>2 DEF Arb!Answered, BusInStep
    <3>4. reg_dbus_req_others.addr = asked.addr
      BY <1>3 DEF Bus!Latched, Bus!RegistersHoldAsked
    <3>5. reg_dbus_rsp_dword' = asked /\ reg_dbus_rsp_others'.addr = asked.addr
      BY <2>3, <3>3, <3>4 DEF Next, Bus!BusClock, Bus!p_resp_regs
    <3> QED BY <1>1, <2>1, <3>5 DEF Stored
  <2> QED BY <2>2, <2>3
<1>4. CASE cmd.do # "ctrl" /\ ~Bus!status_busy
  <2>1. CASE cmd.do = "others"
    <3>1. dbus_op_start'
      BY <2>1 DEF Stored, Next, Bus!BusClock, Bus!p_dbus_op_start, Bus!we_dbus_req_others
    <3> QED BY <1>1, <3>1 DEF Stored
  <2>2. CASE cmd.do # "others"
    <3>1. asked' = asked
      BY <1>4, <2>2 DEF Next, Bus!BusClock, Bus!Asking, Bus!we_ctrl, Bus!we_dbus_req_others
    <3>2. dbus_op_start => Bus!status_busy'
      BY <1>4, BusMoves DEF Bus!status_busy, Bus!dbus_fsm_nxt
    <3>3. /\ reg_dbus_rsp_dword' = reg_dbus_rsp_dword
          /\ reg_dbus_rsp_others' = reg_dbus_rsp_others
      BY <1>4 DEF Next, Bus!BusClock, Bus!p_resp_regs, Bus!dbus_op_done, Bus!status_busy
    <3> QED BY <1>1, <1>4, <3>1, <3>2, <3>3 DEF Stored
  <2> QED BY <2>1, <2>2
<1> QED BY <1>2, <1>3, <1>4

LEMMA IInvInit ==
  ASSUME TransportAssumption, Bus!BusAssumption, Init
  PROVE  IInv
<1> USE DEF Init, Bus!BusInit, Arb!ArbInit, Arb!DmInit
<1>1. RegsOK
  BY DEF RegsOK, TransportAssumption, Bus!BusAssumption, Bus!Commands
<1>2. Arb!TypeOK
  BY <1>1 DEF Arb!TypeOK, Arb!DmTypeOK, Arb!DmPhases, Arb!WiresOK, Arb!Ports, RegsOK,
     Bus!DmiReq, Bus!dtm_req_bits
<1>3. Arb!Free
  BY DEF Arb!Free
<1>4. Bus!Latched
  BY DEF Bus!Latched, Bus!status_busy
<1>5. JtagInStep /\ BusInStep /\ Stored
  BY <1>3 DEF JtagInStep, BusInStep, Orphan, Stored, Bus!dtm_req_valid
<1> QED
  BY <1>1, <1>2, <1>3, <1>4, <1>5 DEF IInv, Arb!IInv, Arb!PhaseInv

\* A cycle of the whole transport keeps the invariant.
LEMMA IInvStep ==
  ASSUME Discipline, TransportAssumption, Bus!BusAssumption, IInv, Next
  PROVE  IInv'
<1>1. Found
  BY DEF Found, IInv, Arb!IInv, TransportAssumption, Bus!BusAssumption, Bus!DmiReq
<1>2. RegsOK'
  BY RegsStep DEF IInv
<1>3. Arb!Cycle
  BY <1>2, ArbCycles
<1>4. Arb!IInv'
  BY <1>1, <1>3, ArbStep DEF Found
<1>5. Bus!Latched'
  BY LatchedStep DEF IInv, Next, Discipline
<1>6. JtagInStep' /\ BusInStep'
  <2>1. CASE Arb!Free
    BY <1>1, <1>3, <2>1, FreeCycle
  <2>2. CASE ~Arb!Free
    <3>1. trans_fsm_q = "Q_RSP" /\ dtm_src_last \in {0, 1}
      BY <1>1, <2>2, PhasesApart DEF Found, Arb!IInv, Arb!PhaseInv, Arb!TypeOK, Arb!Ports
    <3> QED
      BY <1>1, <1>3, <3>1, JtagServed, BusServed
  <2> QED BY <2>1, <2>2
<1>7. Stored'
  BY <1>1, StoredStep DEF IInv
<1> QED
  BY <1>2, <1>4, <1>5, <1>6, <1>7 DEF IInv

LEMMA IInvStutter == ASSUME IInv, UNCHANGED vars PROVE IInv'
BY DEF vars, Bus!busFlops, Bus!aux, Arb!flops, jtagVars, IInv, RegsOK, Bus!Latched,
   Bus!status_busy, Bus!RegistersHoldAsked, JtagInStep, BusInStep, Orphan, Stored,
   Bus!dtm_req_valid, Arb!IInv, Arb!TypeOK, Arb!WiresOK, Arb!DmTypeOK, Arb!PhaseInv, Arb!Free,
   Arb!Sent, Arb!Executing, Arb!Answered, Bus!dtm_resp_ready, Bus!dtm_req_bits

\* What the invariant says of the answers, the polls and the handshakes.
LEMMA IInvImplies ==
  ASSUME IInv
  PROVE  PollSound /\ OwnAnswers /\ HandshakeCompletes
<1> USE DEF IInv
<1>1. PollSound
  <2>1. cmd.do = "read" => ~dbus_op_start
    BY DEF Bus!Latched
  <2> QED
    BY <2>1 DEF PollSound, Stored
<1>2. OwnAnswers
  <2> SUFFICES ASSUME rsp_vld # {}
               PROVE  /\ 0 \in rsp_vld => jtag_phase = "waiting" /\ dtm_rsp_bits = jtag_req
                      /\ (1 \in rsp_vld /\ Bus!status_busy) => dtm_rsp_bits = asked
    BY DEF OwnAnswers
  <2>1. Arb!Answered
    BY DEF Arb!IInv, Arb!PhaseInv, Arb!Free, Arb!Sent, Arb!Executing
  <2>2. trans_fsm_q = "Q_RSP" /\ rsp_vld = {dtm_src_last} /\ dtm_rsp_bits = dm_req_bits
    BY <2>1 DEF Arb!Answered
  <2>3. 0 \in rsp_vld => jtag_phase = "waiting" /\ dtm_rsp_bits = jtag_req
    BY <2>2 DEF JtagInStep
  <2>4. (1 \in rsp_vld /\ Bus!status_busy) => dtm_rsp_bits = asked
    BY <2>1, <2>2, PhasesApart DEF BusInStep, Bus!Latched, Bus!status_busy, Bus!dtm_req_valid
  <2> QED BY <2>3, <2>4
<1>3. HandshakeCompletes
  BY PhasesApart DEF HandshakeCompletes, JtagInStep, BusInStep, Arb!dtm_req_accept,
     Arb!dtm_req_allow, Arb!Ports, Arb!Other, Arb!Free, Bus!dtm_req_valid
<1> QED BY <1>1, <1>2, <1>3

\* Behind the arbiter of rtl/dmi_arbiter.sv each DTM gets the answer to its own
\* request, a poll of the status register of rtl/icb2debug_bus.sv never tells of
\* an answer that is not there, and every handshake is taken.
THEOREM EachItsOwn ==
  ASSUME Discipline, TransportAssumption, Bus!BusAssumption
  PROVE  Spec => [](PollSound /\ OwnAnswers /\ HandshakeCompletes)
<1>1. Init => IInv
  BY IInvInit
<1>2. IInv /\ [Next]_vars => IInv'
  BY IInvStep, IInvStutter
<1>3. IInv => PollSound /\ OwnAnswers /\ HandshakeCompletes
  BY IInvImplies
<1> QED
  BY <1>1, <1>2, <1>3, PTL DEF Spec
================================================================================
