------------------------------- MODULE DmiArbiter -------------------------------
(***************************************************************************)
(* rtl/dmi_arbiter.sv: two DTMs share one Debug Module.                    *)
(*                                                                         *)
(* Every step is a rising edge of clk.  A variable is a flop or an input   *)
(* wire, an operator with a lower-case name is a combinational wire, and   *)
(* the p_ operators are the always_ff processes of the same name; the two  *)
(* copies of a process that exist for port 0 and port 1 are one operator   *)
(* over Ports.  The DTM-side wires may do anything in any cycle, so what   *)
(* is shown here does not depend on how a DTM behaves.  rst_n is one step  *)
(* back to the initial values, for the arbiter and the DM alike: the       *)
(* coreplex resets both with the same wire.                                *)
(***************************************************************************)
EXTENDS Naturals, DebugModule

VARIABLES
  dm_req_bits,   \* flop: request word sent to the DM
  dm_req_vld,    \* flop: the DM is being asked
  req_rdy,       \* flops: the ports whose dtmN_req_rdy is high
  dtm_rsp_bits,  \* flop: response word shown to both ports
  dm_rsp_rdy,    \* flop: ready for a DM response
  rsp_vld,       \* flops: the ports whose dtmN_rsp_vld is high
  dtm_src_last,  \* flop: the port served last
  trans_fsm_q,   \* flop: transaction phase
  req_vld,       \* input: the ports whose dtmN_req_vld is high
  req_bits,      \* input: the dtmN_req_bits
  rsp_rdy        \* input: the ports whose dtmN_rsp_rdy is high

flops == <<dm_req_bits, dm_req_vld, req_rdy, dtm_rsp_bits, dm_rsp_rdy, rsp_vld,
           dtm_src_last, trans_fsm_q>>
wires == <<req_vld, req_bits, rsp_rdy>>
vars  == <<flops, wires, dm_phase, dm_cur>>

Ports == {0, 1}
Other(p) == 1 - p

--------------------------------------------------------------------------------
\* Request path and arbitration policy

\* Mutants: no transaction guard; the port served last wins.
dtm_req_allow_NoGuard(p) == dtm_src_last = Other(p) \/ Other(p) \notin req_vld
dtm_req_allow_LastWins(p) ==
  trans_fsm_q = "Q_REQ" /\ (dtm_src_last = p \/ Other(p) \notin req_vld)

dtm_req_allow(p) ==
  /\ trans_fsm_q = "Q_REQ"
  /\ dtm_src_last = Other(p) \/ Other(p) \notin req_vld

dtm_req_accept(p) == p \in req_vld /\ p \in req_rdy /\ dtm_req_allow(p)

any_accept == \E p \in Ports : dtm_req_accept(p)

dm_req_done == dm_req_vld /\ dm_req_rdy

dtm_req_done(p) == dm_req_done /\ p \notin req_rdy

\* Port 0 wins the else-if; dm_req_bits is None until the first request.
p_dm_req_bits ==
  dm_req_bits' = IF dtm_req_accept(0) THEN req_bits[0]
                 ELSE IF dtm_req_accept(1) THEN req_bits[1]
                 ELSE dm_req_bits

p_dm_req_vld ==
  dm_req_vld' = IF any_accept \/ dm_req_done THEN any_accept \/ ~dm_req_done
                ELSE dm_req_vld

p_dtm_req_rdy ==
  req_rdy' = {p \in Ports :
                IF dtm_req_accept(p) \/ dtm_req_done(p)
                THEN ~dtm_req_accept(p) \/ dtm_req_done(p)
                ELSE p \in req_rdy}

p_dtm_src_last ==
  dtm_src_last' = IF any_accept THEN (IF dtm_req_accept(1) THEN 1 ELSE 0)
                  ELSE dtm_src_last

--------------------------------------------------------------------------------
\* Response path

dm_rsp_accept == trans_fsm_q = "Q_RSP" /\ dm_rsp_vld /\ dm_rsp_rdy

\* Mutant: the answer goes to the other port.
dtm_rsp_accept_Swapped(p) == dm_rsp_accept /\ dtm_src_last = Other(p)

dtm_rsp_accept(p) == dm_rsp_accept /\ dtm_src_last = p

dtm_rsp_clr(p) == p \in rsp_vld /\ p \in rsp_rdy

dm_rsp_done == dtm_rsp_clr(dtm_src_last)

p_dtm_rsp_bits == dtm_rsp_bits' = IF dm_rsp_accept THEN dm_cur ELSE dtm_rsp_bits

\* Mutant: ready is not given back at the end of a transaction.
p_dm_rsp_rdy_Stuck == dm_rsp_rdy' = (dm_rsp_rdy /\ ~dm_rsp_accept)

p_dm_rsp_rdy ==
  dm_rsp_rdy' = IF dm_rsp_accept \/ dm_rsp_done THEN ~dm_rsp_accept \/ dm_rsp_done
                ELSE dm_rsp_rdy

p_dtm_rsp_vld ==
  rsp_vld' = {p \in Ports :
                IF dtm_rsp_accept(p) \/ dtm_rsp_clr(p)
                THEN dtm_rsp_accept(p) \/ ~dtm_rsp_clr(p)
                ELSE p \in rsp_vld}

p_trans_fsm ==
  trans_fsm_q' = IF trans_fsm_q = "Q_REQ" /\ any_accept THEN "Q_RSP"
                 ELSE IF trans_fsm_q = "Q_RSP" /\ dm_rsp_done THEN "Q_REQ"
                 ELSE trans_fsm_q

--------------------------------------------------------------------------------
ArbInit ==
  /\ dm_req_bits = None
  /\ dm_req_vld = FALSE
  /\ req_rdy = Ports
  /\ dtm_rsp_bits = None
  /\ dm_rsp_rdy = TRUE
  /\ rsp_vld = {}
  /\ dtm_src_last = 0
  /\ trans_fsm_q = "Q_REQ"

WiresOK ==
  /\ req_vld \in SUBSET Ports
  /\ req_bits \in [Ports -> Req]
  /\ rsp_rdy \in SUBSET Ports

Init == ArbInit /\ DmInit /\ WiresOK

\* The DTMs may drive anything next.
AnyWires ==
  /\ req_vld' \in SUBSET Ports
  /\ req_bits' \in [Ports -> Req]
  /\ rsp_rdy' \in SUBSET Ports

\* All processes of the module at one rising edge of clk.
ArbClock ==
  /\ p_dm_req_bits
  /\ p_dm_req_vld
  /\ p_dtm_req_rdy
  /\ p_dtm_rsp_bits
  /\ p_dm_rsp_rdy
  /\ p_dtm_rsp_vld
  /\ p_dtm_src_last
  /\ p_trans_fsm

Cycle ==
  /\ ArbClock
  /\ DmClock(dm_req_vld, dm_req_bits, dm_rsp_rdy)
  /\ AnyWires

\* rst_n resets the arbiter, the DM and, in the coreplex, the bus-side DTM.
ArbReset ==
  /\ dm_req_bits' = None
  /\ dm_req_vld' = FALSE
  /\ req_rdy' = Ports
  /\ dtm_rsp_bits' = None
  /\ dm_rsp_rdy' = TRUE
  /\ rsp_vld' = {}
  /\ dtm_src_last' = 0
  /\ trans_fsm_q' = "Q_REQ"

Reset == ArbReset /\ DmReset /\ AnyWires

Next == Cycle \/ Reset

Spec == Init /\ [][Next]_vars

\* The clock keeps running, and outside a reset the DM neither stalls nor
\* works for ever.
DmMoves == Cycle /\ (DmRecover \/ DmFinish)
FairSpec == Spec /\ WF_vars(Cycle) /\ WF_vars(DmMoves)

--------------------------------------------------------------------------------
TypeOK ==
  /\ dm_req_bits \in Req \cup {None}
  /\ dm_req_vld \in BOOLEAN
  /\ req_rdy \subseteq Ports
  /\ dtm_rsp_bits \in Req \cup {None}
  /\ dm_rsp_rdy \in BOOLEAN
  /\ rsp_vld \subseteq Ports
  /\ dtm_src_last \in Ports
  /\ trans_fsm_q \in {"Q_REQ", "Q_RSP"}
  /\ DmTypeOK
  /\ WiresOK

\* The four phases of the arbiter, each with what every flop must hold in it.
Free ==
  /\ trans_fsm_q = "Q_REQ"
  /\ ~dm_req_vld /\ req_rdy = Ports
  /\ dm_rsp_rdy /\ rsp_vld = {}
  /\ dm_phase \in {"stalled", "ready"}

Sent ==
  /\ trans_fsm_q = "Q_RSP"
  /\ dm_req_vld /\ req_rdy = {Other(dtm_src_last)}
  /\ dm_rsp_rdy /\ rsp_vld = {}
  /\ dm_phase \in {"stalled", "ready"}
  /\ dm_req_bits \in Req

Executing ==
  /\ trans_fsm_q = "Q_RSP"
  /\ ~dm_req_vld /\ req_rdy = Ports
  /\ dm_rsp_rdy /\ rsp_vld = {}
  /\ dm_phase \in {"working", "answered"}
  /\ dm_cur = dm_req_bits /\ dm_req_bits \in Req

Answered ==
  /\ trans_fsm_q = "Q_RSP"
  /\ ~dm_req_vld /\ req_rdy = Ports
  /\ ~dm_rsp_rdy /\ rsp_vld = {dtm_src_last}
  /\ dm_phase \in {"stalled", "ready"}
  /\ dtm_rsp_bits = dm_req_bits /\ dm_req_bits \in Req

\* The handshake flops of the three interfaces, which no signal of the RTL
\* ties together, always agree on one of the four phases; in particular the
\* answer is shown to the port whose request was sent and to no other.
PhaseInv == Free \/ Sent \/ Executing \/ Answered

\* The assertion of the RTL (line 299): never both ports in one cycle.
OneAccepted == ~(dtm_req_accept(0) /\ dtm_req_accept(1))

\* Ready/valid towards the DM: a request shown and not yet taken stays, with
\* the same word, whatever the ports do meanwhile.
RequestHeld ==
  [][(Cycle /\ dm_req_vld /\ ~dm_req_rdy) =>
       (dm_req_vld' /\ dm_req_bits' = dm_req_bits)]_vars

\* Ready/valid towards the DTMs, over a whole transaction: the word of the accepted
\* port is taken with the port's number, both stay until the answer is taken, an
\* answer is shown to that port alone and is the one to that word, and an answer
\* shown and not yet taken stays.
AnswerHeld ==
  [][Cycle => \A p \in Ports :
       /\ dtm_req_accept(p) => dtm_src_last' = p /\ dm_req_bits' = req_bits[p]
       /\ trans_fsm_q = "Q_RSP" => dtm_src_last' = dtm_src_last /\ dm_req_bits' = dm_req_bits
       /\ p \in rsp_vld' => p = dtm_src_last' /\ dtm_rsp_bits' = dm_req_bits'
       /\ p \in rsp_vld /\ p \notin rsp_rdy => p \in rsp_vld']_vars

\* Lines 274-293: a port that asks in a cycle in which the other one is
\* accepted is the one accepted next, if it still asks: no port is passed
\* over twice in a row.  Between the two acceptances a whole transaction runs.
TakesTurns ==
  [][\A p \in Ports : (Cycle /\ dtm_req_accept(p) /\ Other(p) \in req_vld) =>
       (dtm_src_last = Other(p) /\ dtm_src_last' = p)]_vars

\* Every transaction ends, if its port takes the answer when it is shown.
EveryTransactionEnds ==
  (\A p \in Ports : []<>(p \in rsp_vld => p \in rsp_rdy)) =>
    (trans_fsm_q = "Q_RSP" ~> trans_fsm_q = "Q_REQ")

--------------------------------------------------------------------------------
\* The arbiter implements DmiSerializer.
serial_phase ==
  IF trans_fsm_q = "Q_REQ" THEN "free"
  ELSE IF dm_req_vld THEN "sent"
  ELSE IF rsp_vld = {} THEN "executing"
  ELSE "answered"

Serializer == INSTANCE DmiSerializer WITH
  offer <- [p \in Ports |-> IF p \in rsp_vld THEN dtm_rsp_bits ELSE None],
  phase <- serial_phase,
  owner <- dtm_src_last,
  cur   <- IF serial_phase \in {"sent", "executing"} THEN dm_req_bits ELSE None

\* The flops of the arbiter run the transactions of the two ports one at a
\* time, each port getting the answer to its own request.
Serializes == Serializer!Spec
================================================================================
