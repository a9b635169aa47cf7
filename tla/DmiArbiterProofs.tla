---------------------------- MODULE DmiArbiterProofs ----------------------------
(***************************************************************************)
(* Theorems about the DMI arbiter, for every set of request words, every   *)
(* waveform of the two DTMs and every DM that keeps the DMI protocol.      *)
(***************************************************************************)
EXTENDS DmiArbiter, TLAPS

\* What is carried from cycle to cycle: the types and the phase the flops
\* are in.
IInv == TypeOK /\ PhaseInv

LEMMA PortFacts ==
  /\ \A p \in Ports : Other(p) \in Ports /\ Other(p) # p
  /\ \A p, q \in Ports : q # p => q = Other(p)
BY DEF Ports, Other

\* Every flop and wire keeps its type over a clock cycle.
LEMMA CycleTyped == ASSUME TypeOK, Cycle PROVE TypeOK'
<1> USE NoneAssumption
<1>1. dm_req_bits' \in Req \cup {None} /\ dtm_rsp_bits' \in Req \cup {None}
  BY DEF TypeOK, DmTypeOK, WiresOK, Cycle, ArbClock, p_dm_req_bits, p_dtm_rsp_bits, Ports
<1>2. dm_req_vld' \in BOOLEAN /\ dm_rsp_rdy' \in BOOLEAN
  BY DEF TypeOK, Cycle, ArbClock, p_dm_req_vld, p_dm_rsp_rdy
<1>3. req_rdy' \subseteq Ports /\ rsp_vld' \subseteq Ports
  BY DEF Cycle, ArbClock, p_dtm_req_rdy, p_dtm_rsp_vld
<1>4. dtm_src_last' \in Ports /\ trans_fsm_q' \in {"Q_REQ", "Q_RSP"}
  BY DEF TypeOK, Cycle, ArbClock, p_dtm_src_last, p_trans_fsm, Ports
<1>5. DmTypeOK'
  BY DEF TypeOK, DmTypeOK, DmPhases, Cycle, DmClock, DmRecover, DmTake, DmFinish,
         DmHandOver, DmIdle
<1>6. WiresOK'
  BY DEF Cycle, AnyWires, WiresOK
<1> QED
  BY <1>1, <1>2, <1>3, <1>4, <1>5, <1>6 DEF TypeOK

--------------------------------------------------------------------------------
\* What one cycle does in each phase.

\* The two allow conditions exclude each other when both ports ask, so the
\* else-if of p_dm_req_bits never decides between two acceptances.
LEMMA AcceptOne ==
  ASSUME TypeOK, NEW p \in Ports, dtm_req_accept(p)
  PROVE  ~dtm_req_accept(Other(p))
BY DEF TypeOK, dtm_req_accept, dtm_req_allow, Ports, Other

LEMMA AcceptedNext ==
  ASSUME TypeOK, Free, Cycle, NEW p \in Ports, dtm_req_accept(p)
  PROVE  Sent' /\ dtm_src_last' = p /\ dm_req_bits' = req_bits[p]
<1> USE PortFacts
<1>1. any_accept
  BY DEF any_accept
<1>2. ~dtm_req_accept(Other(p))
  BY AcceptOne
<1>3. dm_req_bits' = req_bits[p] /\ dtm_src_last' = p
  BY <1>1, <1>2 DEF Cycle, ArbClock, p_dm_req_bits, p_dtm_src_last, Ports, Other
<1>4. ~dm_req_done /\ ~dm_rsp_accept
  BY DEF Free, dm_req_done, dm_rsp_accept
<1>5. \A q \in Ports : ~dtm_rsp_clr(q)
  BY DEF Free, dtm_rsp_clr
<1>6. dm_req_vld'
  BY <1>1, <1>4 DEF Cycle, ArbClock, p_dm_req_vld
<1>7. req_rdy' = {Other(p)}
  BY <1>2, <1>4 DEF Cycle, ArbClock, p_dtm_req_rdy, dtm_req_done, Free
<1>8. dm_rsp_rdy' /\ rsp_vld' = {}
  BY <1>4, <1>5 DEF Cycle, ArbClock, p_dm_rsp_rdy, p_dtm_rsp_vld, dtm_rsp_accept, dm_rsp_done,
     Free, TypeOK
<1>9. trans_fsm_q' = "Q_RSP"
  BY <1>1 DEF Cycle, ArbClock, p_trans_fsm, Free
<1>10. dm_phase' \in {"stalled", "ready"}
  BY DEF Free, Cycle, DmClock, DmRecover, DmTake, DmFinish, DmHandOver, DmIdle,
         dm_req_rdy, dm_rsp_vld
<1>11. dm_req_bits' \in Req
  BY <1>3 DEF TypeOK, WiresOK
<1> QED
  BY <1>3, <1>6, <1>7, <1>8, <1>9, <1>10, <1>11 DEF Sent, Other

LEMMA FreeStays ==
  ASSUME TypeOK, Free, Cycle, ~any_accept
  PROVE  Free' /\ dtm_src_last' = dtm_src_last
<1> USE PortFacts
<1>1. \A p \in Ports : ~dtm_req_accept(p)
  BY DEF any_accept
<1>2. ~dm_req_done /\ ~dm_rsp_accept
  BY DEF Free, dm_req_done, dm_rsp_accept
<1>3. \A q \in Ports : ~dtm_rsp_clr(q)
  BY DEF Free, dtm_rsp_clr
<1>4. ~dm_rsp_done
  BY <1>3 DEF dm_rsp_done, TypeOK
<1>5. ~dm_req_vld' /\ req_rdy' = Ports /\ trans_fsm_q' = "Q_REQ" /\ dtm_src_last' = dtm_src_last
  BY <1>1, <1>2 DEF Cycle, ArbClock, p_dm_req_vld, p_dtm_req_rdy, p_trans_fsm, p_dtm_src_last,
     dtm_req_done, any_accept, Free
<1>6. dm_rsp_rdy' /\ rsp_vld' = {}
  BY <1>2, <1>3, <1>4 DEF Cycle, ArbClock, p_dm_rsp_rdy, p_dtm_rsp_vld, dtm_rsp_accept, Free
<1>7. dm_phase' \in {"stalled", "ready"}
  BY DEF Free, Cycle, DmClock, DmRecover, DmTake, DmFinish, DmHandOver, DmIdle,
         dm_req_rdy, dm_rsp_vld
<1> QED
  BY <1>5, <1>6, <1>7 DEF Free

LEMMA NoAcceptInRsp == ASSUME trans_fsm_q = "Q_RSP" PROVE ~any_accept
BY DEF any_accept, dtm_req_accept, dtm_req_allow

LEMMA SentStep ==
  ASSUME TypeOK, Sent, Cycle
  PROVE  /\ Sent' \/ Executing'
         /\ dtm_src_last' = dtm_src_last /\ dm_req_bits' = dm_req_bits
<1> USE PortFacts
<1>1. \A p \in Ports : ~dtm_req_accept(p)
  BY NoAcceptInRsp DEF any_accept, Sent
<1>2. ~any_accept
  BY <1>1 DEF any_accept
<1>3. ~dm_rsp_accept /\ \A q \in Ports : ~dtm_rsp_clr(q)
  BY DEF Sent, dm_rsp_accept, dm_rsp_vld, dtm_rsp_clr
<1>4. ~dm_rsp_done
  BY <1>3 DEF dm_rsp_done, TypeOK
<1>5. dm_rsp_rdy' /\ rsp_vld' = {} /\ trans_fsm_q' = "Q_RSP"
  BY <1>2, <1>3, <1>4 DEF Cycle, ArbClock, p_dm_rsp_rdy, p_dtm_rsp_vld, dtm_rsp_accept,
     p_trans_fsm, Sent
<1>6. dtm_src_last' = dtm_src_last /\ dm_req_bits' = dm_req_bits
  BY <1>1, <1>2 DEF Cycle, ArbClock, p_dtm_src_last, p_dm_req_bits, Ports
<1>7. CASE dm_req_rdy
  <2>1. dm_req_done
    BY <1>7 DEF dm_req_done, Sent
  <2>2. ~dm_req_vld'
    BY <2>1, <1>2 DEF Cycle, ArbClock, p_dm_req_vld
  <2>3. req_rdy' = Ports
    BY <2>1, <1>1 DEF Cycle, ArbClock, p_dtm_req_rdy, dtm_req_done
  <2>4. dm_cur' = dm_req_bits /\ dm_phase' \in {"working", "answered"}
    BY <1>7 DEF Sent, Cycle, DmClock, DmRecover, DmTake, DmFinish, DmHandOver, DmIdle,
       dm_req_rdy, dm_rsp_vld
  <2> QED
    BY <1>5, <1>6, <2>2, <2>3, <2>4 DEF Executing, Sent
<1>8. CASE ~dm_req_rdy
  <2>1. ~dm_req_done
    BY <1>8 DEF dm_req_done
  <2>2. dm_req_vld'
    BY <2>1, <1>2 DEF Cycle, ArbClock, p_dm_req_vld, Sent
  <2>3. req_rdy' = {Other(dtm_src_last')}
    BY <2>1, <1>1, <1>6 DEF Cycle, ArbClock, p_dtm_req_rdy, dtm_req_done, Sent, TypeOK
  <2>4. dm_phase' \in {"stalled", "ready"}
    BY <1>8 DEF Sent, Cycle, DmClock, DmRecover, DmTake, DmFinish, DmHandOver, DmIdle,
       dm_req_rdy, dm_rsp_vld
  <2> QED
    BY <1>5, <1>6, <2>2, <2>3, <2>4 DEF Sent, Other
<1> QED
  BY <1>7, <1>8

LEMMA ExecutingStep ==
  ASSUME TypeOK, Executing, Cycle
  PROVE  /\ Executing' \/ Answered'
         /\ dtm_src_last' = dtm_src_last /\ dm_req_bits' = dm_req_bits
<1> USE PortFacts
<1>1. \A p \in Ports : ~dtm_req_accept(p)
  BY NoAcceptInRsp DEF any_accept, Executing
<1>2. ~any_accept /\ ~dm_req_done
  BY <1>1 DEF any_accept, dm_req_done, Executing
<1>3. \A q \in Ports : ~dtm_rsp_clr(q)
  BY DEF Executing, dtm_rsp_clr
<1>4. ~dm_rsp_done
  BY <1>3 DEF dm_rsp_done, TypeOK
<1>5. ~dm_req_vld' /\ req_rdy' = Ports /\ trans_fsm_q' = "Q_RSP"
  BY <1>1, <1>2, <1>4 DEF Cycle, ArbClock, p_dm_req_vld, p_dtm_req_rdy, dtm_req_done,
     p_trans_fsm, Executing
<1>6. dtm_src_last' = dtm_src_last /\ dm_req_bits' = dm_req_bits
  BY <1>1, <1>2 DEF Cycle, ArbClock, p_dtm_src_last, p_dm_req_bits, Ports
<1>7. CASE dm_rsp_vld
  <2>1. dm_rsp_accept
    BY <1>7 DEF dm_rsp_accept, Executing
  <2>2. ~dm_rsp_rdy' /\ dtm_rsp_bits' = dm_req_bits
    BY <2>1, <1>4 DEF Cycle, ArbClock, p_dm_rsp_rdy, p_dtm_rsp_bits, Executing
  <2>3. rsp_vld' = {dtm_src_last}
    BY <2>1, <1>3 DEF Cycle, ArbClock, p_dtm_rsp_vld, dtm_rsp_accept, Executing, TypeOK
  <2>4. dm_phase' \in {"stalled", "ready"}
    BY <1>7 DEF Executing, Cycle, DmClock, DmRecover, DmTake, DmFinish, DmHandOver, DmIdle,
       dm_req_rdy, dm_rsp_vld
  <2> QED
    BY <1>5, <1>6, <2>2, <2>3, <2>4 DEF Answered, Executing
<1>8. CASE ~dm_rsp_vld
  <2>1. ~dm_rsp_accept
    BY <1>8 DEF dm_rsp_accept
  <2>2. dm_rsp_rdy' /\ rsp_vld' = {}
    BY <2>1, <1>3, <1>4 DEF Cycle, ArbClock, p_dm_rsp_rdy, p_dtm_rsp_vld, dtm_rsp_accept,
       Executing
  <2>3. dm_phase' \in {"working", "answered"} /\ dm_cur' = dm_cur
    BY <1>8 DEF Executing, Cycle, DmClock, DmRecover, DmTake, DmFinish, DmHandOver, DmIdle,
       dm_req_rdy, dm_rsp_vld
  <2> QED
    BY <1>5, <1>6, <2>2, <2>3 DEF Executing
<1> QED
  BY <1>7, <1>8

LEMMA AnsweredStep ==
  ASSUME TypeOK, Answered, Cycle
  PROVE  /\ IF dtm_src_last \in rsp_rdy THEN Free' ELSE Answered'
         /\ dtm_src_last' = dtm_src_last /\ dm_req_bits' = dm_req_bits
<1> USE PortFacts
<1>1. \A p \in Ports : ~dtm_req_accept(p)
  BY NoAcceptInRsp DEF any_accept, Answered
<1>2. ~any_accept /\ ~dm_req_done /\ ~dm_rsp_accept
  BY <1>1 DEF any_accept, dm_req_done, dm_rsp_accept, Answered
<1>3. dtm_src_last' = dtm_src_last /\ dm_req_bits' = dm_req_bits /\ dtm_rsp_bits' = dtm_rsp_bits
  BY <1>1, <1>2 DEF Cycle, ArbClock, p_dtm_src_last, p_dm_req_bits, p_dtm_rsp_bits, Ports
<1>4. ~dm_req_vld' /\ req_rdy' = Ports
  BY <1>1, <1>2 DEF Cycle, ArbClock, p_dm_req_vld, p_dtm_req_rdy, dtm_req_done, Answered
<1>5. dm_phase' \in {"stalled", "ready"}
  BY DEF Answered, Cycle, DmClock, DmRecover, DmTake, DmFinish, DmHandOver, DmIdle,
     dm_req_rdy, dm_rsp_vld
<1>6. dm_rsp_done <=> dtm_src_last \in rsp_rdy
  BY DEF dm_rsp_done, dtm_rsp_clr, Answered
<1>7. CASE dtm_src_last \in rsp_rdy
  <2>1. dm_rsp_rdy' /\ trans_fsm_q' = "Q_REQ"
    BY <1>2, <1>6, <1>7 DEF Cycle, ArbClock, p_dm_rsp_rdy, p_trans_fsm, Answered
  <2>2. rsp_vld' = {}
    BY <1>2, <1>7 DEF Cycle, ArbClock, p_dtm_rsp_vld, dtm_rsp_accept, dtm_rsp_clr, Answered
  <2> QED
    BY <1>3, <1>4, <1>5, <1>7, <2>1, <2>2 DEF Free
<1>8. CASE dtm_src_last \notin rsp_rdy
  <2>1. ~dm_rsp_rdy' /\ trans_fsm_q' = "Q_RSP"
    BY <1>2, <1>6, <1>8 DEF Cycle, ArbClock, p_dm_rsp_rdy, p_trans_fsm, Answered
  <2>2. rsp_vld' = {dtm_src_last'}
    BY <1>2, <1>3, <1>8 DEF Cycle, ArbClock, p_dtm_rsp_vld, dtm_rsp_accept, dtm_rsp_clr,
       Answered, TypeOK
  <2> QED
    BY <1>3, <1>4, <1>5, <1>8, <2>1, <2>2 DEF Answered
<1> QED
  BY <1>7, <1>8

--------------------------------------------------------------------------------
\* The invariants

LEMMA IInvInit == Init => IInv
<1> SUFFICES ASSUME Init PROVE IInv
  OBVIOUS
<1>1. TypeOK
  BY DEF Init, ArbInit, DmInit, TypeOK, DmTypeOK, DmPhases, Ports
<1>2. Free
  BY DEF Init, ArbInit, DmInit, Free
<1> QED
  BY <1>1, <1>2 DEF IInv, PhaseInv

LEMMA ResetInv == ASSUME Reset PROVE IInv' /\ Free'
<1>1. TypeOK'
  BY DEF Reset, ArbReset, DmReset, AnyWires, TypeOK, DmTypeOK, DmPhases, WiresOK, Ports
<1>2. Free'
  BY DEF Reset, ArbReset, DmReset, Free
<1> QED
  BY <1>1, <1>2 DEF IInv, PhaseInv

LEMMA IInvNext == IInv /\ [Next]_vars => IInv'
<1> SUFFICES ASSUME IInv, [Next]_vars PROVE IInv'
  OBVIOUS
<1>1. CASE Cycle
  <2>1. TypeOK'
    BY <1>1, CycleTyped DEF IInv
  <2>2. CASE Free
    BY <1>1, <2>1, <2>2, AcceptedNext, FreeStays DEF IInv, PhaseInv, any_accept
  <2>3. CASE Sent
    BY <1>1, <2>1, <2>3, SentStep DEF IInv, PhaseInv
  <2>4. CASE Executing
    BY <1>1, <2>1, <2>4, ExecutingStep DEF IInv, PhaseInv
  <2>5. CASE Answered
    BY <1>1, <2>1, <2>5, AnsweredStep DEF IInv, PhaseInv
  <2> QED
    BY <2>2, <2>3, <2>4, <2>5 DEF IInv, PhaseInv
<1>2. CASE Reset
  BY <1>2, ResetInv
<1>3. CASE UNCHANGED vars
  BY <1>3 DEF vars, flops, wires, IInv, TypeOK, DmTypeOK, WiresOK, PhaseInv, Free, Sent,
     Executing, Answered
<1> QED
  BY <1>1, <1>2, <1>3 DEF Next

LEMMA Invariance == Spec => []IInv
BY IInvInit, IInvNext, PTL DEF Spec

\* Every flop of the arbiter keeps its type under every input.
THEOREM TypeCorrect == Spec => []TypeOK
<1>1. IInv => TypeOK
  BY DEF IInv
<1> QED
  BY <1>1, Invariance, PTL

\* The handshake flops always agree on one phase of one transaction, and the
\* answer is shown to the port whose request was sent (PhaseInv).
THEOREM PhasesAgree == Spec => []PhaseInv
<1>1. IInv => PhaseInv
  BY DEF IInv
<1> QED
  BY <1>1, Invariance, PTL

\* The assertion at line 299 of rtl/dmi_arbiter.sv can never fire.
THEOREM NeverBoth == Spec => []OneAccepted
<1>1. TypeOK => OneAccepted
  BY DEF TypeOK, OneAccepted, dtm_req_accept, dtm_req_allow, Other
<1> QED
  BY <1>1, TypeCorrect, PTL

\* A request shown to the DM stays, with the same word, until it is taken.
THEOREM RequestIsHeld == Spec => RequestHeld
<1>1. ASSUME IInv, Cycle, dm_req_vld, ~dm_req_rdy
      PROVE  dm_req_vld' /\ dm_req_bits' = dm_req_bits
  <2>1. Sent
    BY <1>1 DEF IInv, PhaseInv, Free, Executing, Answered
  <2>2. ~any_accept /\ ~dm_req_done
    BY <1>1, <2>1, NoAcceptInRsp DEF Sent, dm_req_done
  <2>3. dm_req_vld'
    BY <1>1, <2>2 DEF Cycle, ArbClock, p_dm_req_vld
  <2> QED
    BY <1>1, <2>1, <2>3, SentStep DEF IInv
<1>2. IInv /\ [Next]_vars =>
        [(Cycle /\ dm_req_vld /\ ~dm_req_rdy) =>
           (dm_req_vld' /\ dm_req_bits' = dm_req_bits)]_vars
  BY <1>1
<1> QED
  BY <1>2, Invariance, PTL DEF Spec, RequestHeld

\* The word a port is accepted with is executed for it, the answer to that word is
\* shown to that port and to no other, and it stays until it is taken.
THEOREM AnswerIsHeld == Spec => AnswerHeld
<1>1. ASSUME IInv, Cycle, NEW p \in Ports, dtm_req_accept(p)
      PROVE  dtm_src_last' = p /\ dm_req_bits' = req_bits[p]
  <2>1. Free
    BY <1>1 DEF IInv, PhaseInv, Sent, Executing, Answered, dtm_req_accept, dtm_req_allow
  <2> QED
    BY <1>1, <2>1, AcceptedNext DEF IInv
<1>2. ASSUME IInv, Cycle, trans_fsm_q = "Q_RSP"
      PROVE  dtm_src_last' = dtm_src_last /\ dm_req_bits' = dm_req_bits
  BY <1>2, SentStep, ExecutingStep, AnsweredStep DEF IInv, PhaseInv, Free
<1>3. ASSUME IInv, Cycle, NEW p \in Ports, p \in rsp_vld'
      PROVE  p = dtm_src_last' /\ dtm_rsp_bits' = dm_req_bits'
  <2>1. IInv'
    BY <1>3, IInvNext DEF Next
  <2> QED
    BY <1>3, <2>1 DEF IInv, PhaseInv, Free, Sent, Executing, Answered
<1>4. ASSUME IInv, Cycle, NEW p \in Ports, p \in rsp_vld, p \notin rsp_rdy
      PROVE  p \in rsp_vld'
  <2>1. Answered /\ p = dtm_src_last
    BY <1>4 DEF IInv, PhaseInv, Free, Sent, Executing, Answered
  <2>2. Answered' /\ dtm_src_last' = dtm_src_last
    BY <1>4, <2>1, AnsweredStep DEF IInv
  <2> QED
    BY <2>1, <2>2 DEF Answered
<1>5. IInv /\ [Next]_vars =>
        [Cycle => \A p \in Ports :
           /\ dtm_req_accept(p) => dtm_src_last' = p /\ dm_req_bits' = req_bits[p]
           /\ trans_fsm_q = "Q_RSP" => dtm_src_last' = dtm_src_last /\ dm_req_bits' = dm_req_bits
           /\ p \in rsp_vld' => p = dtm_src_last' /\ dtm_rsp_bits' = dm_req_bits'
           /\ p \in rsp_vld /\ p \notin rsp_rdy => p \in rsp_vld']_vars
  BY <1>1, <1>2, <1>3, <1>4
<1> QED
  BY <1>5, Invariance, PTL DEF Spec, AnswerHeld

\* The arbitration is fair: a port accepted while the other one asks was not
\* the one accepted before.
THEOREM Fair == Spec => TakesTurns
<1>1. ASSUME IInv, Cycle, NEW p \in Ports, dtm_req_accept(p), Other(p) \in req_vld
      PROVE  dtm_src_last = Other(p) /\ dtm_src_last' = p
  <2>1. Free
    BY <1>1 DEF IInv, PhaseInv, Sent, Executing, Answered, dtm_req_accept, dtm_req_allow
  <2>2. dtm_src_last' = p
    BY <1>1, <2>1, AcceptedNext DEF IInv
  <2> QED
    BY <1>1, <2>2 DEF dtm_req_accept, dtm_req_allow
<1>2. IInv /\ [Next]_vars =>
        [\A p \in Ports : (Cycle /\ dtm_req_accept(p) /\ Other(p) \in req_vld) =>
            (dtm_src_last = Other(p) /\ dtm_src_last' = p)]_vars
  BY <1>1
<1> QED
  BY <1>2, Invariance, PTL DEF Spec, TakesTurns

--------------------------------------------------------------------------------
(* The refinement: under the mapping of DmiArbiter, every cycle is one step of *)
(* DmiSerializer or a stutter.                                                 *)

\* The abstract state as it reads in each phase.
shown == [p \in Ports |-> IF p \in rsp_vld THEN dtm_rsp_bits ELSE None]
running == IF serial_phase \in {"sent", "executing"} THEN dm_req_bits ELSE None

LEMMA PhaseNames ==
  /\ Free => serial_phase = "free" /\ running = None /\ shown = [p \in Ports |-> None]
  /\ Sent => serial_phase = "sent" /\ running = dm_req_bits /\ shown = [p \in Ports |-> None]
  /\ Executing => /\ serial_phase = "executing" /\ running = dm_req_bits
                  /\ shown = [p \in Ports |-> None]
  /\ Answered =>
       /\ serial_phase = "answered" /\ running = None
       /\ shown = [p \in Ports |-> IF p = dtm_src_last THEN dm_req_bits ELSE None]
BY DEF Free, Sent, Executing, Answered, serial_phase, running, shown

LEMMA PhaseNamesNext ==
  /\ Free' => serial_phase' = "free" /\ running' = None /\ shown' = [p \in Ports |-> None]
  /\ Sent' => serial_phase' = "sent" /\ running' = dm_req_bits' /\ shown' = [p \in Ports |-> None]
  /\ Executing' => /\ serial_phase' = "executing" /\ running' = dm_req_bits'
                   /\ shown' = [p \in Ports |-> None]
  /\ Answered' =>
       /\ serial_phase' = "answered" /\ running' = None
       /\ shown' = [p \in Ports |-> IF p = dtm_src_last' THEN dm_req_bits' ELSE None]
BY DEF Free, Sent, Executing, Answered, serial_phase, running, shown

LEMMA StepMaps ==
  ASSUME IInv, [Next]_vars
  PROVE  [Serializer!Step]_(Serializer!svars)
<1> USE PhaseNames, PhaseNamesNext
<1>1. CASE Cycle
  <2>1. CASE Free /\ any_accept
    <3>1. PICK p \in Ports : dtm_req_accept(p)
      BY <2>1 DEF any_accept
    <3>2. Sent' /\ dtm_src_last' = p /\ dm_req_bits' = req_bits[p]
      BY <1>1, <2>1, <3>1, AcceptedNext DEF IInv
    <3>3. Other(p) \in req_vld => dtm_src_last # p
      BY <3>1, PortFacts DEF dtm_req_accept, dtm_req_allow
    <3>4. Serializer!Accept(p)
      BY <2>1, <3>1, <3>2, <3>3 DEF Serializer!Accept, Serializer!Other, Other, shown, running,
         dtm_req_accept
    <3> QED
      BY <3>4 DEF Serializer!Step, Serializer!Ports, Ports
  <2>2. CASE Free /\ ~any_accept
    <3>1. Free' /\ dtm_src_last' = dtm_src_last
      BY <1>1, <2>2, FreeStays DEF IInv
    <3> QED
      BY <2>2, <3>1 DEF Serializer!svars, shown, running
  <2>3. CASE Sent
    <3>1. (Sent' \/ Executing') /\ dtm_src_last' = dtm_src_last /\ dm_req_bits' = dm_req_bits
      BY <1>1, <2>3, SentStep DEF IInv
    <3>2. CASE Sent'
      BY <2>3, <3>1, <3>2 DEF Serializer!svars, shown, running
    <3>3. CASE Executing'
      <4>1. Serializer!Execute
        BY <2>3, <3>1, <3>3 DEF Serializer!Execute, shown, running
      <4> QED
        BY <4>1 DEF Serializer!Step
    <3> QED
      BY <3>1, <3>2, <3>3
  <2>4. CASE Executing
    <3>1. (Executing' \/ Answered') /\ dtm_src_last' = dtm_src_last /\ dm_req_bits' = dm_req_bits
      BY <1>1, <2>4, ExecutingStep DEF IInv
    <3>2. CASE Executing'
      BY <2>4, <3>1, <3>2 DEF Serializer!svars, shown, running
    <3>3. CASE Answered'
      <4>1. shown' = [shown EXCEPT ![dtm_src_last] = running]
        BY <2>4, <3>1, <3>3
      <4>2. Serializer!Answer
        BY <2>4, <3>1, <3>3, <4>1 DEF Serializer!Answer, shown, running
      <4> QED
        BY <4>2 DEF Serializer!Step
    <3> QED
      BY <3>1, <3>2, <3>3
  <2>5. CASE Answered
    <3>1. /\ IF dtm_src_last \in rsp_rdy THEN Free' ELSE Answered'
          /\ dtm_src_last' = dtm_src_last /\ dm_req_bits' = dm_req_bits
      BY <1>1, <2>5, AnsweredStep DEF IInv
    <3>2. CASE dtm_src_last \notin rsp_rdy
      BY <2>5, <3>1, <3>2 DEF Serializer!svars, shown, running
    <3>3. CASE dtm_src_last \in rsp_rdy
      <4>1. shown' = [shown EXCEPT ![dtm_src_last] = None]
        BY <2>5, <3>1, <3>3
      <4>2. Serializer!Deliver
        BY <2>5, <3>1, <3>3, <4>1 DEF Serializer!Deliver, shown, running
      <4> QED
        BY <4>2 DEF Serializer!Step
    <3> QED
      BY <3>2, <3>3
  <2> QED
    BY <2>1, <2>2, <2>3, <2>4, <2>5 DEF IInv, PhaseInv
<1>2. CASE Reset
  <2>1. Free' /\ dtm_src_last' = 0
    BY <1>2, ResetInv DEF Reset, ArbReset
  <2>2. Serializer!Reset
    BY <2>1 DEF Serializer!Reset, Serializer!Ports, Ports, shown, running
  <2> QED
    BY <2>2 DEF Serializer!Step
<1>3. CASE UNCHANGED vars
  BY <1>3 DEF vars, flops, Serializer!svars, serial_phase
<1> QED
  BY <1>1, <1>2, <1>3 DEF Next

\* The arbiter runs the transactions of the two ports one at a time, in the
\* promised order, and each port gets the answer to its own request.
THEOREM Implements == Spec => Serializes
<1>1. Init => Serializer!Init
  <2> SUFFICES ASSUME Init PROVE Serializer!Init
    OBVIOUS
  <2>1. Free /\ dtm_src_last = 0
    BY DEF Init, ArbInit, DmInit, Free
  <2> QED
    BY <2>1, PhaseNames DEF Serializer!Init, Serializer!Ports, Ports, shown, running
<1>2. IInv /\ [Next]_vars => [Serializer!Step]_(Serializer!svars)
  BY StepMaps
<1> QED
  BY <1>1, <1>2, Invariance, PTL DEF Spec, Serializes, Serializer!Spec
================================================================================
