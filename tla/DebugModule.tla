------------------------------ MODULE DebugModule ------------------------------
(***************************************************************************)
(* The RISC-V Debug Module behind the DMI.  It is the external core dm_top *)
(* (rtl/zr_coreplex.sv instantiates it and lists its ports); what is       *)
(* modelled is the ready/valid protocol src/ relies on: one request is     *)
(* taken, and exactly one response is offered for it, no earlier than the  *)
(* following cycle and held until it is taken.  The data of a response is  *)
(* represented by the request it answers.                                  *)
(***************************************************************************)
CONSTANTS
  Req,       \* the request words a DTM can send
  None,      \* no word
  SLOW_DM    \* TRUE: the DM may stall a request and may take its time to
             \* answer; FALSE: it is always ready and answers in one cycle

ASSUME NoneAssumption == None \notin Req
ASSUME SlowAssumption == SLOW_DM \in BOOLEAN

VARIABLES
  dm_phase,  \* what the DM is doing
  dm_cur     \* the request it works on

DmPhases == {"stalled", "ready", "working", "answered"}

DmTypeOK ==
  /\ dm_phase \in DmPhases
  /\ dm_cur \in Req \cup {None}

DmInit ==
  /\ dm_phase = "ready"
  /\ dm_cur = None

DmReset ==
  /\ dm_phase' = "ready"
  /\ dm_cur' = None

\* The DM's output wires.
dm_req_rdy == dm_phase = "ready"
dm_rsp_vld == dm_phase = "answered"

DmRecover ==
  /\ dm_phase = "stalled"
  /\ dm_phase' = "ready"
  /\ UNCHANGED dm_cur

DmTake(vld, bits) ==
  /\ dm_req_rdy /\ vld
  /\ dm_cur' = bits
  /\ dm_phase' \in IF SLOW_DM THEN {"working", "answered"} ELSE {"answered"}

DmFinish ==
  /\ dm_phase = "working"
  /\ dm_phase' = "answered"
  /\ UNCHANGED dm_cur

DmHandOver(rdy) ==
  /\ dm_rsp_vld /\ rdy
  /\ dm_cur' = None
  /\ dm_phase' \in IF SLOW_DM THEN {"stalled", "ready"} ELSE {"ready"}

\* A cycle in which nothing can move, or in which a slow DM chooses not to.
DmIdle(vld, rdy) ==
  /\ dm_req_rdy => ~vld
  /\ dm_rsp_vld => ~rdy
  /\ UNCHANGED <<dm_phase, dm_cur>>

\* One clock cycle of the DM, given the request wires and its response ready.
DmClock(vld, bits, rdy) ==
  \/ DmRecover
  \/ DmTake(vld, bits)
  \/ DmFinish
  \/ DmHandOver(rdy)
  \/ DmIdle(vld, rdy)
================================================================================
