----------------------------- MODULE DmiSerializer -----------------------------
(***************************************************************************)
(* What the DMI arbiter promises: DBus transactions of two DTMs are run    *)
(* one at a time.  A transaction takes the request a port shows, sends     *)
(* exactly that request to the DM, shows the DM's answer to that request   *)
(* on the same port and on no other, and ends when the port takes it; only *)
(* then may the next one start.  When both ports ask, the one served       *)
(* last waits.                                                             *)
(***************************************************************************)
EXTENDS Naturals

CONSTANTS Req, None

VARIABLES
  req_vld,   \* interface: the ports that show a request
  req_bits,  \* interface: the word on each port
  rsp_rdy,   \* interface: the ports ready for a response
  offer,     \* interface: the answer shown on each port, None if there is none
  phase,     \* of the running transaction
  owner,     \* the port of the running, or else of the latest, transaction
  cur        \* the request of the running transaction

svars == <<offer, phase, owner, cur>>

Ports == {0, 1}
Other(p) == 1 - p

Init ==
  /\ offer = [p \in Ports |-> None]
  /\ phase = "free"
  /\ owner = 0
  /\ cur = None

Accept(p) ==
  /\ phase = "free"
  /\ p \in req_vld
  /\ Other(p) \in req_vld => owner # p
  /\ phase' = "sent"
  /\ owner' = p
  /\ cur' = req_bits[p]
  /\ UNCHANGED offer

\* The DM takes the request.
Execute ==
  /\ phase = "sent"
  /\ phase' = "executing"
  /\ UNCHANGED <<offer, owner, cur>>

\* The DM's answer reaches the port the request came from.
Answer ==
  /\ phase = "executing"
  /\ phase' = "answered"
  /\ offer' = [offer EXCEPT ![owner] = cur]
  /\ cur' = None
  /\ UNCHANGED owner

Deliver ==
  /\ phase = "answered"
  /\ owner \in rsp_rdy
  /\ phase' = "free"
  /\ offer' = [offer EXCEPT ![owner] = None]
  /\ UNCHANGED <<owner, cur>>

\* The reset of the debug transport drops whatever is running.
Reset ==
  /\ offer' = [p \in Ports |-> None]
  /\ phase' = "free"
  /\ owner' = 0
  /\ cur' = None

Step == (\E p \in Ports : Accept(p)) \/ Execute \/ Answer \/ Deliver \/ Reset

\* The interface wires may do anything; the serializer reads their old values.
Spec == Init /\ [][Step]_svars
================================================================================
