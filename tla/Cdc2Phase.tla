------------------------------- MODULE Cdc2Phase -------------------------------
(***************************************************************************)
(* rtl/pulp/cdc_2phase.sv: the crossing of a word between the JTAG clock   *)
(* and the system clock.  The two clocks tick in any order; a synchroniser *)
(* that samples a line while it changes sees the old or the new level,     *)
(* which is one of the two orders of the two edges.                        *)
(***************************************************************************)
EXTENDS Naturals, Sequences

CONSTANTS Items,    \* the words
          ZeroItem  \* the word the data registers are reset to

VARIABLES req_src_q, ack_src_q, ack_q, data_src_q,            \* source clock
          req_dst_q, req_q0, req_q1, ack_dst_q, data_dst_q    \* destination clock

srcVars == <<req_src_q, ack_src_q, ack_q, data_src_q>>
dstVars == <<req_dst_q, req_q0, req_q1, ack_dst_q, data_dst_q>>
vars == <<req_src_q, ack_src_q, ack_q, data_src_q,
          req_dst_q, req_q0, req_q1, ack_dst_q, data_dst_q>>

--------------------------------------------------------------------------------
ready_o == req_src_q = ack_q
valid_o == ack_dst_q # req_q1

\* The destination stores the word when the request passes its second stage.
captures == req_q0 # req_q1 /\ ~valid_o

sends(valid_i) == valid_i /\ ready_o

\* Mutant: the receiver's ready has the wrong polarity.
takes_Inverted(ready_i) == valid_o /\ ~ready_i

takes(ready_i) == valid_o /\ ready_i

Toggle(bit) == 1 - bit

Init ==
  /\ req_src_q = 0 /\ ack_src_q = 0 /\ ack_q = 0
  /\ req_dst_q = 0 /\ req_q0 = 0 /\ req_q1 = 0 /\ ack_dst_q = 0
  /\ data_src_q = ZeroItem /\ data_dst_q = ZeroItem

\* A rising edge of src_clk_i.
SrcEdge(valid_i, data_i) ==
  /\ req_src_q' = IF sends(valid_i) THEN Toggle(req_src_q) ELSE req_src_q
  /\ data_src_q' = IF sends(valid_i) THEN data_i ELSE data_src_q
  /\ ack_src_q' = ack_dst_q
  /\ ack_q' = ack_src_q
  /\ UNCHANGED dstVars

\* A rising edge of dst_clk_i.
DstEdge(ready_i) ==
  /\ ack_dst_q' = IF takes(ready_i) THEN Toggle(ack_dst_q) ELSE ack_dst_q
  /\ data_dst_q' = IF captures THEN data_src_q ELSE data_dst_q
  /\ req_dst_q' = req_src_q
  /\ req_q0' = req_dst_q
  /\ req_q1' = req_q0
  /\ UNCHANGED srcVars

\* Both resets at once; one alone would leave the two phases apart.
Reset ==
  /\ req_src_q' = 0 /\ ack_src_q' = 0 /\ ack_q' = 0
  /\ req_dst_q' = 0 /\ req_q0' = 0 /\ req_q1' = 0 /\ ack_dst_q' = 0
  /\ data_src_q' = ZeroItem /\ data_dst_q' = ZeroItem

SrcTick == \E valid_i \in BOOLEAN, data_i \in Items : SrcEdge(valid_i, data_i)
DstTick == \E ready_i \in BOOLEAN : DstEdge(ready_i)

Next == SrcTick \/ DstTick \/ Reset

Spec == Init /\ [][Next]_vars

\* Both clocks run, whether or not the sender has a word, and the receiver takes
\* the word it is shown some time.
\* Without a reset: one drops the word, and starts again from Init.
FairSpec == Init /\ [][SrcTick \/ DstTick]_vars
            /\ WF_vars(SrcEdge(FALSE, ZeroItem)) /\ WF_vars(DstEdge(TRUE))

--------------------------------------------------------------------------------
TypeOK ==
  /\ req_src_q \in {0, 1} /\ ack_src_q \in {0, 1} /\ ack_q \in {0, 1}
  /\ req_dst_q \in {0, 1} /\ req_q0 \in {0, 1} /\ req_q1 \in {0, 1} /\ ack_dst_q \in {0, 1}
  /\ data_src_q \in Items /\ data_dst_q \in Items

\* The seven phase bits in the order a change travels: at most one of the six
\* steps between neighbours is a change under way.
phases == <<req_src_q, req_dst_q, req_q0, req_q1, ack_dst_q, ack_src_q, ack_q>>

OneChange ==
  \A i, j \in 1 .. 6 : phases[i] # phases[i + 1] /\ phases[j] # phases[j + 1] => i = j

\* The word in flight: sent and not yet taken.
channel == IF req_src_q # ack_dst_q THEN <<data_src_q>> ELSE <<>>

\* The data lines are not synchronised: when the destination samples them, the
\* source must not be able to change them at that very edge.
CaptureSafe == captures => ~ready_o

\* A word shown to the receiver is the one word in flight, and the sender is
\* offered room only when none is.
OutputsAgree ==
  /\ valid_o => channel = <<data_dst_q>>
  /\ ready_o => channel = <<>>

Fifo == INSTANCE BoundedFifo WITH
  Depth <- 1, FALL_THROUGH <- FALSE, POP_MAKES_ROOM <- FALSE, q <- channel

\* An edge of the source clock enters exactly the word it offers when ready, one
\* of the destination clock takes exactly the word it is shown.
Follows ==
  /\ \A valid_i \in BOOLEAN, data_i \in Items :
       SrcEdge(valid_i, data_i) => Fifo!Cycle(sends(valid_i), data_i, FALSE)
  /\ \A ready_i \in BOOLEAN, none \in Items :
       DstEdge(ready_i) => Fifo!Cycle(FALSE, none, takes(ready_i))
  /\ Reset => Fifo!Flush

\* Every word sent is received once, in order, whatever the two clocks do.
Crosses == Fifo!Spec /\ [][Follows]_vars

\* A word sent is shown to the receiver, and the sender can send again.
Arrives == channel # <<>> ~> valid_o
Reopens == ~ready_o ~> ready_o
================================================================================
