----------------------------- MODULE SirvPipeStage -----------------------------
(***************************************************************************)
(* rtl/perips/sirv_gnrl_pipe_stage.sv with DP > 0: one register with a     *)
(* valid flag, the queue the ICB arbiters and splitters use when they      *)
(* allow a single outstanding transaction.                                 *)
(***************************************************************************)
EXTENDS Naturals, Sequences

CONSTANTS Items, CUT_READY

VARIABLES vld_r, o_dat

vars == <<vld_r, o_dat>>

--------------------------------------------------------------------------------
o_vld == vld_r

\* With CUT_READY the producer does not see the consumer.
i_rdy(o_rdy) == ~vld_r \/ (~CUT_READY /\ o_vld /\ o_rdy)

vld_nxt(vld_set, vld_clr) == IF vld_set \/ vld_clr THEN vld_set \/ ~vld_clr ELSE vld_r

Init == vld_r = FALSE /\ o_dat \in Items

Reset == vld_r' = FALSE /\ UNCHANGED o_dat

\* One rising edge of clk.
Cycle(i_vld, i_dat, o_rdy) ==
  LET vld_set == i_vld /\ i_rdy(o_rdy)
      vld_clr == o_vld /\ o_rdy
  IN  /\ vld_r' = vld_nxt(vld_set, vld_clr)
      /\ o_dat' = IF vld_set THEN i_dat ELSE o_dat

Next ==
  \/ \E i_vld, o_rdy \in BOOLEAN, i_dat \in Items : Cycle(i_vld, i_dat, o_rdy)
  \/ Reset

Spec == Init /\ [][Next]_vars

--------------------------------------------------------------------------------
\* The abstract queue of one.
queue == IF vld_r THEN <<o_dat>> ELSE <<>>

Fifo == INSTANCE BoundedFifo WITH
  Depth <- 1, FALL_THROUGH <- FALSE, POP_MAKES_ROOM <- ~CUT_READY, q <- queue

\* A clock edge does to the abstract queue what its inputs ask for; only the
\* reset, never a cycle, drops the item.
Follows ==
  /\ \A i_vld, o_rdy \in BOOLEAN, i_dat \in Items :
       Cycle(i_vld, i_dat, o_rdy) => Fifo!Cycle(i_vld, i_dat, o_rdy)
  /\ Reset => Fifo!Flush

\* The stage is a queue of one that lets an item in while one leaves unless its
\* ready is cut; nothing is lost when both happen in one cycle.
Queues == Fifo!Spec /\ [][Follows]_vars
================================================================================
