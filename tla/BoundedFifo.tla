------------------------------ MODULE BoundedFifo ------------------------------
(***************************************************************************)
(* What every queue of the SoC promises: items leave in the order they     *)
(* entered, none is lost, duplicated or made up, at most Depth are held.   *)
(* The queues of the RTL (one-hot pointers, wrapping pointers, a counter,  *)
(* a register with a valid flag, a clock domain crossing) implement it.    *)
(***************************************************************************)
EXTENDS Naturals, Sequences

CONSTANTS Items,          \* what can be stored
          Depth,          \* how many can be stored
          FALL_THROUGH,   \* an item offered to an empty queue shows at once
          POP_MAKES_ROOM  \* a full queue accepts an item while one leaves

VARIABLE q

in_rdy(out_rdy) == Len(q) < Depth \/ (POP_MAKES_ROOM /\ out_rdy)
out_vld(in_vld) == q # <<>> \/ (FALL_THROUGH /\ in_vld)
out_dat(in_dat) == IF q = <<>> THEN in_dat ELSE Head(q)

Init == q = <<>>

\* One clock cycle: the producer offers in_dat when in_vld, the consumer takes
\* the first item when out_rdy.
Cycle(in_vld, in_dat, out_rdy) ==
  LET held == IF in_vld /\ in_rdy(out_rdy) THEN Append(q, in_dat) ELSE q
  IN  q' = IF out_rdy /\ out_vld(in_vld) THEN Tail(held) ELSE held

\* A reset or a flush drops everything.
Flush == q' = <<>>

Next ==
  \/ \E in_vld, out_rdy \in BOOLEAN, in_dat \in Items : Cycle(in_vld, in_dat, out_rdy)
  \/ Flush

Spec == Init /\ [][Next]_q
================================================================================
