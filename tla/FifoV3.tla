-------------------------------- MODULE FifoV3 ---------------------------------
(***************************************************************************)
(* rtl/pulp/fifo_v3.sv (and fifo_v2.sv, which wraps it): the queue of the  *)
(* debug transport.  Unlike the ICB queue it has binary pointers, a        *)
(* counter, a flush input and an optional fall-through mode.               *)
(***************************************************************************)
EXTENDS Integers, Sequences

CONSTANTS
  Items,
  ZeroItem,      \* what the memory is reset to
  DEPTH,         \* at least one, as line 140 asserts
  FALL_THROUGH   \* a Boolean

VARIABLES read_pointer_q, write_pointer_q, status_cnt_q, mem_q

vars == <<read_pointer_q, write_pointer_q, status_cnt_q, mem_q>>

\* $clog2(DEPTH), at least one bit; the pointers count modulo PtrRange.
ADDR_DEPTH == CHOOSE w \in 1 .. DEPTH : 2 ^ w >= DEPTH /\ (w > 1 => 2 ^ (w - 1) < DEPTH)
PtrRange == 2 ^ ADDR_DEPTH

Slots == 0 .. DEPTH - 1

--------------------------------------------------------------------------------
usage_o == status_cnt_q % PtrRange
full_o == status_cnt_q = DEPTH
empty_o(push_i) == status_cnt_q = 0 /\ ~(FALL_THROUGH /\ push_i)

data_o(push_i, data_i) ==
  IF FALL_THROUGH /\ status_cnt_q = 0 /\ push_i THEN data_i ELSE mem_q[read_pointer_q]

NextPointer(p) == IF p = (DEPTH % PtrRange) - 1 THEN 0 ELSE (p + 1) % PtrRange

NextCount(pushes, pops) ==
  IF pushes = pops THEN status_cnt_q
  ELSE IF pushes THEN status_cnt_q + 1 ELSE status_cnt_q - 1

Init ==
  /\ read_pointer_q = 0
  /\ write_pointer_q = 0
  /\ status_cnt_q = 0
  /\ mem_q = [i \in Slots |-> ZeroItem]

\* One rising edge of clk_i.  An item that falls through is written to the
\* memory and moves no pointer; a flush wins over push and pop, except that the
\* pushed item is still written.
Cycle(push_i, data_i, pop_i, flush_i) ==
  LET pushes  == push_i /\ ~full_o
      pops    == pop_i /\ ~empty_o(push_i)
      through == FALL_THROUGH /\ status_cnt_q = 0 /\ push_i /\ pop_i
  IN  /\ mem_q' = IF pushes THEN [mem_q EXCEPT ![write_pointer_q] = data_i] ELSE mem_q
      /\ IF flush_i
           THEN read_pointer_q' = 0 /\ write_pointer_q' = 0 /\ status_cnt_q' = 0
           ELSE /\ write_pointer_q' = IF pushes /\ ~through THEN NextPointer(write_pointer_q)
                                      ELSE write_pointer_q
                /\ read_pointer_q' = IF pops /\ ~through THEN NextPointer(read_pointer_q)
                                     ELSE read_pointer_q
                /\ status_cnt_q' = NextCount(pushes /\ ~through, pops /\ ~through)

Reset ==
  /\ read_pointer_q' = 0
  /\ write_pointer_q' = 0
  /\ status_cnt_q' = 0
  /\ mem_q' = [i \in Slots |-> ZeroItem]

Next ==
  \/ \E push_i, pop_i, flush_i \in BOOLEAN, data_i \in Items :
       Cycle(push_i, data_i, pop_i, flush_i)
  \/ Reset

Spec == Init /\ [][Next]_vars

--------------------------------------------------------------------------------
\* The abstract queue: status_cnt_q entries from the read pointer on.
queue == [i \in 1 .. status_cnt_q |-> mem_q[(read_pointer_q + i - 1) % DEPTH]]

Fifo == INSTANCE BoundedFifo WITH Depth <- DEPTH, POP_MAKES_ROOM <- FALSE, q <- queue

\* The flags and the data a user sees are those of the abstract queue.
OutputsAgree ==
  \A push_i, pop_i \in BOOLEAN, data_i \in Items :
    /\ full_o <=> ~Fifo!in_rdy(pop_i)
    /\ empty_o(push_i) <=> ~Fifo!out_vld(push_i)
    /\ Fifo!out_vld(push_i) => data_o(push_i, data_i) = Fifo!out_dat(data_i)

\* The counter and the two pointers are separate registers: the usage output
\* ("fill pointer", line 28) is the distance between the pointers, except that a
\* full queue of a power-of-two depth shows 0.
UsageTells == ~full_o => write_pointer_q = (read_pointer_q + usage_o) % DEPTH

\* A clock edge does to the abstract queue what its inputs ask for; only a
\* flush or a reset drops items.
Follows ==
  /\ \A push_i, pop_i \in BOOLEAN, data_i \in Items :
       /\ Cycle(push_i, data_i, pop_i, FALSE) => Fifo!Cycle(push_i, data_i, pop_i)
       /\ Cycle(push_i, data_i, pop_i, TRUE) => Fifo!Flush
  /\ Reset => Fifo!Flush

\* First in, first out, nothing lost, for pushes and pops at any time: a push
\* into a full queue and a pop from an empty one do nothing.
Queues == Fifo!Spec /\ [][Follows]_vars
================================================================================
