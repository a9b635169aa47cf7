------------------------------ MODULE SirvQueue1 -------------------------------
(***************************************************************************)
(* rtl/perips/sirv_queue_1.v: the transmit and receive queues of the UART  *)
(* and of the QSPI controller.  Two pointers and a flag that tells a full  *)
(* queue from an empty one.                                                *)
(***************************************************************************)
EXTENDS Integers, Sequences

CONSTANTS Items,  \* the bytes stored
          Depth   \* 8 in the code: what the 3-bit pointers count to

VARIABLES ram, wptr, rptr, maybe_full

vars == <<ram, wptr, rptr, maybe_full>>

Slots == 0 .. Depth - 1

--------------------------------------------------------------------------------
ptr_match == wptr = rptr
io_enq_ready == ~ptr_match \/ ~maybe_full
io_deq_valid == ~ptr_match \/ maybe_full
io_deq_bits == ram[rptr]

io_count == (IF maybe_full /\ ptr_match THEN Depth ELSE 0) + ((wptr - rptr) % Depth)

\* Mutant: the flag remembers an enqueue and forgets the dequeue after it.
maybe_full_nxt_Any(enqs, deqs) == enqs \/ maybe_full

enq(io_enq_valid) == io_enq_ready /\ io_enq_valid

maybe_full_nxt(enqs, deqs) == IF enqs # deqs THEN enqs ELSE maybe_full

\* The pointers have three bits.
NextPtr(p) == (p + 1) % Depth

\* The memory is not reset.
Init ==
  /\ ram \in [Slots -> Items]
  /\ wptr = 0
  /\ rptr = 0
  /\ maybe_full = FALSE

Reset ==
  /\ wptr' = 0
  /\ rptr' = 0
  /\ maybe_full' = FALSE
  /\ UNCHANGED ram

\* One rising edge of clock.
Cycle(io_enq_valid, io_enq_bits, io_deq_ready) ==
  LET enqs == enq(io_enq_valid)
      deqs == io_deq_ready /\ io_deq_valid
  IN  /\ ram' = IF enqs THEN [ram EXCEPT ![wptr] = io_enq_bits] ELSE ram
      /\ wptr' = IF enqs THEN NextPtr(wptr) ELSE wptr
      /\ rptr' = IF deqs THEN NextPtr(rptr) ELSE rptr
      /\ maybe_full' = maybe_full_nxt(enqs, deqs)

Next ==
  \/ \E io_enq_valid, io_deq_ready \in BOOLEAN, io_enq_bits \in Items :
       Cycle(io_enq_valid, io_enq_bits, io_deq_ready)
  \/ Reset

Spec == Init /\ [][Next]_vars

--------------------------------------------------------------------------------
\* The abstract queue: from the read pointer up to the write pointer.
held == IF ptr_match THEN IF maybe_full THEN Depth ELSE 0
        ELSE IF wptr > rptr THEN wptr - rptr ELSE wptr + Depth - rptr
queue == [i \in 1 .. held |-> ram[(rptr + i - 1) % Depth]]

Fifo == INSTANCE BoundedFifo WITH FALL_THROUGH <- FALSE, POP_MAKES_ROOM <- FALSE, q <- queue

\* The watermark interrupts compare io_count: it is exactly the number of items
\* held, the full queue included.
CountTells == io_count = Len(queue)

\* A clock edge does to the abstract queue what its inputs ask for; only the
\* reset, never a cycle, drops items.
Follows ==
  /\ \A io_enq_valid, io_deq_ready \in BOOLEAN, io_enq_bits \in Items :
       Cycle(io_enq_valid, io_enq_bits, io_deq_ready)
         => Fifo!Cycle(io_enq_valid, io_enq_bits, io_deq_ready)
  /\ Reset => Fifo!Flush

\* First in, first out, nothing lost but what is offered to a full queue.
Queues == Fifo!Spec /\ [][Follows]_vars
================================================================================
