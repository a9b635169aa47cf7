----------------------------- MODULE SirvGnrlFifo ------------------------------
(***************************************************************************)
(* rtl/perips/sirv_gnrl_fifo.sv with DP > 0: the queue behind every ICB    *)
(* buffer, arbiter and splitter.  The pointers are circular one-hot shift  *)
(* registers and the fill level is a thermometer code; a register of bits  *)
(* is the set of the positions that hold a one.                            *)
(***************************************************************************)
EXTENDS Naturals, Sequences

CONSTANTS Items, DP, CUT_READY

ASSUME DPAssumption == DP \in Nat \ {0}
ASSUME CutAssumption == CUT_READY \in BOOLEAN

VARIABLES rptr_vec_r, wptr_vec_r, vec_r, fifo_rf_r

vars == <<rptr_vec_r, wptr_vec_r, vec_r, fifo_rf_r>>

Slots == 0 .. DP - 1

--------------------------------------------------------------------------------
o_vld == 1 \in vec_r

\* The read multiplexer ORs the selected entries: with one pointer bit set it
\* is that entry.
o_dat == fifo_rf_r[CHOOSE j \in Slots : j \in rptr_vec_r]

\* Mutant: the queue is full one entry early.
i_rdy_Early(o_rdy) == DP - 1 \notin vec_r

\* Only a queue of one entry can look through at the consumer.
i_rdy(o_rdy) == DP \notin vec_r \/ (DP = 1 /\ ~CUT_READY /\ o_vld /\ o_rdy)

\* rptr_vec_nxt and wptr_vec_nxt: the hot bit moves up and wraps at the top.
\* Mutant: it wraps one entry early.
ptr_vec_nxt_Short(vec) == IF DP = 1 \/ DP - 2 \in vec THEN {0} ELSE {b + 1 : b \in vec}

ptr_vec_nxt(vec) == IF DP - 1 \in vec THEN {0} ELSE {b + 1 : b \in vec}

vec_nxt(wen, ren) ==
  IF wen = ren THEN vec_r
  ELSE IF wen THEN {0} \cup {b + 1 : b \in vec_r \ {DP}}
  ELSE {b - 1 : b \in vec_r \ {0}}

\* The register file is not reset.
Init ==
  /\ rptr_vec_r = {0}
  /\ wptr_vec_r = {0}
  /\ vec_r = {0}
  /\ fifo_rf_r \in [Slots -> Items]

Reset ==
  /\ rptr_vec_r' = {0}
  /\ wptr_vec_r' = {0}
  /\ vec_r' = {0}
  /\ UNCHANGED fifo_rf_r

\* One rising edge of clk.
Cycle(i_vld, i_dat, o_rdy) ==
  LET wen == i_vld /\ i_rdy(o_rdy)
      ren == o_vld /\ o_rdy
  IN  /\ rptr_vec_r' = IF ren THEN ptr_vec_nxt(rptr_vec_r) ELSE rptr_vec_r
      /\ wptr_vec_r' = IF wen THEN ptr_vec_nxt(wptr_vec_r) ELSE wptr_vec_r
      /\ vec_r' = vec_nxt(wen, ren)
      /\ fifo_rf_r' = [i \in Slots |-> IF wen /\ i \in wptr_vec_r THEN i_dat ELSE fifo_rf_r[i]]

Next ==
  \/ \E i_vld, o_rdy \in BOOLEAN, i_dat \in Items : Cycle(i_vld, i_dat, o_rdy)
  \/ Reset

Spec == Init /\ [][Next]_vars

--------------------------------------------------------------------------------
TypeOK ==
  /\ rptr_vec_r \in SUBSET Slots
  /\ wptr_vec_r \in SUBSET Slots
  /\ vec_r \in SUBSET (0 .. DP)
  /\ fifo_rf_r \in [Slots -> Items]

\* p + n modulo the depth, for p < DP and n <= DP.
Wrap(p, n) == IF p + n >= DP THEN p + n - DP ELSE p + n

\* The registers that nothing else couples (lines 67-148) agree: each pointer
\* has one hot bit, the fill level is a thermometer code, and the write pointer
\* is the fill level ahead of the read pointer.
Coupled ==
  \E r \in Slots, n \in 0 .. DP :
    /\ rptr_vec_r = {r}
    /\ wptr_vec_r = {Wrap(r, n)}
    /\ vec_r = 0 .. n

\* The abstract queue: the entries from the read pointer on.
Level(vec) == CHOOSE n \in 0 .. DP : vec = 0 .. n
Position(ptr) == CHOOSE r \in Slots : ptr = {r}
Contents(ptr, vec, rf) == [i \in 1 .. Level(vec) |-> rf[Wrap(Position(ptr), i - 1)]]
queue == Contents(rptr_vec_r, vec_r, fifo_rf_r)

Fifo == INSTANCE BoundedFifo WITH
  Depth <- DP, FALL_THROUGH <- FALSE, POP_MAKES_ROOM <- (DP = 1 /\ ~CUT_READY), q <- queue

\* What producer and consumer see is what the abstract queue shows: the queue
\* is ready, valid and shows an item exactly when it should.
OutputsAgree ==
  /\ \A o_rdy \in BOOLEAN : i_rdy(o_rdy) <=> Fifo!in_rdy(o_rdy)
  /\ o_vld <=> queue # <<>>
  /\ o_vld => o_dat = Head(queue)

\* A clock edge does to the abstract queue what its inputs ask for; only the
\* reset, never a cycle, drops items.
Follows ==
  /\ \A i_vld, o_rdy \in BOOLEAN, i_dat \in Items :
       Cycle(i_vld, i_dat, o_rdy) => Fifo!Cycle(i_vld, i_dat, o_rdy)
  /\ Reset => Fifo!Flush

\* Items leave in the order they entered, none is lost or duplicated
\* (sirv_gnrl_fifo.sv lines 17-20).
Queues == Fifo!Spec /\ [][Follows]_vars
================================================================================
