------------------------------ MODULE QueueProofs ------------------------------
(***************************************************************************)
(* The one-hot queue keeps its registers coupled, and implements the       *)
(* abstract queue, for every depth.  So do the two queues with binary      *)
(* pointers, the register with a valid flag, and the clock domain crossing *)
(* (a queue of one word between two clocks), which never samples its data  *)
(* lines while they may change.  And the UART, two queues with a line      *)
(* between, delivers every byte whole, once and in order, for every        *)
(* divisor from 14 up.                                                     *)
(***************************************************************************)
EXTENDS MCQueues, SequenceTheorems, TLAPS

\* The register contents for a read position and a fill level.
State(r, n) ==
  /\ rptr_vec_r = {r}
  /\ wptr_vec_r = {Wrap(r, n)}
  /\ vec_r = 0 .. n

IInv == TypeOK /\ Coupled

--------------------------------------------------------------------------------
\* A position stays in range when moved by up to one turn of the buffer, and
\* moving by one is what the shift register does.
LEMMA WrapInRange ==
  ASSUME NEW p \in Slots, NEW n \in 0 .. DP
  PROVE  Wrap(p, n) \in Slots
BY DPAssumption, SMT DEF Wrap, Slots

LEMMA PtrMovesUp ==
  ASSUME NEW p \in Slots
  PROVE  ptr_vec_nxt({p}) = {Wrap(p, 1)}
<1>1. CASE p = DP - 1
  BY <1>1, DPAssumption, SMT DEF Wrap, Slots, ptr_vec_nxt
<1>2. CASE p # DP - 1
  <2>1. Wrap(p, 1) = p + 1
    BY <1>2, DPAssumption, SMT DEF Wrap, Slots
  <2>2. DP - 1 \notin {p}
    BY <1>2
  <2>3. {j + 1 : j \in {p}} = {p + 1}
    OBVIOUS
  <2> QED BY <2>1, <2>2, <2>3, Zenon DEF ptr_vec_nxt
<1> QED BY <1>1, <1>2

\* Two moves add up.
LEMMA WrapAdds ==
  ASSUME NEW p \in Slots, NEW n \in 0 .. DP, NEW m \in 0 .. DP, n + m \in 0 .. DP
  PROVE  Wrap(Wrap(p, n), m) = Wrap(p, n + m)
BY DPAssumption, SMT DEF Wrap, Slots

\* A full turn and no move end where they started.
LEMMA WrapTurns ==
  ASSUME NEW p \in Slots
  PROVE  Wrap(p, DP) = p /\ Wrap(p, 0) = p
BY DPAssumption, SMT DEF Wrap, Slots

\* Moves shorter than a turn end in different places.
LEMMA WrapApart ==
  ASSUME NEW p \in Slots, NEW n \in 0 .. DP, NEW m \in 0 .. DP,
         n < m, m < n + DP
  PROVE  Wrap(p, n) # Wrap(p, m)
BY DPAssumption, SMT DEF Wrap, Slots

\* Writing one slot, the way the generated register file does it.
LEMMA WriteIsExcept ==
  ASSUME NEW f \in [Slots -> Items], NEW x \in Slots, NEW e
  PROVE  [f EXCEPT ![x] = e] = [i \in Slots |-> IF i = x THEN e ELSE f[i]]
OBVIOUS

\* The thermometer code determines the level.
LEMMA LevelUnique ==
  ASSUME NEW n \in Nat, NEW m \in Nat, 0 .. n = 0 .. m
  PROVE  n = m
<1>1. n \in 0 .. m /\ m \in 0 .. n
  BY SMT
<1> QED BY <1>1, SMT

\* What the abstract queue is at read position r and level n.
LEMMA ContentsIs ==
  ASSUME NEW r \in Slots, NEW n \in 0 .. DP, NEW rf \in [Slots -> Items]
  PROVE  /\ Contents({r}, 0 .. n, rf) = [i \in 1 .. n |-> rf[Wrap(r, i - 1)]]
         /\ Contents({r}, 0 .. n, rf) \in Seq(Items)
         /\ Len(Contents({r}, 0 .. n, rf)) = n
<1> USE DPAssumption
<1>1. n \in Nat /\ \A m \in 0 .. DP : m \in Nat
  BY SMT
<1>2. \A m \in 0 .. DP : 0 .. n = 0 .. m <=> m = n
  BY <1>1, LevelUnique, SMT
<1>3. Level(0 .. n) = n
  BY <1>2, SMT DEF Level
<1>4. Position({r}) = r
  BY SMT DEF Position
<1>5. \A i \in 1 .. n : Wrap(r, i - 1) \in Slots
  BY SMT DEF Wrap, Slots
<1> DEFINE C == Contents({r}, 0 .. n, rf)
<1>6. C = [i \in 1 .. n |-> rf[Wrap(r, i - 1)]]
  BY <1>3, <1>4, SMT DEF Contents
<1> HIDE DEF C
<1>7. C \in [1 .. n -> Items]
  <2>1. \A i \in 1 .. n : rf[Wrap(r, i - 1)] \in Items
    BY <1>5
  <2> QED BY <1>6, <2>1, Zenon
<1>8. C \in Seq(Items) /\ Len(C) = n
  BY <1>1, <1>7, SMT
<1> QED BY <1>6, <1>8 DEF C

LEMMA QueueIs ==
  ASSUME TypeOK, NEW r \in Slots, NEW n \in 0 .. DP, State(r, n)
  PROVE  /\ queue = [i \in 1 .. n |-> fifo_rf_r[Wrap(r, i - 1)]]
         /\ queue \in Seq(Items)
         /\ Len(queue) = n
         /\ o_dat = fifo_rf_r[r]
<1>1. (CHOOSE j \in Slots : j \in rptr_vec_r) = r
  BY SMT DEF State
<1>2. fifo_rf_r \in [Slots -> Items]
  BY DEF TypeOK
<1>3. queue = Contents({r}, 0 .. n, fifo_rf_r)
  BY Zenon DEF queue, State
<1> QED BY <1>1, <1>2, <1>3, ContentsIs, Zenon DEF o_dat

--------------------------------------------------------------------------------
\* What one clock edge does to the position and the level.
LEMMA CycleMoves ==
  ASSUME TypeOK, NEW r \in Slots, NEW n \in 0 .. DP, State(r, n),
         NEW i_vld \in BOOLEAN, NEW i_dat \in Items, NEW o_rdy \in BOOLEAN,
         Cycle(i_vld, i_dat, o_rdy)
  PROVE  LET wen == i_vld /\ (n < DP \/ (DP = 1 /\ ~CUT_READY /\ o_rdy))
             ren == n > 0 /\ o_rdy
             r2  == IF ren THEN Wrap(r, 1) ELSE r
             n2  == IF wen = ren THEN n ELSE IF wen THEN n + 1 ELSE n - 1
         IN  /\ wen <=> (i_vld /\ i_rdy(o_rdy))
             /\ ren <=> (o_vld /\ o_rdy)
             /\ r2 \in Slots
             /\ n2 \in 0 .. DP
             /\ State(r2, n2)'
             /\ fifo_rf_r' = IF wen THEN [fifo_rf_r EXCEPT ![Wrap(r, n)] = i_dat] ELSE fifo_rf_r
             /\ TypeOK'
<1> USE DPAssumption
<1> DEFINE wen == i_vld /\ (n < DP \/ (DP = 1 /\ ~CUT_READY /\ o_rdy))
           ren == n > 0 /\ o_rdy
           r2  == IF ren THEN Wrap(r, 1) ELSE r
           n2  == IF wen = ren THEN n ELSE IF wen THEN n + 1 ELSE n - 1
           w   == Wrap(r, n)
<1>1. o_vld <=> n > 0
  BY SMT DEF o_vld, State
<1>2. DP \notin vec_r <=> n < DP
  BY SMT DEF State
<1>3. i_rdy(o_rdy) <=> (n < DP \/ (DP = 1 /\ ~CUT_READY /\ n > 0 /\ o_rdy))
  BY <1>1, <1>2, Zenon DEF i_rdy
<1>4. wen <=> (i_vld /\ i_rdy(o_rdy))
  <2>1. n < DP \/ n > 0
    BY SMT
  <2> QED BY <1>3, <2>1, Zenon
<1>5. ren <=> (o_vld /\ o_rdy)
  BY <1>1
<1>6. (wen /\ ~ren) => n < DP
  <2>1. n < DP \/ n > 0
    BY SMT
  <2> QED BY <2>1, Zenon
<1>6a. ren => n > 0
  OBVIOUS
<1>6b. wen \in BOOLEAN /\ ren \in BOOLEAN
  OBVIOUS
<1>6c. (wen /\ n = DP) => DP = 1 /\ ren
  <2>1. n = DP => n > 0 /\ ~(n < DP)
    BY SMT
  <2> QED BY <2>1, Zenon
<1>7. w \in Slots
  BY WrapInRange
<1>8. rptr_vec_r' = {r2} /\ r2 \in Slots
  <2>1. rptr_vec_r' = IF ren THEN ptr_vec_nxt({r}) ELSE {r}
    BY <1>5, Zenon DEF Cycle, State
  <2>2. Wrap(r, 1) \in Slots
    BY WrapInRange, SMT
  <2> QED BY <2>1, <2>2, PtrMovesUp, Zenon
<1>9. wptr_vec_r' = IF wen THEN {Wrap(w, 1)} ELSE {w}
  <2>1. wptr_vec_r' = IF wen THEN ptr_vec_nxt({w}) ELSE {w}
    BY <1>4, Zenon DEF Cycle, State
  <2> QED BY <2>1, <1>7, PtrMovesUp, Zenon
<1>10. vec_r' = 0 .. n2 /\ n2 \in 0 .. DP
  <2>1. vec_r' = vec_nxt(wen, ren)
    <3>1. vec_r' = vec_nxt(i_vld /\ i_rdy(o_rdy), o_vld /\ o_rdy)
      BY Zenon DEF Cycle
    <3>2. (i_vld /\ i_rdy(o_rdy)) = wen /\ (o_vld /\ o_rdy) = ren
      BY <1>4, <1>5, Zenon
    <3> QED BY <3>1, <3>2, Zenon
  <2>2. CASE wen = ren
    <3>1. n2 = n
      BY <2>2, Zenon
    <3>2. vec_r' = vec_r
      BY <2>1, <2>2, Zenon DEF vec_nxt
    <3> QED BY <3>1, <3>2 DEF State
  <2>3. CASE wen /\ ~ren
    <3>1. n2 = n + 1
      BY <2>3, Zenon
    <3>2. vec_r' = {0} \cup {j + 1 : j \in (0 .. n) \ {DP}}
      BY <2>1, <2>3, Zenon DEF vec_nxt, State
    <3>3. n < DP
      BY <2>3, <1>6
    <3>4. {0} \cup {j + 1 : j \in (0 .. n) \ {DP}} = 0 .. n + 1
      BY <3>3, SMT
    <3> QED BY <3>1, <3>2, <3>3, <3>4, SMT
  <2>4. CASE ~wen /\ ren
    <3>1. n2 = n - 1
      BY <2>4, Zenon
    <3>2. vec_r' = {j - 1 : j \in (0 .. n) \ {0}}
      BY <2>1, <2>4, Zenon DEF vec_nxt, State
    <3>3. n > 0
      BY <2>4, <1>6a
    <3>4. {j - 1 : j \in (0 .. n) \ {0}} = 0 .. n - 1
      BY <3>3, SMT
    <3> QED BY <3>1, <3>2, <3>3, <3>4, SMT
  <2> QED BY <1>6b, <2>2, <2>3, <2>4, Zenon
<1>11. wptr_vec_r' = {Wrap(r2, n2)}
  <2>1. CASE wen /\ ren
    <3>1. r2 = Wrap(r, 1) /\ n2 = n
      BY <2>1, Zenon
    <3>2. Wrap(Wrap(r, n), 1) = Wrap(Wrap(r, 1), n)
      BY SMT DEF Wrap, Slots
    <3> QED BY <2>1, <1>9, <3>1, <3>2, Zenon
  <2>2. CASE wen /\ ~ren
    <3>1. r2 = r /\ n2 = n + 1
      BY <2>2, Zenon
    <3>2. n < DP
      BY <2>2, <1>6
    <3>3. Wrap(Wrap(r, n), 1) = Wrap(r, n + 1)
      BY <3>2, SMT DEF Wrap, Slots
    <3> QED BY <2>2, <1>9, <3>1, <3>3, Zenon
  <2>3. CASE ~wen /\ ren
    <3>1. r2 = Wrap(r, 1) /\ n2 = n - 1
      BY <2>3, Zenon
    <3>2. n > 0
      BY <2>3, <1>6a
    <3>3. Wrap(r, n) = Wrap(Wrap(r, 1), n - 1)
      BY <3>2, SMT DEF Wrap, Slots
    <3> QED BY <2>3, <1>9, <3>1, <3>3, Zenon
  <2>4. CASE ~wen /\ ~ren
    <3>1. r2 = r /\ n2 = n
      BY <2>4, Zenon
    <3> QED BY <2>4, <1>9, <3>1, Zenon
  <2> QED BY <1>6b, <2>1, <2>2, <2>3, <2>4, Zenon
<1>12. fifo_rf_r' = IF wen THEN [fifo_rf_r EXCEPT ![w] = i_dat] ELSE fifo_rf_r
  <2>1. fifo_rf_r' = [i \in Slots |-> IF wen /\ i \in {w} THEN i_dat ELSE fifo_rf_r[i]]
    BY <1>4, Zenon DEF Cycle, State
  <2>2. fifo_rf_r \in [Slots -> Items]
    BY DEF TypeOK
  <2>3. CASE wen
    <3>1. fifo_rf_r' = [i \in Slots |-> IF i = w THEN i_dat ELSE fifo_rf_r[i]]
      BY <2>1, <2>3, SMT
    <3>2. [fifo_rf_r EXCEPT ![w] = i_dat] = [i \in Slots |-> IF i = w THEN i_dat ELSE fifo_rf_r[i]]
      BY <2>2, <1>7, WriteIsExcept, Zenon
    <3> QED BY <2>3, <3>1, <3>2, Zenon
  <2>4. CASE ~wen
    <3>1. fifo_rf_r' = [i \in Slots |-> fifo_rf_r[i]]
      BY <2>1, <2>4, SMT
    <3> QED BY <2>2, <2>4, <3>1, SMT
  <2> QED BY <2>3, <2>4
<1>13. TypeOK'
  <2>1. fifo_rf_r' \in [Slots -> Items]
    BY <1>7, <1>12, SMT DEF TypeOK
  <2>2. rptr_vec_r' \in SUBSET Slots
    BY <1>8, SMT
  <2>3. wptr_vec_r' \in SUBSET Slots
    BY <1>8, <1>10, <1>11, WrapInRange, SMT
  <2>4. vec_r' \in SUBSET (0 .. DP)
    BY <1>10, SMT
  <2> QED BY <2>1, <2>2, <2>3, <2>4 DEF TypeOK
<1>14. State(r2, n2)'
  BY <1>8, <1>10, <1>11, Zenon DEF State
<1> QED BY <1>4, <1>5, <1>8, <1>10, <1>12, <1>13, <1>14, Zenon

\* Reset empties the queue.
LEMMA ResetMoves ==
  ASSUME TypeOK, Reset
  PROVE  TypeOK' /\ State(0, 0)' /\ 0 \in Slots
<1>1. 0 \in Slots /\ 0 .. 0 = {0} /\ Wrap(0, 0) = 0
  BY DPAssumption, SMT DEF Slots, Wrap
<1>2. State(0, 0)'
  BY <1>1, Zenon DEF Reset, State
<1> QED BY <1>1, <1>2, DPAssumption, SMT DEF Reset, TypeOK

LEMMA CoupledIs == Coupled <=> \E r \in Slots, n \in 0 .. DP : State(r, n)
BY Zenon DEF Coupled, State

LEMMA CoupledNext ==
  ASSUME NEW r, NEW n, r \in Slots, n \in 0 .. DP, State(r, n)'
  PROVE  Coupled'
BY Zenon DEF Coupled, State, Slots

LEMMA InitIInv == Init => IInv
<1> SUFFICES ASSUME Init PROVE IInv
  OBVIOUS
<1>1. 0 \in Slots /\ 0 .. 0 = {0} /\ Wrap(0, 0) = 0 /\ 0 \in 0 .. DP
  BY DPAssumption, SMT DEF Slots, Wrap
<1>2. TypeOK
  BY <1>1, SMT DEF Init, TypeOK
<1>3. State(0, 0)
  BY <1>1, Zenon DEF Init, State
<1> QED BY <1>1, <1>2, <1>3, CoupledIs, Zenon DEF IInv

LEMMA StepIInv == IInv /\ [Next]_vars => IInv'
<1> SUFFICES ASSUME IInv, [Next]_vars PROVE IInv'
  OBVIOUS
<1>1. TypeOK
  BY DEF IInv
<1>2. PICK r \in Slots, n \in 0 .. DP : State(r, n)
  BY CoupledIs, Zenon DEF IInv
<1>3. ASSUME NEW i_vld \in BOOLEAN, NEW o_rdy \in BOOLEAN, NEW i_dat \in Items,
             Cycle(i_vld, i_dat, o_rdy)
      PROVE  IInv'
  <2>1. \E r2 \in Slots, n2 \in 0 .. DP : State(r2, n2)' /\ TypeOK'
    BY <1>1, <1>2, <1>3, CycleMoves, Zenon
  <2> QED BY <2>1, CoupledNext, Zenon DEF IInv
<1>4. CASE Reset
  <2>1. 0 \in 0 .. DP
    BY DPAssumption, SMT
  <2> QED BY <1>1, <1>4, <2>1, ResetMoves, CoupledNext, Zenon DEF IInv
<1>5. CASE UNCHANGED vars
  BY <1>5, Zenon DEF vars, IInv, TypeOK, Coupled, Slots, Wrap
<1> QED BY <1>3, <1>4, <1>5, Zenon DEF Next

\* Every register of the queue keeps its range.
THEOREM TypeCorrect == Spec => []TypeOK
<1>1. IInv => TypeOK
  BY DEF IInv
<1> QED BY <1>1, InitIInv, StepIInv, PTL DEF Spec

\* The pointers and the fill level, which the code updates apart, never fall
\* out of step.
THEOREM StaysCoupled == Spec => []Coupled
<1>1. IInv => Coupled
  BY DEF IInv
<1> QED BY <1>1, InitIInv, StepIInv, PTL DEF Spec

--------------------------------------------------------------------------------
LEMMA Outputs == IInv => OutputsAgree
<1> SUFFICES ASSUME IInv PROVE OutputsAgree
  OBVIOUS
<1> USE DPAssumption
<1>1. PICK r \in Slots, n \in 0 .. DP : State(r, n)
  BY CoupledIs, Zenon DEF IInv
<1>2. /\ queue = [i \in 1 .. n |-> fifo_rf_r[Wrap(r, i - 1)]]
      /\ queue \in Seq(Items)
      /\ Len(queue) = n
      /\ o_dat = fifo_rf_r[r]
  BY <1>1, QueueIs, Zenon DEF IInv
<1>3. o_vld <=> n > 0
  BY <1>1, SMT DEF o_vld, State
<1>4. n > 0 <=> queue # <<>>
  BY <1>2, SMT
<1>5. ASSUME NEW o_rdy \in BOOLEAN
      PROVE  i_rdy(o_rdy) <=> Fifo!in_rdy(o_rdy)
  <2>1. DP \notin vec_r <=> Len(queue) < DP
    BY <1>1, <1>2, SMT DEF State
  <2>2. DP \in vec_r => o_vld
    BY <1>1, <1>3, SMT DEF State
  <2> QED BY <2>1, <2>2, Zenon DEF i_rdy, Fifo!in_rdy
<1>6. ASSUME n > 0 PROVE o_dat = Head(queue)
  <2>1. queue[1] = fifo_rf_r[Wrap(r, 0)]
    BY <1>2, <1>6, SMT
  <2>2. Wrap(r, 0) = r
    BY WrapTurns
  <2>3. Head(queue) = queue[1]
    BY <1>2, <1>4, <1>6, SMT
  <2> QED BY <1>2, <2>1, <2>2, <2>3, Zenon
<1> QED BY <1>3, <1>4, <1>5, <1>6, Zenon DEF OutputsAgree

\* Producer and consumer see exactly the abstract queue.
THEOREM ShowsTheQueue == Spec => []OutputsAgree
BY InitIInv, StepIInv, Outputs, PTL DEF Spec

--------------------------------------------------------------------------------
(* A stretch of n entries from r on, of a ring of D.                            *)

Place(D, p, n) == IF p + n >= D THEN p + n - D ELSE p + n
Stretch(D, r, n, rf) == [i \in 1 .. n |-> rf[Place(D, r, i - 1)]]

LEMMA PlaceInRange ==
  ASSUME NEW D \in Nat \ {0}, NEW p \in 0 .. D - 1, NEW n \in 0 .. D
  PROVE  Place(D, p, n) \in 0 .. D - 1
BY SMT DEF Place

LEMMA StretchIs ==
  ASSUME NEW D \in Nat \ {0}, NEW r \in 0 .. D - 1, NEW n \in 0 .. D, NEW rf \in [0 .. D - 1 -> Items]
  PROVE  /\ Stretch(D, r, n, rf) \in Seq(Items) /\ Len(Stretch(D, r, n, rf)) = n
         /\ \A i \in 1 .. n : Stretch(D, r, n, rf)[i] = rf[Place(D, r, i - 1)]
<1> DEFINE C == Stretch(D, r, n, rf)
<1>1. \A i \in 1 .. n : Place(D, r, i - 1) \in 0 .. D - 1
  BY SMT DEF Place
<1>2. C = [i \in 1 .. n |-> rf[Place(D, r, i - 1)]]
  BY DEF Stretch
<1> HIDE DEF C
<1>3. C \in [1 .. n -> Items]
  <2>1. \A i \in 1 .. n : rf[Place(D, r, i - 1)] \in Items
    BY <1>1
  <2> QED BY <1>2, <2>1, Zenon
<1>4. C \in Seq(Items) /\ Len(C) = n
  BY <1>3, SMT
<1> QED BY <1>2, <1>4 DEF C

\* The stretch after a clock edge that writes d when wen and reads when ren, against the
\* one before it.
Moved(D, r, n, rf, d, wen, ren) ==
  LET Q == Stretch(D, r, n, rf)
      H == IF wen THEN Append(Q, d) ELSE Q
  IN  Stretch(D, IF ren THEN Place(D, r, 1) ELSE r,
              IF wen = ren THEN n ELSE IF wen THEN n + 1 ELSE n - 1,
              IF wen THEN [rf EXCEPT ![Place(D, r, n)] = d] ELSE rf)
      = IF ren THEN Tail(H) ELSE H

LEMMA PlaceApart ==
  ASSUME NEW D \in Nat \ {0}, NEW p \in 0 .. D - 1, NEW n \in 0 .. D, NEW m \in 0 .. D,
         n < m, m < n + D
  PROVE  Place(D, p, n) # Place(D, p, m)
BY SMT DEF Place

LEMMA PlaceTurns ==
  ASSUME NEW D \in Nat \ {0}, NEW p \in 0 .. D - 1, NEW n \in 0 .. D - 1
  PROVE  Place(D, Place(D, p, 1), n) = Place(D, p, n + 1)
BY SMT DEF Place

LEMMA StretchMoves ==
  ASSUME NEW D \in Nat \ {0}, NEW r \in 0 .. D - 1, NEW n \in 0 .. D, NEW rf \in [0 .. D - 1 -> Items],
         NEW d \in Items,
         NEW wen \in BOOLEAN, NEW ren \in BOOLEAN,
         ren => n > 0,
         (wen /\ n = D) => ren
  PROVE  Moved(D, r, n, rf, d, wen, ren)
<1> DEFINE r2 == IF ren THEN Place(D, r, 1) ELSE r
           n2 == IF wen = ren THEN n ELSE IF wen THEN n + 1 ELSE n - 1
           rf2 == IF wen THEN [rf EXCEPT ![Place(D, r, n)] = d] ELSE rf
           Q == Stretch(D, r, n, rf)
           Q2 == Stretch(D, r2, n2, rf2)
<1>a. /\ r2 = (IF ren THEN Place(D, r, 1) ELSE r)
      /\ n2 = (IF wen = ren THEN n ELSE IF wen THEN n + 1 ELSE n - 1)
      /\ rf2 = (IF wen THEN [rf EXCEPT ![Place(D, r, n)] = d] ELSE rf)
  OBVIOUS
<1> HIDE DEF r2, n2, rf2
<1>b. r2 \in 0 .. D - 1 /\ n2 \in 0 .. D /\ rf2 \in [0 .. D - 1 -> Items]
  <2>1. Place(D, r, 1) \in 0 .. D - 1 /\ Place(D, r, n) \in 0 .. D - 1
    <3>1. 1 \in 0 .. D
      OBVIOUS
    <3> QED BY <3>1, PlaceInRange, Zenon
  <2>2. r2 \in 0 .. D - 1
    BY <1>a, <2>1, Zenon
  <2>3. n2 \in 0 .. D
    BY <1>a, SMT
  <2>4. rf2 \in [0 .. D - 1 -> Items]
    BY <1>a, <2>1, SMT
  <2> QED BY <2>2, <2>3, <2>4
<1>c. Q \in Seq(Items) /\ Len(Q) = n /\ \A i \in 1 .. n : Q[i] = rf[Place(D, r, i - 1)]
  BY StretchIs
<1>d. Q2 \in Seq(Items) /\ Len(Q2) = n2 /\ \A i \in 1 .. n2 : Q2[i] = rf2[Place(D, r2, i - 1)]
  BY <1>b, StretchIs
<1> HIDE DEF Q, Q2
<1> USE <1>a, <1>b, <1>c, <1>d
<1> DEFINE H == IF wen THEN Append(Q, d) ELSE Q
           h == IF wen THEN n + 1 ELSE n
           k == IF ren THEN 1 ELSE 0
           T == IF ren THEN Tail(H) ELSE H
<1>1. n \in Nat /\ h \in Nat /\ k \in {0, 1} /\ (k = 1 => n > 0) /\ h >= k /\ n2 = h - k
  BY SMT
<1>2. H \in Seq(Items) /\ Len(H) = h
  BY SMT
<1>3. \A i \in 1 .. h : H[i] = IF i <= n THEN Q[i] ELSE d
  BY SMT
<1>4. T \in Seq(Items) /\ Len(T) = h - k /\ \A i \in 1 .. h - k : T[i] = H[i + k]
  <2>1. CASE ren
    <3>1. H # <<>>
      <4>1. k = 1
        BY <2>1
      <4> HIDE DEF k, H, h
      <4> QED BY <4>1, <1>1, <1>2, EmptySeq, SMT
    <3>2. Tail(H) \in Seq(Items) /\ Len(Tail(H)) = h - 1
      BY <3>1, <1>2, HeadTailProperties, Zenon
    <3>3. \A i \in 1 .. h - 1 : Tail(H)[i] = H[i + 1]
      <4> HIDE DEF H, h
      <4>1. \A i \in 1 .. Len(Tail(H)) : Tail(H)[i] = H[i + 1]
        BY <3>1, <1>2, HeadTailProperties, Zenon
      <4> QED BY <3>2, <4>1, Zenon
    <3> QED BY <2>1, <3>2, <3>3, Zenon
  <2>2. CASE ~ren
    <3>1. k = 0 /\ T = H
      BY <2>2
    <3> HIDE DEF k, T, H, h
    <3> QED BY <3>1, <1>1, <1>2, SMT
  <2> QED BY <2>1, <2>2
<1>5. ASSUME NEW i \in 1 .. h - k PROVE Q2[i] = T[i]
  <2>1. Q2[i] = rf2[Place(D, r2, i - 1)]
    BY <1>1, <1>5, Zenon
  <2>2. Place(D, r2, i - 1) = Place(D, r, i - 1 + k)
    <3>1. CASE ren
      <4>1. r2 = Place(D, r, 1) /\ k = 1
        BY <3>1, Zenon
      <4>2. i \in Int /\ 1 <= i /\ i <= n /\ n <= D
        BY <4>1, <1>1, <1>5, SMT
      <4>3. Place(D, Place(D, r, 1), i - 1) = Place(D, r, i - 1 + 1)
        BY <4>2, PlaceTurns, SMT
      <4> QED BY <4>1, <4>3, Zenon
    <3>2. CASE ~ren
      <4>1. r2 = r /\ k = 0
        BY <3>2, Zenon
      <4>2. i - 1 + k = i - 1
        BY <1>5, <1>1, <4>1, SMT
      <4> QED BY <4>1, <4>2, Zenon
    <3> QED BY <3>1, <3>2
  <2>3. T[i] = H[i + k]
    BY <1>4, <1>5, Zenon
  <2>4. H[i + k] = IF i + k <= n THEN Q[i + k] ELSE d
    <3>1. i + k \in 1 .. h
      BY <1>1, <1>5, SMT
    <3> HIDE DEF H, h, k
    <3> QED BY <1>3, <3>1, Zenon
  <2>5. CASE i + k <= n
    <3>1. Q[i + k] = rf[Place(D, r, i + k - 1)] /\ i + k - 1 = i - 1 + k
      BY <2>5, <1>1, <1>5, SMT
    <3>2. rf2[Place(D, r, i - 1 + k)] = rf[Place(D, r, i - 1 + k)]
      <4>1. CASE wen
        <5>1. i - 1 + k \in 0 .. D /\ i - 1 + k < n /\ n < (i - 1 + k) + D
          BY <4>1, <2>5, <1>1, <1>5, SMT
        <5>2. Place(D, r, i - 1 + k) # Place(D, r, n)
          BY <5>1, PlaceApart, Zenon
        <5>3. Place(D, r, i - 1 + k) \in 0 .. D - 1
          BY <5>1, PlaceInRange, Zenon
        <5> QED BY <4>1, <5>2, <5>3, Zenon
      <4>2. CASE ~wen
        BY <4>2, Zenon
      <4> QED BY <4>1, <4>2
    <3> QED BY <2>1, <2>2, <2>3, <2>4, <2>5, <3>1, <3>2, Zenon
  <2>6. CASE ~(i + k <= n)
    <3>1. i - 1 + k = n /\ wen
      BY <2>6, <1>1, <1>5, SMT
    <3>2. Place(D, r, n) \in 0 .. D - 1
      BY PlaceInRange
    <3>3. rf2[Place(D, r, n)] = d
      BY <3>1, <3>2, Zenon
    <3> QED BY <2>1, <2>2, <2>3, <2>4, <2>6, <3>1, <3>3, Zenon
  <2> QED BY <2>5, <2>6
<1>6. Q2 = T
  <2> HIDE DEF T, H, h, k
  <2>1. Len(Q2) = Len(T) /\ \A i \in 1 .. Len(Q2) : Q2[i] = T[i]
    BY <1>1, <1>4, <1>5, Zenon
  <2> QED BY <2>1, <1>4, SeqEqual, Zenon
<1> QED BY <1>6 DEF Moved, Q, Q2, r2, n2, rf2

\* The same of the queue of the one-hot registers, which is such a stretch.
QueueMoved(r, n, rf, d, wen, ren) ==
  LET Q == Contents({r}, 0 .. n, rf)
      H == IF wen THEN Append(Q, d) ELSE Q
  IN  Contents({IF ren THEN Wrap(r, 1) ELSE r},
               0 .. (IF wen = ren THEN n ELSE IF wen THEN n + 1 ELSE n - 1),
               IF wen THEN [rf EXCEPT ![Wrap(r, n)] = d] ELSE rf)
      = IF ren THEN Tail(H) ELSE H

LEMMA QueueMoves ==
  ASSUME NEW r \in Slots, NEW n \in 0 .. DP, NEW rf \in [Slots -> Items], NEW d \in Items,
         NEW wen \in BOOLEAN, NEW ren \in BOOLEAN,
         ren => n > 0,
         (wen /\ n = DP) => ren
  PROVE  QueueMoved(r, n, rf, d, wen, ren)
<1> USE DPAssumption
<1>1. Slots = 0 .. DP - 1 /\ \A p, m : Wrap(p, m) = Place(DP, p, m)
  BY DEF Slots, Wrap, Place
<1>2. Moved(DP, r, n, rf, d, wen, ren)
  <2>1. r \in 0 .. DP - 1 /\ rf \in [0 .. DP - 1 -> Items] /\ DP \in Nat \ {0}
    BY <1>1
  <2> QED BY <2>1, StretchMoves, Zenon
<1>3. ASSUME NEW p \in Slots, NEW m \in 0 .. DP, NEW g \in [Slots -> Items]
      PROVE  Contents({p}, 0 .. m, g) = Stretch(DP, p, m, g)
  <2>1. Contents({p}, 0 .. m, g) = [i \in 1 .. m |-> g[Wrap(p, i - 1)]]
    BY ContentsIs
  <2> QED BY <1>1, <2>1, Zenon DEF Stretch
<1>4. PICK r2 : r2 = IF ren THEN Wrap(r, 1) ELSE r
  OBVIOUS
<1>5. PICK n2 : n2 = IF wen = ren THEN n ELSE IF wen THEN n + 1 ELSE n - 1
  OBVIOUS
<1>6. PICK rf2 : rf2 = IF wen THEN [rf EXCEPT ![Wrap(r, n)] = d] ELSE rf
  OBVIOUS
<1>7. r2 \in Slots /\ n2 \in 0 .. DP /\ rf2 \in [Slots -> Items]
  <2>1. Wrap(r, 1) \in Slots /\ Wrap(r, n) \in Slots
    BY WrapInRange, SMT
  <2> QED BY <1>4, <1>5, <1>6, <2>1, SMT
<1>8. Contents({r2}, 0 .. n2, rf2) = Stretch(DP, r2, n2, rf2) /\ Contents({r}, 0 .. n, rf) = Stretch(DP, r, n, rf)
  BY <1>3, <1>7, Zenon
<1>9. LET H == IF wen THEN Append(Stretch(DP, r, n, rf), d) ELSE Stretch(DP, r, n, rf)
      IN  Stretch(DP, r2, n2, rf2) = IF ren THEN Tail(H) ELSE H
  BY <1>1, <1>2, <1>4, <1>5, <1>6, Zenon DEF Moved
<1> QED BY <1>4, <1>5, <1>6, <1>8, <1>9, Zenon DEF QueueMoved

LEMMA CycleImplements ==
  ASSUME IInv, NEW i_vld \in BOOLEAN, NEW i_dat \in Items, NEW o_rdy \in BOOLEAN,
         Cycle(i_vld, i_dat, o_rdy)
  PROVE  Fifo!Cycle(i_vld, i_dat, o_rdy)
<1> USE DPAssumption
<1>1. TypeOK
  BY DEF IInv
<1>2. PICK r \in Slots, n \in 0 .. DP : State(r, n)
  BY CoupledIs, Zenon DEF IInv
<1> DEFINE wen == i_vld /\ (n < DP \/ (DP = 1 /\ ~CUT_READY /\ o_rdy))
           ren == n > 0 /\ o_rdy
           r2  == IF ren THEN Wrap(r, 1) ELSE r
           n2  == IF wen = ren THEN n ELSE IF wen THEN n + 1 ELSE n - 1
<1>3. /\ wen <=> (i_vld /\ i_rdy(o_rdy))
      /\ ren <=> (o_vld /\ o_rdy)
      /\ r2 \in Slots
      /\ n2 \in 0 .. DP
      /\ State(r2, n2)'
      /\ fifo_rf_r' = IF wen THEN [fifo_rf_r EXCEPT ![Wrap(r, n)] = i_dat] ELSE fifo_rf_r
      /\ TypeOK'
  BY <1>1, <1>2, CycleMoves, ZenonT(60)
<1>4. /\ ren => n > 0
      /\ (wen /\ n = DP) => ren
      /\ wen \in BOOLEAN /\ ren \in BOOLEAN
  <2>1. n = DP => n > 0 /\ ~(n < DP)
    BY SMT
  <2> QED BY <2>1, Zenon
<1>6. queue' = Contents({r2}, 0 .. n2, fifo_rf_r')
  <2> HIDE DEF r2, n2
  <2> QED BY <1>3 DEF queue, State
<1>7. queue' = LET H == IF wen THEN Append(queue, i_dat) ELSE queue
               IN  IF ren THEN Tail(H) ELSE H
  <2>1. fifo_rf_r \in [Slots -> Items]
    BY <1>1 DEF TypeOK
  <2>2. queue = Contents({r}, 0 .. n, fifo_rf_r)
    BY <1>2, Zenon DEF queue, State
  <2>3. queue' = Contents({r2}, 0 .. n2, IF wen THEN [fifo_rf_r EXCEPT ![Wrap(r, n)] = i_dat] ELSE fifo_rf_r)
    <3> HIDE DEF r2, n2, wen, ren
    <3> QED BY <1>3, <1>6
  <2> HIDE DEF wen, ren
  <2>4. QueueMoved(r, n, fifo_rf_r, i_dat, wen, ren)
    BY <1>4, <2>1, QueueMoves
  <2> QED BY <2>2, <2>3, <2>4, Zenon DEF QueueMoved
<1>8. OutputsAgree
  BY Outputs
<1>9. wen <=> (i_vld /\ Fifo!in_rdy(o_rdy))
  BY <1>3, <1>8, Zenon DEF OutputsAgree
<1>10. ren <=> (o_rdy /\ Fifo!out_vld(i_vld))
  BY <1>3, <1>8, Zenon DEF OutputsAgree, Fifo!out_vld
<1> HIDE DEF wen, ren
<1> QED BY <1>7, <1>9, <1>10, Zenon DEF Fifo!Cycle

LEMMA ResetImplements == ASSUME IInv, Reset PROVE Fifo!Flush
<1>1. TypeOK' /\ State(0, 0)' /\ 0 \in Slots /\ 0 \in 0 .. DP
  BY ResetMoves, DPAssumption, SMT DEF IInv
<1>2. queue' = Contents({0}, 0 .. 0, fifo_rf_r')
  <2>1. rptr_vec_r' = {0} /\ vec_r' = 0 .. 0
    BY <1>1, Zenon DEF State
  <2> QED BY <2>1 DEF queue
<1>3. queue' \in Seq(Items) /\ Len(queue') = 0
  BY <1>1, <1>2, ContentsIs, Zenon DEF TypeOK, Slots
<1>4. queue' = <<>>
  BY <1>3, EmptySeq, SMT
<1> QED BY <1>4, Zenon DEF Fifo!Flush

LEMMA StepFollows == IInv => Follows
BY CycleImplements, ResetImplements, Zenon DEF Follows

LEMMA StepImplements == IInv /\ [Next]_vars => [Fifo!Next]_queue
<1> SUFFICES ASSUME IInv, [Next]_vars PROVE [Fifo!Next]_queue
  OBVIOUS
<1>1. ASSUME NEW i_vld \in BOOLEAN, NEW o_rdy \in BOOLEAN, NEW i_dat \in Items,
             Cycle(i_vld, i_dat, o_rdy)
      PROVE  Fifo!Next
  BY <1>1, CycleImplements, Zenon DEF Fifo!Next
<1>2. CASE Reset
  BY <1>2, ResetImplements, Zenon DEF Fifo!Next
<1>3. CASE UNCHANGED vars
  BY <1>3 DEF vars, queue
<1> QED BY <1>1, <1>2, <1>3, Zenon DEF Next

LEMMA InitImplements == Init => Fifo!Init
<1> SUFFICES ASSUME Init PROVE Fifo!Init
  OBVIOUS
<1>1. 0 \in Slots /\ 0 .. 0 = {0} /\ 0 \in 0 .. DP
  BY DPAssumption, SMT DEF Slots
<1>2. queue = Contents({0}, 0 .. 0, fifo_rf_r)
  BY <1>1, Zenon DEF Init, queue
<1>3. queue \in Seq(Items) /\ Len(queue) = 0
  BY <1>1, <1>2, ContentsIs, Zenon DEF Init
<1> QED BY <1>3, EmptySeq, SMT DEF Fifo!Init

\* The queue is first in, first out, holds up to DP items and loses none but in
\* a reset, for every depth.
THEOREM Implements == Spec => Queues
<1>1. Spec => []IInv
  BY InitIInv, StepIInv, PTL DEF Spec
<1> QED BY <1>1, InitImplements, StepImplements, StepFollows, PTL DEF Spec, Queues, Fifo!Spec

--------------------------------------------------------------------------------
(* The queues with binary pointers count modulo the depth.                      *)

Held(D, r, n, rf) == [i \in 1 .. n |-> rf[(r + i - 1) % D]]

LEMMA Modulo ==
  ASSUME NEW D \in Nat \ {0}
  PROVE  /\ \A x \in 0 .. D - 1 : x % D = x
         /\ \A x \in D .. 2 * D - 1 : x % D = x - D
         /\ \A x \in 1 .. D : (x - D) % D = x % D
<1>1. ASSUME NEW x \in 0 .. D - 1 PROVE x % D = x
  OBVIOUS
<1>2. ASSUME NEW x \in D .. 2 * D - 1 PROVE x % D = x - D
  OBVIOUS
<1>3. ASSUME NEW x \in 1 .. D PROVE (x - D) % D = x % D
  OBVIOUS
<1> QED BY <1>1, <1>2, <1>3

\* The remainder is the conditional subtraction of the one-hot queue.
LEMMA PlaceIsModulo ==
  ASSUME NEW D \in Nat \ {0}, NEW p \in 0 .. D - 1, NEW k \in 0 .. D - 1
  PROVE  (p + k) % D = Place(D, p, k)
<1>1. CASE p + k < D
  <2>1. p + k \in 0 .. D - 1
    BY <1>1
  <2>2. (p + k) % D = p + k
    BY <2>1, Modulo, Zenon
  <2> QED BY <1>1, <2>2 DEF Place
<1>2. CASE p + k >= D
  <2> PICK x : x = p + k
    OBVIOUS
  <2>1. x \in D .. 2 * D - 1
    BY <1>2
  <2>2. x % D = x - D
    BY <2>1
  <2>3. Place(D, p, k) = x - D
    BY <1>2 DEF Place
  <2> QED BY <2>2, <2>3, Zenon
<1> QED BY <1>1, <1>2

LEMMA HeldIs ==
  ASSUME NEW D \in Nat \ {0}, NEW r \in 0 .. D - 1, NEW n \in 0 .. D, NEW rf \in [0 .. D - 1 -> Items]
  PROVE  /\ Held(D, r, n, rf) = Stretch(D, r, n, rf)
         /\ Held(D, r, n, rf) \in Seq(Items) /\ Len(Held(D, r, n, rf)) = n
         /\ n > 0 => Head(Held(D, r, n, rf)) = rf[r]
<1>1. ASSUME NEW i \in 1 .. n PROVE (r + i - 1) % D = Place(D, r, i - 1)
  <2>1. i - 1 \in 0 .. D - 1 /\ r + i - 1 = r + (i - 1)
    OBVIOUS
  <2> QED BY <2>1, PlaceIsModulo
<1>2. Held(D, r, n, rf) = [i \in 1 .. n |-> rf[Place(D, r, i - 1)]]
  BY <1>1 DEF Held
<1>3. Held(D, r, n, rf) = Stretch(D, r, n, rf)
  BY <1>2 DEF Stretch
<1>4. Held(D, r, n, rf) \in Seq(Items) /\ Len(Held(D, r, n, rf)) = n
  <2>1. Stretch(D, r, n, rf) \in Seq(Items) /\ Len(Stretch(D, r, n, rf)) = n
    BY StretchIs
  <2> QED BY <1>3, <2>1, Zenon
<1>5. ASSUME n > 0 PROVE Head(Held(D, r, n, rf)) = rf[r]
  <2>1. 1 \in 1 .. n
    BY <1>5
  <2>2. Held(D, r, n, rf)[1] = rf[Place(D, r, 1 - 1)]
    BY <1>2, <2>1
  <2>3. Place(D, r, 1 - 1) = r
    BY DEF Place
  <2>4. Held(D, r, n, rf) # <<>>
    BY <1>4, <1>5
  <2> QED BY <1>4, <2>2, <2>3, <2>4
<1> QED BY <1>3, <1>4, <1>5

\* Where a clock edge that writes d when wen and reads when ren takes the stretch.
Turns(D, r, n, rf, d, wen, ren, r2, n2, rf2) ==
  /\ r2 \in 0 .. D - 1 /\ n2 \in 0 .. D /\ rf2 \in [0 .. D - 1 -> Items]
  /\ Place(D, r2, n2) = IF wen THEN Place(D, Place(D, r, n), 1) ELSE Place(D, r, n)
  /\ Held(D, r2, n2, rf2) =
       LET H == IF wen THEN Append(Held(D, r, n, rf), d) ELSE Held(D, r, n, rf)
       IN  IF ren THEN Tail(H) ELSE H

LEMMA HeldMoves ==
  ASSUME NEW D \in Nat \ {0}, NEW r \in 0 .. D - 1, NEW n \in 0 .. D,
         NEW rf \in [0 .. D - 1 -> Items], NEW d \in Items,
         NEW wen \in BOOLEAN, NEW ren \in BOOLEAN,
         ren => n > 0, (wen /\ n = D) => ren,
         NEW r2, r2 = (IF ren THEN Place(D, r, 1) ELSE r),
         NEW n2, n2 = (IF wen = ren THEN n ELSE IF wen THEN n + 1 ELSE n - 1),
         NEW rf2, rf2 = (IF wen THEN [rf EXCEPT ![Place(D, r, n)] = d] ELSE rf)
  PROVE  Turns(D, r, n, rf, d, wen, ren, r2, n2, rf2)
<1>1. Place(D, r, n) \in 0 .. D - 1 /\ Place(D, r, 1) \in 0 .. D - 1
  <2>1. 1 \in 0 .. D
    OBVIOUS
  <2> QED BY <2>1, PlaceInRange, Zenon
<1>2. r2 \in 0 .. D - 1 /\ n2 \in 0 .. D /\ rf2 \in [0 .. D - 1 -> Items]
  BY <1>1
<1>3. Place(D, r2, n2) = IF wen THEN Place(D, Place(D, r, n), 1) ELSE Place(D, r, n)
  BY DEF Place
<1>4. Moved(D, r, n, rf, d, wen, ren)
  BY StretchMoves
<1>5. /\ Held(D, r, n, rf) = Stretch(D, r, n, rf)
      /\ Held(D, r2, n2, rf2) = Stretch(D, r2, n2, rf2)
  <2>1. \A p \in 0 .. D - 1, m \in 0 .. D, g \in [0 .. D - 1 -> Items] :
          Held(D, p, m, g) = Stretch(D, p, m, g)
    BY HeldIs, Zenon
  <2> QED BY <1>2, <2>1, Zenon
<1>6. Held(D, r2, n2, rf2) =
        LET H == IF wen THEN Append(Held(D, r, n, rf), d) ELSE Held(D, r, n, rf)
        IN  IF ren THEN Tail(H) ELSE H
  BY <1>4, <1>5, Zenon DEF Moved
<1> QED BY <1>2, <1>3, <1>6, Zenon DEF Turns

--------------------------------------------------------------------------------
(* The byte queue of UART and SPI.                                              *)

ByteInv ==
  ram \in [0 .. DP - 1 -> Items] /\ wptr \in 0 .. DP - 1 /\ rptr_1 \in 0 .. DP - 1 /\ maybe_full \in BOOLEAN

\* The two pointers and the flag always describe a stretch, whatever the flag says while the
\* pointers differ.
LEMMA ByteHolds ==
  ASSUME ByteInv
  PROVE  /\ Bytes!held \in 0 .. DP /\ wptr = Place(DP, rptr_1, Bytes!held)
         /\ Bytes!queue = Held(DP, rptr_1, Bytes!held, ram)
         /\ Bytes!io_enq_ready <=> Bytes!held < DP
         /\ Bytes!io_deq_valid <=> Bytes!held > 0
<1> USE DPAssumption DEF ByteInv
<1>1. Bytes!held \in 0 .. DP /\ wptr = Place(DP, rptr_1, Bytes!held)
  BY DEF Bytes!held, Bytes!ptr_match, Place
<1>2. Bytes!queue = Held(DP, rptr_1, Bytes!held, ram)
  BY DEF Bytes!queue, Held
<1>3. (Bytes!io_enq_ready <=> Bytes!held < DP) /\ (Bytes!io_deq_valid <=> Bytes!held > 0)
  BY DEF Bytes!held, Bytes!ptr_match, Bytes!io_enq_ready, Bytes!io_deq_valid
<1> QED BY <1>1, <1>2, <1>3

\* Pointers that differ tell their distance.
LEMMA PlaceGap ==
  ASSUME NEW r \in 0 .. DP - 1, NEW m \in 1 .. DP - 1, NEW w, w = Place(DP, r, m)
  PROVE  w # r /\ (IF w > r THEN w - r ELSE w + DP - r) = m
BY DPAssumption DEF Place

LEMMA ByteCycle ==
  ASSUME ByteInv, NEW enq_valid \in BOOLEAN, NEW bits \in Items, NEW deq_ready \in BOOLEAN,
         Bytes!Cycle(enq_valid, bits, deq_ready)
  PROVE  ByteInv' /\ Bytes!Fifo!Cycle(enq_valid, bits, deq_ready)
<1> USE DPAssumption
<1> DEFINE n == Bytes!held
           wen == enq_valid /\ n < DP
           ren == deq_ready /\ n > 0
<1>1. /\ n \in 0 .. DP /\ wptr = Place(DP, rptr_1, n) /\ Bytes!queue = Held(DP, rptr_1, n, ram)
      /\ Bytes!io_enq_ready <=> n < DP
      /\ Bytes!io_deq_valid <=> n > 0
  BY ByteHolds
<1>2. ram \in [0 .. DP - 1 -> Items] /\ wptr \in 0 .. DP - 1 /\ rptr_1 \in 0 .. DP - 1 /\ maybe_full \in BOOLEAN
  BY DEF ByteInv
<1>3. \A p \in 0 .. DP - 1 : Bytes!NextPtr(p) = Place(DP, p, 1)
  <2>1. ASSUME NEW p \in 0 .. DP - 1 PROVE Bytes!NextPtr(p) = Place(DP, p, 1)
    <3>1. CASE p = DP - 1
      BY <3>1, Modulo DEF Bytes!NextPtr, Place
    <3>2. CASE p # DP - 1
      <4>1. p + 1 \in 0 .. DP - 1
        BY <3>2
      <4>2. (p + 1) % DP = p + 1
        BY <4>1, Modulo, Zenon
      <4> QED BY <4>1, <4>2 DEF Bytes!NextPtr, Place
    <3> QED BY <3>1, <3>2
  <2> QED BY <2>1
<1>4. /\ ram' = IF wen THEN [ram EXCEPT ![Place(DP, rptr_1, n)] = bits] ELSE ram
      /\ rptr_1' = IF ren THEN Place(DP, rptr_1, 1) ELSE rptr_1
      /\ wptr' = IF wen THEN Place(DP, Place(DP, rptr_1, n), 1) ELSE Place(DP, rptr_1, n)
      /\ maybe_full' = IF wen # ren THEN wen ELSE maybe_full
  BY <1>1, <1>2, <1>3 DEF Bytes!Cycle, Bytes!enq, Bytes!maybe_full_nxt
<1>5. wen \in BOOLEAN /\ ren \in BOOLEAN /\ (ren => n > 0) /\ (wen => n < DP)
  OBVIOUS
<1>6. PICK m : m = IF wen = ren THEN n ELSE IF wen THEN n + 1 ELSE n - 1
  OBVIOUS
<1> HIDE DEF n, wen, ren
<1>7. /\ rptr_1' \in 0 .. DP - 1 /\ m \in 0 .. DP /\ ram' \in [0 .. DP - 1 -> Items]
      /\ Place(DP, rptr_1', m) = IF wen THEN Place(DP, Place(DP, rptr_1, n), 1) ELSE Place(DP, rptr_1, n)
      /\ Held(DP, rptr_1', m, ram') =
           LET H == IF wen THEN Append(Held(DP, rptr_1, n, ram), bits)
                    ELSE Held(DP, rptr_1, n, ram)
           IN  IF ren THEN Tail(H) ELSE H
  <2>1. (wen /\ n = DP) => ren
    BY <1>1, <1>5
  <2>2. Turns(DP, rptr_1, n, ram, bits, wen, ren, rptr_1', m, ram')
    <3>1. rptr_1 \in 0 .. DP - 1 /\ n \in 0 .. DP /\ ram \in [0 .. DP - 1 -> Items]
      BY <1>1, <1>2
    <3>2. /\ ram' = IF wen THEN [ram EXCEPT ![Place(DP, rptr_1, n)] = bits] ELSE ram
          /\ rptr_1' = IF ren THEN Place(DP, rptr_1, 1) ELSE rptr_1
      BY <1>4
    <3> QED BY <1>5, <1>6, <2>1, <3>1, <3>2, HeldMoves, ZenonT(60)
  <2> QED BY <2>2, Zenon DEF Turns
<1>8. ByteInv'
  <2>1. wptr' \in 0 .. DP - 1
    <3>1. 1 \in 0 .. DP
      OBVIOUS
    <3>2. Place(DP, rptr_1, n) \in 0 .. DP - 1
      BY <1>1, <1>2, PlaceInRange, Zenon
    <3>3. Place(DP, Place(DP, rptr_1, n), 1) \in 0 .. DP - 1
      BY <3>1, <3>2, PlaceInRange, Zenon
    <3> QED BY <1>4, <3>2, <3>3, Zenon
  <2>2. maybe_full' \in BOOLEAN
    BY <1>2, <1>4, <1>5
  <2> QED BY <1>7, <2>1, <2>2 DEF ByteInv
\* A level is told from the next turn's by the flag.
<1>9. Bytes!held' = m
  <2>1. wptr' = Place(DP, rptr_1', m) /\ rptr_1' \in 0 .. DP - 1
    BY <1>4, <1>7
  <2>2. m = DP => maybe_full'
    BY <1>1, <1>4, <1>5, <1>6 DEF n, Bytes!held, Bytes!ptr_match, ByteInv
  <2>3. m = 0 => ~maybe_full'
    BY <1>1, <1>4, <1>5, <1>6 DEF n, Bytes!held, Bytes!ptr_match, ByteInv
  <2>4. CASE m = 0
    <3>1. wptr' = rptr_1'
      <4>1. \A p \in 0 .. DP - 1 : Place(DP, p, 0) = p
        BY DEF Place
      <4> QED BY <2>1, <2>4, <4>1, Zenon
    <3>2. ~maybe_full'
      BY <2>3, <2>4
    <3> QED BY <2>4, <3>1, <3>2, Zenon DEF Bytes!held, Bytes!ptr_match
  <2>5. CASE m = DP
    <3>1. wptr' = rptr_1'
      <4>1. \A p \in 0 .. DP - 1 : Place(DP, p, DP) = p
        BY DEF Place
      <4> QED BY <2>1, <2>5, <4>1, Zenon
    <3>2. maybe_full'
      BY <2>2, <2>5
    <3> QED BY <2>5, <3>1, <3>2, Zenon DEF Bytes!held, Bytes!ptr_match
  <2>6. CASE m \in 1 .. DP - 1
    <3>1. wptr' # rptr_1' /\ (IF wptr' > rptr_1' THEN wptr' - rptr_1' ELSE wptr' + DP - rptr_1') = m
      BY <2>1, <2>6, PlaceGap
    <3> QED BY <3>1, Zenon DEF Bytes!held, Bytes!ptr_match
  <2> QED BY <1>7, <2>4, <2>5, <2>6
<1>10. Bytes!queue' = Held(DP, rptr_1', m, ram')
  <2>1. ByteInv' => Bytes!queue' = Held(DP, rptr_1', Bytes!held', ram')
    BY DEF Bytes!queue, Held
  <2> QED BY <1>8, <1>9, <2>1
<1>11. /\ wen <=> enq_valid /\ Bytes!Fifo!in_rdy(deq_ready)
       /\ ren <=> deq_ready /\ Bytes!Fifo!out_vld(enq_valid)
  <2>1. Len(Bytes!queue) = n /\ (Bytes!queue # <<>> <=> n > 0)
    <3>1. Bytes!queue \in Seq(Items) /\ Len(Bytes!queue) = n
      BY <1>1, <1>2, HeldIs
    <3> QED BY <3>1
  <2> QED BY <2>1 DEF wen, ren, Bytes!Fifo!in_rdy, Bytes!Fifo!out_vld
<1>12. Bytes!Fifo!Cycle(enq_valid, bits, deq_ready)
  BY <1>1, <1>7, <1>10, <1>11, Zenon DEF Bytes!Fifo!Cycle
<1> QED BY <1>8, <1>12

\* A reset drops what is held; the memory keeps its bytes.
LEMMA ByteReset == ASSUME ByteInv, Bytes!Reset PROVE ByteInv' /\ Bytes!Fifo!Flush
<1>1. ByteInv' /\ Bytes!held' = 0
  <2>1. 0 \in 0 .. DP - 1
    BY DPAssumption
  <2> QED BY <2>1, Zenon DEF ByteInv, Bytes!Reset, Bytes!held, Bytes!ptr_match
<1>2. Bytes!queue' = <<>>
  BY <1>1 DEF Bytes!queue
<1> QED BY <1>1, <1>2 DEF Bytes!Fifo!Flush

LEMMA ByteInit == Bytes!Init => ByteInv /\ Bytes!Fifo!Init
<1> SUFFICES ASSUME Bytes!Init PROVE ByteInv /\ Bytes!Fifo!Init
  OBVIOUS
<1>1. ByteInv /\ Bytes!held = 0
  <2>1. 0 \in 0 .. DP - 1
    BY DPAssumption
  <2> QED BY <2>1, Zenon DEF Bytes!Slots, ByteInv, Bytes!Init, Bytes!held, Bytes!ptr_match
<1>2. Bytes!queue = <<>>
  BY <1>1 DEF Bytes!queue
<1> QED BY <1>1, <1>2 DEF Bytes!Fifo!Init

LEMMA ByteStep ==
  ByteInv /\ [Bytes!Next]_(Bytes!vars) => ByteInv' /\ [Bytes!Fifo!Next]_(Bytes!queue)
<1> SUFFICES ASSUME ByteInv, [Bytes!Next]_(Bytes!vars) PROVE ByteInv' /\ [Bytes!Fifo!Next]_(Bytes!queue)
  OBVIOUS
<1>1. ASSUME NEW enq_valid \in BOOLEAN, NEW deq_ready \in BOOLEAN, NEW bits \in Items,
             Bytes!Cycle(enq_valid, bits, deq_ready)
      PROVE  ByteInv' /\ Bytes!Fifo!Next
  BY <1>1, ByteCycle, Zenon DEF Bytes!Fifo!Next
<1>2. CASE Bytes!Reset
  BY <1>2, ByteReset DEF Bytes!Fifo!Next
<1>3. CASE UNCHANGED Bytes!vars
  BY <1>3 DEF Bytes!vars, ByteInv, Bytes!queue, Bytes!held, Bytes!ptr_match
<1> QED BY <1>1, <1>2, <1>3 DEF Bytes!Next

\* The byte queue is first in, first out, holds up to DP bytes, refuses only when full and
\* loses nothing but in a reset, for every depth (sirv_queue_1.v).
THEOREM ByteImplements == Bytes!Spec => Bytes!Queues
<1>1. ByteInv => Bytes!Follows
  BY ByteCycle, ByteReset, Zenon DEF Bytes!Follows
<1> QED BY ByteInit, ByteStep, <1>1, PTL DEF Bytes!Spec, Bytes!Queues, Bytes!Fifo!Spec

\* The count the watermark interrupts compare is the number of bytes held, also when the
\* queue is full (sirv_queue_1.v, io_count).
THEOREM ByteCounts == Bytes!Spec => []Bytes!CountTells
<1>1. ByteInv => Bytes!CountTells
  <2> SUFFICES ASSUME ByteInv PROVE Bytes!CountTells
    OBVIOUS
  <2>1. Len(Bytes!queue) = Bytes!held
    <3>1. ram \in [0 .. DP - 1 -> Items] /\ rptr_1 \in 0 .. DP - 1
      BY DEF ByteInv
    <3>2. Bytes!held \in 0 .. DP /\ Bytes!queue = Held(DP, rptr_1, Bytes!held, ram)
      BY ByteHolds
    <3>3. Len(Held(DP, rptr_1, Bytes!held, ram)) = Bytes!held
      <4>1. Bytes!held \in Nat
        BY <3>2
      <4> QED BY <4>1 DEF Held
    <3> QED BY <3>2, <3>3
  <2>2. Bytes!io_count = Bytes!held
    <3>1. CASE wptr >= rptr_1
      <4>1. wptr - rptr_1 \in 0 .. DP - 1
        BY <3>1, DPAssumption DEF ByteInv
      <4>2. (wptr - rptr_1) % DP = wptr - rptr_1
        BY <4>1, Modulo, DPAssumption, Zenon
      <4> QED BY <3>1, <4>1, <4>2, DPAssumption
              DEF ByteInv, Bytes!io_count, Bytes!held, Bytes!ptr_match
    <3>2. CASE wptr < rptr_1
      <4>1. wptr + DP - rptr_1 \in 1 .. DP - 1 /\ (wptr + DP - rptr_1) - DP = wptr - rptr_1
        BY <3>2, DPAssumption DEF ByteInv
      <4>2. (wptr - rptr_1) % DP = wptr + DP - rptr_1
        <5>1. wptr + DP - rptr_1 \in 1 .. DP /\ wptr + DP - rptr_1 \in 0 .. DP - 1
          BY <4>1, DPAssumption
        <5> QED BY <4>1, <5>1, Modulo, DPAssumption, Zenon
      <4> QED BY <3>2, <4>1, <4>2, DPAssumption
              DEF ByteInv, Bytes!io_count, Bytes!held, Bytes!ptr_match
    <3> QED BY <3>1, <3>2, DPAssumption DEF ByteInv
  <2> QED BY <2>1, <2>2 DEF Bytes!CountTells
<1> QED BY ByteInit, ByteStep, <1>1, PTL DEF Bytes!Spec

--------------------------------------------------------------------------------
(* The register with a valid flag.                                              *)

StageInv == vld_r \in BOOLEAN /\ stage_dat \in Items

LEMMA OneMore == ASSUME NEW x \in Items PROVE Tail(Append(<<>>, x)) = <<>>
<1>1. Append(<<>>, x) = <<x>>
  OBVIOUS
<1>2. Tail(<<x>>) = <<>>
  OBVIOUS
<1> QED BY <1>1, <1>2

LEMMA OneItem ==
  ASSUME NEW x \in Items, NEW y \in Items
  PROVE  Tail(<<x>>) = <<>> /\ Tail(Append(<<x>>, y)) = <<y>>
<1>1. <<x>> \in Seq(Items) /\ Len(<<x>>) = 1 /\ <<y>> \in Seq(Items) /\ Len(<<y>>) = 1 /\ <<y>>[1] = y
  OBVIOUS
<1>2. Tail(<<x>>) = <<>>
  OBVIOUS
<1> PICK S : S = Append(<<x>>, y)
  OBVIOUS
<1>3. S \in Seq(Items) /\ Len(S) = 2 /\ S[2] = y /\ S # <<>>
  BY <1>1
<1>4. Tail(S) \in Seq(Items) /\ Len(Tail(S)) = 1 /\ Tail(S)[1] = y
  BY <1>3
<1>5. Tail(S) = <<y>>
  <2> PICK t : t = Tail(S)
    OBVIOUS
  <2>1. t \in Seq(Items) /\ Len(t) = 1 /\ t[1] = y
    BY <1>4
  <2> PICK u : u = <<y>>
    OBVIOUS
  <2>2. u \in Seq(Items) /\ Len(u) = 1 /\ u[1] = y
    BY <1>1
  <2>3. \A i \in 1 .. Len(t) : t[i] = u[i]
    BY <2>1, <2>2
  <2>4. t = u
    BY <2>1, <2>2, <2>3, SeqEqual
  <2> QED BY <2>4
<1> QED BY <1>2, <1>5

LEMMA StageCycle ==
  ASSUME StageInv, NEW i_vld \in BOOLEAN, NEW i_dat \in Items, NEW rdy \in BOOLEAN,
         Stage!Cycle(i_vld, i_dat, rdy)
  PROVE  StageInv' /\ Stage!Fifo!Cycle(i_vld, i_dat, rdy)
<1> USE CutAssumption DEF StageInv, Stage!Cycle, Stage!vld_nxt, Stage!i_rdy, Stage!o_vld
<1>1. StageInv'
  OBVIOUS
<1>2. Stage!queue' = IF vld_r' THEN <<stage_dat'>> ELSE <<>>
  BY DEF Stage!queue
<1>3. CASE vld_r
  <2>1. Stage!queue = <<stage_dat>> /\ Len(Stage!queue) = 1
    BY <1>3 DEF Stage!queue
  <2>2. /\ Stage!Fifo!in_rdy(rdy) <=> ~CUT_READY /\ rdy
        /\ Stage!Fifo!out_vld(i_vld)
    BY <2>1 DEF Stage!Fifo!in_rdy, Stage!Fifo!out_vld
  <2>3. Tail(<<stage_dat>>) = <<>> /\ Tail(Append(<<stage_dat>>, i_dat)) = <<i_dat>>
    BY OneItem DEF StageInv
  <2> QED BY <1>1, <1>2, <1>3, <2>1, <2>2, <2>3 DEF Stage!Fifo!Cycle
<1>4. CASE ~vld_r
  <2>1. Stage!queue = <<>> /\ Len(Stage!queue) = 0
    BY <1>4 DEF Stage!queue
  <2>2. Stage!Fifo!in_rdy(rdy) /\ ~Stage!Fifo!out_vld(i_vld)
    BY <2>1 DEF Stage!Fifo!in_rdy, Stage!Fifo!out_vld
  <2>3. Append(<<>>, i_dat) = <<i_dat>>
    OBVIOUS
  <2> QED BY <1>1, <1>2, <1>4, <2>1, <2>2, <2>3 DEF Stage!Fifo!Cycle
<1> QED BY <1>3, <1>4

\* The pipe stage is a queue of one that, unless its ready is cut, takes an item while one
\* leaves; nothing is lost but in a reset (sirv_gnrl_pipe_stage.sv).
THEOREM StageImplements == Stage!Spec => Stage!Queues
<1>1. Stage!Init => StageInv /\ Stage!Fifo!Init
  BY DEF Stage!Init, StageInv, Stage!Fifo!Init, Stage!queue
<1>2. ASSUME StageInv, Stage!Reset PROVE StageInv' /\ Stage!Fifo!Flush
  BY <1>2 DEF StageInv, Stage!Reset, Stage!queue, Stage!Fifo!Flush
<1>3. StageInv /\ [Stage!Next]_(Stage!vars) => StageInv' /\ [Stage!Fifo!Next]_(Stage!queue)
  <2> SUFFICES ASSUME StageInv, [Stage!Next]_(Stage!vars)
               PROVE  StageInv' /\ [Stage!Fifo!Next]_(Stage!queue)
    OBVIOUS
  <2>1. ASSUME NEW i_vld \in BOOLEAN, NEW rdy \in BOOLEAN, NEW i_dat \in Items,
               Stage!Cycle(i_vld, i_dat, rdy)
        PROVE  StageInv' /\ Stage!Fifo!Next
    BY <2>1, StageCycle, Zenon DEF Stage!Fifo!Next
  <2>2. CASE UNCHANGED Stage!vars
    BY <2>2 DEF Stage!vars, StageInv, Stage!queue
  <2> QED BY <1>2, <2>1, <2>2 DEF Stage!Next, Stage!Fifo!Next
<1>4. StageInv => Stage!Follows
  BY StageCycle, <1>2, Zenon DEF Stage!Follows
<1> QED BY <1>1, <1>3, <1>4, PTL DEF Stage!Spec, Stage!Queues, Stage!Fifo!Spec

--------------------------------------------------------------------------------
(* The queue of the debug transport, with a depth of D and pointers that count  *)
(* up to R.                                                                     *)

NextPlace(D, R, p) == IF p = (D % R) - 1 THEN 0 ELSE (p + 1) % R

\* A pointer wraps at the depth, whether or not the depth is a power of two.
LEMMA NextPlaceIs ==
  ASSUME NEW D \in Nat \ {0}, NEW R \in Nat, R >= D, NEW p \in 0 .. D - 1
  PROVE  NextPlace(D, R, p) = Place(D, p, 1)
<1>1. NextPlace(D, R, p) = IF p = (D % R) - 1 THEN 0 ELSE (p + 1) % R
  BY DEF NextPlace
<1>2. CASE R = D
  <2>1. D % D = 0
    OBVIOUS
  <2>2. p # (D % R) - 1
    BY <1>2, <2>1
  <2>3. (p + 1) % D = Place(D, p, 1)
    <3>1. CASE p = D - 1
      BY <2>1, <3>1 DEF Place
    <3>2. CASE p # D - 1
      <4>1. p + 1 \in 0 .. D - 1
        BY <3>2
      <4>2. (p + 1) % D = p + 1
        BY <4>1, Modulo, Zenon
      <4> QED BY <4>1, <4>2 DEF Place
    <3> QED BY <3>1, <3>2
  <2> QED BY <1>1, <1>2, <2>2, <2>3
<1>3. CASE R > D
  <2>1. \A x \in 0 .. D : x % R = x
    <3>1. ASSUME NEW x \in 0 .. D PROVE x % R = x
      BY <1>3
    <3> QED BY <3>1
  <2>2. D % R = D /\ (p + 1) % R = p + 1
    <3>1. D \in 0 .. D /\ p + 1 \in 0 .. D
      OBVIOUS
    <3> QED BY <2>1, <3>1, Zenon
  <2> QED BY <1>1, <2>2 DEF Place
<1> QED BY <1>2, <1>3

\* The registers hold a stretch: the write pointer follows from the other two.
V3Inv(D, r, w, n, rf) ==
  r \in 0 .. D - 1 /\ n \in 0 .. D /\ rf \in [0 .. D - 1 -> Items] /\ w = Place(D, r, n)

\* A clock edge without a flush, and what it does to the stretch.
V3Edge(D, R, ft, push, dat, pop, r, w, n, rf, r2, w2, n2, rf2) ==
  LET pushes == push /\ n # D
      pops == pop /\ ~(n = 0 /\ ~(ft /\ push))
      through == ft /\ n = 0 /\ push /\ pop
      wen == pushes /\ ~through
      ren == pops /\ ~through
  IN  /\ rf2 = IF pushes THEN [rf EXCEPT ![w] = dat] ELSE rf
      /\ w2 = IF wen THEN NextPlace(D, R, w) ELSE w
      /\ r2 = IF ren THEN NextPlace(D, R, r) ELSE r
      /\ n2 = IF wen = ren THEN n ELSE IF wen THEN n + 1 ELSE n - 1

V3Queues(D, ft, push, dat, pop, Q, Q2) ==
  LET held == IF push /\ Len(Q) < D THEN Append(Q, dat) ELSE Q
  IN  Q2 = IF pop /\ (Q # <<>> \/ (ft /\ push)) THEN Tail(held) ELSE held

LEMMA V3Holds ==
  ASSUME NEW D \in Nat \ {0}, NEW r, NEW w, NEW n, NEW rf, V3Inv(D, r, w, n, rf)
  PROVE  /\ Held(D, r, n, rf) \in Seq(Items) /\ Len(Held(D, r, n, rf)) = n
         /\ Held(D, r, n, rf) # <<>> <=> n > 0
         /\ n > 0 => Head(Held(D, r, n, rf)) = rf[r]
<1>1. r \in 0 .. D - 1 /\ n \in 0 .. D /\ rf \in [0 .. D - 1 -> Items]
  BY DEF V3Inv
<1>2. /\ Held(D, r, n, rf) \in Seq(Items) /\ Len(Held(D, r, n, rf)) = n
      /\ n > 0 => Head(Held(D, r, n, rf)) = rf[r]
  BY <1>1, HeldIs
<1>3. Held(D, r, n, rf) # <<>> <=> n > 0
  BY <1>1, <1>2
<1> QED BY <1>2, <1>3

LEMMA V3Moves ==
  ASSUME NEW D \in Nat \ {0}, NEW R \in Nat, R >= D, NEW ft \in BOOLEAN,
         NEW push \in BOOLEAN, NEW dat \in Items, NEW pop \in BOOLEAN,
         NEW r, NEW w, NEW n, NEW rf, NEW r2, NEW w2, NEW n2, NEW rf2,
         V3Inv(D, r, w, n, rf),
         V3Edge(D, R, ft, push, dat, pop, r, w, n, rf, r2, w2, n2, rf2)
  PROVE  /\ V3Inv(D, r2, w2, n2, rf2)
         /\ V3Queues(D, ft, push, dat, pop, Held(D, r, n, rf), Held(D, r2, n2, rf2))
<1> DEFINE pushes == push /\ n # D
           pops == pop /\ ~(n = 0 /\ ~(ft /\ push))
           through == ft /\ n = 0 /\ push /\ pop
           wen == pushes /\ ~through
           ren == pops /\ ~through
           Q == Held(D, r, n, rf)
           Q2 == Held(D, r2, n2, rf2)
<1>1. /\ r \in 0 .. D - 1 /\ n \in 0 .. D /\ rf \in [0 .. D - 1 -> Items]
      /\ w = Place(D, r, n) /\ w \in 0 .. D - 1
  BY PlaceInRange DEF V3Inv
<1>2. Q \in Seq(Items) /\ Len(Q) = n /\ (Q # <<>> <=> n > 0)
  BY V3Holds
<1>3. /\ rf2 = IF pushes THEN [rf EXCEPT ![w] = dat] ELSE rf
      /\ w2 = IF wen THEN NextPlace(D, R, w) ELSE w
      /\ r2 = IF ren THEN NextPlace(D, R, r) ELSE r
      /\ n2 = IF wen = ren THEN n ELSE IF wen THEN n + 1 ELSE n - 1
  BY Zenon DEF V3Edge
<1>4. NextPlace(D, R, w) = Place(D, w, 1) /\ NextPlace(D, R, r) = Place(D, r, 1)
  BY <1>1, NextPlaceIs
<1>5. wen \in BOOLEAN /\ ren \in BOOLEAN /\ pushes \in BOOLEAN /\ through \in BOOLEAN
  OBVIOUS
<1> HIDE DEF Q, Q2
\* An item that falls through is written and left behind.
<1>6. CASE through
  <2>1. ~wen /\ ~ren /\ n = 0 /\ pushes
    BY <1>6
  <2>2. r2 = r /\ w2 = w /\ n2 = n /\ rf2 = [rf EXCEPT ![w] = dat]
    BY <1>3, <2>1
  <2>3. V3Inv(D, r2, w2, n2, rf2)
    BY <1>1, <2>2 DEF V3Inv
  <2>4. Q = <<>>
    BY <1>2, <2>1
  <2>5. Q2 = <<>>
    BY <2>1, <2>2 DEF Q2, Held
  <2>6. Len(<<>>) < D /\ Tail(Append(<<>>, dat)) = <<>>
    BY OneMore
  <2>7. V3Queues(D, ft, push, dat, pop, <<>>, <<>>)
    BY <1>6, <2>6 DEF V3Queues
  <2> QED BY <2>3, <2>4, <2>5, <2>7 DEF Q, Q2
<1>7. CASE ~through
  <2>1. wen = pushes /\ ren = pops /\ (ren <=> pop /\ n > 0) /\ (wen <=> push /\ n < D)
    BY <1>1, <1>7
  <2>2. (ren => n > 0) /\ ((wen /\ n = D) => ren)
    BY <1>1, <2>1
  <2> HIDE DEF wen, ren
  <2>3. /\ rf2 = IF wen THEN [rf EXCEPT ![Place(D, r, n)] = dat] ELSE rf
        /\ r2 = IF ren THEN Place(D, r, 1) ELSE r
        /\ n2 = IF wen = ren THEN n ELSE IF wen THEN n + 1 ELSE n - 1
        /\ w2 = IF wen THEN Place(D, Place(D, r, n), 1) ELSE Place(D, r, n)
    BY <1>1, <1>3, <1>4, <2>1, Zenon
  <2>4. Turns(D, r, n, rf, dat, wen, ren, r2, n2, rf2)
    <3>1. r \in 0 .. D - 1 /\ n \in 0 .. D /\ rf \in [0 .. D - 1 -> Items]
      BY <1>1
    <3>2. wen \in BOOLEAN /\ ren \in BOOLEAN /\ (ren => n > 0) /\ ((wen /\ n = D) => ren)
      BY <1>5, <2>2
    <3>3. r2 = IF ren THEN Place(D, r, 1) ELSE r
      BY <2>3
    <3>4. n2 = IF wen = ren THEN n ELSE IF wen THEN n + 1 ELSE n - 1
      BY <2>3
    <3>5. rf2 = IF wen THEN [rf EXCEPT ![Place(D, r, n)] = dat] ELSE rf
      BY <2>3
    <3> QED BY <3>1, <3>2, <3>3, <3>4, <3>5, HeldMoves, ZenonT(60)
  <2>5. V3Inv(D, r2, w2, n2, rf2)
    BY <2>3, <2>4, Zenon DEF V3Inv, Turns
  <2>6. Q2 = LET H == IF wen THEN Append(Q, dat) ELSE Q
             IN  IF ren THEN Tail(H) ELSE H
    BY <2>4, Zenon DEF Q, Q2, Turns
  <2>7. /\ wen <=> push /\ Len(Q) < D
        /\ ren <=> pop /\ (Q # <<>> \/ (ft /\ push))
    BY <1>1, <1>2, <1>7, <2>1 DEF through
  <2>8. V3Queues(D, ft, push, dat, pop, Q, Q2)
    BY <2>6, <2>7, Zenon DEF V3Queues
  <2> QED BY <2>5, <2>8 DEF Q, Q2
<1> QED BY <1>6, <1>7

\* A flush and a reset leave an empty stretch.
LEMMA V3Empty ==
  ASSUME NEW D \in Nat \ {0}, NEW rf \in [0 .. D - 1 -> Items]
  PROVE  V3Inv(D, 0, 0, 0, rf) /\ Held(D, 0, 0, rf) = <<>>
BY DEF V3Inv, Place, Held

\* While it is not full the fill level is the distance of the pointers.
LEMMA V3Distance ==
  ASSUME NEW D \in Nat \ {0}, NEW R \in Nat, R >= D,
         NEW r, NEW w, NEW n, NEW rf, V3Inv(D, r, w, n, rf), n # D
  PROVE  w = (r + (n % R)) % D
<1>1. r \in 0 .. D - 1 /\ n \in 0 .. D - 1 /\ w = Place(D, r, n) /\ R \in Nat \ {0}
  BY DEF V3Inv
<1>2. n % R = n
  BY <1>1
<1>3. (r + n) % D = Place(D, r, n)
  BY <1>1, PlaceIsModulo
<1> QED BY <1>1, <1>2, <1>3

--------------------------------------------------------------------------------
(* As the SoC uses it.                                                           *)

PlainInv == V3Inv(DP, read_pointer_q, write_pointer_q, status_cnt_q, mem_q)
PlainIs == Plain!queue = Held(DP, read_pointer_q, status_cnt_q, mem_q)

LEMMA PlainCycle ==
  ASSUME PlainInv, NEW push \in BOOLEAN, NEW dat \in Items, NEW pop \in BOOLEAN,
         Plain!Cycle(push, dat, pop, FALSE)
  PROVE  PlainInv' /\ Plain!Fifo!Cycle(push, dat, pop)
<1>1. DP \in Nat \ {0} /\ Plain!PtrRange \in Nat /\ Plain!PtrRange >= DP
  BY DPAssumption, PointersReach
<1>2. V3Edge(DP, Plain!PtrRange, FALSE, push, dat, pop,
             read_pointer_q, write_pointer_q, status_cnt_q, mem_q,
             read_pointer_q', write_pointer_q', status_cnt_q', mem_q')
  BY Zenon DEF V3Edge, NextPlace, Plain!Cycle, Plain!NextPointer,
     Plain!NextCount, Plain!full_o, Plain!empty_o
<1>3. /\ PlainInv'
      /\ V3Queues(DP, FALSE, push, dat, pop, Held(DP, read_pointer_q, status_cnt_q, mem_q),
                  Held(DP, read_pointer_q', status_cnt_q', mem_q'))
  BY <1>1, <1>2, V3Moves, Zenon DEF PlainInv
<1>4. PlainIs /\ PlainIs'
  BY DEF PlainIs, Plain!queue, Held
<1> QED BY <1>3, <1>4, Zenon
        DEF V3Queues, PlainIs, Plain!Fifo!Cycle, Plain!Fifo!in_rdy, Plain!Fifo!out_vld

LEMMA PlainFlush ==
  ASSUME PlainInv,
         \/ Plain!Reset
         \/ \E push, pop \in BOOLEAN, dat \in Items : Plain!Cycle(push, dat, pop, TRUE)
  PROVE  PlainInv' /\ Plain!Fifo!Flush
<1>1. read_pointer_q' = 0 /\ write_pointer_q' = 0 /\ status_cnt_q' = 0
  BY Zenon DEF Plain!Reset, Plain!Cycle
<1>2. mem_q \in [0 .. DP - 1 -> Items] /\ a \in Items
  BY ItemAssumption DEF PlainInv, V3Inv
<1>3. mem_q' \in [0 .. DP - 1 -> Items]
  <2>1. CASE Plain!Reset
    BY <1>2, <2>1 DEF Plain!Reset, Plain!Slots
  <2>2. ASSUME NEW push \in BOOLEAN, NEW pop \in BOOLEAN, NEW dat \in Items,
               Plain!Cycle(push, dat, pop, TRUE)
        PROVE  mem_q' \in [0 .. DP - 1 -> Items]
    <3>1. mem_q' = [mem_q EXCEPT ![write_pointer_q] = dat] \/ mem_q' = mem_q
      BY <2>2, Zenon DEF Plain!Cycle
    <3> QED BY <1>2, <3>1
  <2> QED BY <2>1, <2>2
<1>4. PlainInv' /\ Held(DP, read_pointer_q', status_cnt_q', mem_q') = <<>>
  BY <1>1, <1>3, V3Empty, DPAssumption, Zenon DEF PlainInv
<1>5. Plain!queue' = <<>>
  BY <1>1 DEF Plain!queue
<1> QED BY <1>4, <1>5 DEF Plain!Fifo!Flush

LEMMA PlainInit == Plain!Init => PlainInv /\ Plain!Fifo!Init
<1> SUFFICES ASSUME Plain!Init PROVE PlainInv /\ Plain!Fifo!Init
  OBVIOUS
<1>1. read_pointer_q = 0 /\ write_pointer_q = 0 /\ status_cnt_q = 0 /\ mem_q \in [0 .. DP - 1 -> Items]
  BY ItemAssumption DEF Plain!Init, Plain!Slots
<1>2. PlainInv
  BY <1>1, V3Empty, DPAssumption, Zenon DEF PlainInv
<1>3. Plain!queue = <<>>
  BY <1>1 DEF Plain!queue
<1> QED BY <1>2, <1>3 DEF Plain!Fifo!Init

LEMMA PlainStep ==
  PlainInv /\ [Plain!Next]_(Plain!vars) => PlainInv' /\ [Plain!Fifo!Next]_(Plain!queue)
<1> SUFFICES ASSUME PlainInv, [Plain!Next]_(Plain!vars)
             PROVE  PlainInv' /\ [Plain!Fifo!Next]_(Plain!queue)
  OBVIOUS
<1>1. ASSUME NEW push \in BOOLEAN, NEW pop \in BOOLEAN, NEW flush \in BOOLEAN, NEW dat \in Items,
             Plain!Cycle(push, dat, pop, flush)
      PROVE  PlainInv' /\ Plain!Fifo!Next
  <2>1. CASE flush = FALSE
    BY <1>1, <2>1, PlainCycle, Zenon DEF Plain!Fifo!Next
  <2>2. CASE flush = TRUE
    BY <1>1, <2>2, PlainFlush, Zenon DEF Plain!Fifo!Next
  <2> QED BY <2>1, <2>2
<1>2. CASE Plain!Reset
  BY <1>2, PlainFlush DEF Plain!Fifo!Next
<1>3. CASE UNCHANGED Plain!vars
  BY <1>3 DEF Plain!vars, PlainInv, Plain!queue
<1> QED BY <1>1, <1>2, <1>3 DEF Plain!Next

\* The queue of the debug transport is first in, first out, holds up to its depth and
\* drops items only in a flush or reset, for every depth (fifo_v3.sv).
THEOREM PlainImplements == Plain!Spec => Plain!Queues
<1>1. PlainInv => Plain!Follows
  BY PlainCycle, PlainFlush, Zenon DEF Plain!Follows
<1> QED BY PlainInit, PlainStep, <1>1, PTL DEF Plain!Spec, Plain!Queues, Plain!Fifo!Spec

\* Its flags, its data and its usage are those of the items held (fifo_v3.sv lines 28, 45-50, 63).
THEOREM PlainShows == Plain!Spec => [](Plain!OutputsAgree /\ Plain!UsageTells)
<1>1. PlainInv => Plain!OutputsAgree
  <2> SUFFICES ASSUME PlainInv, NEW push \in BOOLEAN, NEW pop \in BOOLEAN, NEW dat \in Items
               PROVE  /\ Plain!full_o <=> ~Plain!Fifo!in_rdy(pop)
                      /\ Plain!empty_o(push) <=> ~Plain!Fifo!out_vld(push)
                      /\ Plain!Fifo!out_vld(push) => Plain!data_o(push, dat) = Plain!Fifo!out_dat(dat)
    BY DEF Plain!OutputsAgree
  <2>1. status_cnt_q \in 0 .. DP /\ (status_cnt_q = 0 <=> ~(status_cnt_q > 0))
    BY DPAssumption DEF PlainInv, V3Inv
  <2>2. PlainIs
    BY DEF PlainIs, Plain!queue, Held
  <2>3. /\ Plain!queue \in Seq(Items) /\ Len(Plain!queue) = status_cnt_q
        /\ Plain!queue # <<>> <=> status_cnt_q > 0
        /\ status_cnt_q > 0 => Head(Plain!queue) = mem_q[read_pointer_q]
    BY <2>2, V3Holds, DPAssumption DEF PlainInv, PlainIs
  <2>4. Plain!full_o <=> ~Plain!Fifo!in_rdy(pop)
    BY <2>1, <2>3, DPAssumption DEF Plain!full_o, Plain!Fifo!in_rdy
  <2>5. Plain!empty_o(push) <=> ~Plain!Fifo!out_vld(push)
    BY <2>1, <2>3, Zenon DEF Plain!empty_o, Plain!Fifo!out_vld
  <2>6. Plain!Fifo!out_vld(push) => Plain!data_o(push, dat) = Plain!Fifo!out_dat(dat)
    BY <2>1, <2>3, Zenon DEF Plain!data_o, Plain!Fifo!out_vld, Plain!Fifo!out_dat
  <2> QED BY <2>4, <2>5, <2>6
<1>2. PlainInv => Plain!UsageTells
  <2> SUFFICES ASSUME PlainInv, ~Plain!full_o PROVE write_pointer_q = (read_pointer_q + Plain!usage_o) % DP
    BY Zenon DEF Plain!UsageTells
  <2>1. DP \in Nat \ {0} /\ Plain!PtrRange \in Nat /\ Plain!PtrRange >= DP /\ status_cnt_q # DP
    BY DPAssumption, PointersReach DEF Plain!full_o
  <2>2. write_pointer_q = (read_pointer_q + (status_cnt_q % Plain!PtrRange)) % DP
    BY <2>1, V3Distance, Zenon DEF PlainInv
  <2> QED BY <2>2 DEF Plain!usage_o
<1> QED BY PlainInit, PlainStep, <1>1, <1>2, PTL DEF Plain!Spec

--------------------------------------------------------------------------------
(* With fall-through.                                                            *)

ThroughInv == V3Inv(ODD, rp_t, wp_t, cnt_t, mem_t)
ThroughIs == Through!queue = Held(ODD, rp_t, cnt_t, mem_t)

LEMMA ThroughCycle ==
  ASSUME ThroughInv, NEW push \in BOOLEAN, NEW dat \in Items, NEW pop \in BOOLEAN,
         Through!Cycle(push, dat, pop, FALSE)
  PROVE  ThroughInv' /\ Through!Fifo!Cycle(push, dat, pop)
<1>1. ODD \in Nat \ {0} /\ Through!PtrRange \in Nat /\ Through!PtrRange >= ODD
  BY OddAssumption, PointersReach
<1>2. V3Edge(ODD, Through!PtrRange, TRUE, push, dat, pop,
             rp_t, wp_t, cnt_t, mem_t, rp_t', wp_t', cnt_t', mem_t')
  BY Zenon DEF V3Edge, NextPlace, Through!Cycle, Through!NextPointer,
     Through!NextCount, Through!full_o, Through!empty_o
<1>3. /\ ThroughInv'
      /\ V3Queues(ODD, TRUE, push, dat, pop, Held(ODD, rp_t, cnt_t, mem_t),
                  Held(ODD, rp_t', cnt_t', mem_t'))
  BY <1>1, <1>2, V3Moves, Zenon DEF ThroughInv
<1>4. ThroughIs /\ ThroughIs'
  BY DEF ThroughIs, Through!queue, Held
<1> QED BY <1>3, <1>4, Zenon
        DEF V3Queues, ThroughIs, Through!Fifo!Cycle, Through!Fifo!in_rdy, Through!Fifo!out_vld

LEMMA ThroughFlush ==
  ASSUME ThroughInv,
         \/ Through!Reset
         \/ \E push, pop \in BOOLEAN, dat \in Items : Through!Cycle(push, dat, pop, TRUE)
  PROVE  ThroughInv' /\ Through!Fifo!Flush
<1>1. rp_t' = 0 /\ wp_t' = 0 /\ cnt_t' = 0
  BY Zenon DEF Through!Reset, Through!Cycle
<1>2. mem_t \in [0 .. ODD - 1 -> Items] /\ a \in Items
  BY ItemAssumption DEF ThroughInv, V3Inv
<1>3. mem_t' \in [0 .. ODD - 1 -> Items]
  <2>1. CASE Through!Reset
    BY <1>2, <2>1 DEF Through!Reset, Through!Slots
  <2>2. ASSUME NEW push \in BOOLEAN, NEW pop \in BOOLEAN, NEW dat \in Items,
               Through!Cycle(push, dat, pop, TRUE)
        PROVE  mem_t' \in [0 .. ODD - 1 -> Items]
    <3>1. mem_t' = [mem_t EXCEPT ![wp_t] = dat] \/ mem_t' = mem_t
      BY <2>2, Zenon DEF Through!Cycle
    <3> QED BY <1>2, <3>1
  <2> QED BY <2>1, <2>2
<1>4. ThroughInv' /\ Held(ODD, rp_t', cnt_t', mem_t') = <<>>
  BY <1>1, <1>3, V3Empty, OddAssumption, Zenon DEF ThroughInv
<1>5. Through!queue' = <<>>
  BY <1>1 DEF Through!queue
<1> QED BY <1>4, <1>5 DEF Through!Fifo!Flush

LEMMA ThroughInit == Through!Init => ThroughInv /\ Through!Fifo!Init
<1> SUFFICES ASSUME Through!Init PROVE ThroughInv /\ Through!Fifo!Init
  OBVIOUS
<1>1. rp_t = 0 /\ wp_t = 0 /\ cnt_t = 0 /\ mem_t \in [0 .. ODD - 1 -> Items]
  BY ItemAssumption DEF Through!Init, Through!Slots
<1>2. ThroughInv
  BY <1>1, V3Empty, OddAssumption, Zenon DEF ThroughInv
<1>3. Through!queue = <<>>
  BY <1>1 DEF Through!queue
<1> QED BY <1>2, <1>3 DEF Through!Fifo!Init

LEMMA ThroughStep ==
  ThroughInv /\ [Through!Next]_(Through!vars) => ThroughInv' /\ [Through!Fifo!Next]_(Through!queue)
<1> SUFFICES ASSUME ThroughInv, [Through!Next]_(Through!vars)
             PROVE  ThroughInv' /\ [Through!Fifo!Next]_(Through!queue)
  OBVIOUS
<1>1. ASSUME NEW push \in BOOLEAN, NEW pop \in BOOLEAN, NEW flush \in BOOLEAN, NEW dat \in Items,
             Through!Cycle(push, dat, pop, flush)
      PROVE  ThroughInv' /\ Through!Fifo!Next
  <2>1. CASE flush = FALSE
    BY <1>1, <2>1, ThroughCycle, Zenon DEF Through!Fifo!Next
  <2>2. CASE flush = TRUE
    BY <1>1, <2>2, ThroughFlush, Zenon DEF Through!Fifo!Next
  <2> QED BY <2>1, <2>2
<1>2. CASE Through!Reset
  BY <1>2, ThroughFlush DEF Through!Fifo!Next
<1>3. CASE UNCHANGED Through!vars
  BY <1>3 DEF Through!vars, ThroughInv, Through!queue
<1> QED BY <1>1, <1>2, <1>3 DEF Through!Next

\* So is the one that lets an item fall through when it is empty (fifo_v3.sv).
THEOREM ThroughImplements == Through!Spec => Through!Queues
<1>1. ThroughInv => Through!Follows
  BY ThroughCycle, ThroughFlush, Zenon DEF Through!Follows
<1> QED BY ThroughInit, ThroughStep, <1>1, PTL DEF Through!Spec, Through!Queues, Through!Fifo!Spec

\* Its flags, its data and its usage are those of the items held (fifo_v3.sv lines 28, 45-50, 63).
THEOREM ThroughShows == Through!Spec => [](Through!OutputsAgree /\ Through!UsageTells)
<1>1. ThroughInv => Through!OutputsAgree
  <2> SUFFICES ASSUME ThroughInv, NEW push \in BOOLEAN, NEW pop \in BOOLEAN, NEW dat \in Items
               PROVE  /\ Through!full_o <=> ~Through!Fifo!in_rdy(pop)
                      /\ Through!empty_o(push) <=> ~Through!Fifo!out_vld(push)
                      /\ Through!Fifo!out_vld(push) => Through!data_o(push, dat) = Through!Fifo!out_dat(dat)
    BY DEF Through!OutputsAgree
  <2>1. cnt_t \in 0 .. ODD /\ (cnt_t = 0 <=> ~(cnt_t > 0))
    BY OddAssumption DEF ThroughInv, V3Inv
  <2>2. ThroughIs
    BY DEF ThroughIs, Through!queue, Held
  <2>3. /\ Through!queue \in Seq(Items) /\ Len(Through!queue) = cnt_t
        /\ Through!queue # <<>> <=> cnt_t > 0
        /\ cnt_t > 0 => Head(Through!queue) = mem_t[rp_t]
    BY <2>2, V3Holds, OddAssumption DEF ThroughInv, ThroughIs
  <2>4. Through!full_o <=> ~Through!Fifo!in_rdy(pop)
    BY <2>1, <2>3, OddAssumption DEF Through!full_o, Through!Fifo!in_rdy
  <2>5. Through!empty_o(push) <=> ~Through!Fifo!out_vld(push)
    BY <2>1, <2>3, Zenon DEF Through!empty_o, Through!Fifo!out_vld
  <2>6. Through!Fifo!out_vld(push) => Through!data_o(push, dat) = Through!Fifo!out_dat(dat)
    BY <2>1, <2>3, Zenon DEF Through!data_o, Through!Fifo!out_vld, Through!Fifo!out_dat
  <2> QED BY <2>4, <2>5, <2>6
<1>2. ThroughInv => Through!UsageTells
  <2> SUFFICES ASSUME ThroughInv, ~Through!full_o PROVE wp_t = (rp_t + Through!usage_o) % ODD
    BY Zenon DEF Through!UsageTells
  <2>1. ODD \in Nat \ {0} /\ Through!PtrRange \in Nat /\ Through!PtrRange >= ODD /\ cnt_t # ODD
    BY OddAssumption, PointersReach DEF Through!full_o
  <2>2. wp_t = (rp_t + (cnt_t % Through!PtrRange)) % ODD
    BY <2>1, V3Distance, Zenon DEF ThroughInv
  <2> QED BY <2>2 DEF Through!usage_o
<1> QED BY ThroughInit, ThroughStep, <1>1, <1>2, PTL DEF Through!Spec

--------------------------------------------------------------------------------
(* The clock domain crossing.                                                   *)

\* At most one change travels through the phase bits; while it is on its way to
\* the acknowledgement the word is shown, unchanged.
Ring ==
  /\ req_src_q # req_dst_q => /\ req_dst_q = req_q0 /\ req_q0 = req_q1 /\ req_q1 = ack_dst_q
                              /\ ack_dst_q = ack_src_q /\ ack_src_q = ack_q
  /\ req_dst_q # req_q0 => /\ req_q0 = req_q1 /\ req_q1 = ack_dst_q
                           /\ ack_dst_q = ack_src_q /\ ack_src_q = ack_q
  /\ req_q0 # req_q1 => req_q1 = ack_dst_q /\ ack_dst_q = ack_src_q /\ ack_src_q = ack_q
  /\ req_q1 # ack_dst_q => ack_dst_q = ack_src_q /\ ack_src_q = ack_q
  /\ ack_dst_q # ack_src_q => ack_src_q = ack_q

Shown == req_q1 # ack_dst_q => data_dst_q = data_src_q

CdcIInv == Cdc!TypeOK /\ Ring /\ Shown

LEMMA CdcInit == Cdc!Init => CdcIInv
BY ItemAssumption, SMT DEF Cdc!Init, CdcIInv, Cdc!TypeOK, Ring, Shown

LEMMA CdcSrcEdge ==
  ASSUME CdcIInv, NEW valid_i \in BOOLEAN, NEW data_i \in Words, Cdc!SrcEdge(valid_i, data_i)
  PROVE  CdcIInv'
<1> USE DEF CdcIInv, Cdc!SrcEdge, Cdc!dstVars, Cdc!Toggle
<1>1. Cdc!TypeOK'
  BY SMT DEF Cdc!TypeOK
<1>2. Ring'
  BY SMT DEF Cdc!TypeOK, Ring, Cdc!sends, Cdc!ready_o
<1>3. Shown'
  BY SMT DEF Cdc!TypeOK, Ring, Shown, Cdc!sends, Cdc!ready_o
<1> QED BY <1>1, <1>2, <1>3

LEMMA CdcDstEdge ==
  ASSUME CdcIInv, NEW ready_i \in BOOLEAN, Cdc!DstEdge(ready_i)
  PROVE  CdcIInv'
<1> USE DEF CdcIInv, Cdc!DstEdge, Cdc!srcVars, Cdc!Toggle
<1>1. Cdc!TypeOK'
  BY SMT DEF Cdc!TypeOK
<1>2. Ring'
  BY SMT DEF Cdc!TypeOK, Ring, Cdc!takes, Cdc!valid_o
<1>3. Shown'
  BY SMT DEF Cdc!TypeOK, Ring, Shown, Cdc!takes, Cdc!captures, Cdc!valid_o
<1> QED BY <1>1, <1>2, <1>3

LEMMA CdcStep == CdcIInv /\ [Cdc!Next]_(Cdc!vars) => CdcIInv'
<1> SUFFICES ASSUME CdcIInv, [Cdc!Next]_(Cdc!vars) PROVE CdcIInv'
  OBVIOUS
<1>1. CASE Cdc!SrcTick
  BY <1>1, CdcSrcEdge DEF Cdc!SrcTick
<1>2. CASE Cdc!DstTick
  BY <1>2, CdcDstEdge DEF Cdc!DstTick
<1>3. CASE Cdc!Reset
  BY <1>3, ItemAssumption, SMT DEF Cdc!Reset, CdcIInv, Cdc!TypeOK, Ring, Shown
<1>4. CASE UNCHANGED Cdc!vars
  BY <1>4 DEF Cdc!vars, CdcIInv, Cdc!TypeOK, Ring, Shown
<1> QED BY <1>1, <1>2, <1>3, <1>4 DEF Cdc!Next

LEMMA CdcInvariant == Cdc!Spec => []CdcIInv
BY CdcInit, CdcStep, PTL DEF Cdc!Spec

\* Every flop keeps its type.
THEOREM CdcTypeCorrect == Cdc!Spec => []Cdc!TypeOK
<1>1. CdcIInv => Cdc!TypeOK
  BY DEF CdcIInv
<1> QED BY <1>1, CdcInvariant, PTL

\* A new word never starts before the last one is acknowledged through every
\* stage.
THEOREM TravelsAlone == Cdc!Spec => []Cdc!OneChange
<1>1. CdcIInv => Cdc!OneChange
  <2> SUFFICES ASSUME CdcIInv, NEW i \in 1 .. 6, NEW j \in 1 .. 6,
                      Cdc!phases[i] # Cdc!phases[i + 1], Cdc!phases[j] # Cdc!phases[j + 1],
                      i < j
               PROVE  FALSE
    BY SMT DEF Cdc!OneChange
  <2>1. /\ Cdc!phases[1] = req_src_q /\ Cdc!phases[2] = req_dst_q /\ Cdc!phases[3] = req_q0
        /\ Cdc!phases[4] = req_q1 /\ Cdc!phases[5] = ack_dst_q /\ Cdc!phases[6] = ack_src_q
        /\ Cdc!phases[7] = ack_q
    BY SMT DEF Cdc!phases
  <2>2. /\ i \in {1, 2, 3, 4, 5}
        /\ j \in {2, 3, 4, 5, 6}
    BY SMT
  <2> QED BY <2>1, <2>2, SMT DEF CdcIInv, Ring
<1> QED BY <1>1, CdcInvariant, PTL

\* The unsynchronised data lines are stable whenever they are sampled.
THEOREM CapturesStable == Cdc!Spec => []Cdc!CaptureSafe
<1>1. CdcIInv => Cdc!CaptureSafe
  BY SMT DEF CdcIInv, Cdc!TypeOK, Ring, Cdc!CaptureSafe, Cdc!captures, Cdc!ready_o,
     Cdc!valid_o
<1> QED BY <1>1, CdcInvariant, PTL

LEMMA CdcOutputs == CdcIInv => Cdc!OutputsAgree
BY SMT DEF CdcIInv, Cdc!TypeOK, Ring, Shown, Cdc!OutputsAgree, Cdc!channel, Cdc!ready_o,
   Cdc!valid_o

\* The receiver is shown the word in flight, the sender room when none is.
THEOREM ShowsTheChannel == Cdc!Spec => []Cdc!OutputsAgree
BY CdcOutputs, CdcInvariant, PTL

--------------------------------------------------------------------------------
LEMMA CdcSrcImplements ==
  ASSUME CdcIInv, NEW valid_i \in BOOLEAN, NEW data_i \in Words, Cdc!SrcEdge(valid_i, data_i)
  PROVE  Cdc!Fifo!Cycle(Cdc!sends(valid_i), data_i, FALSE)
<1>1. CASE Cdc!sends(valid_i)
  <2>1. Cdc!channel = <<>> /\ Cdc!channel' = <<data_i>>
    BY <1>1, SMT DEF CdcIInv, Cdc!TypeOK, Ring, Cdc!SrcEdge, Cdc!dstVars, Cdc!Toggle,
       Cdc!sends, Cdc!ready_o, Cdc!channel
  <2>2. Append(<<>>, data_i) = <<data_i>> /\ Len(<<>>) = 0
    OBVIOUS
  <2> QED BY <1>1, <2>1, <2>2, SMT DEF Cdc!Fifo!Cycle, Cdc!Fifo!in_rdy, Cdc!Fifo!out_vld
<1>2. CASE ~Cdc!sends(valid_i)
  <2>1. Cdc!channel' = Cdc!channel
    BY <1>2 DEF Cdc!SrcEdge, Cdc!dstVars, Cdc!Toggle, Cdc!channel
  <2> QED BY <1>2, <2>1, Zenon DEF Cdc!Fifo!Cycle
<1> QED BY <1>1, <1>2

LEMMA CdcDstImplements ==
  ASSUME CdcIInv, NEW ready_i \in BOOLEAN, NEW none \in Words, Cdc!DstEdge(ready_i)
  PROVE  Cdc!Fifo!Cycle(FALSE, none, Cdc!takes(ready_i))
<1>1. CASE Cdc!takes(ready_i)
  <2>1. Cdc!channel = <<data_src_q>> /\ Cdc!channel' = <<>>
    BY <1>1, SMT DEF CdcIInv, Cdc!TypeOK, Ring, Cdc!DstEdge, Cdc!srcVars, Cdc!Toggle,
       Cdc!takes, Cdc!valid_o, Cdc!channel
  <2>2. Tail(<<data_src_q>>) = <<>> /\ <<data_src_q>> # <<>>
    OBVIOUS
  <2> QED BY <1>1, <2>1, <2>2 DEF Cdc!Fifo!Cycle, Cdc!Fifo!in_rdy, Cdc!Fifo!out_vld
<1>2. CASE ~Cdc!takes(ready_i)
  <2>1. Cdc!channel' = Cdc!channel
    BY <1>2 DEF Cdc!DstEdge, Cdc!srcVars, Cdc!Toggle, Cdc!channel
  <2> QED BY <1>2, <2>1, Zenon DEF Cdc!Fifo!Cycle
<1> QED BY <1>1, <1>2

LEMMA CdcFollows == CdcIInv => Cdc!Follows
<1> SUFFICES ASSUME CdcIInv PROVE Cdc!Follows
  OBVIOUS
<1>1. Cdc!Reset => Cdc!Fifo!Flush
  BY DEF Cdc!Reset, Cdc!channel, Cdc!Fifo!Flush
<1> QED BY <1>1, CdcSrcImplements, CdcDstImplements, Zenon DEF Cdc!Follows

LEMMA CdcStepImplements ==
  CdcIInv /\ [Cdc!Next]_(Cdc!vars) => [Cdc!Fifo!Next]_(Cdc!channel)
<1> SUFFICES ASSUME CdcIInv, [Cdc!Next]_(Cdc!vars) PROVE [Cdc!Fifo!Next]_(Cdc!channel)
  OBVIOUS
<1> /\ Cdc!sends(TRUE) \in BOOLEAN /\ Cdc!sends(FALSE) \in BOOLEAN
    /\ Cdc!takes(TRUE) \in BOOLEAN /\ Cdc!takes(FALSE) \in BOOLEAN
  BY DEF Cdc!sends, Cdc!takes
<1>1. CASE Cdc!SrcTick
  BY <1>1, CdcSrcImplements DEF Cdc!SrcTick, Cdc!Fifo!Next
<1>2. CASE Cdc!DstTick
  BY <1>2, ItemAssumption, CdcDstImplements DEF Cdc!DstTick, Cdc!Fifo!Next
<1>3. CASE Cdc!Reset
  BY <1>3, CdcFollows DEF Cdc!Follows, Cdc!Fifo!Next
<1>4. CASE UNCHANGED Cdc!vars
  BY <1>4 DEF Cdc!vars, Cdc!channel
<1> QED BY <1>1, <1>2, <1>3, <1>4 DEF Cdc!Next

\* Every word sent is received once and in order, for every set of words and
\* every interleaving of the two clocks.
THEOREM CdcImplements == Cdc!Spec => Cdc!Crosses
<1>1. Cdc!Init => Cdc!Fifo!Init
  BY DEF Cdc!Init, Cdc!channel, Cdc!Fifo!Init
<1> QED BY <1>1, CdcStepImplements, CdcFollows, CdcInvariant, PTL DEF Cdc!Spec, Cdc!Crosses,
    Cdc!Fifo!Spec

--------------------------------------------------------------------------------
(* The UART.  States of the receiver: 0 idle, 1 the start bit, 2 .. 9 the bits  *)
(* of the byte, 11 and 12 the stop bit.                                         *)

Bit == {0, 1}
half == div \div 2

\* Bits of the frame that have begun, of 10 or 11; the ten that the receiver waits for
\* are not begun, or all sent.
frame == Serial!u_txm!frame(nstop)
sent == frame - counter
between == counter \in {0, frame, frame - 10}
sending == counter > frame - 10
starts == Serial!txq_pops

\* The frame of a byte on the line, with the idle line around it.
OnLine(byte, n) == IF n = 1 THEN 0 ELSE IF n \in 2 .. 9 THEN byte[n - 1] ELSE 1

TxInv(byte) ==
  /\ counter \in 0 .. frame /\ prescaler \in 0 .. div
  /\ counter = 0 => out = 1
  /\ counter > 0 => /\ out = OnLine(byte, sent)
                    /\ \A m \in 1 .. 9 : shifter[m] = OnLine(byte, sent + m)

\* Between two frames the receiver samples the stop bit and delivers the byte before
\* the next start bit: so many cycles are left until it is idle again.
left == IF rx_state = 11 THEN (IF enable THEN 2 ELSE dlc + 3) ELSE IF rx_state = 12 THEN 1 ELSE 0
delivers == left > 0 \/ push_rx_fifo
BetweenInv ==
  /\ rx_state \in {0, 11, 12}
  /\ delivers => prescaler >= left + 3
  /\ \A m \in 1 .. 3 : m + left <= 3 => filter[m] = 1
  /\ rx_state = 11 => dlc \in 0 .. div - 1 /\ (enable => dlc = div - 1)
  /\ rx_state = 12 => dlc = div - 2 /\ ~enable
  /\ rx_state = 0 => ~enable /\ dlc = IF push_rx_fifo THEN div - 3 ELSE half - 1
  /\ push_rx_fifo => rx_state = 0
  /\ left > 0 => ~push_rx_fifo

\* Within a frame the receiver has sampled the bit on the line, or is about to: the
\* cycles this bit is on the line and the cycles until the next sample add up, less
\* one cycle for each bit, by which the receiver is the faster.
elapsed == div - prescaler
sample == (IF rx_state = 11 THEN 9 ELSE rx_state - 1) + (IF enable THEN 1 ELSE 0)
InStep ==
  \/ sample = sent - 1 /\ sent - 1 + elapsed + dlc = half + 2
  \/ sample = sent /\ sent - 1 + dlc = half + 2 + prescaler
FrameInv(byte) ==
  /\ ~push_rx_fifo
  /\ \A m \in 1 .. 3 : /\ elapsed >= m => filter[m] = out
                       /\ sent = 1 /\ elapsed < m => filter[m] = 1
  /\ \/ rx_state = 0 /\ ~enable /\ dlc = half - 1 /\ sent = 1 /\ elapsed <= 2
     \/ /\ rx_state \in 1 .. 9 \cup {11} /\ dlc \in 0 .. div - 1 /\ InStep
        /\ enable => dlc = div - 1
        /\ \A m \in 1 .. 8 : rx_state > m + 1 => rx_buffer[m] = byte[m]

LineInv(byte) == TxInv(byte) /\ (between => BetweenInv) /\ (~between => FrameInv(byte))

\* The registers of a UART that is set up.
LineType ==
  /\ div \in Nat /\ div >= 14 /\ div < 2^16 /\ nstop \in BOOLEAN /\ out \in Bit
  /\ shifter \in Seq(Bit) /\ Len(shifter) = 9
  /\ (\A m \in 1 .. 3 : filter[m] \in Bit) /\ rx_buffer \in [1 .. 8 -> Bit]
  /\ push_rx_fifo \in BOOLEAN /\ enable \in BOOLEAN /\ dlc \in Nat

LEMMA FrameIs == LineType => frame = (IF nstop THEN 11 ELSE 10)
BY DEF LineType, frame, Serial!u_txm!frame

\* What one cycle of the transmitter does.
Sends(starting, byte) ==
  /\ counter = 0 /\ ~starting => counter' = 0 /\ prescaler' = prescaler /\ out' = out
  /\ starting => /\ counter = 0 /\ counter' = frame /\ prescaler' = prescaler /\ out' = out
                 /\ shifter' \in Seq(Bit) /\ Len(shifter') = 9
                 /\ \A m \in 1 .. 9 : shifter'[m] = OnLine(byte, m)
  /\ counter > 0 /\ prescaler > 0 =>
       counter' = counter /\ prescaler' = prescaler - 1 /\ out' = out
  /\ counter > 0 /\ prescaler = 0 =>
       /\ counter' = counter - 1 /\ prescaler' = div /\ out' = shifter[1]
       /\ shifter' \in Seq(Bit) /\ Len(shifter') = 9 /\ shifter'[9] = 1
       /\ \A m \in 1 .. 8 : shifter'[m] = shifter[m + 1]
  /\ ~starting /\ ~(counter > 0 /\ prescaler = 0) => shifter' = shifter

LEMMA Prepend ==
  ASSUME NEW S, NEW s \in Seq(S), NEW x \in S
  PROVE /\ <<x>> \o s \in Seq(S) /\ Len(<<x>> \o s) = Len(s) + 1 /\ (<<x>> \o s)[1] = x
   /\ \A i \in 1 .. Len(s) : (<<x>> \o s)[i + 1] = s[i]
OBVIOUS
LEMMA ShiftIn ==
  ASSUME NEW S, NEW s \in Seq(S), s # <<>>, NEW x \in S
  PROVE /\ Append(Tail(s), x) \in Seq(S) /\ Len(Append(Tail(s), x)) = Len(s) 
   /\ Append(Tail(s), x)[Len(s)] = x /\ Head(s) = s[1]
   /\ \A i \in 1 .. Len(s) - 1 : Append(Tail(s), x)[i] = s[i + 1]
OBVIOUS

LEMMA Loaded ==
  ASSUME NEW byte \in Seq(Bit), Len(byte) = 8
  PROVE  /\ Serial!u_txm!loaded(byte) \in Seq(Bit) /\ Len(Serial!u_txm!loaded(byte)) = 9
         /\ \A m \in 1 .. 9 : Serial!u_txm!loaded(byte)[m] = OnLine(byte, m)
<1>1. 0 \in Bit
  BY DEF Bit
<1> PICK L : L = <<0>> \o byte
  OBVIOUS
<1>2. L \in Seq(Bit) /\ Len(L) = Len(byte) + 1 /\ L[1] = 0 /\ \A i \in 1 .. Len(byte) : L[i + 1] = byte[i]
  <2>1. /\ <<0>> \o byte \in Seq(Bit) /\ Len(<<0>> \o byte) = Len(byte) + 1 /\ (<<0>> \o byte)[1] = 0
        /\ \A i \in 1 .. Len(byte) : (<<0>> \o byte)[i + 1] = byte[i]
    BY <1>1, Prepend, ZenonT(40)
  <2> QED BY <2>1, Zenon
<1>3. ASSUME NEW m \in 1 .. 9 PROVE L[m] = OnLine(byte, m)
  <2>1. CASE m = 1
    BY <1>2, <2>1 DEF OnLine
  <2>2. CASE m # 1
    <3>1. m \in 2 .. 9 /\ m - 1 \in 1 .. Len(byte) /\ m - 1 + 1 = m
      BY <2>2
    <3>2. L[m - 1 + 1] = byte[m - 1]
      BY <1>2, <3>1, Zenon
    <3> QED BY <2>2, <3>1, <3>2, Zenon DEF OnLine
  <2> QED BY <2>1, <2>2
<1>4. Len(L) = 9 /\ Serial!u_txm!loaded(byte) = L
  BY <1>2 DEF Serial!u_txm!loaded
<1> QED BY <1>2, <1>3, <1>4, Zenon

LEMMA Shifted ==
  ASSUME NEW s \in Seq(Bit), Len(s) = 9
  PROVE  /\ Append(Tail(s), 1) \in Seq(Bit) /\ Len(Append(Tail(s), 1)) = 9
         /\ Append(Tail(s), 1)[9] = 1 /\ Head(s) = s[1]
         /\ \A m \in 1 .. 8 : Append(Tail(s), 1)[m] = s[m + 1]
<1>1. s # <<>> /\ 1 \in Bit /\ Len(s) - 1 = 8
  BY DEF Bit
<1>2. /\ Append(Tail(s), 1) \in Seq(Bit) /\ Len(Append(Tail(s), 1)) = Len(s) 
   /\ Append(Tail(s), 1)[Len(s)] = 1 /\ Head(s) = s[1]
   /\ \A i \in 1 .. Len(s) - 1 : Append(Tail(s), 1)[i] = s[i + 1]
  BY <1>1, ShiftIn, ZenonT(40)
<1> QED BY <1>1, <1>2, Zenon

LEMMA TxCounts ==
  ASSUME counter \in Nat, prescaler \in Nat, NEW byte, NEW en \in BOOLEAN, NEW valid \in BOOLEAN,
         Serial!u_txm!Cycle(en, valid, byte, div, nstop),
         NEW go \in BOOLEAN, go <=> Serial!u_txm!starts(en, valid)
  PROVE  /\ go <=> counter = 0 /\ en /\ valid
         /\ counter = 0 /\ ~go =>
              counter' = 0 /\ prescaler' = prescaler /\ out' = out /\ shifter' = shifter
         /\ go => /\ counter' = frame /\ prescaler' = prescaler /\ out' = out
                  /\ shifter' = Serial!u_txm!loaded(byte)
         /\ counter > 0 /\ prescaler > 0 =>
              counter' = counter /\ prescaler' = prescaler - 1 /\ out' = out /\ shifter' = shifter
         /\ counter > 0 /\ prescaler = 0 =>
              /\ counter' = counter - 1 /\ prescaler' = div
              /\ out' = Head(shifter) /\ shifter' = Append(Tail(shifter), 1)
<1> PICK next \in BOOLEAN : next <=> prescaler = 0 /\ counter # 0
  OBVIOUS
<1> PICK moved : moved = Append(Tail(shifter), 1)
  OBVIOUS
<1> PICK first : first = Head(shifter)
  OBVIOUS
<1>1. go <=> counter = 0 /\ en /\ valid
  BY DEF Serial!u_txm!starts, Serial!u_txm!io_in_ready, Serial!u_txm!busy
<1>2. /\ prescaler' = IF counter = 0 THEN prescaler ELSE IF prescaler = 0 THEN div ELSE prescaler - 1
      /\ counter' = IF next THEN counter - 1 ELSE IF go THEN frame ELSE counter
  BY Zenon DEF Serial!u_txm!Cycle, Serial!u_txm!busy, Serial!u_txm!pulse, Serial!u_txm!next_bit, frame
<1>3. /\ shifter' = IF next THEN moved ELSE IF go THEN Serial!u_txm!loaded(byte) ELSE shifter
      /\ out' = IF next THEN first ELSE out
  BY Zenon DEF Serial!u_txm!Cycle, Serial!u_txm!busy, Serial!u_txm!pulse, Serial!u_txm!next_bit
<1>4. /\ counter = 0 => ~next
      /\ counter > 0 /\ prescaler > 0 => ~next /\ ~go /\ counter # 0 /\ prescaler # 0
      /\ counter > 0 /\ prescaler = 0 => next /\ counter # 0
      /\ go => counter = 0
  BY <1>1
<1> QED BY <1>1, <1>2, <1>3, <1>4, Zenon

LEMMA TxCycle ==
  ASSUME LineType, NEW byte, counter \in Nat, prescaler \in Nat,
         NEW en \in BOOLEAN, NEW valid \in BOOLEAN, en /\ valid => byte \in Seq(Bit) /\ Len(byte) = 8,
         Serial!u_txm!Cycle(en, valid, byte, div, nstop),
         NEW go \in BOOLEAN, go <=> Serial!u_txm!starts(en, valid)
  PROVE  Sends(go, byte)
<1>1. shifter \in Seq(Bit) /\ Len(shifter) = 9
  BY DEF LineType
<1>2. go => /\ shifter' \in Seq(Bit) /\ Len(shifter') = 9
            /\ \A m \in 1 .. 9 : shifter'[m] = OnLine(byte, m)
  BY TxCounts, Loaded, Zenon
<1>3. counter > 0 /\ prescaler = 0 =>
        /\ shifter' \in Seq(Bit) /\ Len(shifter') = 9 /\ shifter'[9] = 1
        /\ \A m \in 1 .. 8 : shifter'[m] = shifter[m + 1]
        /\ out' = shifter[1]
  BY <1>1, TxCounts, Shifted, Zenon
<1>4. /\ go => counter = 0
      /\ counter = 0 /\ ~go =>
           counter' = 0 /\ prescaler' = prescaler /\ out' = out /\ shifter' = shifter
      /\ go => counter' = frame /\ prescaler' = prescaler /\ out' = out
      /\ counter > 0 /\ prescaler > 0 =>
           counter' = counter /\ prescaler' = prescaler - 1 /\ out' = out /\ shifter' = shifter
      /\ counter > 0 /\ prescaler = 0 => counter' = counter - 1 /\ prescaler' = div
  BY TxCounts, Zenon
<1>5. counter = 0 \/ (counter > 0 /\ prescaler > 0) \/ (counter > 0 /\ prescaler = 0)
  OBVIOUS
<1>6. ~go /\ ~(counter > 0 /\ prescaler = 0) => shifter' = shifter
  BY <1>4, <1>5, Zenon
<1> QED BY <1>2, <1>3, <1>4, <1>6, Zenon DEF Sends

\* What one cycle of the receiver does.
bit == Serial!u_rxm!filtered_rxd
Hears ==
  /\ filter'[1] = out /\ filter'[2] = filter[1] /\ filter'[3] = filter[2]
  /\ enable' = (dlc = 0)
  /\ rx_state = 0 => /\ push_rx_fifo' = FALSE /\ rx_state' = (IF bit = 0 THEN 1 ELSE 0) /\ dlc' = half - 1
                     /\ rx_buffer' \in [1 .. 8 -> Bit]
  /\ rx_state # 0 => dlc' = IF dlc = 0 THEN div - 1 ELSE dlc - 1
  /\ rx_state = 12 => push_rx_fifo' = TRUE /\ rx_state' = 0 /\ rx_buffer' = rx_buffer
  /\ rx_state \in 1 .. 9 \cup {11} =>
       /\ push_rx_fifo' = push_rx_fifo
       /\ ~enable => rx_state' = rx_state
       /\ ~enable \/ rx_state \in {1, 11} => rx_buffer' = rx_buffer
       /\ enable /\ rx_state = 1 => rx_state' = IF bit = 0 THEN 2 ELSE 0
       /\ enable /\ rx_state \in 2 .. 9 =>
            /\ rx_state' = IF rx_state = 9 THEN 11 ELSE rx_state + 1
            /\ rx_buffer' = [rx_buffer EXCEPT ![rx_state - 1] = bit]
       /\ enable /\ rx_state = 11 => rx_state' = 12

\* The filter shows what two of the last three samples showed.
LEMMA Filtered ==
  ASSUME LineType
  PROVE  /\ bit \in Bit
         /\ \A v \in Bit : /\ filter[1] = v /\ filter[2] = v => bit = v
                           /\ filter[2] = v /\ filter[3] = v => bit = v
<1>1. filter[1] \in {0, 1} /\ filter[2] \in {0, 1} /\ filter[3] \in {0, 1}
  BY DEF LineType, Bit
<1> PICK x, y, z : x = filter[1] /\ y = filter[2] /\ z = filter[3]
  OBVIOUS
<1> QED BY <1>1 DEF bit, Serial!u_rxm!filtered_rxd, Bit

LEMMA RxCycle ==
  ASSUME LineType, rx_state \in 0 .. 9 \cup {11, 12}, Serial!u_rxm!Cycle(TRUE, out, div),
         dlc < 2^16
  PROVE  Hears
<1>1. filter'[1] = out /\ filter'[2] = filter[1] /\ filter'[3] = filter[2]
  <2>1. filter' = <<out, filter[1], filter[2]>>
    BY DEF Serial!u_rxm!Cycle
  <2> QED BY <2>1
<1>2. /\ enable' = (dlc = 0)
      /\ rx_state = 0 => dlc' = half - 1
      /\ rx_state # 0 => dlc' = IF dlc = 0 THEN div - 1 ELSE dlc - 1
  <2>1. div \in Nat /\ div >= 14 /\ div < 2^16
    BY DEF LineType
  <2>2. (div \div 2 - 1) % 2^16 = half - 1 /\ (div - 1) % 2^16 = div - 1 /\ div # 0
    <3>1. half \in Nat /\ half >= 7
      BY <2>1 DEF half
    <3> QED BY <2>1, <3>1 DEF half
  <2>3. /\ enable' = (div # 0 /\ dlc = 0)
        /\ dlc' = IF rx_state = 0 THEN (div \div 2 - 1) % 2^16
                  ELSE IF dlc = 0 THEN (div - 1) % 2^16 ELSE dlc - 1
    BY Zenon DEF Serial!u_rxm!Cycle, Serial!u_rxm!IDLE, Serial!u_rxm!preset
  <2> QED BY <2>2, <2>3
<1>3. Serial!u_rxm!Fsm(TRUE)
  BY DEF Serial!u_rxm!Cycle
<1> USE DEF Serial!u_rxm!IDLE, Serial!u_rxm!STOP2
<1>4. rx_state = 0 => push_rx_fifo' = FALSE /\ rx_state' = (IF bit = 0 THEN 1 ELSE 0) /\ rx_buffer' \in [1 .. 8 -> Bit]
  BY <1>3 DEF Serial!u_rxm!Fsm, Serial!u_rxm!START, Serial!u_rxm!rx_start, Serial!u_rxm!NoBits, Serial!u_rxm!WIDTH, bit, Bit
<1>5. rx_state = 12 => push_rx_fifo' = TRUE /\ rx_state' = 0 /\ rx_buffer' = rx_buffer
  BY <1>3 DEF Serial!u_rxm!Fsm
<1>6. rx_state \in 1 .. 9 \cup {11} =>
       /\ push_rx_fifo' = push_rx_fifo
       /\ ~enable => rx_state' = rx_state
       /\ ~enable \/ rx_state \in {1, 11} => rx_buffer' = rx_buffer
       /\ enable /\ rx_state = 1 => rx_state' = IF bit = 0 THEN 2 ELSE 0
       /\ enable /\ rx_state \in 2 .. 9 =>
            /\ rx_state' = IF rx_state = 9 THEN 11 ELSE rx_state + 1
            /\ rx_buffer' = [rx_buffer EXCEPT ![rx_state - 1] = bit]
       /\ enable /\ rx_state = 11 => rx_state' = 12
  <2> SUFFICES ASSUME rx_state \in 1 .. 9 \cup {11}
               PROVE  /\ push_rx_fifo' = push_rx_fifo
                      /\ ~enable => rx_state' = rx_state
                      /\ ~enable \/ rx_state \in {1, 11} => rx_buffer' = rx_buffer
                      /\ enable /\ rx_state = 1 => rx_state' = IF bit = 0 THEN 2 ELSE 0
                      /\ enable /\ rx_state \in 2 .. 9 =>
                           /\ rx_state' = IF rx_state = 9 THEN 11 ELSE rx_state + 1
                           /\ rx_buffer' = [rx_buffer EXCEPT ![rx_state - 1] = bit]
                      /\ enable /\ rx_state = 11 => rx_state' = 12
    OBVIOUS
  <2>1. /\ push_rx_fifo' = push_rx_fifo
        /\ rx_state' = IF enable THEN Serial!u_rxm!sampled ELSE rx_state
        /\ rx_buffer' = IF enable /\ rx_state \in Serial!u_rxm!BitStates
                        THEN [rx_buffer EXCEPT ![rx_state - 1] = bit] ELSE rx_buffer
    <3>1. rx_state # 0 /\ rx_state # 12
      OBVIOUS
    <3>2. Serial!u_rxm!START = 1
      BY DEF Serial!u_rxm!START
    <3> PICK s, put : s = Serial!u_rxm!sampled /\ put = [rx_buffer EXCEPT ![rx_state - 1] = bit]
      OBVIOUS
    <3> PICK bs : bs = Serial!u_rxm!BitStates
      OBVIOUS
    <3>3. /\ push_rx_fifo' = push_rx_fifo
          /\ rx_state' = IF enable THEN s ELSE rx_state
          /\ rx_buffer' = IF enable /\ rx_state \in bs THEN put ELSE rx_buffer
      BY <1>3, <3>1, <3>2, SMT DEF Serial!u_rxm!Fsm, bit
    <3> QED BY <3>3, Zenon
  <2>2. rx_state \in Serial!u_rxm!BitStates <=> rx_state \in 2 .. 9
    BY DEF Serial!u_rxm!BitStates, Serial!u_rxm!BIT0, Serial!u_rxm!BIT7
  <2>3. /\ rx_state = 1 => Serial!u_rxm!sampled = IF bit = 0 THEN 2 ELSE 0
        /\ rx_state \in 2 .. 9 => Serial!u_rxm!sampled = IF rx_state = 9 THEN 11 ELSE rx_state + 1
        /\ rx_state = 11 => Serial!u_rxm!sampled = 12
    <3> USE DEF Serial!u_rxm!sampled, Serial!u_rxm!START, Serial!u_rxm!BIT0, Serial!u_rxm!BIT7, Serial!u_rxm!STOP1
    <3>1. rx_state = 1 => Serial!u_rxm!sampled = IF bit = 0 THEN 2 ELSE 0
      BY DEF bit
    <3>2. rx_state \in 2 .. 9 => Serial!u_rxm!sampled = IF rx_state = 9 THEN 11 ELSE rx_state + 1
      OBVIOUS
    <3>3. rx_state = 11 => Serial!u_rxm!sampled = 12
      OBVIOUS
    <3> QED BY <3>1, <3>2, <3>3, Zenon
  <2>4. rx_state \in {1, 11} => rx_state \notin 2 .. 9
    OBVIOUS
  <2> QED BY <2>1, <2>2, <2>3, <2>4, Zenon
<1> QED BY <1>1, <1>2, <1>4, <1>5, <1>6 DEF Hears

\* The states the receiver is ever in.
RxStates == 0 .. 9 \cup {11, 12}

LEMMA Halves ==
  ASSUME LineType
  PROVE  /\ div \in Nat /\ div >= 14 /\ half \in Nat /\ half >= 7 /\ 2 * half <= div /\ div <= 2 * half + 1
         /\ frame \in {10, 11}
<1>1. div \in Nat /\ div >= 14
  BY DEF LineType
<1>2. half \in Nat /\ half >= 7 /\ 2 * half <= div /\ div <= 2 * half + 1
  BY <1>1 DEF half
<1>3. frame \in {10, 11}
  BY FrameIs
<1> QED BY <1>1, <1>2, <1>3, Zenon

LEMMA LineTyped ==
  ASSUME LineType, rx_state \in RxStates, counter \in Nat, prescaler \in Nat,
         NEW go \in BOOLEAN, NEW byte, Sends(go, byte), go => counter = 0, Hears, div' = div, nstop' = nstop
  PROVE  LineType'
<1>1. (div \in Nat /\ div >= 14 /\ div < 2^16 /\ nstop \in BOOLEAN)'
  <2>1. div \in Nat /\ div >= 14 /\ div < 2^16 /\ nstop \in BOOLEAN
    BY DEF LineType
  <2>2. div' = div /\ nstop' = nstop
    OBVIOUS
  <2> QED BY <2>1, <2>2, Zenon
<1>2. (out \in Bit)'
  <2>1. out \in Bit /\ shifter \in Seq(Bit) /\ Len(shifter) = 9
    BY Zenon DEF LineType
  <2>2. shifter[1] \in Bit
    BY <2>1
  <2>3. out' = out \/ out' = shifter[1]
    <3>1. counter = 0 \/ (counter > 0 /\ prescaler = 0) \/ (counter > 0 /\ prescaler > 0)
      OBVIOUS
    <3> QED BY <3>1, Zenon DEF Sends
  <2> QED BY <2>1, <2>2, <2>3, Zenon
<1>3. (shifter \in Seq(Bit) /\ Len(shifter) = 9)'
  <2>1. shifter \in Seq(Bit) /\ Len(shifter) = 9
    BY DEF LineType
  <2> QED BY <2>1, Zenon DEF Sends
<1>4. \A m \in 1 .. 3 : filter'[m] \in Bit
  <2>1. filter[1] \in Bit /\ filter[2] \in Bit /\ filter[3] \in Bit /\ out \in Bit
    BY DEF LineType
  <2>2. filter'[1] = out /\ filter'[2] = filter[1] /\ filter'[3] = filter[2]
    BY Zenon DEF Hears
  <2>3. filter'[1] \in Bit /\ filter'[2] \in Bit /\ filter'[3] \in Bit
    BY <2>1, <2>2, Zenon
  <2> QED BY <2>3
<1>5. rx_buffer' \in [1 .. 8 -> Bit]
  <2>1. rx_buffer \in [1 .. 8 -> Bit] /\ bit \in Bit /\ enable \in BOOLEAN
    BY Filtered, Zenon DEF LineType
  <2>2. rx_state \in RxStates => rx_state = 0 \/ rx_state = 12 \/ rx_state \in {1, 11} \/ rx_state \in 2 .. 9
    BY DEF RxStates
  <2>3. rx_state \in {1, 11} \/ rx_state \in 2 .. 9 => rx_state \in 1 .. 9 \cup {11}
    OBVIOUS
  <2>4. \/ rx_buffer' \in [1 .. 8 -> Bit] \/ rx_buffer' = rx_buffer
        \/ rx_buffer' = [rx_buffer EXCEPT ![rx_state - 1] = bit]
    BY <2>1, <2>2, <2>3, Zenon DEF Hears
  <2> QED BY <2>1, <2>4
<1>6. (push_rx_fifo \in BOOLEAN /\ enable \in BOOLEAN)'
  <2>1. push_rx_fifo \in BOOLEAN
    BY DEF LineType
  <2>2. rx_state = 0 \/ rx_state = 12 \/ rx_state \in 1 .. 9 \cup {11}
    BY DEF RxStates
  <2>3. push_rx_fifo' \in BOOLEAN
    BY <2>1, <2>2, Zenon DEF Hears
  <2>4. enable' \in BOOLEAN
    BY Zenon DEF Hears
  <2> QED BY <2>3, <2>4
<1>7. dlc' \in Nat
  <2>1. dlc \in Nat /\ half \in Nat /\ half >= 7 /\ div \in Nat /\ div >= 14
    BY Halves, Zenon DEF LineType
  <2>2. dlc' = half - 1 \/ dlc' = IF dlc = 0 THEN div - 1 ELSE dlc - 1
    BY Zenon DEF Hears
  <2> QED BY <2>1, <2>2
<1> QED BY <1>1, <1>2, <1>3, <1>4, <1>5, <1>6, <1>7, Zenon DEF LineType

LEMMA TxSteps ==
  ASSUME LineType, NEW old, NEW byte, NEW go \in BOOLEAN, TxInv(old),
         Sends(go, byte), go \/ byte = old, div' = div, nstop' = nstop
  PROVE  TxInv(byte)'
<1>1. frame \in {10, 11} /\ div \in Nat
  BY Halves
<1>2. frame' = frame
  BY Zenon DEF frame
<1>3. counter \in 0 .. frame /\ prescaler \in 0 .. div /\ (counter = 0 => out = 1)
  BY DEF TxInv
<1>4. counter > 0 => out = OnLine(old, sent) /\ \A m \in 1 .. 9 : shifter[m] = OnLine(old, sent + m)
  BY Zenon DEF TxInv
<1>5. CASE go
  <2>1. counter = 0 /\ counter' = frame /\ prescaler' = prescaler /\ out' = out
    BY <1>5, Zenon DEF Sends
  <2>2. \A m \in 1 .. 9 : shifter'[m] = OnLine(byte, m)
    BY <1>5, Zenon DEF Sends
  <2>3. sent' = 0 /\ \A m \in 1 .. 9 : sent' + m = m
    BY <1>1, <1>2, <2>1 DEF sent
  <2>4. out' = OnLine(byte, sent')
    BY <1>3, <2>1, <2>3 DEF OnLine
  <2>5. \A m \in 1 .. 9 : shifter'[m] = OnLine(byte, sent' + m)
    BY <2>2, <2>3, Zenon
  <2>6. /\ counter' \in 0 .. frame' /\ prescaler' \in 0 .. div'
        /\ counter' = 0 => out' = 1
    BY <1>1, <1>2, <1>3, <2>1
  <2> QED BY <2>4, <2>5, <2>6, Zenon DEF TxInv
<1>6. CASE ~go /\ counter = 0
  <2>1. counter' = 0 /\ prescaler' = prescaler /\ out' = out
    BY <1>6, Zenon DEF Sends
  <2>2. /\ counter' \in 0 .. frame' /\ prescaler' \in 0 .. div'
        /\ counter' = 0 => out' = 1
        /\ ~(counter' > 0)
    BY <1>1, <1>2, <1>3, <1>6, <2>1
  <2> QED BY <2>2, Zenon DEF TxInv
<1>7. CASE ~go /\ counter > 0 /\ prescaler > 0
  <2>1. counter' = counter /\ prescaler' = prescaler - 1 /\ out' = out
    BY <1>7, Zenon DEF Sends
  <2>2. shifter' = shifter
    <3>1. ~(counter > 0 /\ prescaler = 0)
      BY <1>7
    <3> QED BY <1>7, <3>1, Zenon DEF Sends
  <2>3. sent' = sent
    BY <1>2, <2>1, Zenon DEF sent
  <2>4. counter' \in 0 .. frame' /\ prescaler' \in 0 .. div' /\ (counter' = 0 => out' = 1)
    BY <1>1, <1>2, <1>3, <1>7, <2>1
  <2> QED BY <1>4, <1>7, <2>1, <2>2, <2>3, <2>4, Zenon DEF TxInv
<1>8. CASE ~go /\ counter > 0 /\ prescaler = 0
  <2>1. counter' = counter - 1 /\ prescaler' = div /\ out' = shifter[1] /\ shifter'[9] = 1
    BY <1>8, Zenon DEF Sends
  <2>2. \A m \in 1 .. 8 : shifter'[m] = shifter[m + 1]
    BY <1>8, Zenon DEF Sends
  <2>3. sent' = sent + 1 /\ sent \in 0 .. 10
    BY <1>1, <1>2, <1>3, <1>8, <2>1 DEF sent
  <2>4. \A m \in 1 .. 9 : shifter[m] = OnLine(byte, sent + m)
    BY <1>4, <1>8, Zenon
  <2>5. out' = OnLine(byte, sent')
    BY <2>1, <2>3, <2>4
  <2>6. ASSUME NEW m \in 1 .. 9 PROVE shifter'[m] = OnLine(byte, sent' + m)
    <3>1. CASE m = 9
      BY <2>1, <2>3, <3>1 DEF OnLine
    <3>2. CASE m # 9
      <4>1. m \in 1 .. 8 /\ m + 1 \in 1 .. 9 /\ sent + (m + 1) = sent' + m
        BY <2>3, <3>2
      <4> QED BY <2>2, <2>4, <4>1, Zenon
    <3> QED BY <3>1, <3>2
  <2>7. counter' \in 0 .. frame' /\ prescaler' \in 0 .. div'
    BY <1>1, <1>2, <1>3, <1>8, <2>1
  <2>8. counter' = 0 => out' = 1
    <3>1. counter' = 0 => sent' \in {10, 11}
      BY <1>1, <1>2, <2>1 DEF sent
    <3>2. sent' \in {10, 11} => OnLine(byte, sent') = 1
      BY DEF OnLine
    <3> QED BY <2>5, <3>1, <3>2, Zenon
  <2> QED BY <2>5, <2>6, <2>7, <2>8, Zenon DEF TxInv
<1>9. go \/ counter = 0 \/ (counter > 0 /\ prescaler > 0) \/ (counter > 0 /\ prescaler = 0)
  BY <1>1, <1>3
<1> QED BY <1>5, <1>6, <1>7, <1>8, <1>9, Zenon

\* The receiver between two frames.
LEMMA BetweenSteps ==
  ASSUME LineType, BetweenInv, Hears, out = 1, prescaler \in Int, prescaler' \in Int,
         delivers => prescaler' >= prescaler - 1, div' = div
  PROVE  BetweenInv' /\ (delivers' <=> delivers /\ ~push_rx_fifo) /\ (delivers' => rx_buffer' = rx_buffer)
<1>1. half \in Nat /\ half >= 7 /\ div \in Nat /\ 2 * half <= div /\ half' = half
  BY Halves, Zenon DEF half
<1>2. /\ rx_state \in {0, 11, 12} /\ push_rx_fifo \in BOOLEAN /\ enable \in BOOLEAN /\ dlc \in Nat
      /\ delivers => prescaler >= left + 3
      /\ rx_state = 11 => dlc \in 0 .. div - 1 /\ (enable => dlc = div - 1)
      /\ rx_state = 12 => dlc = div - 2 /\ ~enable
      /\ rx_state = 0 => ~enable /\ dlc = IF push_rx_fifo THEN div - 3 ELSE half - 1
      /\ push_rx_fifo => rx_state = 0
      /\ left > 0 => ~push_rx_fifo
  BY Zenon DEF BetweenInv, LineType
<1>3. \A m \in 1 .. 3 : m + left <= 3 => filter[m] = 1
  BY Zenon DEF BetweenInv
<1>4. filter'[1] = 1 /\ filter'[2] = filter[1] /\ filter'[3] = filter[2] /\ enable' = (dlc = 0)
  BY Zenon DEF Hears
<1>5. rx_state = 0 =>
        /\ push_rx_fifo' = FALSE /\ rx_state' = 0 /\ dlc' = half - 1 /\ enable' = FALSE
        /\ left = 0 /\ left' = 0
  <2> SUFFICES ASSUME rx_state = 0
               PROVE  /\ push_rx_fifo' = FALSE /\ rx_state' = 0 /\ dlc' = half - 1 /\ enable' = FALSE
                      /\ left = 0 /\ left' = 0
    OBVIOUS
  <2>1. left = 0
    BY DEF left
  <2>2. filter[1] = 1 /\ filter[2] = 1
    BY <1>3, <2>1
  <2>3. bit = 1
    <3>1. 1 \in Bit
      BY DEF Bit
    <3> QED BY <2>2, <3>1, Filtered, Zenon
  <2>4. push_rx_fifo' = FALSE /\ rx_state' = (IF bit = 0 THEN 1 ELSE 0) /\ dlc' = half - 1
    BY Zenon DEF Hears
  <2>5. rx_state' = 0 /\ enable' = FALSE
    BY <1>1, <1>2, <1>4, <2>3, <2>4
  <2> QED BY <2>1, <2>4, <2>5 DEF left
<1>6. rx_state = 12 =>
        /\ push_rx_fifo' = TRUE /\ rx_state' = 0 /\ dlc' = div - 3 /\ enable' = FALSE
        /\ left = 1 /\ left' = 0 /\ rx_buffer' = rx_buffer
  <2> SUFFICES ASSUME rx_state = 12
               PROVE  /\ push_rx_fifo' = TRUE /\ rx_state' = 0 /\ dlc' = div - 3 /\ enable' = FALSE
                      /\ left = 1 /\ left' = 0 /\ rx_buffer' = rx_buffer
    OBVIOUS
  <2>1. rx_state # 0 /\ dlc = div - 2
    BY <1>2
  <2>2. push_rx_fifo' = TRUE /\ rx_state' = 0 /\ dlc' = (IF dlc = 0 THEN div - 1 ELSE dlc - 1) /\ rx_buffer' = rx_buffer
    BY <2>1, Zenon DEF Hears
  <2>3. dlc' = div - 3 /\ enable' = FALSE
    <3>1. dlc # 0 /\ dlc - 1 = div - 3
      BY <1>1, <2>1
    <3> QED BY <1>4, <2>2, <3>1, Zenon
  <2>4. left = 1
    BY DEF left
  <2>5. left' = 0
    BY <2>2 DEF left
  <2> QED BY <2>2, <2>3, <2>4, <2>5, Zenon
<1>7. rx_state = 11 =>
        /\ push_rx_fifo' = FALSE /\ rx_buffer' = rx_buffer
        /\ rx_state' = IF enable THEN 12 ELSE 11
        /\ dlc' = IF dlc = 0 THEN div - 1 ELSE dlc - 1
        /\ left > 0 /\ left' = left - 1
  <2> SUFFICES ASSUME rx_state = 11
               PROVE  /\ push_rx_fifo' = FALSE /\ rx_buffer' = rx_buffer
                      /\ rx_state' = IF enable THEN 12 ELSE 11
                      /\ dlc' = IF dlc = 0 THEN div - 1 ELSE dlc - 1
                      /\ left > 0 /\ left' = left - 1
    OBVIOUS
  <2>1. rx_state # 0 /\ rx_state \in 1 .. 9 \cup {11} /\ rx_state \in {1, 11} /\ left > 0 /\ push_rx_fifo = FALSE
    BY <1>2 DEF left
  <2>2. /\ push_rx_fifo' = push_rx_fifo /\ rx_buffer' = rx_buffer
        /\ ~enable => rx_state' = rx_state
        /\ enable => rx_state' = 12
        /\ dlc' = IF dlc = 0 THEN div - 1 ELSE dlc - 1
    BY <2>1, Zenon DEF Hears
  <2>3. left' = left - 1
    <3>1. CASE enable
      <4>1. left = 2 /\ rx_state' = 12
        BY <2>2, <3>1 DEF left
      <4>2. left' = 1
        BY <4>1 DEF left
      <4> QED BY <4>1, <4>2
    <3>2. CASE ~enable
      <4>1. left = dlc + 3 /\ rx_state' = 11
        BY <2>2, <3>2 DEF left
      <4>2. left' = IF dlc = 0 THEN 2 ELSE dlc' + 3
        BY <1>4, <4>1 DEF left
      <4> QED BY <1>2, <2>2, <4>1, <4>2
    <3> QED BY <3>1, <3>2
  <2> QED BY <1>2, <2>1, <2>2, <2>3
<1>8. rx_state' \in {0, 11, 12} /\ left' \in Nat /\ left \in Nat /\ left' = IF left > 0 THEN left - 1 ELSE 0
  <2>1. left \in Nat
    BY <1>2 DEF left
  <2> QED BY <1>2, <1>5, <1>6, <1>7, <2>1
<1>9. (delivers' <=> delivers /\ ~push_rx_fifo) /\ (delivers' => rx_buffer' = rx_buffer)
  <2>1. CASE rx_state = 0
    BY <1>5, <2>1 DEF delivers
  <2>2. CASE rx_state = 12
    BY <1>2, <1>6, <2>2 DEF delivers
  <2>3. CASE rx_state = 11
    <3>1. left \in Nat /\ left > 1
      BY <1>2, <2>3 DEF left
    <3>2. left > 0 /\ left' > 0 /\ ~push_rx_fifo /\ rx_buffer' = rx_buffer
      BY <1>2, <1>7, <2>3, <3>1
    <3> QED BY <3>2, Zenon DEF delivers
  <2> QED BY <1>2, <2>1, <2>2, <2>3
<1>10. delivers' => prescaler' >= left' + 3
  <2>1. delivers' => left > 0
    BY <1>2, <1>5, <1>6, <1>7 DEF delivers
  <2> QED BY <1>2, <1>8, <1>9, <2>1
<1>11. \A m \in 1 .. 3 : m + left' <= 3 => filter'[m] = 1
  <2>1. filter'[1] = 1
    BY <1>4
  <2>2. 2 + left' <= 3 => filter'[2] = 1
    BY <1>3, <1>4, <1>8
  <2>3. 3 + left' <= 3 => filter'[3] = 1
    BY <1>3, <1>4, <1>8
  <2> QED BY <2>1, <2>2, <2>3
<1>12. /\ rx_state' = 11 => dlc' \in 0 .. div' - 1 /\ (enable' => dlc' = div' - 1)
       /\ rx_state' = 12 => dlc' = div' - 2 /\ ~enable'
       /\ rx_state' = 0 => ~enable' /\ dlc' = IF push_rx_fifo' THEN div' - 3 ELSE half' - 1
       /\ push_rx_fifo' => rx_state' = 0
       /\ left' > 0 => ~push_rx_fifo'
  <2>1. CASE rx_state = 0
    BY <1>1, <1>5, <2>1
  <2>2. CASE rx_state = 12
    BY <1>1, <1>6, <2>2
  <2>3. CASE rx_state = 11
    BY <1>1, <1>2, <1>4, <1>7, <2>3
  <2> QED BY <1>2, <2>1, <2>2, <2>3
<1> QED BY <1>8, <1>9, <1>10, <1>11, <1>12, Zenon DEF BetweenInv

\* The start bit begins, with the receiver idle.
LEMMA FrameStarts ==
  ASSUME LineType, BetweenInv, Hears, out = 1, ~delivers, NEW byte,
         div' = div, prescaler' = div, sent' = 1, out' = 0
  PROVE  FrameInv(byte)'
<1>1. half \in Nat /\ half >= 7 /\ div \in Nat /\ half' = half
  BY Halves, Zenon DEF half
<1>2. rx_state = 0 /\ push_rx_fifo = FALSE /\ dlc = half - 1 /\ left = 0
  BY <1>1 DEF BetweenInv, delivers, left, LineType
<1>3. filter[1] = 1 /\ filter[2] = 1 /\ filter[3] = 1
  BY <1>2 DEF BetweenInv
<1>4. filter'[1] = 1 /\ filter'[2] = 1 /\ filter'[3] = 1
  BY <1>3, Zenon DEF Hears
<1>5. bit = 1
  <2>1. 1 \in Bit
    BY DEF Bit
  <2> QED BY <1>3, <2>1, Filtered, Zenon
<1>6. push_rx_fifo' = FALSE /\ rx_state' = (IF bit = 0 THEN 1 ELSE 0) /\ dlc' = half - 1 /\ enable' = (dlc = 0)
  BY <1>2, Zenon DEF Hears
<1>7. rx_state' = 0 /\ ~enable'
  <2>1. dlc # 0 /\ bit # 0
    BY <1>1, <1>2, <1>5
  <2> QED BY <1>6, <2>1, Zenon
<1>8. elapsed' = 0
  BY <1>1 DEF elapsed
<1>9. \A m \in 1 .. 3 : /\ elapsed' >= m => filter'[m] = out'
                        /\ sent' = 1 /\ elapsed' < m => filter'[m] = 1
  BY <1>4, <1>8
<1>10. elapsed' <= 2
  BY <1>8
<1> QED BY <1>1, <1>6, <1>7, <1>9, <1>10, Zenon DEF FrameInv

\* A cycle within a bit of the frame.
LEMMA FrameRuns ==
  ASSUME LineType, NEW byte, FrameInv(byte), Hears, out = OnLine(byte, sent), sent \in 1 .. 9,
         prescaler \in 1 .. div, prescaler' = prescaler - 1, div' = div, out' = out, sent' = sent
  PROVE  FrameInv(byte)'
<1>1. half \in Nat /\ half >= 7 /\ div \in Nat /\ 2 * half <= div /\ half' = half
  BY Halves, Zenon DEF half
<1>2. elapsed \in Nat /\ elapsed = div - prescaler /\ elapsed' = elapsed + 1
  BY <1>1 DEF elapsed
<1>3. enable \in BOOLEAN /\ dlc \in Nat /\ push_rx_fifo = FALSE
  BY Zenon DEF LineType, FrameInv
<1>4. \A m \in 1 .. 3 : /\ elapsed >= m => filter[m] = out
                        /\ sent = 1 /\ elapsed < m => filter[m] = 1
  BY Zenon DEF FrameInv
<1>5. filter'[1] = out /\ filter'[2] = filter[1] /\ filter'[3] = filter[2] /\ enable' = (dlc = 0)
  BY Zenon DEF Hears
<1>6. \A m \in 1 .. 3 : /\ elapsed' >= m => filter'[m] = out'
                        /\ sent' = 1 /\ elapsed' < m => filter'[m] = 1
  <2>1. /\ elapsed' >= 1 => filter'[1] = out'
        /\ sent' = 1 /\ elapsed' < 1 => filter'[1] = 1
    BY <1>2, <1>5
  <2>2. /\ elapsed' >= 2 => filter'[2] = out'
        /\ sent' = 1 /\ elapsed' < 2 => filter'[2] = 1
    BY <1>2, <1>4, <1>5
  <2>3. /\ elapsed' >= 3 => filter'[3] = out'
        /\ sent' = 1 /\ elapsed' < 3 => filter'[3] = 1
    BY <1>2, <1>4, <1>5
  <2> QED BY <2>1, <2>2, <2>3
<1>7. out \in Bit /\ 1 \in Bit
  BY DEF LineType, Bit
<1>8. CASE rx_state = 0 /\ ~enable /\ dlc = half - 1 /\ sent = 1 /\ elapsed <= 2
  <2>1. push_rx_fifo' = FALSE /\ rx_state' = (IF bit = 0 THEN 1 ELSE 0) /\ dlc' = half - 1
    BY <1>8, Zenon DEF Hears
  <2>2. ~enable'
    <3>1. dlc # 0
      BY <1>1, <1>8
    <3> QED BY <1>5, <3>1, Zenon
  <2>3. out = 0
    BY <1>8 DEF OnLine
  <2>4. CASE elapsed = 2
    <3>1. filter[1] = out /\ filter[2] = out
      BY <1>4, <2>4
    <3>2. bit = 0
      BY <1>7, <2>3, <3>1, Filtered, Zenon
    <3>3. rx_state' = 1
      BY <2>1, <3>2
    <3>4. InStep'
      <4>1. sample' = 0
        BY <2>2, <3>3 DEF sample
      <4>2. sample' = sent' - 1 /\ sent' - 1 + elapsed' + dlc' = half' + 2
        BY <1>1, <1>2, <1>8, <2>1, <2>4, <4>1
      <4> QED BY <4>2, Zenon DEF InStep
    <3>5. rx_state' \in 1 .. 9 \cup {11} /\ dlc' \in 0 .. div' - 1
      BY <1>1, <2>1, <3>3
    <3>6. \A m \in 1 .. 8 : ~(rx_state' > m + 1)
      BY <3>3
    <3> QED BY <1>6, <2>1, <2>2, <3>4, <3>5, <3>6, Zenon DEF FrameInv
  <2>5. CASE elapsed # 2
    <3>1. filter[2] = 1 /\ filter[3] = 1
      BY <1>2, <1>4, <1>8, <2>5
    <3>2. bit = 1
      BY <1>7, <3>1, Filtered, Zenon
    <3>3. rx_state' = 0 /\ dlc' = half' - 1 /\ sent' = 1 /\ elapsed' <= 2
      BY <1>1, <1>2, <1>8, <2>1, <2>5, <3>2
    <3> QED BY <1>6, <2>1, <2>2, <3>3, Zenon DEF FrameInv
  <2> QED BY <2>4, <2>5, Zenon
<1>9. ASSUME rx_state \in 1 .. 9 \cup {11}, dlc \in 0 .. div - 1, InStep,
             enable => dlc = div - 1,
             \A m \in 1 .. 8 : rx_state > m + 1 => rx_buffer[m] = byte[m]
      PROVE  FrameInv(byte)'
  <2>1. rx_state # 0 /\ (rx_state \in {1, 11} \/ rx_state \in 2 .. 9)
    BY <1>9
  <2>2. push_rx_fifo' = FALSE /\ dlc' = IF dlc = 0 THEN div - 1 ELSE dlc - 1
    BY <1>3, <1>9, <2>1, Zenon DEF Hears
  <2>3. dlc' \in 0 .. div' - 1 /\ (enable' => dlc' = div' - 1)
    <3>1. dlc' \in 0 .. div' - 1
      BY <1>1, <1>9, <2>2
    <3>2. dlc = 0 => dlc' = div' - 1
      BY <2>2
    <3> QED BY <1>5, <3>1, <3>2, Zenon
  <2>4. CASE ~enable
    <3>1. rx_state' = rx_state /\ rx_buffer' = rx_buffer
      BY <1>9, <2>4, Zenon DEF Hears
    <3>2. InStep'
      <4>1. sample = (IF rx_state = 11 THEN 9 ELSE rx_state - 1)
        BY <1>9, <2>4 DEF sample
      <4>2. CASE dlc = 0
        <5>1. enable' /\ dlc' = div - 1
          BY <1>5, <2>2, <4>2
        <5>2. sample' = sample + 1
          BY <1>9, <3>1, <4>1, <5>1 DEF sample
        <5>3. sample = sent - 1 /\ sent - 1 + elapsed = half + 2
          BY <1>1, <1>2, <1>9, <4>2 DEF InStep
        <5>4. sample' = sent' /\ sent' - 1 + dlc' = half' + 2 + prescaler'
          BY <1>1, <1>2, <5>1, <5>2, <5>3
        <5> QED BY <5>4, Zenon DEF InStep
      <4>3. CASE dlc # 0
        <5>1. ~enable' /\ dlc' = dlc - 1
          BY <1>5, <2>2, <4>3, Zenon
        <5>2. sample' = sample
          BY <1>9, <3>1, <4>1, <5>1 DEF sample
        <5> QED BY <1>1, <1>2, <1>3, <1>9, <5>1, <5>2 DEF InStep
      <4> QED BY <4>2, <4>3, Zenon
    <3> QED BY <1>6, <1>9, <2>2, <2>3, <3>1, <3>2, Zenon DEF FrameInv
  <2>5. CASE enable
    <3>1. dlc = div - 1 /\ ~enable' /\ dlc' = div - 2
      <4>1. dlc = div - 1 /\ dlc # 0 /\ dlc - 1 = div - 2
        BY <1>1, <1>9, <2>5
      <4> QED BY <1>5, <2>2, <4>1, Zenon
    <3>2. sample = IF rx_state = 11 THEN 10 ELSE rx_state
      BY <1>9, <2>5 DEF sample
    <3>3. sample = sent /\ sent - 1 + dlc = half + 2 + prescaler
      BY <1>1, <1>2, <1>9, <3>1 DEF InStep
    <3>4. rx_state \in 1 .. 9 /\ rx_state = sent /\ rx_state # 11
      BY <1>9, <3>2, <3>3
    <3>5. bit = out
      <4>1. elapsed >= 2
        BY <1>1, <1>2, <3>1, <3>3
      <4>2. filter[1] = out /\ filter[2] = out
        BY <1>2, <1>4, <4>1
      <4> QED BY <1>7, <4>2, Filtered, Zenon
    <3>6. CASE rx_state = 1
      <4>1. bit = 0
        BY <3>4, <3>5, <3>6 DEF OnLine
      <4>2. rx_state' = 2
        BY <1>9, <2>5, <3>6, <4>1, Zenon DEF Hears
      <4>3. sample' = 1
        BY <3>1, <4>2 DEF sample
      <4>4. sample' = sent' /\ sent' - 1 + dlc' = half' + 2 + prescaler'
        BY <1>1, <3>1, <3>3, <3>4, <3>6, <4>3
      <4>5. rx_state' \in 1 .. 9 \cup {11} /\ \A m \in 1 .. 8 : ~(rx_state' > m + 1)
        BY <4>2
      <4> QED BY <1>6, <2>2, <2>3, <4>4, <4>5, Zenon DEF FrameInv, InStep
    <3>7. CASE rx_state \in 2 .. 9
      <4>1. /\ rx_state' = IF rx_state = 9 THEN 11 ELSE rx_state + 1
            /\ rx_buffer' = [rx_buffer EXCEPT ![rx_state - 1] = bit]
        BY <1>9, <2>5, <3>7, Zenon DEF Hears
      <4>2. bit = byte[rx_state - 1]
        BY <3>4, <3>5, <3>7 DEF OnLine
      <4>3. sample' = rx_state
        BY <3>1, <3>7, <4>1 DEF sample
      <4>4. sample' = sent' /\ sent' - 1 + dlc' = half' + 2 + prescaler'
        BY <1>1, <3>1, <3>3, <3>4, <4>3
      <4>5. ASSUME NEW m \in 1 .. 8, rx_state' > m + 1 PROVE rx_buffer'[m] = byte[m]
        <5>1. rx_buffer \in [1 .. 8 -> Bit]
          BY Zenon DEF LineType
        <5>2. m = rx_state - 1 \/ (m # rx_state - 1 /\ rx_state > m + 1)
          BY <3>7, <4>1, <4>5
        <5>3. CASE m = rx_state - 1
          BY <4>1, <4>2, <5>1, <5>3
        <5>4. CASE m # rx_state - 1 /\ rx_state > m + 1
          <6>1. rx_buffer'[m] = rx_buffer[m]
            BY <4>1, <5>1, <5>4
          <6> QED BY <1>9, <5>4, <6>1, Zenon
        <5> QED BY <5>2, <5>3, <5>4, Zenon
      <4>6. rx_state' \in 1 .. 9 \cup {11}
        BY <3>7, <4>1
      <4> QED BY <1>6, <2>2, <2>3, <4>4, <4>5, <4>6, Zenon DEF FrameInv, InStep
    <3> QED BY <2>1, <3>4, <3>6, <3>7
  <2> QED BY <1>3, <2>4, <2>5, Zenon
<1> QED BY <1>8, <1>9, Zenon DEF FrameInv

\* The next bit of the frame begins.
LEMMA FrameSteps ==
  ASSUME LineType, NEW byte, FrameInv(byte), Hears, sent \in 1 .. 8,
         prescaler = 0, prescaler' = div, div' = div, sent' = sent + 1
  PROVE  FrameInv(byte)'
<1>1. half \in Nat /\ half >= 7 /\ div \in Nat /\ 2 * half <= div /\ half' = half
  BY Halves, Zenon DEF half
<1>2. elapsed = div /\ elapsed' = 0
  BY <1>1 DEF elapsed
<1>3. /\ rx_state \in 1 .. 9 \cup {11} /\ dlc \in 0 .. div - 1 /\ InStep
      /\ enable => dlc = div - 1
      /\ \A m \in 1 .. 8 : rx_state > m + 1 => rx_buffer[m] = byte[m]
  <2>1. ~(elapsed <= 2)
    BY <1>1, <1>2
  <2> QED BY <2>1, Zenon DEF FrameInv
<1>4. enable \in BOOLEAN /\ dlc \in Nat /\ push_rx_fifo = FALSE
  BY Zenon DEF LineType, FrameInv
<1>5. sample = sent /\ sent - 1 + dlc = half + 2 /\ dlc # 0 /\ ~enable
  BY <1>1, <1>2, <1>3, <1>4 DEF InStep
<1>6. /\ push_rx_fifo' = FALSE /\ dlc' = dlc - 1 /\ ~enable' /\ rx_state' = rx_state
      /\ rx_buffer' = rx_buffer
  <2>1. rx_state # 0
    BY <1>3
  <2> QED BY <1>3, <1>4, <1>5, <2>1, Zenon DEF Hears
<1>7. sample' = sample
  <2>1. sample = (IF rx_state = 11 THEN 9 ELSE rx_state - 1)
    BY <1>3, <1>5 DEF sample
  <2> QED BY <1>3, <1>6, <2>1 DEF sample
<1>8. sample' = sent' - 1 /\ sent' - 1 + elapsed' + dlc' = half' + 2
  BY <1>1, <1>2, <1>4, <1>5, <1>6, <1>7
<1>9. dlc' \in 0 .. div' - 1
  BY <1>1, <1>3, <1>5, <1>6
<1>10. \A m \in 1 .. 3 : /\ elapsed' >= m => filter'[m] = out'
                         /\ sent' = 1 /\ elapsed' < m => filter'[m] = 1
  BY <1>2
<1> QED BY <1>3, <1>6, <1>8, <1>9, <1>10, Zenon DEF FrameInv, InStep

\* The stop bit begins: the receiver holds the byte, and has only this bit to sample.
LEMMA FrameEnds ==
  ASSUME LineType, NEW byte, FrameInv(byte), Hears, sent = 9,
         prescaler = 0, prescaler' = div, div' = div
  PROVE  /\ BetweenInv' /\ delivers' /\ rx_buffer' \in [1 .. 8 -> Bit]
         /\ \A m \in 1 .. 8 : rx_buffer'[m] = byte[m]
<1>1. half \in Nat /\ half >= 7 /\ div \in Nat /\ 2 * half <= div /\ half' = half
  BY Halves, Zenon DEF half
<1>2. elapsed = div
  BY <1>1 DEF elapsed
<1>3. /\ rx_state \in 1 .. 9 \cup {11} /\ dlc \in 0 .. div - 1 /\ InStep
      /\ enable => dlc = div - 1
      /\ \A m \in 1 .. 8 : rx_state > m + 1 => rx_buffer[m] = byte[m]
  <2>1. ~(elapsed <= 2)
    BY <1>1, <1>2
  <2> QED BY <2>1, Zenon DEF FrameInv
<1>4. enable \in BOOLEAN /\ dlc \in Nat /\ push_rx_fifo = FALSE
  BY Zenon DEF LineType, FrameInv
<1>5. sample = 9 /\ dlc = half - 6 /\ dlc # 0 /\ ~enable
  BY <1>1, <1>2, <1>3, <1>4 DEF InStep
<1>6. rx_state = 11
  BY <1>3, <1>5 DEF sample
<1>7. /\ push_rx_fifo' = FALSE /\ dlc' = dlc - 1 /\ enable' = FALSE /\ rx_state' = 11
      /\ rx_buffer' = rx_buffer
  <2>1. rx_state # 0
    BY <1>6
  <2>2. enable' = (dlc = 0) /\ dlc' = dlc - 1 /\ push_rx_fifo' = FALSE /\ rx_state' = 11 /\ rx_buffer' = rx_buffer
    BY <1>3, <1>4, <1>5, <1>6, <2>1, Zenon DEF Hears
  <2>3. (dlc = 0) = FALSE
    BY <1>5
  <2> QED BY <2>2, <2>3, Zenon
<1>8. left' = half - 4
  BY <1>1, <1>5, <1>7 DEF left
<1>9. delivers' /\ prescaler' >= left' + 3 /\ \A m \in 1 .. 3 : ~(m + left' <= 3)
  BY <1>1, <1>8 DEF delivers
<1>10. dlc' \in 0 .. div' - 1
  BY <1>1, <1>3, <1>5, <1>7
<1>11. rx_state' \in {0, 11, 12} /\ rx_state' # 0 /\ rx_state' # 12
  BY <1>7
<1>12. \A m \in 1 .. 8 : rx_buffer'[m] = byte[m]
  BY <1>3, <1>6, <1>7
<1>13. rx_buffer' \in [1 .. 8 -> Bit]
  BY <1>7, Zenon DEF LineType
<1> QED BY <1>7, <1>9, <1>10, <1>11, <1>12, <1>13, Zenon DEF BetweenInv

\* A byte is heard from the start of its stop bit until the receiver delivers it.
heard == between /\ delivers

\* What one cycle does to the bytes on the line.
Passes(go, byte) ==
  /\ push_rx_fifo => heard
  /\ go => ~sending /\ sending'
  /\ \/ /\ sending' <=> sending \/ go
        /\ heard' <=> heard /\ ~push_rx_fifo
        /\ heard' => rx_buffer' = rx_buffer
     \/ /\ ~go /\ sending /\ ~sending' /\ ~heard /\ heard' /\ rx_buffer' \in [1 .. 8 -> Bit]
        /\ \A m \in 1 .. 8 : rx_buffer'[m] = byte[m]

LEMMA LineSteps ==
  ASSUME LineType, NEW old, NEW byte, NEW go \in BOOLEAN, LineInv(old),
         Sends(go, byte), go \/ byte = old, Hears, div' = div, nstop' = nstop
  PROVE  LineInv(byte)' /\ Passes(go, byte)
<1>1. /\ frame \in {10, 11} /\ frame' = frame /\ div \in Nat /\ div >= 14
      /\ push_rx_fifo \in BOOLEAN
  <2>1. frame' = frame
    BY Zenon DEF frame
  <2>2. push_rx_fifo \in BOOLEAN
    BY Zenon DEF LineType
  <2> QED BY <2>1, <2>2, Halves
<1>2. TxInv(old) /\ (between => BetweenInv) /\ (~between => FrameInv(old))
  BY Zenon DEF LineInv
<1>3. TxInv(byte)'
  BY <1>2, TxSteps, Zenon
<1>4. counter \in 0 .. frame /\ prescaler \in 0 .. div /\ (counter = 0 => out = 1)
  BY <1>2, Zenon DEF TxInv
<1>5. counter > 0 => out = OnLine(old, sent) /\ shifter[1] = OnLine(old, sent + 1)
  <2>1. 1 \in 1 .. 9
    OBVIOUS
  <2> QED BY <1>2, <2>1, Zenon DEF TxInv
<1>6. go => /\ counter = 0 /\ counter' = frame /\ prescaler' = prescaler /\ out' = out
  BY Zenon DEF Sends
<1>7. between => out = 1
  <2>1. CASE counter = 0
    BY <1>4, <2>1
  <2>2. CASE counter # 0 /\ between
    <3>1. sent \in {0, 10} /\ counter > 0
      BY <1>1, <1>4, <2>2 DEF between, sent
    <3>2. OnLine(old, sent) = 1
      BY <3>1 DEF OnLine
    <3> QED BY <1>5, <3>1, <3>2
  <2> QED BY <2>1, <2>2, Zenon
<1>8. push_rx_fifo => heard
  <2>1. push_rx_fifo => between
    BY <1>2, Zenon DEF FrameInv
  <2> QED BY <2>1, Zenon DEF heard, delivers
\* The line stays between two frames.
<1>9. ASSUME between, between', prescaler \in Int, prescaler' \in Int, delivers => prescaler' >= prescaler - 1
      PROVE  /\ LineInv(byte)' /\ (heard' <=> heard /\ ~push_rx_fifo) /\ (heard' => rx_buffer' = rx_buffer)
  <2>1. BetweenInv' /\ (delivers' <=> delivers /\ ~push_rx_fifo) /\ (delivers' => rx_buffer' = rx_buffer)
    BY <1>2, <1>7, <1>9, BetweenSteps, Zenon
  <2> QED BY <1>3, <1>9, <2>1, Zenon DEF LineInv, heard
<1>10. CASE go
  <2>1. between /\ between' /\ ~sending /\ sending'
    BY <1>1, <1>6, <1>10 DEF between, sending
  <2>2. prescaler \in Int /\ prescaler' \in Int /\ prescaler' >= prescaler - 1
    BY <1>1, <1>4, <1>6, <1>10
  <2> QED BY <1>8, <1>9, <1>10, <2>1, <2>2, Zenon DEF Passes
<1>11. CASE ~go /\ counter = 0
  <2>1. counter' = 0 /\ prescaler' = prescaler
    BY <1>11, Zenon DEF Sends
  <2>2. between /\ between' /\ ~sending /\ ~sending'
    BY <1>1, <1>11, <2>1 DEF between, sending
  <2>3. prescaler \in Int /\ prescaler' \in Int /\ prescaler' >= prescaler - 1
    BY <1>1, <1>4, <2>1
  <2> QED BY <1>8, <1>9, <1>11, <2>2, <2>3, Zenon DEF Passes
<1>12. CASE ~go /\ counter > 0 /\ prescaler > 0
  <2>1. counter' = counter /\ prescaler' = prescaler - 1 /\ out' = out
    BY <1>12, Zenon DEF Sends
  <2>2. between' = between /\ sending' = sending
    BY <1>1, <2>1, Zenon DEF between, sending
  <2>3. prescaler \in 1 .. div /\ prescaler \in Int /\ prescaler' \in Int /\ prescaler' >= prescaler - 1
    BY <1>1, <1>4, <1>12, <2>1
  <2>4. CASE between
    BY <1>8, <1>9, <1>12, <2>2, <2>3, <2>4, Zenon DEF Passes
  <2>5. CASE ~between
    <3>1. sent \in 1 .. 9 /\ sent' = sent
      BY <1>1, <1>4, <2>1, <2>5 DEF sent, between
    <3>2. FrameInv(byte)'
      BY <1>2, <1>5, <1>12, <2>1, <2>3, <2>5, <3>1, FrameRuns, Zenon
    <3> QED BY <1>3, <1>8, <1>12, <2>2, <2>5, <3>2, Zenon DEF LineInv, Passes, heard
  <2> QED BY <2>4, <2>5, Zenon
<1>13. CASE ~go /\ counter > 0 /\ prescaler = 0
  <2>1. counter' = counter - 1 /\ prescaler' = div /\ out' = shifter[1]
    BY <1>13, Zenon DEF Sends
  <2>2. sent' = sent + 1 /\ sent \in 0 .. 10
    BY <1>1, <1>4, <1>13, <2>1 DEF sent
  <2>3. prescaler \in Int /\ prescaler' \in Int /\ prescaler' >= prescaler - 1 /\ (between => BetweenInv)
    BY <1>1, <1>2, <1>13, <2>1
  <2>4. between => ~delivers
    <3>1. BetweenInv /\ delivers => prescaler >= left + 3
      BY Zenon DEF BetweenInv
    <3>2. between => left \in Nat
      <4>1. between => (rx_state = 11 => dlc \in 0 .. div - 1)
        BY <1>2, Zenon DEF BetweenInv
      <4> QED BY <1>1, <4>1 DEF left
    <3> QED BY <1>13, <2>3, <3>1, <3>2
  <2>5. CASE sent = 0
    <3>1. between /\ ~between' /\ sending /\ sending' /\ sent' = 1
      BY <1>1, <1>4, <2>1, <2>2, <2>5 DEF sent, between, sending
    <3>2. out' = 0
      BY <1>5, <1>13, <2>1, <2>5 DEF OnLine
    <3>3. FrameInv(byte)'
      BY <1>2, <1>7, <2>1, <2>4, <3>1, <3>2, FrameStarts, Zenon
    <3> QED BY <1>3, <1>8, <1>13, <2>4, <3>1, <3>3, Zenon DEF LineInv, Passes, heard
  <2>6. CASE sent \in 1 .. 8
    <3>1. ~between /\ ~between' /\ sending /\ sending'
      BY <1>1, <1>4, <2>1, <2>2, <2>6 DEF sent, between, sending
    <3>2. FrameInv(byte)'
      BY <1>2, <1>13, <2>1, <2>2, <2>6, <3>1, FrameSteps, Zenon
    <3> QED BY <1>3, <1>8, <1>13, <3>1, <3>2, Zenon DEF LineInv, Passes, heard
  <2>7. CASE sent = 9
    <3>1. ~between /\ between' /\ sending /\ ~sending'
      BY <1>1, <1>4, <2>1, <2>2, <2>7 DEF sent, between, sending
    <3>2. /\ BetweenInv' /\ delivers' /\ rx_buffer' \in [1 .. 8 -> Bit]
          /\ \A m \in 1 .. 8 : rx_buffer'[m] = byte[m]
      BY <1>2, <1>13, <2>1, <2>7, <3>1, FrameEnds, Zenon
    <3> QED BY <1>3, <1>8, <1>13, <3>1, <3>2, Zenon DEF LineInv, Passes, heard
  <2>8. CASE sent = 10
    <3>1. between /\ between' /\ ~sending /\ ~sending'
      BY <1>1, <1>4, <1>13, <2>1, <2>2, <2>8 DEF sent, between, sending
    <3> QED BY <1>8, <1>9, <1>13, <2>3, <3>1, Zenon DEF Passes
  <2> QED BY <2>2, <2>5, <2>6, <2>7, <2>8
<1>14. go \/ counter = 0 \/ (counter > 0 /\ prescaler > 0) \/ (counter > 0 /\ prescaler = 0)
  BY <1>1, <1>4
<1> QED BY <1>10, <1>11, <1>12, <1>13, <1>14, Zenon

--------------------------------------------------------------------------------
(* The bytes that are due: those in the receive queue, the one heard, the one   *)
(* being sent and those in the transmit queue, in this order.                   *)

Num(flag) == IF flag THEN 1 ELSE 0
Account(rx, d, tx, hears, heardByte, sends, sentByte) ==
  /\ Len(d) = Len(rx) + Num(hears) + Num(sends) + Len(tx)
  /\ \A i \in 1 .. Len(rx) : d[i] = rx[i]
  /\ hears => d[Len(rx) + 1] = heardByte
  /\ sends => d[Len(rx) + Num(hears) + 1] = sentByte
  /\ \A i \in 1 .. Len(tx) : d[Len(rx) + Num(hears) + Num(sends) + i] = tx[i]

\* The sequences that the operations on a queue make.
IsTail(t, s) == Len(s) > 0 /\ Len(t) = Len(s) - 1 /\ \A i \in 1 .. Len(t) : t[i] = s[i + 1]
IsAppend(t, s, x) == Len(t) = Len(s) + 1 /\ t[Len(s) + 1] = x /\ \A i \in 1 .. Len(s) : t[i] = s[i]
IsWithout(t, s, n) ==
  /\ n \in 1 .. Len(s) /\ Len(t) = Len(s) - 1
  /\ \A i \in 1 .. Len(t) : t[i] = IF i < n THEN s[i] ELSE s[i + 1]

LEMMA Lost ==
  ASSUME NEW rx, NEW d, NEW tx, NEW sends \in BOOLEAN, NEW x, NEW y, NEW d1,
         Len(rx) \in Nat, Len(d) \in Nat, Len(tx) \in Nat,
         Account(rx, d, tx, TRUE, x, sends, y), IsWithout(d1, d, Len(rx) + 1)
  PROVE  Account(rx, d1, tx, FALSE, x, sends, y)
<1> PICK k \in Nat : k = Num(sends)
  BY DEF Num
<1>1. /\ Len(d) = Len(rx) + 1 + k + Len(tx)
      /\ \A i \in 1 .. Len(rx) : d[i] = rx[i]
      /\ sends => d[Len(rx) + 1 + 1] = y
      /\ \A i \in 1 .. Len(tx) : d[Len(rx) + 1 + k + i] = tx[i]
  BY DEF Account, Num
<1>c. Len(d) = Len(rx) + 1 + k + Len(tx)
  BY DEF Account, Num
<1>f. sends => k = 1
  BY DEF Num
<1>2. /\ Len(d1) = Len(d) - 1
      /\ \A i \in 1 .. Len(d1) : d1[i] = IF i < Len(rx) + 1 THEN d[i] ELSE d[i + 1]
  BY DEF IsWithout
<1>n. Len(d1) = Len(d) - 1
  BY DEF IsWithout
<1>3. Len(d1) = Len(rx) + 0 + k + Len(tx)
  BY <1>c, <1>n, SMTT(40)
<1>4. ASSUME NEW i \in 1 .. Len(rx) PROVE d1[i] = rx[i]
  <2>1. i \in 1 .. Len(d1) /\ i < Len(rx) + 1
    BY <1>c, <1>n, SMTT(40)
  <2> QED BY <1>1, <1>2, <2>1, Zenon
<1>5. ASSUME sends PROVE d1[Len(rx) + 0 + 1] = y
  <2>0. k = 1
    BY <1>f, <1>5, Zenon
  <2>1. /\ Len(rx) + 0 + 1 \in 1 .. Len(d1) /\ ~(Len(rx) + 0 + 1 < Len(rx) + 1)
        /\ Len(rx) + 0 + 1 + 1 = Len(rx) + 1 + 1
    BY <1>c, <1>n, <2>0, SMTT(40)
  <2> QED BY <1>1, <1>2, <1>5, <2>1, Zenon
<1>6. ASSUME NEW i \in 1 .. Len(tx) PROVE d1[Len(rx) + 0 + k + i] = tx[i]
  <2>1. /\ Len(rx) + 0 + k + i \in 1 .. Len(d1) /\ ~(Len(rx) + 0 + k + i < Len(rx) + 1)
        /\ Len(rx) + 0 + k + i + 1 = Len(rx) + 1 + k + i
    BY <1>c, <1>n, SMTT(40)
  <2> QED BY <1>1, <1>2, <2>1, Zenon
<1>7. Num(FALSE) = 0
  BY DEF Num
<1> QED BY <1>3, <1>4, <1>5, <1>6, <1>7, Zenon DEF Account

LEMMA Delivered ==
  ASSUME NEW rx, NEW d, NEW tx, NEW sends \in BOOLEAN, NEW x, NEW y, NEW rx1,
         Len(rx) \in Nat, Len(d) \in Nat, Len(tx) \in Nat,
         Account(rx, d, tx, TRUE, x, sends, y), IsAppend(rx1, rx, x)
  PROVE  Account(rx1, d, tx, FALSE, x, sends, y)
BY DEF Account, Num, IsAppend

LEMMA WasRead ==
  ASSUME NEW rx, NEW d, NEW tx, NEW hears \in BOOLEAN, NEW sends \in BOOLEAN, NEW x, NEW y, NEW rx1, NEW d1,
         Len(rx) \in Nat, Len(d) \in Nat, Len(tx) \in Nat,
         Account(rx, d, tx, hears, x, sends, y), IsTail(rx1, rx), IsTail(d1, d)
  PROVE  Account(rx1, d1, tx, hears, x, sends, y)
<1> PICK h \in Nat, k \in Nat : h = Num(hears) /\ k = Num(sends)
  BY DEF Num
<1>1. /\ Len(d) = Len(rx) + h + k + Len(tx)
      /\ \A i \in 1 .. Len(rx) : d[i] = rx[i]
      /\ hears => d[Len(rx) + 1] = x
      /\ sends => d[Len(rx) + h + 1] = y
      /\ \A i \in 1 .. Len(tx) : d[Len(rx) + h + k + i] = tx[i]
  BY DEF Account, Num
<1>c. Len(d) = Len(rx) + h + k + Len(tx)
  BY DEF Account, Num
<1>f. (hears => h = 1) /\ (sends => k = 1)
  BY DEF Num
<1>2. /\ Len(rx) > 0 /\ Len(rx1) = Len(rx) - 1 /\ \A i \in 1 .. Len(rx1) : rx1[i] = rx[i + 1]
      /\ Len(d1) = Len(d) - 1 /\ \A i \in 1 .. Len(d1) : d1[i] = d[i + 1]
  BY DEF IsTail
<1>n. Len(rx) > 0 /\ Len(rx1) = Len(rx) - 1 /\ Len(d1) = Len(d) - 1
  BY DEF IsTail
<1>3. Len(d1) = Len(rx1) + h + k + Len(tx)
  BY <1>c, <1>n, SMTT(40)
<1>4. ASSUME NEW i \in 1 .. Len(rx1) PROVE d1[i] = rx1[i]
  <2>1. i \in 1 .. Len(d1) /\ i + 1 \in 1 .. Len(rx)
    BY <1>c, <1>n, SMTT(40)
  <2> QED BY <1>1, <1>2, <2>1, Zenon
<1>5. ASSUME hears PROVE d1[Len(rx1) + 1] = x
  <2>0. h = 1
    BY <1>f, <1>5, Zenon
  <2>1. Len(rx1) + 1 \in 1 .. Len(d1) /\ Len(rx1) + 1 + 1 = Len(rx) + 1
    BY <1>c, <1>n, <2>0, SMTT(40)
  <2> QED BY <1>1, <1>2, <1>5, <2>1, Zenon
<1>6. ASSUME sends PROVE d1[Len(rx1) + h + 1] = y
  <2>0. k = 1
    BY <1>f, <1>6, Zenon
  <2>1. Len(rx1) + h + 1 \in 1 .. Len(d1) /\ Len(rx1) + h + 1 + 1 = Len(rx) + h + 1
    BY <1>c, <1>n, <2>0, SMTT(40)
  <2> QED BY <1>1, <1>2, <1>6, <2>1, Zenon
<1>7. ASSUME NEW i \in 1 .. Len(tx) PROVE d1[Len(rx1) + h + k + i] = tx[i]
  <2>1. Len(rx1) + h + k + i \in 1 .. Len(d1) /\ Len(rx1) + h + k + i + 1 = Len(rx) + h + k + i
    <3>1. Len(rx1) \in Nat /\ Len(rx) = Len(rx1) + 1
      BY <1>n
    <3>2. Len(rx1) + h + k + i \in 1 .. Len(d1)
      BY <1>3, <3>1, SMTT(40)
    <3>3. Len(rx1) + h + k + i + 1 = Len(rx) + h + k + i
      BY <3>1, SMTT(40)
    <3> QED BY <3>2, <3>3
  <2> QED BY <1>1, <1>2, <2>1, Zenon
<1> QED BY <1>3, <1>4, <1>5, <1>6, <1>7, Zenon DEF Account

LEMMA Started ==
  ASSUME NEW rx, NEW d, NEW tx, NEW hears \in BOOLEAN, NEW x, NEW y, NEW tx1,
         Len(rx) \in Nat, Len(d) \in Nat, Len(tx) \in Nat,
         Account(rx, d, tx, hears, x, FALSE, y), IsTail(tx1, tx)
  PROVE  Account(rx, d, tx1, hears, x, TRUE, tx[1])
BY DEF Account, Num, IsTail

LEMMA Ended ==
  ASSUME NEW rx, NEW d, NEW tx, NEW x, NEW y, NEW z,
         Len(rx) \in Nat, Len(d) \in Nat, Len(tx) \in Nat,
         Account(rx, d, tx, FALSE, x, TRUE, y)
  PROVE  Account(rx, d, tx, TRUE, y, FALSE, z)
BY DEF Account, Num

LEMMA Written ==
  ASSUME NEW rx, NEW d, NEW tx, NEW hears \in BOOLEAN, NEW sends \in BOOLEAN, NEW x, NEW y, NEW z,
         NEW d1, NEW tx1, Len(rx) \in Nat, Len(d) \in Nat, Len(tx) \in Nat,
         Account(rx, d, tx, hears, x, sends, y), IsAppend(d1, d, z), IsAppend(tx1, tx, z)
  PROVE  Account(rx, d1, tx1, hears, x, sends, y)
<1> PICK h \in Nat, k \in Nat : h = Num(hears) /\ k = Num(sends)
  BY DEF Num
<1>1. /\ Len(d) = Len(rx) + h + k + Len(tx)
      /\ \A i \in 1 .. Len(rx) : d[i] = rx[i]
      /\ hears => d[Len(rx) + 1] = x
      /\ sends => d[Len(rx) + h + 1] = y
      /\ \A i \in 1 .. Len(tx) : d[Len(rx) + h + k + i] = tx[i]
  BY DEF Account, Num
<1>c. Len(d) = Len(rx) + h + k + Len(tx)
  BY DEF Account, Num
<1>f. (hears => h = 1) /\ (sends => k = 1)
  BY DEF Num
<1>2. /\ Len(d1) = Len(d) + 1 /\ d1[Len(d) + 1] = z /\ \A i \in 1 .. Len(d) : d1[i] = d[i]
      /\ Len(tx1) = Len(tx) + 1 /\ tx1[Len(tx) + 1] = z /\ \A i \in 1 .. Len(tx) : tx1[i] = tx[i]
  BY DEF IsAppend
<1>n. Len(tx1) = Len(tx) + 1 /\ Len(d1) = Len(d) + 1
  BY DEF IsAppend
<1>3. Len(d1) = Len(rx) + h + k + Len(tx1)
  BY <1>c, <1>n, SMTT(40)
<1>4. ASSUME NEW i \in 1 .. Len(rx) PROVE d1[i] = rx[i]
  <2>1. i \in 1 .. Len(d)
    BY <1>c
  <2> QED BY <1>1, <1>2, <2>1, Zenon
<1>5. ASSUME hears PROVE d1[Len(rx) + 1] = x
  <2>0. h = 1
    BY <1>f, <1>5, Zenon
  <2>1. Len(rx) + 1 \in 1 .. Len(d)
    BY <1>c, <2>0, SMTT(40)
  <2> QED BY <1>1, <1>2, <1>5, <2>1, Zenon
<1>6. ASSUME sends PROVE d1[Len(rx) + h + 1] = y
  <2>0. k = 1
    BY <1>f, <1>6, Zenon
  <2>1. Len(rx) + h + 1 \in 1 .. Len(d)
    BY <1>c, <2>0, SMTT(40)
  <2> QED BY <1>1, <1>2, <1>6, <2>1, Zenon
<1>7. ASSUME NEW i \in 1 .. Len(tx1) PROVE d1[Len(rx) + h + k + i] = tx1[i]
  <2>1. CASE i = Len(tx) + 1
    <3>1. Len(rx) + h + k + i = Len(d) + 1
      BY <1>c, <2>1
    <3> QED BY <1>2, <2>1, <3>1, Zenon
  <2>2. CASE i # Len(tx) + 1
    <3>1. i \in 1 .. Len(tx)
      BY <1>n, <2>2
    <3>2. Len(rx) + h + k + i \in 1 .. Len(d)
      BY <1>c, <3>1, SMTT(40)
    <3> QED BY <1>1, <1>2, <3>1, <3>2, Zenon
  <2> QED BY <2>1, <2>2, Zenon
<1> QED BY <1>3, <1>4, <1>5, <1>6, <1>7, Zenon DEF Account

\* The operators of the model make these sequences.
LEMMA TailMakes ==
  ASSUME NEW S, NEW s \in Seq(S), s # <<>>
  PROVE  Tail(s) \in Seq(S) /\ IsTail(Tail(s), s) /\ Head(s) = s[1] /\ Head(s) \in S
BY DEF IsTail
LEMMA AppendMakes ==
  ASSUME NEW S, NEW s \in Seq(S), NEW x \in S
  PROVE  Append(s, x) \in Seq(S) /\ IsAppend(Append(s, x), s, x)
BY DEF IsAppend
LEMMA Joined ==
  ASSUME NEW s, NEW p, NEW q, NEW t, NEW l \in Nat, NEW n \in 1 .. l, Len(s) = l,
         Len(p) = n - 1, \A i \in 1 .. n - 1 : p[i] = s[i],
         Len(q) = l - n, \A i \in 1 .. l - n : q[i] = s[n + i],
         Len(t) = Len(p) + Len(q),
         \A i \in 1 .. Len(p) + Len(q) : t[i] = IF i <= Len(p) THEN p[i] ELSE q[i - Len(p)]
  PROVE  IsWithout(t, s, n)
<1>1. Len(t) = l - 1
  OBVIOUS
<1>2. ASSUME NEW i \in 1 .. l - 1 PROVE t[i] = IF i < n THEN s[i] ELSE s[i + 1]
  <2>1. CASE i < n
    BY <2>1
  <2>2. CASE ~(i < n)
    BY <2>2
  <2> QED BY <2>1, <2>2
<1> QED BY <1>1, <1>2 DEF IsWithout

LEMMA WithoutMakes ==
  ASSUME NEW S, NEW s \in Seq(S), NEW n \in 1 .. Len(s)
  PROVE  Serial!Without(s, n) \in Seq(S) /\ IsWithout(Serial!Without(s, n), s, n)
<1> PICK l : l = Len(s)
  OBVIOUS
<1>1. l \in Nat /\ n \in 1 .. l /\ n \in Int
  OBVIOUS
<1> PICK p, q, t : p = SubSeq(s, 1, n - 1) /\ q = SubSeq(s, n + 1, l) /\ t = p \o q
  OBVIOUS
<1>2. p \in Seq(S) /\ Len(p) = n - 1 /\ \A i \in 1 .. n - 1 : p[i] = s[i]
  OBVIOUS
<1>3. q \in Seq(S) /\ Len(q) = l - n /\ \A i \in 1 .. l - n : q[i] = s[n + i]
  OBVIOUS
<1>4. /\ t \in Seq(S) /\ Len(t) = Len(p) + Len(q)
      /\ \A i \in 1 .. Len(p) + Len(q) : t[i] = IF i <= Len(p) THEN p[i] ELSE q[i - Len(p)]
  <2>1. p \in Seq(S) /\ q \in Seq(S)
    BY <1>2, <1>3, Zenon
  <2>2. /\ p \o q \in Seq(S) /\ Len(p \o q) = Len(p) + Len(q)
        /\ \A i \in 1 .. Len(p) + Len(q) : (p \o q)[i] = IF i <= Len(p) THEN p[i] ELSE q[i - Len(p)]
    BY <2>1, ConcatProperties, ZenonT(40)
  <2> QED BY <2>2, Zenon
<1>5. IsWithout(t, s, n)
  BY <1>1, <1>2, <1>3, <1>4, Joined, Zenon
<1>6. Serial!Without(s, n) = t
  BY Zenon DEF Serial!Without
<1> QED BY <1>4, <1>5, <1>6, Zenon

Octet == {byte \in Seq(Bit) : Len(byte) = 8}

LEMMA Irrelevant ==
  ASSUME NEW rx, NEW d, NEW tx, NEW hears \in BOOLEAN, NEW sends \in BOOLEAN, NEW x, NEW y, NEW x1, NEW y1,
         Account(rx, d, tx, hears, x, sends, y), hears => x1 = x, sends => y1 = y
  PROVE  Account(rx, d, tx, hears, x1, sends, y1)
BY Zenon DEF Account

\* What the receiver and the bus do to the bytes due: the byte it delivers is queued or
\* lost, and the first of the queue is read.
LEMMA ReceiveSide ==
  ASSUME NEW rx \in Seq(Octet), NEW d \in Seq(Octet), NEW tx \in Seq(Octet), NEW x, NEW y,
         NEW h \in BOOLEAN, NEW s \in BOOLEAN, Account(rx, d, tx, h, x, s, y),
         NEW lost \in BOOLEAN, NEW gets \in BOOLEAN, NEW pop \in BOOLEAN,
         lost \/ gets => h, ~(lost /\ gets), pop => rx # <<>>,
         NEW kept, kept = IF lost THEN Serial!Without(d, Len(rx) + 1) ELSE d,
         NEW h2 \in BOOLEAN, h2 <=> h /\ ~lost /\ ~gets
  PROVE  /\ Serial!Pushed(Serial!Popped(rx, pop), gets, x) \in Seq(Octet)
         /\ Serial!Popped(kept, pop) \in Seq(Octet)
         /\ Account(Serial!Pushed(Serial!Popped(rx, pop), gets, x), Serial!Popped(kept, pop), tx, h2, x, s, y)
<1>1. \A q \in Seq(Octet) : Len(q) \in Nat
  OBVIOUS
<1> PICK h1 \in BOOLEAN : h1 <=> h /\ ~lost
  OBVIOUS
<1>2. kept \in Seq(Octet) /\ Account(rx, kept, tx, h1, x, s, y)
  <2>1. CASE lost
    <3>1. h = TRUE /\ h1 = FALSE /\ kept = Serial!Without(d, Len(rx) + 1)
      BY <2>1, Zenon
    <3>2. Len(rx) \in Nat /\ Len(d) \in Nat /\ Len(tx) \in Nat
      BY <1>1, Zenon
    <3>3. Len(rx) + 1 \in 1 .. Len(d)
      <4>1. Len(d) = Len(rx) + 1 + Num(s) + Len(tx)
        BY <3>1 DEF Account, Num
      <4>2. Num(s) \in Nat
        BY DEF Num
      <4> QED BY <3>2, <4>1, <4>2
    <3>4. kept \in Seq(Octet) /\ IsWithout(kept, d, Len(rx) + 1)
      BY <3>1, <3>3, WithoutMakes, Zenon
    <3> QED BY <3>1, <3>2, <3>4, Lost, Zenon
  <2>2. CASE ~lost
    <3>1. h1 = h /\ kept = d
      BY <2>2, Zenon
    <3> QED BY <3>1, Zenon
  <2> QED BY <2>1, <2>2, Zenon
<1> PICK rx1, d1 : rx1 = Serial!Popped(rx, pop) /\ d1 = Serial!Popped(kept, pop)
  OBVIOUS
<1>3. rx1 \in Seq(Octet) /\ d1 \in Seq(Octet) /\ Account(rx1, d1, tx, h1, x, s, y)
  <2>1. CASE pop
    <3>1. rx1 = Tail(rx) /\ d1 = Tail(kept)
      BY <2>1, Zenon DEF Serial!Popped
    <3>2. rx1 \in Seq(Octet) /\ IsTail(rx1, rx)
      BY <2>1, <3>1, TailMakes, Zenon
    <3>3. Len(rx) \in Nat /\ Len(kept) \in Nat /\ Len(tx) \in Nat
      BY <1>1, <1>2, Zenon
    <3>4. Len(kept) > 0
      <4>1. Len(kept) = Len(rx) + Num(h1) + Num(s) + Len(tx)
        BY <1>2, Zenon DEF Account
      <4>2. Num(s) \in Nat /\ Num(h1) \in Nat
        BY DEF Num
      <4>3. Len(rx) > 0
        BY <3>2, Zenon DEF IsTail
      <4> QED BY <3>3, <4>1, <4>2, <4>3
    <3>5. kept # <<>>
      BY <3>4
    <3>6. d1 \in Seq(Octet) /\ IsTail(d1, kept)
      BY <1>2, <3>1, <3>5, TailMakes, Zenon
    <3> QED BY <1>2, <3>2, <3>3, <3>6, WasRead, ZenonT(40)
  <2>2. CASE ~pop
    <3>1. rx1 = rx /\ d1 = kept
      BY <2>2, Zenon DEF Serial!Popped
    <3> QED BY <1>2, <3>1, Zenon
  <2> QED BY <2>1, <2>2, Zenon
<1> PICK rx2 : rx2 = Serial!Pushed(rx1, gets, x)
  OBVIOUS
<1>4. rx2 \in Seq(Octet) /\ Account(rx2, d1, tx, h2, x, s, y)
  <2>1. CASE gets
    <3>1. h1 = TRUE /\ h2 = FALSE /\ rx2 = Append(rx1, x)
      BY <2>1, Zenon DEF Serial!Pushed
    <3>2. Len(rx1) \in Nat /\ Len(d1) \in Nat /\ Len(tx) \in Nat
      BY <1>1, <1>3, Zenon
    <3>3. x = d1[Len(rx1) + 1] /\ Len(d1) = Len(rx1) + Num(h1) + Num(s) + Len(tx)
      BY <1>3, <3>1, Zenon DEF Account
    <3>4. Len(rx1) + 1 \in 1 .. Len(d1)
      <4>1. Num(s) \in Nat /\ Num(h1) = 1
        BY <3>1 DEF Num
      <4>2. Len(d1) = Len(rx1) + 1 + Num(s) + Len(tx)
        BY <3>3, <4>1, Zenon
      <4> QED BY <3>2, <4>1, <4>2
    <3>5. x \in Octet
      BY <1>3, <3>3, <3>4, ElementOfSeq, Zenon
    <3>6. rx2 \in Seq(Octet) /\ IsAppend(rx2, rx1, x)
      BY <1>3, <3>1, <3>5, AppendMakes, Zenon
    <3> QED BY <1>3, <3>1, <3>2, <3>6, Delivered, Zenon
  <2>2. CASE ~gets
    <3>1. h2 = h1 /\ rx2 = rx1
      BY <2>2, Zenon DEF Serial!Pushed
    <3> QED BY <1>3, <3>1, Zenon
  <2> QED BY <2>1, <2>2, Zenon
<1> QED BY <1>3, <1>4, Zenon

\* What the transmitter and the bus do to them: a byte is taken from the queue, the
\* byte on the line is heard, and a byte is written.
LEMMA SendSide ==
  ASSUME NEW rx \in Seq(Octet), NEW d \in Seq(Octet), NEW tx \in Seq(Octet), NEW x, NEW y,
         NEW h \in BOOLEAN, NEW s \in BOOLEAN, Account(rx, d, tx, h, x, s, y),
         NEW go \in BOOLEAN, NEW enq \in BOOLEAN, NEW z, enq => z \in Octet,
         NEW h2 \in BOOLEAN, NEW s2 \in BOOLEAN, NEW x2, NEW y2,
         go => ~s /\ tx # <<>> /\ y2 = Head(tx), ~go => y2 = y,
         \/ (s2 <=> s \/ go) /\ (h2 <=> h) /\ (h2 => x2 = x)
         \/ ~go /\ s /\ ~s2 /\ ~h /\ h2 /\ x2 = y
  PROVE  /\ Serial!Pushed(d, enq, z) \in Seq(Octet)
         /\ Serial!Pushed(Serial!Popped(tx, go), enq, z) \in Seq(Octet)
         /\ Len(Serial!Pushed(Serial!Popped(tx, go), enq, z)) <= Len(tx) + Num(enq)
         /\ Account(rx, Serial!Pushed(d, enq, z), Serial!Pushed(Serial!Popped(tx, go), enq, z), h2, x2, s2, y2)
<1>1. \A q \in Seq(Octet) : Len(q) \in Nat
  OBVIOUS
<1>2. Len(rx) \in Nat /\ Len(d) \in Nat /\ Len(tx) \in Nat
  BY <1>1, Zenon
<1> PICK tx1 : tx1 = Serial!Popped(tx, go)
  OBVIOUS
<1>3. tx1 \in Seq(Octet) /\ Len(tx1) <= Len(tx) /\ Account(rx, d, tx1, h2, x2, s2, y2)
  <2>1. CASE go
    <3>1. /\ tx1 = Tail(tx) /\ s = FALSE /\ s2 = TRUE /\ h2 = h /\ (h2 => x2 = x)
          /\ tx # <<>> /\ y2 = Head(tx)
      BY <2>1, Zenon DEF Serial!Popped
    <3>2. tx1 \in Seq(Octet) /\ IsTail(tx1, tx) /\ y2 = tx[1]
      BY <3>1, TailMakes, Zenon
    <3>3. Account(rx, d, tx1, h, x, TRUE, tx[1])
      BY <1>2, <3>1, <3>2, Started, Zenon
    <3>4. Account(rx, d, tx1, h2, x2, s2, y2)
      BY <3>1, <3>2, <3>3, Irrelevant, Zenon
    <3>5. Len(tx1) <= Len(tx)
      <4>1. Len(tx1) = Len(tx) - 1
        BY <3>2, Zenon DEF IsTail
      <4> QED BY <1>2, <4>1
    <3> QED BY <3>2, <3>4, <3>5, Zenon
  <2>2. CASE ~go /\ (s2 <=> s \/ go) /\ (h2 <=> h) /\ (h2 => x2 = x)
    <3>1. tx1 = tx /\ s2 = s /\ h2 = h /\ y2 = y
      BY <2>2, Zenon DEF Serial!Popped
    <3>2. Len(tx) <= Len(tx)
      BY <1>2
    <3>3. Account(rx, d, tx, h2, x, s2, y2)
      BY <3>1, Zenon
    <3>4. Account(rx, d, tx, h2, x2, s2, y2)
      BY <2>2, <3>3, Irrelevant, Zenon
    <3> QED BY <3>1, <3>2, <3>4, Zenon
  <2>3. CASE ~go /\ s /\ ~s2 /\ ~h /\ h2 /\ x2 = y
    <3>1. tx1 = tx /\ s2 = FALSE /\ s = TRUE /\ h = FALSE /\ h2 = TRUE
      BY <2>3, Zenon DEF Serial!Popped
    <3>2. Len(tx) <= Len(tx)
      BY <1>2
    <3>3. Account(rx, d, tx, TRUE, y, FALSE, y2)
      BY <1>2, <3>1, Ended, Zenon
    <3> QED BY <2>3, <3>1, <3>2, <3>3, Zenon
  <2> QED BY <2>1, <2>2, <2>3, Zenon
<1>4. CASE enq
  <2>1. Serial!Pushed(d, enq, z) = Append(d, z) /\ Serial!Pushed(tx1, enq, z) = Append(tx1, z)
    BY <1>4, Zenon DEF Serial!Pushed
  <2>2. /\ Append(d, z) \in Seq(Octet) /\ IsAppend(Append(d, z), d, z)
        /\ Append(tx1, z) \in Seq(Octet) /\ IsAppend(Append(tx1, z), tx1, z)
    BY <1>3, <1>4, AppendMakes, Zenon
  <2>3. Len(tx1) \in Nat
    BY <1>1, <1>3, Zenon
  <2>4. Account(rx, Append(d, z), Append(tx1, z), h2, x2, s2, y2)
    BY <1>2, <1>3, <2>2, <2>3, Written, Zenon
  <2>5. Len(Append(tx1, z)) <= Len(tx) + Num(enq)
    <3>1. Len(Append(tx1, z)) = Len(tx1) + 1 /\ Len(tx1) <= Len(tx)
      BY <1>3, <2>2, Zenon DEF IsAppend
    <3>2. Num(enq) = 1
      BY <1>4 DEF Num
    <3> QED BY <1>2, <2>3, <3>1, <3>2
  <2> QED BY <2>1, <2>2, <2>4, <2>5, Zenon
<1>5. CASE ~enq
  <2>1. Serial!Pushed(d, enq, z) = d /\ Serial!Pushed(tx1, enq, z) = tx1
    BY <1>5, Zenon DEF Serial!Pushed
  <2>2. Len(tx1) \in Nat /\ Num(enq) = 0
    BY <1>1, <1>3, <1>5, Zenon DEF Num
  <2>3. Len(tx1) <= Len(tx) + Num(enq)
    BY <1>2, <1>3, <2>2
  <2> QED BY <1>3, <2>1, <2>3, Zenon
<1> QED BY <1>4, <1>5, Zenon

--------------------------------------------------------------------------------
(* A UART that is set up.                                                        *)

TodoType == todo \in [div : DIVS, nstop : BOOLEAN, bytes : Int]
QueueType ==
  /\ rxq \in Seq(Octet) /\ txq \in Seq(Octet) /\ due \in Seq(Octet)
  /\ Len(txq) <= DEPTH /\ room \in BOOLEAN /\ (room => Len(txq) < DEPTH)
Settings == div = todo.div /\ nstop = todo.nstop /\ rxen = TRUE /\ txen \in BOOLEAN
Carries(byte) == LineInv(byte) /\ Account(rxq, due, txq, heard, rx_buffer, sending, byte)
RunInv == TodoType /\ Settings /\ LineType /\ QueueType /\ \E byte \in Octet : Carries(byte)

\* The accesses of software once it has set up the UART.
Steady(acc) ==
  /\ ~Serial!Writes(acc, "div") /\ ~Serial!Writes(acc, "rxctrl")
  /\ Serial!Writes(acc, "txctrl") => acc.data["txen"] \in BOOLEAN /\ acc.data["nstop"] = todo.nstop
  /\ Serial!Writes(acc, "txdata") => acc.data \in Octet

LEMMA LineBounds ==
  ASSUME LineType, NEW byte, LineInv(byte)
  PROVE  rx_state \in RxStates /\ dlc < 2^16 /\ counter \in Nat /\ prescaler \in Nat
<1>1. half \in Nat /\ div \in Nat /\ div >= 14 /\ 2 * half <= div /\ frame \in {10, 11}
  BY Halves
<1>2. counter \in Nat /\ prescaler \in Nat
  <2>1. counter \in 0 .. frame /\ prescaler \in 0 .. div
    BY Zenon DEF LineInv, TxInv
  <2> QED BY <1>1, <2>1
<1>3. rx_state \in RxStates /\ dlc < div
  <2>1. dlc \in Nat
    BY Zenon DEF LineType
  <2>2. CASE between
    BY <1>1, <2>1, <2>2 DEF LineInv, BetweenInv, RxStates
  <2>3. CASE ~between
    <3>1. \/ rx_state = 0 /\ dlc = half - 1
          \/ rx_state \in 1 .. 9 \cup {11} /\ dlc \in 0 .. div - 1
      BY <2>3, Zenon DEF LineInv, FrameInv
    <3> QED BY <1>1, <2>1, <3>1 DEF RxStates
  <2> QED BY <2>2, <2>3, Zenon
<1>4. div < 2^16 /\ dlc \in Nat
  BY Zenon DEF LineType
<1>5. 2^16 \in Nat
  OBVIOUS
<1>6. dlc < 2^16
  <2> PICK top : top = 2^16
    OBVIOUS
  <2>1. top \in Nat /\ div < top
    BY <1>4, <1>5, Zenon
  <2>2. dlc < top
    BY <1>1, <1>3, <1>4, <2>1
  <2> QED BY <2>2, Zenon
<1> QED BY <1>2, <1>3, <1>6, Zenon

LEMMA SettingsKept ==
  ASSUME TodoType, Settings, NEW acc, Serial!Do(acc), Steady(acc)
  PROVE  TodoType' /\ Settings' /\ div' = div /\ nstop' = nstop
<1>1. Serial!Cycle(acc, out) /\ todo' = IF Serial!Writes(acc, "txdata") THEN [todo EXCEPT !.bytes = @ - 1] ELSE todo
  BY Zenon DEF Serial!Do
<1>2. todo' = todo \/ todo' = [todo EXCEPT !.bytes = todo.bytes - 1]
  BY <1>1
<1>3. TodoType' /\ todo'.div = todo.div /\ todo'.nstop = todo.nstop
  BY <1>2 DEF TodoType
<1>4. div' = div /\ rxen' = rxen
  BY <1>1, Zenon DEF Serial!Cycle, Serial!Field, Steady
<1>5. nstop' = nstop /\ txen' \in BOOLEAN
  BY <1>1, Zenon DEF Serial!Cycle, Serial!Field, Steady, Settings
<1> QED BY <1>3, <1>4, <1>5, Zenon DEF Settings

LEMMA SameByte ==
  ASSUME NEW byte \in Octet, NEW f \in [1 .. 8 -> Bit], \A m \in 1 .. 8 : f[m] = byte[m]
  PROVE  f = byte
<1>1. byte \in Seq(Bit) /\ Len(byte) = 8
  BY Zenon DEF Octet
<1>2. byte \in [1 .. 8 -> Bit]
  BY <1>1, LenProperties, Zenon
<1> QED BY <1>2

\* One cycle of the line.
LEMMA CarriesOn ==
  ASSUME RunInv, NEW old \in Octet, Carries(old), NEW acc, Serial!Do(acc), Steady(acc)
  PROVE  \E go \in BOOLEAN, byte \in Octet :
           /\ go = starts /\ (go => txq # <<>> /\ byte = Head(txq)) /\ (go \/ byte = old)
           /\ LineType' /\ LineInv(byte)' /\ Passes(go, byte)
<1>1. LineType /\ LineInv(old) /\ QueueType
  BY Zenon DEF RunInv, Carries
<1>2. div' = div /\ nstop' = nstop
  BY SettingsKept, Zenon DEF RunInv
<1>3. rx_state \in RxStates /\ dlc < 2^16 /\ counter \in Nat /\ prescaler \in Nat
  BY <1>1, LineBounds, Zenon
<1>4. Serial!Cycle(acc, out)
  BY Zenon DEF Serial!Do
<1>5. Hears
  <2>1. Serial!u_rxm!Cycle(TRUE, out, div)
    BY <1>4, Zenon DEF Serial!Cycle, RunInv, Settings
  <2> QED BY <1>1, <1>3, <2>1, RxCycle, Zenon DEF RxStates
<1> PICK valid \in BOOLEAN : valid = (txq # <<>>)
  OBVIOUS
<1>6. txen \in BOOLEAN /\ Serial!txq_io_deq_valid = valid
  BY Zenon DEF RunInv, Settings, Serial!txq_io_deq_valid
<1> PICK go \in BOOLEAN : go = (Serial!u_txm!starts(txen, valid))
  BY Zenon DEF Serial!u_txm!starts, Serial!u_txm!io_in_ready
<1>7. go = starts
  BY <1>6, Zenon DEF starts, Serial!txq_pops
<1>8. go => counter = 0 /\ valid /\ txen
  BY Zenon DEF Serial!u_txm!starts, Serial!u_txm!io_in_ready, Serial!u_txm!busy
<1>9. valid => Head(txq) \in Octet
  BY <1>1, HeadTailProperties, Zenon DEF QueueType
<1>10. Sends(go, Head(txq))
  <2>1. Serial!u_txm!Cycle(txen, valid, Head(txq), div, nstop)
    BY <1>4, <1>6, Zenon DEF Serial!Cycle
  <2>2. txen /\ valid => Head(txq) \in Seq(Bit) /\ Len(Head(txq)) = 8
    BY <1>9, Zenon DEF Octet
  <2>3. go <=> Serial!u_txm!starts(txen, valid)
    BY Zenon
  <2> QED BY <1>1, <1>3, <1>6, <2>1, <2>2, <2>3, TxCycle, Zenon
<1> PICK byte \in Octet : byte = IF go THEN Head(txq) ELSE old
  BY <1>8, <1>9, Zenon
<1>11. Sends(go, byte)
  BY <1>10, Zenon DEF Sends
<1>12. LineInv(byte)' /\ Passes(go, byte)
  BY <1>1, <1>2, <1>5, <1>11, LineSteps, Zenon
<1>13. LineType'
  BY <1>1, <1>2, <1>3, <1>5, <1>8, <1>11, LineTyped, Zenon
<1> QED BY <1>7, <1>8, <1>12, <1>13, Zenon

\* One cycle of the queues.
LEMMA QueuesOn ==
  ASSUME RunInv, NEW old \in Octet, Carries(old), NEW acc, Serial!Do(acc), Steady(acc),
         NEW go \in BOOLEAN, NEW byte \in Octet, go = starts, go => txq # <<>> /\ byte = Head(txq),
         go \/ byte = old, Passes(go, byte)
  PROVE  QueueType' /\ Account(rxq, due, txq, heard, rx_buffer, sending, byte)'
<1>1. /\ rxq \in Seq(Octet) /\ txq \in Seq(Octet) /\ due \in Seq(Octet)
      /\ Len(txq) <= DEPTH /\ room \in BOOLEAN /\ (room => Len(txq) < DEPTH)
      /\ push_rx_fifo \in BOOLEAN
  BY Zenon DEF RunInv, QueueType, LineType
<1>2. Account(rxq, due, txq, heard, rx_buffer, sending, old)
  BY Zenon DEF Carries
<1>3. push_rx_fifo => heard
  BY Zenon DEF Passes
<1>a. heard \in BOOLEAN /\ heard' \in BOOLEAN /\ (heard /\ ~push_rx_fifo) \in BOOLEAN
  BY Zenon DEF heard
<1>b. sending \in BOOLEAN /\ sending' \in BOOLEAN
  BY SMT DEF sending
<1> PICK h \in BOOLEAN, s \in BOOLEAN, h1 \in BOOLEAN :
      h = heard /\ s = sending /\ h1 = (heard /\ ~push_rx_fifo)
  BY <1>a, <1>b, Zenon
<1> PICK h2 \in BOOLEAN, s2 \in BOOLEAN : h2 = heard' /\ s2 = sending'
  BY <1>a, <1>b, Zenon
<1> PICK lost \in BOOLEAN, gets \in BOOLEAN, pop \in BOOLEAN, enq \in BOOLEAN :
      /\ lost = Serial!overruns /\ gets = Serial!receives
      /\ pop = Serial!rxq_pops(acc) /\ enq = Serial!enqueues(acc)
  BY DEF Serial!overruns, Serial!receives, Serial!rxq_pops, Serial!enqueues
<1>4. /\ lost \/ gets <=> push_rx_fifo
      /\ ~(lost /\ gets)
  BY Zenon DEF Serial!overruns, Serial!receives
<1>5. pop => rxq # <<>>
  BY Zenon DEF Serial!rxq_pops, Serial!rxq_io_deq_valid
<1>6. enq => Len(txq) < DEPTH /\ Serial!Writes(acc, "txdata")
  BY Zenon DEF Serial!enqueues, Serial!txq_io_enq_ready
<1>7. enq => acc.data \in Octet
  BY <1>6, Zenon DEF Steady
<1> PICK kept : kept = IF lost THEN Serial!Without(due, Len(rxq) + 1) ELSE due
  OBVIOUS
<1> PICK rx2, d2 : rx2 = Serial!Pushed(Serial!Popped(rxq, pop), gets, rx_buffer) /\ d2 = Serial!Popped(kept, pop)
  OBVIOUS
<1>8. rx2 \in Seq(Octet) /\ d2 \in Seq(Octet) /\ Account(rx2, d2, txq, h1, rx_buffer, s, old)
  <2>1. Account(rxq, due, txq, h, rx_buffer, s, old)
    BY <1>2, Zenon
  <2>2. (lost \/ gets => h) /\ (h1 <=> h /\ ~lost /\ ~gets)
    BY <1>3, <1>4, Zenon
  <2>3. /\ Serial!Pushed(Serial!Popped(rxq, pop), gets, rx_buffer) \in Seq(Octet)
        /\ Serial!Popped(kept, pop) \in Seq(Octet)
        /\ Account(Serial!Pushed(Serial!Popped(rxq, pop), gets, rx_buffer), Serial!Popped(kept, pop), txq,
                   h1, rx_buffer, s, old)
    BY <1>1, <1>4, <1>5, <2>1, <2>2, ReceiveSide, SMT
  <2> QED BY <2>3, Zenon
<1> PICK tx3, d3 : tx3 = Serial!Pushed(Serial!Popped(txq, go), enq, acc.data) /\ d3 = Serial!Pushed(d2, enq, acc.data)
  OBVIOUS
<1>9. /\ d3 \in Seq(Octet) /\ tx3 \in Seq(Octet) /\ Len(tx3) <= Len(txq) + Num(enq)
      /\ Account(rx2, d3, tx3, h2, rx_buffer', s2, byte)
  <2>1. go => ~s /\ txq # <<>> /\ byte = Head(txq)
    BY Zenon DEF Passes
  <2>2. ~go => byte = old
    BY Zenon
  <2>3. \/ (s2 <=> s \/ go) /\ (h2 <=> h1) /\ (h2 => rx_buffer' = rx_buffer)
        \/ ~go /\ s /\ ~s2 /\ ~h1 /\ h2 /\ rx_buffer' = old
    <3>1. CASE /\ sending' <=> sending \/ go
               /\ heard' <=> heard /\ ~push_rx_fifo
               /\ heard' => rx_buffer' = rx_buffer
      BY <3>1, Zenon
    <3>2. CASE /\ ~go /\ sending /\ ~sending' /\ ~heard /\ heard' /\ rx_buffer' \in [1 .. 8 -> Bit]
               /\ \A m \in 1 .. 8 : rx_buffer'[m] = byte[m]
      <4>1. rx_buffer' = byte
        BY <3>2, SameByte, Zenon
      <4> QED BY <2>2, <3>2, <4>1, Zenon
    <3> QED BY <3>1, <3>2, Zenon DEF Passes
  <2>4. /\ Serial!Pushed(d2, enq, acc.data) \in Seq(Octet)
        /\ Serial!Pushed(Serial!Popped(txq, go), enq, acc.data) \in Seq(Octet)
        /\ Len(Serial!Pushed(Serial!Popped(txq, go), enq, acc.data)) <= Len(txq) + Num(enq)
        /\ Account(rx2, Serial!Pushed(d2, enq, acc.data),
                   Serial!Pushed(Serial!Popped(txq, go), enq, acc.data), h2, rx_buffer', s2, byte)
    BY <1>1, <1>7, <1>8, <2>1, <2>2, <2>3, SendSide, SMT
  <2> QED BY <2>4, Zenon
<1>10. rxq' = rx2 /\ txq' = tx3 /\ due' = d3
  <2>1. Serial!Cycle(acc, out) /\ due' = Serial!due_nxt(acc)
    BY Zenon DEF Serial!Do
  <2>2. rxq' = rx2 /\ txq' = tx3
    BY <2>1, Zenon DEF Serial!Cycle, starts
  <2>3. Serial!due_nxt(acc) = d3
    BY Zenon DEF Serial!due_nxt
  <2> QED BY <2>1, <2>2, <2>3, Zenon
<1>11. Account(rxq, due, txq, heard, rx_buffer, sending, byte)'
  BY <1>9, <1>10, Zenon
<1>12. Len(txq') <= DEPTH /\ room' \in BOOLEAN /\ (room' => Len(txq') < DEPTH)
  <2>1. DEPTH \in Nat /\ Len(txq) \in Nat /\ Len(tx3) \in Nat
    BY <1>1, <1>9, MessageAssumption, LenProperties, Zenon
  <2>2. room' = IF Serial!Reads(acc, "txdata") THEN ~Serial!txdata_full
                ELSE IF Serial!Writes(acc, "txdata") THEN FALSE ELSE room
    BY Zenon DEF Serial!Do
  <2>3. room' \in BOOLEAN
    BY <1>1, <2>2 DEF Serial!txdata_full, Serial!txq_io_enq_ready
  <2>4. Serial!Reads(acc, "txdata") => ~Serial!Writes(acc, "txdata")
    BY Zenon DEF Serial!Reads, Serial!Writes
  <2>5. room' => ~enq /\ Len(txq) < DEPTH
    BY <1>1, <1>6, <2>2, <2>4, Zenon DEF Serial!txdata_full, Serial!txq_io_enq_ready
  <2>6. CASE enq
    <3>1. Num(enq) = 1 /\ Len(txq) < DEPTH /\ ~room' /\ Len(tx3) <= Len(txq) + Num(enq)
      BY <1>6, <1>9, <2>5, <2>6, Zenon DEF Num
    <3>2. Len(tx3) <= DEPTH
      BY <2>1, <3>1
    <3> QED BY <1>10, <2>3, <3>1, <3>2, Zenon
  <2>7. CASE ~enq
    <3>1. Num(enq) = 0 /\ Len(tx3) <= Len(txq) + Num(enq)
      BY <1>9, <2>7, Zenon DEF Num
    <3>2. Len(tx3) <= Len(txq)
      BY <2>1, <3>1
    <3>3. Len(txq) <= DEPTH => Len(tx3) <= DEPTH
      BY <2>1, <3>2
    <3>4. Len(txq) < DEPTH => Len(tx3) < DEPTH
      BY <2>1, <3>2
    <3> QED BY <1>1, <1>10, <2>3, <2>5, <3>3, <3>4, Zenon
  <2> QED BY <2>6, <2>7, Zenon
<1>13. QueueType'
  BY <1>8, <1>9, <1>10, <1>12, Zenon DEF QueueType
<1> QED BY <1>11, <1>13, Zenon

LEMMA RunStep ==
  ASSUME RunInv, NEW acc, Serial!Do(acc), Steady(acc)
  PROVE  RunInv'
<1> PICK old \in Octet : Carries(old)
  BY Zenon DEF RunInv
<1> PICK go \in BOOLEAN, byte \in Octet :
      /\ go = starts /\ (go => txq # <<>> /\ byte = Head(txq)) /\ (go \/ byte = old)
      /\ LineType' /\ LineInv(byte)' /\ Passes(go, byte)
  BY CarriesOn, Zenon
<1>1. QueueType' /\ Account(rxq, due, txq, heard, rx_buffer, sending, byte)'
  BY QueuesOn, Zenon
<1>2. TodoType' /\ Settings'
  BY SettingsKept, Zenon DEF RunInv
<1>3. Carries(byte)'
  BY <1>1, Zenon DEF Carries
<1> QED BY <1>1, <1>2, <1>3, Zenon DEF RunInv

--------------------------------------------------------------------------------
(* The set-up, which sets the divisor before it lets the line be heard and used. *)

SetInv ==
  /\ TodoType /\ txq = <<>> /\ rxq = <<>> /\ due = <<>> /\ room = FALSE /\ txen = FALSE
  /\ counter = 0 /\ prescaler = 0 /\ out = 1 /\ shifter \in Seq(Bit) /\ Len(shifter) = 9
  /\ rx_state = 0 /\ push_rx_fifo = FALSE /\ rx_buffer \in [1 .. 8 -> Bit] /\ enable \in BOOLEAN
  /\ filter[1] = 1 /\ filter[2] = 1 /\ filter[3] = 1
  /\ pc >= 2 => div = todo.div
  /\ pc >= 3 => rxen = TRUE /\ dlc = half - 1
  /\ pc >= 4 => enable = FALSE
SerialInv == (pc \in 1 .. 4 /\ SetInv) \/ (pc = 5 /\ RunInv)

LEMMA SetUpIs ==
  /\ Len(Serial!SetUp) = 4
  /\ Serial!SetUp[1] = Serial!Access("div", TRUE, [div |-> todo.div])
  /\ Serial!SetUp[2] = Serial!Access("rxctrl", TRUE, [rxen |-> TRUE, rxwm |-> 0])
  /\ Serial!SetUp[3] = Serial!Access("ie", TRUE, [rxwm |-> TRUE, txwm |-> FALSE])
  /\ Serial!SetUp[4] = Serial!TxCtrl(TRUE)
BY DEF Serial!SetUp

LEMMA Divisors ==
  ASSUME TodoType
  PROVE  todo.div \in Nat /\ todo.div >= 14 /\ todo.div < 2^16 /\ todo.nstop \in BOOLEAN
<1>1. todo.div \in DIVS /\ todo.nstop \in BOOLEAN
  BY DEF TodoType
<1> QED BY <1>1, DivisorAssumption, Zenon

\* While the registers are written, the line stays idle and the queues empty.
LEMMA Quiet ==
  ASSUME SetInv, NEW acc, Serial!Do(acc), ~Serial!Writes(acc, "txdata"),
         ~Serial!Reads(acc, "rxdata"), ~Serial!Reads(acc, "txdata")
  PROVE  /\ TodoType' /\ todo' = todo /\ txq' = <<>> /\ rxq' = <<>> /\ due' = <<>> /\ room' = FALSE
         /\ counter' = 0 /\ prescaler' = 0 /\ out' = 1 /\ shifter' \in Seq(Bit) /\ Len(shifter') = 9
         /\ rx_state' = 0 /\ push_rx_fifo' = FALSE /\ rx_buffer' \in [1 .. 8 -> Bit]
         /\ enable' \in BOOLEAN /\ filter'[1] = 1 /\ filter'[2] = 1 /\ filter'[3] = 1
         /\ div \in Nat /\ div >= 14 /\ div < 2^16 => dlc' = half - 1
         /\ dlc # 0 => enable' = FALSE
<1>1. Serial!Cycle(acc, out)
  BY Zenon DEF Serial!Do
<1>2. /\ txq = <<>> /\ rxq = <<>> /\ due = <<>> /\ room = FALSE /\ txen = FALSE
      /\ counter = 0 /\ prescaler = 0 /\ out = 1 /\ shifter \in Seq(Bit) /\ Len(shifter) = 9
      /\ rx_state = 0 /\ push_rx_fifo = FALSE /\ TodoType
      /\ filter[1] = 1 /\ filter[2] = 1 /\ filter[3] = 1
  BY Zenon DEF SetInv
<1>3. /\ ~Serial!enqueues(acc) /\ ~Serial!rxq_pops(acc) /\ ~Serial!receives /\ ~Serial!overruns
      /\ ~Serial!txq_pops
  BY <1>2, Zenon DEF Serial!enqueues, Serial!rxq_pops, Serial!receives, Serial!overruns, Serial!txq_pops,
       Serial!u_txm!starts, Serial!u_txm!io_in_ready
<1>4. txq' = <<>> /\ rxq' = <<>> /\ due' = <<>>
  <2>1. txq' = <<>> /\ rxq' = <<>>
    BY <1>1, <1>2, <1>3, Zenon DEF Serial!Cycle, Serial!Pushed, Serial!Popped
  <2>2. due' = Serial!due_nxt(acc)
    BY Zenon DEF Serial!Do
  <2>3. Serial!due_nxt(acc) = <<>>
    BY <1>2, <1>3, Zenon DEF Serial!due_nxt, Serial!Pushed, Serial!Popped
  <2> QED BY <2>1, <2>2, <2>3, Zenon
<1>5. room' = FALSE /\ todo' = todo /\ TodoType'
  BY <1>2, Zenon DEF Serial!Do, TodoType
<1>6. /\ counter' = 0 /\ prescaler' = 0 /\ out' = 1 /\ shifter' = shifter
  <2>1. Serial!u_txm!Cycle(FALSE, Serial!txq_io_deq_valid, Head(txq), div, nstop)
    BY <1>1, <1>2, Zenon DEF Serial!Cycle
  <2>2. ~Serial!u_txm!busy /\ ~Serial!u_txm!next_bit
    BY <1>2, Zenon DEF Serial!u_txm!busy, Serial!u_txm!next_bit
  <2>3. ~Serial!u_txm!starts(FALSE, Serial!txq_io_deq_valid)
    BY Zenon DEF Serial!u_txm!starts, Serial!u_txm!io_in_ready
  <2> QED BY <1>2, <2>1, <2>2, <2>3, Zenon DEF Serial!u_txm!Cycle
<1>7. Serial!u_rxm!Cycle(rxen, out, div)
  BY <1>1, Zenon DEF Serial!Cycle
<1>8. filter'[1] = 1 /\ filter'[2] = 1 /\ filter'[3] = 1
  <2>1. filter' = <<out, filter[1], filter[2]>>
    BY <1>7, Zenon DEF Serial!u_rxm!Cycle
  <2> QED BY <1>2, <2>1
<1>9. rx_state' = 0 /\ push_rx_fifo' = FALSE /\ rx_buffer' \in [1 .. 8 -> Bit]
  <2>1. Serial!u_rxm!Fsm(rxen)
    BY <1>7, Zenon DEF Serial!u_rxm!Cycle
  <2>2. Serial!u_rxm!filtered_rxd = 1
    BY <1>2 DEF Serial!u_rxm!filtered_rxd
  <2>3. ~Serial!u_rxm!rx_start(rxen)
    BY <2>2 DEF Serial!u_rxm!rx_start
  <2>4. rx_state' = 0 /\ push_rx_fifo' = FALSE /\ rx_buffer' = Serial!u_rxm!NoBits
    BY <1>2, <2>1, <2>3 DEF Serial!u_rxm!Fsm, Serial!u_rxm!IDLE, Serial!u_rxm!STOP2
  <2>5. Serial!u_rxm!NoBits \in [1 .. 8 -> Bit]
    BY DEF Serial!u_rxm!NoBits, Serial!u_rxm!WIDTH, Bit
  <2> QED BY <2>4, <2>5, Zenon
<1>10. enable' \in BOOLEAN /\ (dlc # 0 => enable' = FALSE)
  <2>1. enable' = (div # 0 /\ dlc = 0)
    BY <1>7, Zenon DEF Serial!u_rxm!Cycle
  <2> QED BY <2>1, Zenon
<1>11. div \in Nat /\ div >= 14 /\ div < 2^16 => dlc' = half - 1
  <2> SUFFICES ASSUME div \in Nat, div >= 14, div < 2^16 PROVE dlc' = half - 1
    OBVIOUS
  <2>1. dlc' = (div \div 2 - 1) % 2^16
    BY <1>2, <1>7, Zenon DEF Serial!u_rxm!Cycle, Serial!u_rxm!preset, Serial!u_rxm!IDLE
  <2>2. half \in Nat /\ half >= 7
    BY DEF half
  <2> QED BY <2>1, <2>2 DEF half
<1> QED BY <1>2, <1>4, <1>5, <1>6, <1>8, <1>9, <1>10, <1>11, Zenon

\* The line of a UART that has just been set up.
LEMMA FreshLine ==
  ASSUME LineType', counter' = 0, prescaler' = 0, out' = 1, rx_state' = 0, push_rx_fifo' = FALSE, ~enable',
         dlc' = half' - 1, filter'[1] = 1, filter'[2] = 1, filter'[3] = 1, NEW byte
  PROVE  LineInv(byte)' /\ ~heard' /\ ~sending'
<1>1. div' \in Nat /\ frame' \in {10, 11}
  <2>1. div' \in Nat /\ nstop' \in BOOLEAN
    BY Zenon DEF LineType
  <2> QED BY <2>1 DEF frame, Serial!u_txm!frame
<1>2. TxInv(byte)'
  <2>1. counter' \in 0 .. frame' /\ prescaler' \in 0 .. div' /\ ~(counter' > 0)
    BY <1>1
  <2> QED BY <2>1, Zenon DEF TxInv
<1>3. between' /\ ~sending'
  <2>1. between'
    BY Zenon DEF between
  <2>2. ~(0 > frame' - 10)
    <3> PICK f : f = frame'
      OBVIOUS
    <3>1. f = 10 \/ f = 11
      BY <1>1
    <3>2. ~(0 > f - 10)
      BY <3>1
    <3> QED BY <3>2, Zenon
  <2> QED BY <2>1, <2>2, Zenon DEF sending
<1>4. left' = 0
  BY DEF left
<1>5. ~delivers'
  BY <1>4 DEF delivers
<1>6. BetweenInv'
  BY <1>4, <1>5 DEF BetweenInv
<1> QED BY <1>2, <1>3, <1>5, <1>6, Zenon DEF LineInv, heard

LEMMA Prepares ==
  ASSUME pc \in 1 .. 4, SetInv, Serial!Prepare
  PROVE  SerialInv'
<1> PICK acc : acc = Serial!SetUp[pc]
  OBVIOUS
<1>1. Serial!Do(acc) /\ pc' = pc + 1
  BY Zenon DEF Serial!Prepare
<1>2. Serial!Cycle(acc, out)
  BY <1>1, Zenon DEF Serial!Do
<1> USE DEF Serial!Access, Serial!TxCtrl
<1>3. acc.reg \notin {"txdata", "rxdata"}
  BY SetUpIs
<1>4. ~Serial!Writes(acc, "txdata") /\ ~Serial!Reads(acc, "rxdata") /\ ~Serial!Reads(acc, "txdata")
  BY <1>3, Zenon DEF Serial!Writes, Serial!Reads
<1>5. /\ TodoType' /\ todo' = todo /\ txq' = <<>> /\ rxq' = <<>> /\ due' = <<>> /\ room' = FALSE
      /\ counter' = 0 /\ prescaler' = 0 /\ out' = 1 /\ shifter' \in Seq(Bit) /\ Len(shifter') = 9
      /\ rx_state' = 0 /\ push_rx_fifo' = FALSE /\ rx_buffer' \in [1 .. 8 -> Bit]
      /\ enable' \in BOOLEAN /\ filter'[1] = 1 /\ filter'[2] = 1 /\ filter'[3] = 1
      /\ div \in Nat /\ div >= 14 /\ div < 2^16 => dlc' = half - 1
      /\ dlc # 0 => enable' = FALSE
  BY <1>1, <1>4, Quiet, Zenon
<1>6. /\ todo.div \in Nat /\ todo.div >= 14 /\ todo.div < 2^16 /\ todo.nstop \in BOOLEAN
      /\ TodoType /\ txen = FALSE
  BY Divisors, Zenon DEF SetInv
<1>7. CASE pc = 1
  <2>1. div' = todo.div
    BY <1>2, <1>7, SetUpIs DEF Serial!Cycle, Serial!Field, Serial!Writes
  <2>2. txen' = FALSE
    BY <1>2, <1>6, <1>7, SetUpIs DEF Serial!Cycle, Serial!Field, Serial!Writes
  <2>3. pc' = 2
    BY <1>1, <1>7
  <2>4. pc' \in 1 .. 4 /\ ~(pc' >= 3) /\ ~(pc' >= 4)
    BY <2>3
  <2> QED BY <1>5, <2>1, <2>2, <2>4, Zenon DEF SerialInv, SetInv
<1>8. CASE pc = 2
  <2>1. div' = div
    BY <1>2, <1>8, SetUpIs DEF Serial!Cycle, Serial!Field, Serial!Writes
  <2>2. txen' = FALSE
    BY <1>2, <1>6, <1>8, SetUpIs DEF Serial!Cycle, Serial!Field, Serial!Writes
  <2>3. rxen' = TRUE
    BY <1>2, <1>8, SetUpIs DEF Serial!Cycle, Serial!Field, Serial!Writes
  <2>4. pc >= 2 /\ pc' \in 1 .. 4 /\ ~(pc' >= 4)
    BY <1>1, <1>8
  <2>5. div = todo.div
    BY <2>4, Zenon DEF SetInv
  <2>6. half' = half
    BY <2>1, Zenon DEF half
  <2> QED BY <1>5, <1>6, <2>1, <2>2, <2>3, <2>4, <2>5, <2>6, Zenon DEF SerialInv, SetInv
<1>9. CASE pc = 3
  <2>1. div' = div
    BY <1>2, <1>9, SetUpIs DEF Serial!Cycle, Serial!Field, Serial!Writes
  <2>2. txen' = FALSE /\ rxen' = rxen
    BY <1>2, <1>6, <1>9, SetUpIs DEF Serial!Cycle, Serial!Field, Serial!Writes
  <2>3. pc >= 2 /\ pc >= 3 /\ pc' \in 1 .. 4
    BY <1>1, <1>9
  <2>4. div = todo.div /\ rxen = TRUE /\ dlc = half - 1
    BY <2>3, Zenon DEF SetInv
  <2>5. half' = half /\ dlc # 0
    <3>1. half \in Nat /\ half >= 7
      BY <1>6, <2>4 DEF half
    <3>2. half' = half
      BY <2>1, Zenon DEF half
    <3> QED BY <2>4, <3>1, <3>2
  <2> QED BY <1>5, <1>6, <2>1, <2>2, <2>3, <2>4, <2>5, Zenon DEF SerialInv, SetInv
<1>10. CASE pc = 4
  <2>1. div' = div /\ rxen' = rxen
    BY <1>2, <1>10, SetUpIs DEF Serial!Cycle, Serial!Field, Serial!Writes
  <2>2. txen' = TRUE /\ nstop' = todo.nstop
    BY <1>2, <1>10, SetUpIs DEF Serial!Cycle, Serial!Field, Serial!Writes
  <2>3. pc >= 2 /\ pc >= 3 /\ pc' = 5
    BY <1>1, <1>10
  <2>4. div = todo.div /\ rxen = TRUE /\ dlc = half - 1
    BY <2>3, Zenon DEF SetInv
  <2>5. half \in Nat /\ half >= 7 /\ half' = half
    <3>1. half \in Nat /\ half >= 7
      BY <1>6, <2>4 DEF half
    <3>2. half' = half
      BY <2>1, Zenon DEF half
    <3> QED BY <3>1, <3>2
  <2>6. dlc' = half' - 1 /\ dlc' \in Nat /\ ~enable'
    <3>1. dlc # 0
      BY <2>4, <2>5
    <3>2. dlc' = half - 1 /\ ~enable'
      BY <1>5, <1>6, <2>4, <3>1, Zenon
    <3> QED BY <2>5, <3>2
  <2>7. Settings'
    BY <1>5, <2>1, <2>2, <2>4, Zenon DEF Settings
  <2>8. LineType'
    <3>1. \A m \in 1 .. 3 : filter'[m] \in Bit
      BY <1>5 DEF Bit
    <3>2. out' \in Bit
      BY <1>5 DEF Bit
    <3>3. div' \in Nat /\ div' >= 14 /\ div' < 2^16 /\ nstop' \in BOOLEAN
      BY <1>6, <2>1, <2>2, <2>4, Zenon
    <3>4. push_rx_fifo' \in BOOLEAN
      BY <1>5, Zenon
    <3> QED BY <1>5, <2>6, <3>1, <3>2, <3>3, <3>4, Zenon DEF LineType
  <2>9. QueueType'
    <3>1. <<>> \in Seq(Octet) /\ Len(<<>>) = 0 /\ 0 <= DEPTH
      BY MessageAssumption
    <3> QED BY <1>5, <3>1, Zenon DEF QueueType
  <2>10. \E byte \in Octet : Carries(byte)'
    <3> PICK byte : byte = <<1, 1, 1, 1, 1, 1, 1, 1>>
      OBVIOUS
    <3>1. byte \in Octet
      BY DEF Octet, Bit
    <3>2. LineInv(byte)' /\ ~heard' /\ ~sending'
      BY <1>5, <2>6, <2>8, FreshLine, Zenon
    <3>3. Account(<<>>, <<>>, <<>>, FALSE, rx_buffer', FALSE, byte)
      BY DEF Account, Num
    <3>4. heard' = FALSE /\ sending' = FALSE
      BY <3>2 DEF heard, sending
    <3> QED BY <1>5, <3>1, <3>2, <3>3, <3>4, Zenon DEF Carries
  <2> QED BY <1>5, <2>3, <2>7, <2>8, <2>9, <2>10, Zenon DEF SerialInv, RunInv
<1> QED BY <1>7, <1>8, <1>9, <1>10

LEMMA SteadyAccesses ==
  ASSUME TodoType
  PROVE  /\ Steady(Serial!Access("txdata", FALSE, <<>>)) /\ Steady(Serial!Access("rxdata", FALSE, <<>>))
         /\ Steady(Serial!NoAccess)
         /\ Steady(Serial!TxCtrl(TRUE)) /\ Steady(Serial!TxCtrl(FALSE))
         /\ \A byte \in BYTES : Steady(Serial!Access("txdata", TRUE, byte))
<1>1. BYTES \subseteq Octet
  <2>1. Bit = {0, 1}
    BY DEF Bit
  <2> QED BY <2>1, ByteAssumption, Zenon DEF Octet
<1> USE DEF Steady, Serial!Access, Serial!NoAccess, Serial!TxCtrl, Serial!Writes
<1>2. /\ Steady(Serial!Access("txdata", FALSE, <<>>)) /\ Steady(Serial!Access("rxdata", FALSE, <<>>))
      /\ Steady(Serial!NoAccess)
  OBVIOUS
<1>3. Steady(Serial!TxCtrl(TRUE)) /\ Steady(Serial!TxCtrl(FALSE))
  OBVIOUS
<1>4. \A byte \in BYTES : Steady(Serial!Access("txdata", TRUE, byte))
  BY <1>1
<1> QED BY <1>2, <1>3, <1>4, Zenon

LEMMA SerialSteps == ASSUME SerialInv, Serial!BenchNext PROVE SerialInv'
<1>1. Serial!Running <=> pc > 4
  BY SetUpIs, Zenon DEF Serial!Running
<1>2. CASE Serial!Prepare
  <2>1. ~(pc > 4)
    BY <1>1, <1>2, Zenon DEF Serial!Prepare
  <2>2. pc # 5
    BY <2>1
  <2> QED BY <1>2, <2>2, Prepares, Zenon DEF SerialInv
<1>3. ASSUME NEW acc, Serial!Run(acc), TodoType => Steady(acc) PROVE SerialInv'
  <2>1. pc > 4 /\ pc' = pc /\ Serial!Do(acc)
    BY <1>1, <1>3, Zenon DEF Serial!Run
  <2>2. pc \notin 1 .. 4
    BY <2>1
  <2>3. pc = 5 /\ RunInv
    BY <2>2, Zenon DEF SerialInv
  <2>4. RunInv'
    BY <1>3, <2>1, <2>3, RunStep, Zenon DEF RunInv
  <2> QED BY <2>1, <2>3, <2>4, Zenon DEF SerialInv
<1>4. CASE Serial!Poll
  BY <1>3, <1>4, SteadyAccesses, Zenon DEF Serial!Poll
<1>5. CASE Serial!Send
  BY <1>3, <1>5, SteadyAccesses, Zenon DEF Serial!Send
<1>6. CASE Serial!Receive
  BY <1>3, <1>6, SteadyAccesses, Zenon DEF Serial!Receive
<1>7. CASE Serial!Pause
  BY <1>3, <1>7, SteadyAccesses, Zenon DEF Serial!Pause
<1>8. CASE Serial!Resume
  BY <1>3, <1>8, SteadyAccesses, Zenon DEF Serial!Resume
<1>9. CASE Serial!Wait
  BY <1>3, <1>9, SteadyAccesses, Zenon DEF Serial!Wait
<1> QED BY <1>2, <1>4, <1>5, <1>6, <1>7, <1>8, <1>9, Zenon DEF Serial!BenchNext

\* The cycles of the other units.
LEMMA SerialRests == ASSUME SerialInv, UNCHANGED serialVars PROVE SerialInv'
<1>1. /\ div' = div /\ txen' = txen /\ rxen' = rxen /\ nstop' = nstop /\ txq' = txq /\ rxq' = rxq
      /\ prescaler' = prescaler /\ counter' = counter /\ shifter' = shifter /\ out' = out
      /\ rx_state' = rx_state /\ rx_buffer' = rx_buffer /\ push_rx_fifo' = push_rx_fifo
      /\ filter' = filter /\ dlc' = dlc /\ enable' = enable
      /\ pc' = pc /\ todo' = todo /\ room' = room /\ due' = due
  BY DEF serialVars
<1>2. half' = half /\ frame' = frame
  BY <1>1, Zenon DEF half, frame
<1>3. /\ sent' = sent /\ between' = between /\ sending' = sending /\ left' = left
      /\ elapsed' = elapsed /\ sample' = sample
  BY <1>1, <1>2, Zenon DEF sent, between, sending, left, elapsed, sample
<1>4. delivers' = delivers /\ InStep' = InStep
  BY <1>1, <1>2, <1>3, Zenon DEF delivers, InStep
<1>5. heard' = heard
  BY <1>3, <1>4, Zenon DEF heard
<1>6. BetweenInv => BetweenInv'
  BY <1>1, <1>2, <1>3, <1>4, Zenon DEF BetweenInv
<1>7. ASSUME NEW byte PROVE Carries(byte) => Carries(byte)'
  <2>1. FrameInv(byte) => FrameInv(byte)'
    BY <1>1, <1>2, <1>3, <1>4, Zenon DEF FrameInv
  <2>2. TxInv(byte) => TxInv(byte)'
    BY <1>1, <1>2, <1>3, Zenon DEF TxInv
  <2>3. LineInv(byte) => LineInv(byte)'
    BY <1>3, <1>6, <2>1, <2>2, Zenon DEF LineInv
  <2> QED BY <1>1, <1>3, <1>5, <2>3, Zenon DEF Carries
<1>8. TodoType' = TodoType /\ Settings' = Settings /\ QueueType' = QueueType /\ LineType' = LineType
  BY <1>1, Zenon DEF TodoType, Settings, QueueType, LineType
<1>9. RunInv => RunInv'
  BY <1>7, <1>8, Zenon DEF RunInv
<1>10. SetInv => SetInv'
  BY <1>1, <1>2, <1>8, Zenon DEF SetInv
<1> QED BY <1>1, <1>9, <1>10, Zenon DEF SerialInv

LEMMA SerialStarts == BenchInit => SerialInv
<1> SUFFICES ASSUME BenchInit PROVE SerialInv
  OBVIOUS
<1>1. Serial!Init /\ pc = 1 /\ room = FALSE /\ due = <<>> /\ todo \in [div : DIVS, nstop : BOOLEAN, bytes : {MESSAGE}]
  BY Zenon DEF BenchInit, Serial!BenchInit
<1>2. TodoType
  BY <1>1, MessageAssumption DEF TodoType
<1>3. txq = <<>> /\ rxq = <<>> /\ txen = FALSE
  BY <1>1, Zenon DEF Serial!Init
<1>4. counter = 0 /\ prescaler = 0 /\ out = 1 /\ shifter \in Seq(Bit) /\ Len(shifter) = 9
  <2>1. counter = 0 /\ prescaler = 0 /\ out = 1 /\ shifter = [n \in 1 .. 8 + 1 |-> 0]
    BY <1>1, Zenon DEF Serial!Init, Serial!u_txm!Init, Serial!u_txm!WIDTH
  <2>2. ASSUME NEW l \in Nat PROVE [n \in 1 .. l |-> 0] \in Seq(Bit) /\ Len([n \in 1 .. l |-> 0]) = l
    BY DEF Bit
  <2>3. 8 + 1 = 9 /\ 9 \in Nat
    OBVIOUS
  <2>4. shifter = [n \in 1 .. 9 |-> 0]
    BY <2>1, <2>3, Zenon
  <2> QED BY <2>1, <2>2, <2>3, <2>4, Zenon
<1>5. /\ rx_state = 0 /\ push_rx_fifo = FALSE /\ rx_buffer \in [1 .. 8 -> Bit] /\ enable \in BOOLEAN
      /\ filter[1] = 1 /\ filter[2] = 1 /\ filter[3] = 1
  <2>1. /\ rx_state = 0 /\ push_rx_fifo = FALSE /\ rx_buffer = [n \in 1 .. 8 |-> 0] /\ enable = FALSE
        /\ filter = <<1, 1, 1>>
    BY <1>1, Zenon DEF Serial!Init, Serial!u_rxm!Init, Serial!u_rxm!IDLE, Serial!u_rxm!NoBits, Serial!u_rxm!WIDTH
  <2> QED BY <2>1 DEF Bit
<1>6. pc \in 1 .. 4 /\ ~(pc >= 2) /\ ~(pc >= 3) /\ ~(pc >= 4)
  BY <1>1
<1> QED BY <1>1, <1>2, <1>3, <1>4, <1>5, <1>6, Zenon DEF SerialInv, SetInv

LEMMA SerialInvariant == BenchSpec => []SerialInv
<1>1. SerialInv /\ [BenchNext]_allVars => SerialInv'
  <2> SUFFICES ASSUME SerialInv, [BenchNext]_allVars PROVE SerialInv'
    OBVIOUS
  <2>1. CASE UNCHANGED serialVars
    BY <2>1, SerialRests
  <2>2. CASE Serial!BenchNext
    BY <2>2, SerialSteps
  <2>3. UNCHANGED allVars => UNCHANGED serialVars
    BY DEF allVars
  <2>4. BenchNext => Serial!BenchNext \/ UNCHANGED serialVars
    BY Zenon DEF BenchNext, OneHot, V3Plain, V3Through, Queue1, PipeStage, Crossing, CdcTick, Line
  <2> QED BY <2>1, <2>2, <2>3, <2>4
<1> QED BY <1>1, SerialStarts, PTL DEF BenchSpec

LEMMA HeardIs == SerialInv => ArrivesWhole
<1> SUFFICES ASSUME SerialInv, push_rx_fifo PROVE Len(due) > Len(rxq) /\ rx_buffer = due[Len(rxq) + 1]
  BY Zenon DEF ArrivesWhole, Serial!ArrivesWhole
<1>1. RunInv
  BY Zenon DEF SerialInv, SetInv
<1> PICK byte \in Octet : Carries(byte)
  BY <1>1, Zenon DEF RunInv
<1>2. heard
  BY Zenon DEF Carries, LineInv, FrameInv, heard, delivers
<1>3. Account(rxq, due, txq, heard, rx_buffer, sending, byte)
  BY Zenon DEF Carries
<1>4. Len(due) = Len(rxq) + Num(heard) + Num(sending) + Len(txq) /\ rx_buffer = due[Len(rxq) + 1]
  BY <1>2, <1>3, Zenon DEF Account
<1>5. Len(rxq) \in Nat /\ Len(txq) \in Nat
  BY <1>1, LenProperties, Zenon DEF RunInv, QueueType
<1>6. Num(heard) = 1 /\ Num(sending) \in Nat
  BY <1>2 DEF Num
<1>7. Len(due) > Len(rxq)
  BY <1>4, <1>5, <1>6
<1> QED BY <1>4, <1>7, Zenon

LEMMA AccountIs == SerialInv => Accounted
<1> SUFFICES ASSUME SerialInv
             PROVE  /\ Len(rxq) <= Len(due) /\ rxq = SubSeq(due, 1, Len(rxq))
                    /\ Len(due) - Len(rxq) - Len(txq) \in 0 .. 2
                    /\ room => Len(txq) < DEPTH
  BY Zenon DEF Accounted, Serial!Accounted, Serial!txq_io_enq_ready
<1>1. CASE SetInv
  <2>1. txq = <<>> /\ rxq = <<>> /\ due = <<>> /\ room = FALSE
    BY <1>1, Zenon DEF SetInv
  <2>2. Len(<<>>) = 0 /\ 0 <= 0 /\ 0 - 0 - 0 \in 0 .. 2
    OBVIOUS
  <2>3. SubSeq(<<>>, 1, 0) = <<>>
    OBVIOUS
  <2> QED BY <2>1, <2>2, <2>3, Zenon
<1>2. CASE RunInv
  <2> PICK byte \in Octet : Carries(byte)
    BY <1>2, Zenon DEF RunInv
  <2>1. /\ Len(due) = Len(rxq) + Num(heard) + Num(sending) + Len(txq)
        /\ \A i \in 1 .. Len(rxq) : due[i] = rxq[i]
    BY Zenon DEF Carries, Account
  <2>2. rxq \in Seq(Octet) /\ txq \in Seq(Octet) /\ due \in Seq(Octet) /\ (room => Len(txq) < DEPTH)
    BY <1>2, Zenon DEF RunInv, QueueType
  <2>3. Len(rxq) \in Nat /\ Len(txq) \in Nat /\ Len(due) \in Nat
    BY <2>2, LenProperties, Zenon
  <2>4. Num(heard) \in {0, 1} /\ Num(sending) \in {0, 1}
    BY DEF Num
  <2> PICK h, s : h = Num(heard) /\ s = Num(sending)
    OBVIOUS
  <2>5. Len(due) = Len(rxq) + h + s + Len(txq) /\ h \in {0, 1} /\ s \in {0, 1}
    BY <2>1, <2>4, Zenon
  <2>6. Len(rxq) <= Len(due) /\ Len(due) - Len(rxq) - Len(txq) \in 0 .. 2
    BY <2>3, <2>5
  <2>7. rxq = SubSeq(due, 1, Len(rxq))
    <3> PICK l : l = Len(rxq)
      OBVIOUS
    <3>1. l \in Nat /\ l <= Len(due)
      BY <2>3, <2>6, Zenon
    <3>2. \A i \in 1 .. l : due[i] \in Octet
      <4>1. \A i \in 1 .. l : i \in 1 .. Len(due)
        BY <2>3, <3>1
      <4> QED BY <2>2, <4>1, ElementOfSeq, Zenon
    <3> PICK sub : sub = SubSeq(due, 1, l)
      OBVIOUS
    <3>3. sub \in Seq(Octet) /\ Len(sub) = l /\ \A i \in 1 .. l : sub[i] = due[i]
      <4>1. /\ SubSeq(due, 1, l) \in Seq(Octet)
            /\ Len(SubSeq(due, 1, l)) = IF 1 <= l THEN l - 1 + 1 ELSE 0
            /\ \A i \in 1 .. l - 1 + 1 : SubSeq(due, 1, l)[i] = due[1 + i - 1]
        <5>1. 1 \in Int /\ l \in Int
          BY <3>1
        <5> QED BY <3>2, <5>1, SubSeqProperties, SMT
      <4>2. (IF 1 <= l THEN l - 1 + 1 ELSE 0) = l /\ l - 1 + 1 = l /\ \A i \in 1 .. l : 1 + i - 1 = i
        BY <3>1
      <4> QED BY <4>1, <4>2, Zenon
    <3>4. \A i \in 1 .. Len(rxq) : rxq[i] = sub[i]
      BY <2>1, <3>3, Zenon
    <3> QED BY <2>2, <3>3, <3>4, SeqEqual, Zenon
  <2> QED BY <2>2, <2>6, <2>7, Zenon
<1> QED BY <1>1, <1>2, Zenon DEF SerialInv

\* Every byte the receiver delivers is the next one written, whole, for every divisor
\* from 14 up, one or two stop bits, all bytes, and however often software pauses the
\* transmitter: the receiver, which restarts its divider at each start bit and takes
\* one cycle less for each bit, samples no bit but the one it waits for (uart_rx.v,
\* sirv_uarttx.v).
THEOREM WholeBytes == BenchSpec => []ArrivesWhole
BY SerialInvariant, HeardIs, PTL

\* The bytes written are at all times those in the receive queue, at most two on the
\* line and those in the transmit queue, in the order written, and a byte written after
\* txdata showed room is accepted, for queues of every depth (sirv_uart.v).
THEOREM BytesAccounted == BenchSpec => []Accounted
BY SerialInvariant, AccountIs, PTL

--------------------------------------------------------------------------------
(* The other queues on the bench.                                               *)

\* A cycle of the bench is one of each unit's, or leaves its registers alone.
LEMMA UnitsStart ==
  BenchInit => Plain!Init /\ Through!Init /\ Bytes!Init /\ Stage!Init /\ Cdc!Init
BY Zenon DEF BenchInit

LEMMA UnitsStep ==
  ASSUME [BenchNext]_allVars
  PROVE  /\ [Plain!Next]_(Plain!vars) /\ [Through!Next]_(Through!vars)
         /\ [Bytes!Next]_(Bytes!vars) /\ [Stage!Next]_(Stage!vars) /\ [Cdc!Next]_(Cdc!vars)
<1>1. \/ Plain!Next \/ UNCHANGED plainVars
  BY Zenon DEF BenchNext, OneHot, V3Plain, V3Through, Queue1, PipeStage, Crossing, CdcTick, Line,
     allVars, v3Vars
<1>2. \/ Through!Next \/ UNCHANGED throughVars
  BY Zenon DEF BenchNext, OneHot, V3Plain, V3Through, Queue1, PipeStage, Crossing, CdcTick, Line,
     allVars, v3Vars
<1>3. \/ Bytes!Next \/ UNCHANGED bytesVars
  BY Zenon DEF BenchNext, OneHot, V3Plain, V3Through, Queue1, PipeStage, Crossing, CdcTick, Line,
     allVars
<1>4. \/ Stage!Next \/ UNCHANGED stageVars
  BY Zenon DEF BenchNext, OneHot, V3Plain, V3Through, Queue1, PipeStage, Crossing, CdcTick, Line,
     allVars
<1>5. \/ Cdc!Next \/ UNCHANGED cdcVars
  BY Zenon DEF BenchNext, OneHot, V3Plain, V3Through, Queue1, PipeStage, Crossing, CdcTick, Line,
     allVars, Cdc!Next
<1>6. /\ UNCHANGED plainVars => UNCHANGED Plain!vars
      /\ UNCHANGED throughVars => UNCHANGED Through!vars
      /\ UNCHANGED bytesVars => UNCHANGED Bytes!vars
      /\ UNCHANGED stageVars => UNCHANGED Stage!vars
      /\ UNCHANGED cdcVars => UNCHANGED Cdc!vars
  BY DEF plainVars, throughVars, bytesVars, stageVars, cdcVars, Plain!vars, Through!vars,
     Bytes!vars, Stage!vars, Cdc!vars
<1> QED BY <1>1, <1>2, <1>3, <1>4, <1>5, <1>6, Zenon

LEMMA UnitsRun ==
  BenchSpec => Plain!Spec /\ Through!Spec /\ Bytes!Spec /\ Stage!Spec /\ Cdc!Spec
BY UnitsStart, UnitsStep, PTL
   DEF BenchSpec, Plain!Spec, Through!Spec, Bytes!Spec, Stage!Spec, Cdc!Spec

\* Whichever of them is under test, and whatever its inputs: the other queues are first in,
\* first out, lose nothing but in a flush or a reset, show what they hold in flags, data,
\* usage and count, and the crossing samples no line that can change, for every depth, odd
\* or even (fifo_v3.sv, sirv_queue_1.v, sirv_gnrl_pipe_stage.sv, cdc_2phase.sv).
THEOREM OthersQueue == BenchSpec => OtherQueues
<1>1. BenchSpec => Plain!Queues /\ Through!Queues /\ Bytes!Queues /\ Stage!Queues /\ Cdc!Crosses
  BY UnitsRun, PlainImplements, ThroughImplements, ByteImplements, StageImplements, CdcImplements
<1>2. BenchSpec => [](FlagsTell /\ CaptureSafe)
  <2>1. /\ Plain!OutputsAgree /\ Plain!UsageTells /\ Through!OutputsAgree /\ Bytes!CountTells
        /\ Cdc!OutputsAgree /\ Cdc!CaptureSafe
        => FlagsTell /\ CaptureSafe
    BY Zenon DEF FlagsTell, CaptureSafe
  <2> QED BY <2>1, UnitsRun, PlainShows, ThroughShows, ByteCounts, ShowsTheChannel,
             CapturesStable, PTL
<1> QED BY <1>1, <1>2, Zenon DEF OtherQueues
================================================================================
