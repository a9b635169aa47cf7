------------------------------ MODULE CoreKernels ------------------------------
(***************************************************************************)
(* Two of CoreMark's three benchmarks.  sw/coremark/core_state.c: the text *)
(* it prepares, the machine that reads one token of it, and the benchmark, *)
(* which reads all, corrupts some bytes, reads again and repairs them.  A  *)
(* text is a function from positions to bytes.                             *)
(*                                                                         *)
(* sw/coremark/core_matrix.c: where the matrices lie in their block, what  *)
(* they start with, and the arithmetic of the test in 16 and 32 bits.  A   *)
(* matrix is a function from positions 0 .. N*N-1.                         *)
(***************************************************************************)
EXTENDS CoreUtil

\* enum CORE_STATE, in the order of its numbers.
CORE_STATE == <<"START", "INVALID", "S1", "S2", "INT", "FLOAT", "EXPONENT", "SCIENTIFIC">>

\* The counters of the states, and one more for each of the states S.
Zeros == [START |-> 0, INVALID |-> 0, S1 |-> 0, S2 |-> 0,
          INT |-> 0, FLOAT |-> 0, EXPONENT |-> 0, SCIENTIFIC |-> 0]
Count(n, st, S) == n[st] + (IF st \in S THEN 1 ELSE 0)
Counts(n, S) ==
  [START |-> Count(n, "START", S), INVALID |-> Count(n, "INVALID", S),
   S1 |-> Count(n, "S1", S), S2 |-> Count(n, "S2", S),
   INT |-> Count(n, "INT", S), FLOAT |-> Count(n, "FLOAT", S),
   EXPONENT |-> Count(n, "EXPONENT", S), SCIENTIFIC |-> Count(n, "SCIENTIFIC", S)]

Comma == 44
ee_isdigit(c) == c \in 48 .. 57
IsSign(c)     == c \in {43, 45}
IsDot(c)      == c = 46
IsE(c)        == c \in {69, 101}

\* "5012" "1234" "-874" "+122"
intpat == << <<53,48,49,50>>, <<49,50,51,52>>, <<45,56,55,52>>, <<43,49,50,50>> >>
\* "35.54400" ".1234500" "-110.700" "+0.64400"
floatpat == << <<51,53,46,53,52,52,48,48>>, <<46,49,50,51,52,53,48,48>>,
               <<45,49,49,48,46,55,48,48>>, <<43,48,46,54,52,52,48,48>> >>
\* "5.500e+3" "-.123e-2" "-87e+832" "+0.6e-12"
scipat == << <<53,46,53,48,48,101,43,51>>, <<45,46,49,50,51,101,45,50>>,
             <<45,56,55,101,43,56,51,50>>, <<43,48,46,54,101,45,49,50>> >>
\* "T0.3e-1F" "-T.T++Tq" "1T3.4e4z" "34.0e-T^"
errpat == << <<84,48,46,51,101,45,49,70>>, <<45,84,46,84,43,43,84,113>>,
             <<49,84,51,46,52,101,52,122>>, <<51,52,46,48,101,45,84,94>> >>

PatternOf(seed) ==
  LET pat == CASE seed % 8 \in 0 .. 2 -> intpat   [] seed % 8 \in {3, 4} -> floatpat
               [] seed % 8 \in {5, 6} -> scipat   [] OTHER -> errpat
  IN  pat[((seed \div 8) % 4) + 1]

\* Patterns, each closed by a comma, while the next one leaves two bytes free.
RECURSIVE Filled(_, _, _, _)
Filled(text, next, size, seed) ==
  IF Len(text) + Len(next) + 1 >= size - 1 THEN text
  ELSE Filled(IF next = <<>> THEN text ELSE text \o next \o <<Comma>>,
              PatternOf(seed + 1), size, seed + 1)

core_init_state(size, seed) ==
  LET text == Filled(<<>>, <<>>, size, seed)
  IN  [k \in 0 .. size - 1 |-> IF k < Len(text) THEN text[k + 1] ELSE 0]

--------------------------------------------------------------------------------
\* The machine's next state on one byte that is not a comma.
After_START(c) == IF ee_isdigit(c) THEN "INT" ELSE IF IsSign(c) THEN "S1"
                  ELSE IF IsDot(c) THEN "FLOAT" ELSE "INVALID"
After_S1(c)    == IF ee_isdigit(c) THEN "INT" ELSE IF IsDot(c) THEN "FLOAT" ELSE "INVALID"
After_INT(c)   == IF IsDot(c) THEN "FLOAT" ELSE IF ee_isdigit(c) THEN "INT" ELSE "INVALID"
After_FLOAT(c) == IF IsE(c) THEN "S2" ELSE IF ee_isdigit(c) THEN "FLOAT" ELSE "INVALID"

\* Mutant: the sign of the exponent may be missing.
After_S2_NoSign(c) == IF IsSign(c) \/ ee_isdigit(c) THEN "EXPONENT" ELSE "INVALID"

After_S2(c)         == IF IsSign(c) THEN "EXPONENT" ELSE "INVALID"
After_EXPONENT(c)   == IF ee_isdigit(c) THEN "SCIENTIFIC" ELSE "INVALID"
After_SCIENTIFIC(c) == IF ee_isdigit(c) THEN "SCIENTIFIC" ELSE "INVALID"

After(state, c) ==
  CASE state = "START"    -> After_START(c)    [] state = "S1"         -> After_S1(c)
    [] state = "INT"      -> After_INT(c)      [] state = "FLOAT"      -> After_FLOAT(c)
    [] state = "S2"       -> After_S2(c)       [] state = "EXPONENT"   -> After_EXPONENT(c)
    [] OTHER              -> After_SCIENTIFIC(c)

\* The counters a transition increments.
Counted(state, next) ==
  CASE state = "START"      -> {"START"} \cup ({next} \cap {"INVALID"})
    [] state = "SCIENTIFIC" -> {next} \cap {"INVALID"}
    [] OTHER                -> IF next = state THEN {} ELSE {state}

\* One token from position t.p of a block: the state it ends in, the position
\* after it, and the transitions counted.  inside: no read past the block.
RECURSIVE Scan(_, _)
Scan(block, t) ==
  IF t.p \notin DOMAIN block THEN [t EXCEPT !.inside = FALSE]
  ELSE IF block[t.p] = 0 \/ t.state = "INVALID" THEN t
  ELSE IF block[t.p] = Comma THEN [t EXCEPT !.p = @ + 1]
  ELSE LET next == After(t.state, block[t.p])
       IN  Scan(block, [t EXCEPT !.state = next, !.p = @ + 1,
                                 !.counts = Counts(@, Counted(t.state, next))])

core_state_transition(block, p, counts) ==
  Scan(block, [state |-> "START", p |-> p, counts |-> counts, inside |-> TRUE])

\* Token after token, until the byte 0.
RECURSIVE ReadAll(_, _)
ReadAll(block, r) ==
  IF ~r.inside \/ r.p \notin DOMAIN block THEN [r EXCEPT !.inside = FALSE]
  ELSE IF block[r.p] = 0 THEN r
  ELSE LET token == core_state_transition(block, r.p, r.track)
       IN  ReadAll(block, [p |-> token.p, final |-> Counts(r.final, {token.state}),
                           track |-> token.counts, inside |-> token.inside])

\* Every step-th byte, unless it is a comma.
Corrupt(block, seed, step) ==
  [p \in DOMAIN block |-> IF p % step = 0 /\ block[p] # Comma
                          THEN Xor[block[p], seed % 256] ELSE block[p]]

\* The checksum of the counters of each state, in their order.
CountsCrc(r, crc) ==
  LET from[k \in 1 .. Len(CORE_STATE) + 1, c \in Nat] ==
        IF k > Len(CORE_STATE) THEN c
        ELSE from[k + 1, crcu32(r.track[CORE_STATE[k]], crcu32(r.final[CORE_STATE[k]], c))]
  IN  from[1, crc]

Repair(block, seed, step) == Corrupt(block, seed, step)

core_bench_state(block, seed1, seed2, step, crc) ==
  LET corrupted == Corrupt(block, seed1, step)
      once  == ReadAll(block, [p |-> 0, final |-> Zeros, track |-> Zeros, inside |-> TRUE])
      twice == ReadAll(corrupted, [once EXCEPT !.p = 0])
  IN  [crc |-> CountsCrc(twice, crc), inside |-> twice.inside,
       block |-> Repair(corrupted, seed2, step)]

--------------------------------------------------------------------------------
S16(x) == ((x + 32768) % 65536) - 32768
U8(x)  == x % 256

\* The remainder of C: it has the sign of the dividend.
CRem(x, m) == IF x >= 0 THEN x % m ELSE -((-x) % m)

\* The largest N with 8 N^2 below the size of the block.
Dimension(blksize) == CHOOSE N \in 0 .. blksize :
  8 * N * N < blksize /\ 8 * (N + 1) * (N + 1) >= blksize

\* The elements in order: order counts from 1, the seed runs along.
RECURSIVE Elements(_, _, _)
Elements(N, seed, m) ==
  IF Len(m.A) = N * N THEN m
  ELSE LET order == Len(m.A) + 1
           sd    == CRem(order * seed, 65536)
           b     == S16(sd + order)
       IN  Elements(N, sd, [A |-> Append(m.A, U8(b + order)), B |-> Append(m.B, b)])

core_init_matrix(blksize, seed) ==
  LET N == Dimension(blksize)
      m == Elements(N, IF seed = 0 THEN 1 ELSE seed, [A |-> <<>>, B |-> <<>>])
      from0(x) == [k \in 0 .. N * N - 1 |-> x[k + 1]]
  IN  [N |-> N, A |-> from0(m.A), B |-> from0(m.B)]

matrix_add_const(A, val) == [k \in DOMAIN A |-> S16(A[k] + val)]
matrix_mul_const(A, val) == [k \in DOMAIN A |-> A[k] * val]

SumOver(N, term(_)) == FoldLeft(LAMBDA acc, k : acc + term(k - 1), 0, [k \in 1 .. N |-> k])

matrix_mul_vect(N, A, B) ==
  [i \in 0 .. N - 1 |-> SumOver(N, LAMBDA j : A[i * N + j] * B[j])]
matrix_mul_matrix(N, A, B) ==
  [c \in 0 .. N * N - 1 |->
     SumOver(N, LAMBDA k : A[(c \div N) * N + k] * B[k * N + (c % N)])]

\* Arithmetic shift and mask.
bit_extract(x, from, to) == (x \div 2^from) % 2^to
matrix_mul_matrix_bitextract(N, A, B) ==
  [c \in 0 .. N * N - 1 |->
     SumOver(N, LAMBDA k : LET tmp == A[(c \div N) * N + k] * B[k * N + (c % N)]
                           IN  bit_extract(tmp, 2, 4) * bit_extract(tmp, 5, 7))]

\* 10 for each time the running sum exceeds clipval, else 1 for each rise: one
\* row, up to the cell end, and row after row.
RECURSIVE RowSum(_, _, _, _)
RowSum(C, clipval, acc, end) ==
  IF acc.k = end THEN acc
  ELSE LET cur == C[acc.k]
           tmp == acc.tmp + cur
           next == IF tmp > clipval THEN [k |-> acc.k + 1, ret |-> acc.ret + 10, tmp |-> 0, prev |-> cur]
                   ELSE [k |-> acc.k + 1, tmp |-> tmp, prev |-> cur,
                         ret |-> acc.ret + (IF cur > acc.prev THEN 1 ELSE 0)]
       IN  RowSum(C, clipval, next, end)

RECURSIVE Rows(_, _, _, _)
Rows(N, C, clipval, acc) ==
  IF acc.k = N * N THEN acc.ret
  ELSE Rows(N, C, clipval, RowSum(C, clipval, acc, acc.k + N))

matrix_sum(N, C, clipval) ==
  S16(Rows(N, C, clipval, [k |-> 0, ret |-> 0, tmp |-> 0, prev |-> 0]))

\* What the constant is clipped against: the top four bits set, hence negative.
matrix_big(val) == S16((val % 4096) + 61440)

\* The checksum of the four sums, and the matrix A afterwards.
\* matrix_mul_vect sets the first N cells of C only; the rest is left over from
\* the product with the constant.
matrix_test(m, val) ==
  LET A == matrix_add_const(m.A, val)
      C1 == matrix_mul_const(A, val)
      v  == matrix_mul_vect(m.N, A, m.B)
      C2 == [c \in DOMAIN C1 |-> IF c < m.N THEN v[c] ELSE C1[c]]
      sum(C) == matrix_sum(m.N, C, matrix_big(val))
      sums == <<sum(C1), sum(C2), sum(matrix_mul_matrix(m.N, A, m.B)),
                sum(matrix_mul_matrix_bitextract(m.N, A, m.B))>>
      crc[k \in 0 .. 4] == IF k = 0 THEN 0 ELSE crc16(sums[k], crc[k - 1])
  IN  [crc |-> crc[4],
       A |-> matrix_add_const(A, -val)]

core_bench_matrix(m, seed, crc) ==
  LET test == matrix_test(m, seed)
  IN  [crc |-> crc16(test.crc, crc), mat |-> [m EXCEPT !.A = test.A]]
================================================================================
