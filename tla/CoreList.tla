-------------------------------- MODULE CoreList --------------------------------
(***************************************************************************)
(* The linked list of CoreMark, sw/coremark/core_list_join.c.  A list is a *)
(* record of pointers: node n links to next[n] and to the datum info[n],   *)
(* whose 16 bits are two bytes (hi backs up the original of lo); free is   *)
(* memblock and datablock, which move together.  The results of a context  *)
(* (core_results) are the record res: the algorithms a sort runs read its  *)
(* data and leave their checksums in it.                                   *)
(***************************************************************************)
EXTENDS CoreKernels

NULL == -1
Word(x) == 256 * x.hi + x.lo

\* The nodes from p on, in order.
RECURSIVE Walk(_, _)
Walk(s, p) == IF p = NULL THEN <<>> ELSE <<p>> \o Walk(s, s.next[p])

\* What a reader of the list sees from p on.
Contents(s, p) ==
  LET ns == Walk(s, p)
  IN  [k \in DOMAIN ns |-> [idx |-> s.idx[s.info[ns[k]]], data16 |-> s.data16[s.info[ns[k]]]]]

\* The nodes ns linked in that order.
Relink(s, ns) ==
  [s EXCEPT !.next = [n \in DOMAIN s.next |->
     LET at == {k \in DOMAIN ns : ns[k] = n}
     IN  IF at = {} THEN s.next[n]
         ELSE LET k == CHOOSE k \in at : TRUE IN IF k = Len(ns) THEN NULL ELSE ns[k + 1]]]

core_list_reverse(s, list) == Relink(s, Reverse(Walk(s, list)))

\* By index where the index is not negative, else by the low byte of the data.
core_list_find(s, list, info) ==
  LET hits == SelectSeq(Walk(s, list), LAMBDA n :
                IF info.idx >= 0 THEN s.idx[s.info[n]] = info.idx
                ELSE s.data16[s.info[n]].lo = info.lo)
  IN  IF hits = <<>> THEN NULL ELSE hits[1]

\* The node stays and takes over the datum of its successor, which goes.
core_list_remove(s, item) ==
  LET ret == s.next[item]
  IN  [s |-> [s EXCEPT !.info[item] = s.info[ret], !.info[ret] = s.info[item],
                       !.next[item] = s.next[ret], !.next[ret] = NULL],
       ret |-> ret]

core_list_undo_remove(s, item_removed, item_modified) ==
  [s EXCEPT !.info[item_removed] = s.info[item_modified],
            !.info[item_modified] = s.info[item_removed],
            !.next[item_removed] = s.next[item_modified],
            !.next[item_modified] = item_removed]

--------------------------------------------------------------------------------
\* The value of a datum.  Bit 7 says that the low bits are a result already;
\* else bits 0..2 choose the algorithm, and bits 3..6, doubled, are its input.

Cached(x) == x.lo >= 128
flag(x)   == x.lo % 8
dtype(x)  == ((x.lo \div 8) % 16) * 17

\* A checksum of the context is set by the first run that leaves one.
FirstOf(old, new) == IF old = 0 THEN new ELSE old

StateDone(bench, res) ==
  [retval |-> bench.crc,
   res |-> [res EXCEPT !.block = bench.block, !.inside = @ /\ bench.inside,
                       !.crcstate = FirstOf(@, bench.crc)]]
RunState(x, res) ==
  LET step == IF dtype(x) < 34 THEN 34 ELSE dtype(x)
  IN  StateDone(core_bench_state(res.block, res.seed1, res.seed2, step, res.crc), res)

MatrixDone(bench, res) ==
  [retval |-> bench.crc,
   res |-> [res EXCEPT !.mat = bench.mat, !.crcmatrix = FirstOf(@, bench.crc)]]
RunMatrix(x, res) == MatrixDone(core_bench_matrix(res.mat, dtype(x), res.crc), res)

\* What an algorithm's return leaves: seven bits of it in the datum.
Evaluated(x, run) ==
  LET val == run.retval % 128
  IN  [val |-> val, data16 |-> [hi |-> x.hi, lo |-> 128 + val],
       res |-> [run.res EXCEPT !.crc = crcu16(run.retval, @)]]

calc_func(x, res) ==
  IF Cached(x) THEN [val |-> x.lo - 128, data16 |-> x, res |-> res]
  ELSE Evaluated(x, CASE flag(x) = 0 -> RunState(x, res)
                      [] flag(x) = 1 -> RunMatrix(x, res)
                      [] OTHER -> [retval |-> Word(x), res |-> res])

\* The comparisons of the data a and b: is a to go first, and what changes; one
\* and two are the values of a and of b, in the order in which they are computed.
BothValued(s, a, b, one, two) ==
  [le |-> one.val <= two.val, res |-> two.res,
   s |-> [s EXCEPT !.data16[a] = one.data16, !.data16[b] = two.data16]]
OneValued(s, a, b, one) == BothValued(s, a, b, one, calc_func(s.data16[b], one.res))
cmp_complex(s, a, b, res) == OneValued(s, a, b, calc_func(s.data16[a], res))

\* Mutant: the data keep the results the other comparison left in them.
cmp_idx_Keep(s, a, b, res) == [le |-> s.idx[a] <= s.idx[b], res |-> res, s |-> s]

cmp_idx(s, a, b, res) ==
  [le |-> s.idx[a] <= s.idx[b], res |-> res,
   s |-> [s EXCEPT !.data16[a].lo = s.data16[a].hi, !.data16[b].lo = s.data16[b].hi]]

--------------------------------------------------------------------------------
\* The merge sort, from the bottom up: a pass merges runs of insize nodes, the
\* nodes of p with those of q, from what the pass has left, onto the list of out.

Cut(ns, n)  == SubSeq(ns, 1, IF n < Len(ns) THEN n ELSE Len(ns))
Past(ns, n) == SubSeq(ns, n + 1, Len(ns))

Runs(ns, insize) ==
  [p |-> Cut(ns, insize), q |-> Cut(Past(ns, insize), insize), rest |-> Past(ns, 2 * insize)]
StartPass(ns, insize, by) ==
  [by |-> by, insize |-> insize, nmerges |-> 1, out |-> <<>>, runs |-> Runs(ns, insize)]

\* From which run the next node comes.
Takes(runs, le) == IF runs.p = <<>> THEN "q" ELSE IF runs.q = <<>> \/ le THEN "p" ELSE "q"

Taken(runs, from) == [runs EXCEPT ![from] = Tail(@)]

\* One node moved; then the next two runs.
core_list_mergesort(sort, le) ==
  LET from  == Takes(sort.runs, le)
      moved == [sort EXCEPT !.out = Append(@, sort.runs[from][1]), !.runs = Taken(@, from)]
  IN  IF moved.runs.p = <<>> /\ moved.runs.q = <<>> /\ moved.runs.rest # <<>>
      THEN [moved EXCEPT !.runs = Runs(moved.runs.rest, sort.insize), !.nmerges = @ + 1]
      ELSE moved

PassEnds(sort) == sort.runs.p = <<>> /\ sort.runs.q = <<>>

--------------------------------------------------------------------------------
core_list_insert_new(s, insert_point, idx, data16) ==
  IF s.free + 1 >= s.size THEN s
  ELSE [s EXCEPT !.next[s.free] = s.next[insert_point], !.next[insert_point] = s.free,
                 !.info[s.free] = s.free,
                 !.idx[s.free] = idx, !.data16[s.free] = data16, !.free = s.free + 1]

\* Nodes of 16 bytes and data of 4, whatever the pointers of the machine take.
ListSize(blksize) == (blksize \div 20) - 2

\* The first fifth in order, the others with mixed bits of seed and position.
MixedIdx(i, seed) ==
  LET pat == Xor[i % 65536, seed % 65536]
  IN  BitOr[((i + 1) % 8) * 256, pat] % 16384

\* The byte of item i; bits 3..6 from the seed, bits 0..2 from the position.
datpat(i, seed) == Xor[seed % 16, i % 16] * 8 + (i % 8)

\* The items from the i-th on, inserted behind the header.
RECURSIVE Inserted(_, _, _)
Inserted(s, i, seed) ==
  IF i = s.size THEN s
  ELSE LET dat == datpat(i, seed)
       IN  Inserted(core_list_insert_new(s, 0, 32767, [hi |-> dat, lo |-> dat]), i + 1, seed)

\* The indices from the i-th node on; the last node keeps its own.
RECURSIVE Indexed(_, _, _, _)
Indexed(s, finder, i, seed) ==
  IF s.next[finder] = NULL THEN s
  ELSE Indexed([s EXCEPT !.idx[s.info[finder]] =
                  IF i < s.size \div 5 THEN i ELSE MixedIdx(i, seed)],
               s.next[finder], i + 1, seed)

\* The list before its first sort.
core_list_init(blksize, seed) ==
  LET size  == ListSize(blksize)
      Cells == 0 .. size - 1
      empty == [size |-> size, free |-> 1,
                next |-> [n \in Cells |-> NULL], info |-> [n \in Cells |-> n],
                idx |-> [d \in Cells |-> 0],
                data16 |-> [d \in Cells |-> [hi |-> 128, lo |-> 128]]]
      ends  == core_list_insert_new(empty, 0, 32767, [hi |-> 255, lo |-> 255])
      full  == Inserted(ends, 0, seed)
  IN  Indexed(full, full.next[0], 1, seed)
================================================================================
