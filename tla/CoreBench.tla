-------------------------------- MODULE CoreBench --------------------------------
(***************************************************************************)
(* A context of CoreMark at work: iterate (core_main.c) over               *)
(* core_bench_list (core_list_join.c), one round of the search, one node   *)
(* of a merge, or the removal at a step.  The data are real, so that the   *)
(* checksums are those the program prints.  A parameter set holds seed1,   *)
(* seed2, seed3, the size of the data of each algorithm, and iterations.   *)
(***************************************************************************)
EXTENDS CoreList

CONSTANT Parameters   \* the parameter sets, of those that core_main.c names

VARIABLES pc,      \* what comes next
          params,  \* the parameter set
          s,       \* the list in its memory
          res,     \* core_results, and the data of the other two algorithms
          bench,   \* the locals of core_bench_list
          sort,    \* the locals of core_list_mergesort
          i,       \* the iteration
          first    \* history: what the list and the data held at first
vars == <<pc, params, s, res, bench, sort, i, first>>

U16(x) == x % 65536
Seed32(p) == p.seed1 + 65536 * p.seed2

\* iterate resets the checksums; the data stay.
ResetCrcs(r) == [r EXCEPT !.crc = 0, !.crclist = 0, !.crcmatrix = 0, !.crcstate = 0]

\* The data, and the sort by index that ends core_list_init.
Init ==
  /\ params \in Parameters
  /\ s = core_list_init(params.size, params.seed1)
  /\ res = [seed1 |-> params.seed1, seed2 |-> params.seed2, list |-> 0,
            block |-> core_init_state(params.size, params.seed1),
            mat |-> core_init_matrix(params.size, Seed32(params)),
            inside |-> TRUE, crc |-> 0, crclist |-> 0, crcmatrix |-> 0, crcstate |-> 0]
  /\ sort = StartPass(Walk(s, 0), 1, "idx")
  /\ bench = [finder_idx |-> 0, idx |-> 0, lo |-> 0, list |-> 0, k |-> 0, found |-> 0,
              missed |-> 0, retval |-> 0]
  /\ pc = "sort" /\ i = 0 /\ first = <<>>

Call(finder_idx, r) ==
  /\ bench' = [finder_idx |-> finder_idx, idx |-> finder_idx, lo |-> 0, list |-> r.list,
               k |-> 0, found |-> 0, missed |-> 0, retval |-> 0]
  /\ res' = r
  /\ pc' = "find"

\* One node of a merge.  A comparison is made when both runs have one left.
Compares(runs) == runs.p # <<>> /\ runs.q # <<>>
Compared ==
  LET a == s.info[sort.runs.p[1]]
      b == s.info[sort.runs.q[1]]
  IN  IF ~Compares(sort.runs) THEN [le |-> TRUE, s |-> s, res |-> res]
      ELSE IF sort.by = "idx" THEN cmp_idx(s, a, b, res) ELSE cmp_complex(s, a, b, res)

Merge ==
  /\ pc = "sort"
  /\ ~PassEnds(sort)
  /\ \E cmp \in {Compared} :
       /\ s' = cmp.s /\ res' = cmp.res
       /\ sort' = core_list_mergesort(sort, cmp.le)
  /\ UNCHANGED <<pc, params, bench, i, first>>

NextPass ==
  /\ pc = "sort"
  /\ PassEnds(sort) /\ sort.nmerges > 1
  /\ sort' = StartPass(sort.out, 2 * sort.insize, sort.by)
  /\ UNCHANGED <<pc, params, s, res, bench, i, first>>

\* The sort returns its list; core_list_init's goes to the context.
Sorted(by) ==
  /\ pc = "sort"
  /\ PassEnds(sort) /\ sort.nmerges <= 1 /\ sort.by = by
  /\ s' = Relink(s, sort.out)

InitDone ==
  /\ Sorted("idx") /\ first = <<>>
  /\ first' = [list |-> Contents(s', sort.out[1]), block |-> res.block, mat |-> res.mat]
  /\ Call(1, [ResetCrcs(res) EXCEPT !.list = sort.out[1]])
  /\ UNCHANGED <<params, sort, i>>

\* A round of the search: find, reverse, and pull the successor of what was
\* found to the head of the list.
Find ==
  /\ pc = "find" /\ bench.k < params.seed3
  /\ LET info  == [idx |-> bench.idx, lo |-> bench.k % 256]
         this_find == core_list_find(s, bench.list, info)
         ns    == Walk(s, bench.list)
         list  == ns[Len(ns)]
         turned == core_list_reverse(s, bench.list)
         finder == turned.next[this_find]
         cut   == [turned EXCEPT !.next[this_find] = turned.next[finder]]
         hit   == turned.data16[turned.info[this_find]]
         next0 == turned.data16[turned.info[turned.next[list]]]
         after == [bench EXCEPT !.list = list, !.lo = info.lo, !.k = @ + 1,
                                !.idx = IF @ >= 0 THEN @ + 1 ELSE @]
     IN  IF this_find = NULL
         THEN /\ s' = turned
              /\ bench' = [after EXCEPT !.missed = @ + 1, !.retval = @ + (next0.hi % 2)]
         ELSE /\ s' = IF finder = NULL THEN turned
                      ELSE [cut EXCEPT !.next[finder] = cut.next[list], !.next[list] = finder]
              /\ bench' = [after EXCEPT !.found = @ + 1,
                             !.retval = @ + (IF hit.lo % 2 = 1 THEN (hit.hi \div 2) % 2 ELSE 0)]
  /\ UNCHANGED <<pc, params, res, sort, i, first>>

SortOrRemove ==
  /\ pc = "find" /\ bench.k >= params.seed3
  /\ bench' = [bench EXCEPT !.retval = U16(@ + 4 * bench.found - bench.missed)]
  /\ IF bench.finder_idx > 0
     THEN /\ pc' = "sort"
          /\ sort' = StartPass(Walk(s, bench.list), 1, "data")
     ELSE pc' = "remove" /\ UNCHANGED sort
  /\ UNCHANGED <<params, s, res, i, first>>

DataSorted ==
  /\ Sorted("data")
  /\ bench' = [bench EXCEPT !.list = sort.out[1]]
  /\ pc' = "remove"
  /\ UNCHANGED <<params, res, sort, i, first>>

\* The checksum takes the head's data once per node of the walk.
RECURSIVE crc_times(_, _, _)
crc_times(n, x, crc) == IF n = 0 THEN crc ELSE crc_times(n - 1, x, crc16(x, crc))

\* Remove one, checksum from where the last search would find, and put it back.
RemoveOne ==
  /\ pc = "remove"
  /\ LET removed == core_list_remove(s, s.next[bench.list])
         found   == core_list_find(removed.s, bench.list, [idx |-> bench.idx, lo |-> bench.lo])
         finder  == IF found = NULL THEN removed.s.next[bench.list] ELSE found
         head    == Word(removed.s.data16[removed.s.info[bench.list]])
         undone  == core_list_undo_remove(removed.s, removed.ret, removed.s.next[bench.list])
     IN  /\ bench' = [bench EXCEPT !.retval = crc_times(Len(Walk(removed.s, finder)), head, @)]
         /\ s' = undone
         /\ sort' = StartPass(Walk(undone, bench.list), 1, "idx")
  /\ pc' = "sort"
  /\ UNCHANGED <<params, res, i, first>>

\* core_bench_list returns its checksum of the sorted list to iterate.
Returns ==
  /\ Sorted("idx") /\ first # <<>>
  /\ LET list == sort.out[1]
         head == Word(s.data16[s.info[list]])
         crc  == crc_times(Len(Walk(s', list)) - 1, head, bench.retval)
         r    == [res EXCEPT !.crc = crcu16(crc, @)]
     IN  IF bench.finder_idx = 1 THEN Call(-1, r) /\ UNCHANGED i
         ELSE /\ i' = i + 1
              /\ LET r1 == [r EXCEPT !.crclist = IF i = 0 THEN r.crc ELSE @]
                 IN  IF i + 1 < params.iterations THEN Call(1, r1)
                     ELSE pc' = "done" /\ res' = r1 /\ UNCHANGED bench
  /\ UNCHANGED <<params, sort, first>>

Done == pc = "done" /\ UNCHANGED vars

Next == \/ Merge \/ NextPass \/ InitDone \/ Find \/ SortOrRemove \/ DataSorted \/ RemoveOne
        \/ Returns \/ Done
Spec == Init /\ [][Next]_vars

--------------------------------------------------------------------------------
\* Each of the parameter sets is recognised by its checksum, and a context ends
\* with the three checksums core_main.c expects of the set it is taken for.
KnownAnswers ==
  LET id == known_id(<<params.seed1, params.seed2, params.seed3>>, params.size)
  IN  pc = "done" =>
        id >= 0 /\ <<res.crclist, res.crcmatrix, res.crcstate>> = KnownCrcs(id)

\* Each call of core_bench_list starts from the data of the first one: the list
\* from the context's pointer, the text and the matrices ("at the end of this
\* function, the list is back to original state"); and no algorithm has read
\* past the end of its text.
Restored ==
  pc = "find" /\ bench.k = 0 =>
    /\ [list |-> Contents(s, res.list), block |-> res.block, mat |-> res.mat] = first
    /\ res.inside
================================================================================
