---------------------------------- MODULE VmEnv ----------------------------------
(***************************************************************************)
(* The environment of the ISA tests that runs them in virtual memory,      *)
(* isa-tests/env/v/vm.c: pages are mapped on demand into frames of a free  *)
(* list, the accessed and dirty bits are handed out by page faults (or set *)
(* by the hardware), and all pages are checked when the test ends.         *)
(*                                                                         *)
(* A page holds its initial content, named by the page, and possibly the   *)
(* test's store to it.  The hardware may keep any translation it has seen, *)
(* an invalid one too, until the page is flushed.                          *)
(***************************************************************************)
EXTENDS Integers, Sequences, FiniteSets, SequencesExt

CONSTANTS LfsrBits,   \* width of the LFSR that deals out the frames
          Entropy,    \* the values of ENTROPY it may start from
          Touched,    \* the pages the test may touch, of 1 .. MAX_TEST_PAGES - 1
          Accesses    \* bound: the accesses of the test

MAX_TEST_PAGES == 2^LfsrBits - 1

VARIABLES pc,         \* user, or where handle_fault or the ecall's eviction is
          hardware,   \* TRUE where the hardware sets A and D itself
          access,     \* what the test is about to do: [page, store], or None
          count,      \* accesses begun
          pte,        \* user_l3pt, for the touched pages
          tlb,        \* the translations kept, None for those not
          freelist,   \* the frames behind freelist_head
          tail,       \* FALSE once freelist_tail is zero
          mapping,    \* user_mapping[p].addr, 0 for none
          mem,        \* the content of each frame
          stored      \* history: the pages the test has stored to
vars == <<pc, hardware, access, count, pte, tlb, freelist, tail, mapping, mem, stored>>

None    == [none |-> TRUE]
Invalid == [v |-> FALSE, a |-> FALSE, d |-> FALSE, frame |-> 0]
Leaf(frame, a, d) == [v |-> TRUE, a |-> a, d |-> d, frame |-> frame]
Image(p) == [page |-> p, stored |-> FALSE]

LFSR_NEXT(x) == (x \div 2) + ((x + (x \div 2)) % 2) * 2^(LfsrBits - 1)

\* The frames behind the test's own pages, in the order of the LFSR.
Dealt[n \in 0 .. MAX_TEST_PAGES, random \in 0 .. MAX_TEST_PAGES] ==
  IF n = 0 THEN <<>> ELSE <<MAX_TEST_PAGES + random>> \o Dealt[n - 1, LFSR_NEXT(random)]

\* vm_boot: the free list that a value of ENTROPY gives.
Deal(entropy) == Dealt[MAX_TEST_PAGES, 1 + (entropy % MAX_TEST_PAGES)]

\* What the taps of the LFSR are for: it runs through all its values before one
\* comes again, so that no frame is dealt twice.
DealtOnce ==
  /\ MAX_TEST_PAGES \in Nat
  /\ \A entropy \in Entropy :
       Deal(entropy) \in Seq(1 .. 2 * MAX_TEST_PAGES) /\ IsInjective(Deal(entropy))

Init ==
  /\ pc = "user" /\ hardware \in BOOLEAN
  /\ access = None /\ count = 0 /\ stored = {}
  /\ pte = [p \in Touched |-> Invalid]
  /\ tlb = [p \in Touched |-> None]
  /\ \E entropy \in Entropy : freelist = Deal(entropy)
  /\ tail = TRUE
  /\ mapping = [p \in Touched |-> 0]
  /\ mem = [f \in 0 .. 2 * MAX_TEST_PAGES |-> [page |-> 0, stored |-> FALSE]]

--------------------------------------------------------------------------------
\* The translation used for a page: a kept one, or that of the table.
Used(p) == IF tlb[p] = None THEN pte[p] ELSE tlb[p]

\* The hardware keeps the table's translation, or drops the one it has.
Keep(p) ==
  /\ tlb[p] = None
  /\ tlb' = [tlb EXCEPT ![p] = pte[p]]
  /\ UNCHANGED <<pc, hardware, access, count, pte, freelist, tail, mapping, mem, stored>>

Drop(p) ==
  /\ tlb[p] # None
  /\ tlb' = [tlb EXCEPT ![p] = None]
  /\ UNCHANGED <<pc, hardware, access, count, pte, freelist, tail, mapping, mem, stored>>

flush_page(p) == tlb' = [tlb EXCEPT ![p] = None]

\* The test is about to load from a page, or to store to it.
Begin ==
  /\ pc = "user" /\ access = None /\ count < Accesses
  /\ \E p \in Touched, store \in BOOLEAN : access' = [page |-> p, store |-> store]
  /\ count' = count + 1
  /\ UNCHANGED <<pc, hardware, pte, tlb, freelist, tail, mapping, mem, stored>>

Permits(t, store) == t.v /\ t.a /\ (store => t.d)

\* The access completes.
Hit ==
  /\ pc = "user" /\ access # None
  /\ LET p == access.page
     IN  /\ Permits(Used(p), access.store)
         /\ IF access.store
            THEN /\ mem' = [mem EXCEPT ![Used(p).frame].stored = TRUE]
                 /\ stored' = stored \cup {p}
            ELSE UNCHANGED <<mem, stored>>
  /\ access' = None
  /\ UNCHANGED <<pc, hardware, count, pte, tlb, freelist, tail, mapping>>

\* Where the hardware marks pages itself, it does so in the table.
Marks ==
  /\ pc = "user" /\ access # None /\ hardware
  /\ LET p == access.page
     IN  /\ Used(p).v /\ ~Permits(Used(p), access.store)
         /\ pte' = [pte EXCEPT ![p].a = TRUE, ![p].d = @ \/ access.store]
         /\ flush_page(p)
  /\ UNCHANGED <<pc, hardware, access, count, freelist, tail, mapping, mem, stored>>

Faults == access # None /\ ~Permits(Used(access.page), access.store)
                        /\ (hardware => ~Used(access.page).v)

--------------------------------------------------------------------------------
\* handle_fault for a mapped page: accessed first, then dirty.
MarkAccessed ==
  /\ pc = "user" /\ Faults
  /\ pte[access.page].v /\ ~pte[access.page].a
  /\ pte' = [pte EXCEPT ![access.page].a = TRUE]
  /\ flush_page(access.page)
  /\ UNCHANGED <<pc, hardware, access, count, freelist, tail, mapping, mem, stored>>

MarkDirty ==
  /\ pc = "user" /\ Faults
  /\ pte[access.page].v /\ pte[access.page].a
  /\ IF ~pte[access.page].d /\ access.store
     THEN /\ pte' = [pte EXCEPT ![access.page].d = TRUE]
          /\ flush_page(access.page)
          /\ UNCHANGED pc
     ELSE pc' = "assertion" /\ UNCHANGED <<pte, tlb>>
  /\ UNCHANGED <<hardware, access, count, freelist, tail, mapping, mem, stored>>

\* Mutant: the node whose frame is handed out stays at the head of the list.
Map_Kept ==
  /\ pc = "user" /\ Faults /\ ~pte[access.page].v
  /\ IF freelist = <<>> \/ mapping[access.page] # 0
     THEN pc' = "assertion" /\ UNCHANGED <<pte, freelist, tail, mapping>>
     ELSE /\ pte' = [pte EXCEPT ![access.page] = Leaf(freelist[1], TRUE, TRUE)]
          /\ mapping' = [mapping EXCEPT ![access.page] = freelist[1]]
          /\ freelist' = freelist
          /\ tail' = (tail /\ Len(freelist) # 2)
          /\ pc' = "flush"
  /\ UNCHANGED <<hardware, access, count, tlb, mem, stored>>

\* For a page that is not: a frame, writable while the kernel fills it ...
Map ==
  /\ pc = "user" /\ Faults /\ ~pte[access.page].v
  /\ IF freelist = <<>> \/ mapping[access.page] # 0
     THEN pc' = "assertion" /\ UNCHANGED <<pte, freelist, tail, mapping>>
     ELSE /\ pte' = [pte EXCEPT ![access.page] = Leaf(freelist[1], TRUE, TRUE)]
          /\ mapping' = [mapping EXCEPT ![access.page] = freelist[1]]
          /\ freelist' = Tail(freelist)
          /\ tail' = (tail /\ Len(freelist) # 2)
          /\ pc' = "flush"
  /\ UNCHANGED <<hardware, access, count, tlb, mem, stored>>

Flush ==
  /\ pc = "flush"
  /\ flush_page(access.page)
  /\ pc' = "copy"
  /\ UNCHANGED <<hardware, access, count, pte, freelist, tail, mapping, mem, stored>>

\* ... with the page's initial content, through the mapping just made ...
Copy ==
  /\ pc = "copy"
  /\ IF Permits(Used(access.page), TRUE)
     THEN /\ mem' = [mem EXCEPT ![Used(access.page).frame] = Image(access.page)]
          /\ pc' = "unmark"
     ELSE pc' = "assertion" /\ UNCHANGED mem
  /\ UNCHANGED <<hardware, access, count, pte, tlb, freelist, tail, mapping, stored>>

\* ... and then neither accessed nor dirty.
Unmark ==
  /\ pc = "unmark"
  /\ pte' = [pte EXCEPT ![access.page] = Leaf(mapping[access.page], FALSE, FALSE)]
  /\ pc' = "return"
  /\ UNCHANGED <<hardware, access, count, tlb, freelist, tail, mapping, mem, stored>>

\* Mutant: the translation the kernel has used is left in place.
Return_NoFlush ==
  /\ pc = "return"
  /\ UNCHANGED tlb
  /\ pc' = "user"
  /\ UNCHANGED <<hardware, access, count, pte, freelist, tail, mapping, mem, stored>>

Return ==
  /\ pc = "return"
  /\ flush_page(access.page)
  /\ pc' = "user"
  /\ UNCHANGED <<hardware, access, count, pte, freelist, tail, mapping, mem, stored>>

--------------------------------------------------------------------------------
\* The test ends with an ecall, or goes on: its last access is followed by one.
Ecall ==
  /\ pc = "user" /\ access = None
  /\ pc' = "evict"
  /\ UNCHANGED <<hardware, access, count, pte, tlb, freelist, tail, mapping, mem, stored>>

\* evict: a page in use is accessed, and dirty if it differs from its image; its
\* image is copied over it, and its node, now without a frame, is freed.
Evict(p) ==
  /\ pc = "evict" /\ mapping[p] # 0
  /\ \A q \in Touched : q < p => mapping[q] = 0
  /\ LET differs == mem[Used(p).frame] # Image(p)
     IN  IF Permits(Used(p), differs) /\ Permits(pte[p], differs)
         THEN /\ mem' = [mem EXCEPT ![Used(p).frame] = Image(p)]
              /\ mapping' = [mapping EXCEPT ![p] = 0]
              /\ freelist' = IF tail THEN Append(freelist, 0) ELSE <<0>>
              /\ tail' = TRUE
              /\ UNCHANGED pc
         ELSE pc' = "assertion" /\ UNCHANGED <<mem, mapping, freelist, tail>>
  /\ UNCHANGED <<hardware, access, count, pte, tlb, stored>>

Terminate ==
  /\ pc = "evict" /\ \A p \in Touched : mapping[p] = 0
  /\ pc' = "terminated"
  /\ UNCHANGED <<hardware, access, count, pte, tlb, freelist, tail, mapping, mem, stored>>

Stopped == pc \in {"terminated", "assertion"} /\ UNCHANGED vars

handle_fault == MarkAccessed \/ MarkDirty \/ Map \/ Flush \/ Copy \/ Unmark \/ Return
Core == Begin \/ Hit \/ Marks \/ handle_fault \/ Ecall \/ (\E p \in Touched : Evict(p)) \/ Terminate
Next == Core \/ (\E p \in Touched : Keep(p) \/ Drop(p)) \/ Stopped

\* The core never stops; what it does next between two accesses is the test's affair.
Spec == Init /\ [][Next]_vars /\ WF_vars(Core)

--------------------------------------------------------------------------------
\* Until it ends, the test finds in every page it has mapped what the page held at
\* first, with its own stores and nobody else's, whatever translation the hardware
\* has kept; and no frame still to be dealt out is in use or will be dealt twice.
UserSees ==
  pc = "user" =>
    /\ \A p \in Touched :
         Used(p).v => mem[Used(p).frame] = [page |-> p, stored |-> p \in stored]
    /\ IsInjective(freelist)
    /\ \A p \in Touched : \A k \in DOMAIN freelist : mapping[p] # freelist[k]

\* The test runs to its end: every access completes after at most a few faults and
\* none of the assertions of handle_fault and evict fails.
AccessEnds == <>(pc = "terminated")
================================================================================
