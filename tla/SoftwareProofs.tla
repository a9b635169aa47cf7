----------------------------- MODULE SoftwareProofs -----------------------------
(***************************************************************************)
(* Proofs about the programs of MCPrograms: the trap vector, the           *)
(* environment of the ISA tests in virtual memory, and the verdict of      *)
(* CoreMark's main program.                                                *)
(***************************************************************************)
EXTENDS MCPrograms, FiniteSetTheorems, TLAPS

--------------------------------------------------------------------------------
(* The trap vector.                                                             *)

Handlers == {"trap_vector", "handler", "other_exception"}
Codes == {"reset_vector", "enable", "select", "vector", "post_mtvec", "mret", "program",
          "write_tohost", "store"}
Saved(rs) == rs = [a0 |-> rs.a0, t5 |-> rs.t5, t6 |-> rs.t6, testnum |-> rs.testnum]

TrapTypeOK ==
  /\ pc \in Codes \cup Handlers
  /\ Saved(regs) /\ Saved(kept)
  /\ mstatus \in [mie : BOOLEAN, mpie : BOOLEAN]

\* The handlers run with interrupts disabled, so that there is never more than one set of
\* registers to keep; the instruction they return to is one that lets interrupts in.
OneTrap ==
  /\ pc \in Handlers \cup {"mret"} => ~mstatus.mie
  /\ pc \in Handlers => mepc \in Codes \ {"mret"}
  /\ pc = "mret" => mepc = "program"

\* Where the registers of the code are: in place, or in the three places they are saved in.
InPlace ==
  /\ pc \in (Codes \ {"write_tohost"}) \cup {"trap_vector"} => regs = kept
  /\ pc = "handler" => /\ mscratch = kept.a0 /\ test_trap_data = <<kept.t5, kept.t6>>
                       /\ regs.testnum = kept.testnum

Returns == Trap!Errors \cup (Trap!Interrupts \ {"unknown"})

\* What is to be reported is in TESTNUM, or will be; a trap that returns finds it as it was.
Meant ==
  /\ pc \in {"write_tohost", "store"} => regs.testnum = outcome
  /\ pc = "write_tohost" /\ mstatus.mie => regs = kept /\ tohost = outcome
  /\ pc = "other_exception" => outcome = Trap!Unhandled(regs.testnum)
  /\ pc = "trap_vector" /\ mcause = "ecall" => outcome = regs.testnum
  /\ pc = "trap_vector" /\ mcause \notin Returns \cup {"ecall"} =>
       outcome = Trap!Unhandled(regs.testnum)
  /\ pc = "handler" \/ (pc = "trap_vector" /\ mcause \in Returns) =>
       /\ mepc \in {"write_tohost", "store"} => kept.testnum = outcome
       /\ mepc = "write_tohost" => tohost = outcome

TrapInv == TrapTypeOK /\ OneTrap /\ InPlace /\ Meant

LEMMA TrapStarts == Trap!Init => TrapInv
BY DEF Trap!Init, TrapInv, TrapTypeOK, OneTrap, InPlace, Meant, Codes, Handlers, Saved

\* The causes of a trap are told apart.
LEMMA Causes ==
  /\ "ecall" \notin Returns /\ "unknown" \notin Returns /\ "illegal instruction" \notin Returns
  /\ \A c \in Trap!Errors : c \in Returns
  /\ \A c \in Trap!Interrupts : c = "unknown" \/ c \in Returns
BY DEF Returns, Trap!Errors, Trap!Interrupts

\* Code that is not in a handler.
LEMMA CodeSteps ==
  ASSUME TrapInv,
         Trap!InitRegisters \/ Trap!EnableInterrupts \/ Trap!SelectInterrupts \/ Trap!SetVector
           \/ Trap!post_mtvec \/ Trap!EnterProgram \/ Trap!Compute \/ Trap!write_tohost \/ Trap!StoreTohost
  PROVE  TrapInv'
<1> USE DEF TrapInv, TrapTypeOK, OneTrap, InPlace, Meant, Codes, Handlers, Saved, Trap!Step
<1>1. CASE Trap!InitRegisters BY <1>1 DEF Trap!InitRegisters
<1>2. CASE Trap!EnableInterrupts BY <1>2 DEF Trap!EnableInterrupts
<1>3. CASE Trap!SelectInterrupts BY <1>3 DEF Trap!SelectInterrupts
<1>4. CASE Trap!post_mtvec BY <1>4 DEF Trap!post_mtvec
<1>5. CASE Trap!EnterProgram BY <1>5 DEF Trap!EnterProgram
<1>6. CASE Trap!Compute BY <1>6 DEF Trap!Compute
<1>7. CASE Trap!write_tohost BY <1>7 DEF Trap!write_tohost
<1>8. CASE Trap!StoreTohost BY <1>8 DEF Trap!StoreTohost
<1>9. CASE Trap!SetVector BY <1>9 DEF Trap!SetVector
<1> QED BY <1>1, <1>2, <1>3, <1>4, <1>5, <1>6, <1>7, <1>8, <1>9

\* A trap finds the registers in place and leaves interrupts disabled.
LEMMA TrapTaken ==
  ASSUME TrapInv, NEW cause, Trap!TakeTrap(cause), pc \in Codes \ {"mret"},
         Saved(regs'), Saved(kept'), regs' = kept',
         outcome' = IF cause \in Returns THEN outcome
                    ELSE IF cause = "ecall" THEN regs'.testnum ELSE Trap!Unhandled(regs'.testnum),
         cause \in Returns => kept' = kept /\ (pc = "write_tohost" => mstatus.mie)
  PROVE  TrapInv'
<1>1. mepc' = pc /\ mcause' = cause /\ pc' = "trap_vector" /\ tohost' = tohost
      /\ mstatus' = [mie |-> FALSE, mpie |-> mstatus.mie] /\ mstatus.mie \in BOOLEAN
  BY DEF TrapInv, TrapTypeOK, Trap!TakeTrap
<1>2. TrapTypeOK' /\ OneTrap' /\ InPlace'
  BY <1>1 DEF TrapTypeOK, OneTrap, InPlace, Codes, Handlers
<1>3. ASSUME cause \in Returns, pc \in {"write_tohost", "store"}
      PROVE  kept'.testnum = outcome' /\ (pc = "write_tohost" => tohost' = outcome')
  BY <1>1, <1>3 DEF TrapInv, InPlace, Meant, Codes
<1> QED BY <1>1, <1>2, <1>3, Causes DEF TrapInv, Meant, Codes

LEMMA TrapsTaken ==
  ASSUME TrapInv, (\E cause \in Trap!Interrupts : Trap!Interrupt(cause)) \/ Trap!BusError \/ Trap!Ends
  PROVE  TrapInv'
<1> USE DEF TrapInv, TrapTypeOK
<1>1. ASSUME NEW cause \in Trap!Interrupts, Trap!Interrupt(cause) PROVE TrapInv'
  <2>1. Trap!TakeTrap(cause) /\ mstatus.mie /\ UNCHANGED <<regs, kept>>
        /\ outcome' = IF cause = "unknown" THEN Trap!Unhandled(regs.testnum) ELSE outcome
    BY <1>1 DEF Trap!Interrupt
  <2>2. pc \in Codes \ {"mret"}
    BY <2>1 DEF OneTrap, Codes, Handlers
  <2>3. regs = kept
    BY <2>1, <2>2 DEF InPlace, Meant, Codes
  <2>4. cause = "unknown" \/ cause \in Returns
    BY Causes
  <2> QED BY <2>1, <2>2, <2>3, <2>4, Causes, TrapTaken
<1>2. CASE Trap!BusError
  <2>1. PICK cause \in Trap!Errors : Trap!TakeTrap(cause)
    BY <1>2 DEF Trap!BusError
  <2>2. pc = "program" /\ UNCHANGED <<regs, kept, outcome>>
    BY <1>2 DEF Trap!BusError
  <2>3. regs = kept /\ pc \in Codes \ {"mret"}
    BY <2>2 DEF InPlace, Codes
  <2> QED BY <2>1, <2>2, <2>3, Causes, TrapTaken
<1>3. CASE Trap!Ends
  <2>1. PICK result \in Outcomes, cause \in {"ecall", "illegal instruction"} :
          /\ Trap!TakeTrap(cause)
          /\ regs' = [regs EXCEPT !.testnum = result] /\ kept' = regs'
          /\ outcome' = IF cause = "ecall" THEN result ELSE Trap!Unhandled(result)
    BY <1>3 DEF Trap!Ends
  <2>2. pc \in Codes \ {"mret"}
    BY <1>3 DEF Trap!Ends, Codes
  <2>3. regs' = [a0 |-> regs.a0, t5 |-> regs.t5, t6 |-> regs.t6, testnum |-> result]
    BY <2>1 DEF Saved
  <2>4. Saved(regs') /\ Saved(kept') /\ regs'.testnum = result
    BY <2>1, <2>3 DEF Saved
  <2>5. cause \notin Returns
    BY Causes
  <2> QED BY <2>1, <2>2, <2>4, <2>5, TrapTaken
<1> QED BY <1>1, <1>2, <1>3

LEMMA TrapHandled ==
  ASSUME TrapInv, Trap!trap_vector \/ Trap!Handler \/ Trap!other_exception
  PROVE  TrapInv'
<1> USE DEF TrapInv, TrapTypeOK
<1>1. CASE Trap!trap_vector
  <2>1. pc = "trap_vector" /\ UNCHANGED <<mie, mcause, kept, outcome, mstatus, mepc, tohost>>
        /\ mscratch' = regs.a0 /\ test_trap_data' = <<regs.t5, regs.t6>>
    BY <1>1 DEF Trap!trap_vector, Trap!InTrap
  <2>2. PICK cause, compared \in Values :
          regs' = [regs EXCEPT !.a0 = -2, !.t5 = cause, !.t6 = compared]
    BY <1>1 DEF Trap!trap_vector
  <2>3. Saved(regs') /\ regs'.testnum = regs.testnum /\ regs = kept
    BY <2>1, <2>2 DEF Saved, InPlace
  <2>4. \/ mcause = "ecall" /\ pc' = "write_tohost"
        \/ mcause \in Returns /\ pc' = "handler"
        \/ mcause \notin Returns \cup {"ecall"} /\ pc' = "other_exception"
    <3>1. pc' = CASE mcause = "ecall" -> "write_tohost"
                  [] mcause \in Returns -> "handler"
                  [] OTHER -> "other_exception"
      BY <1>1, Zenon DEF Trap!trap_vector, Trap!InTrap, Returns
    <3> QED BY <3>1, Causes
  <2>5. ~mstatus.mie /\ mepc \in Codes \ {"mret"}
    BY <2>1 DEF OneTrap, Handlers
  <2>6. TrapTypeOK' /\ OneTrap' /\ InPlace'
    BY <2>1, <2>3, <2>4, <2>5 DEF OneTrap, InPlace, Codes, Handlers
  <2>7. Meant'
    BY <2>1, <2>3, <2>4, <2>5, Causes DEF Meant
  <2> QED BY <2>6, <2>7
<1>2. CASE Trap!Handler
  <2>1. pc = "handler" /\ pc' = mepc /\ UNCHANGED <<kept, outcome, tohost>>
        /\ mstatus' = [mie |-> mstatus.mpie, mpie |-> TRUE] /\ mstatus.mpie \in BOOLEAN
    BY <1>2 DEF Trap!Handler, Trap!InTrap
  <2>2. mepc \in Codes \ {"mret"}
    BY <2>1 DEF OneTrap, Handlers
  <2>3. regs' = [a0 |-> kept.a0, t5 |-> kept.t5, t6 |-> kept.t6, testnum |-> kept.testnum]
    <3>1. mscratch = kept.a0 /\ test_trap_data[1] = kept.t5 /\ test_trap_data[2] = kept.t6
          /\ regs.testnum = kept.testnum
      BY <2>1 DEF InPlace
    <3>2. regs' = [regs EXCEPT !.a0 = kept.a0, !.t5 = kept.t5, !.t6 = kept.t6]
      BY <1>2, <3>1 DEF Trap!Handler
    <3> QED BY <3>1, <3>2 DEF Saved
  <2>4. regs' = kept
    BY <2>3 DEF Saved
  <2>5. TrapTypeOK' /\ OneTrap' /\ InPlace'
    BY <2>1, <2>2, <2>4 DEF OneTrap, InPlace, Codes, Handlers
  <2>6. Meant'
    BY <2>1, <2>2, <2>4 DEF Meant, Codes
  <2> QED BY <2>5, <2>6
<1>3. CASE Trap!other_exception
  BY <1>3 DEF Trap!other_exception, Trap!InTrap, OneTrap, InPlace, Meant, Codes, Handlers, Saved
<1> QED BY <1>1, <1>2, <1>3

LEMMA TrapKeeps == TrapInv /\ [Trap!Next]_(Trap!vars) => TrapInv'
<1>1. ASSUME TrapInv, UNCHANGED Trap!vars PROVE TrapInv'
  BY <1>1 DEF Trap!vars, TrapInv, TrapTypeOK, OneTrap, InPlace, Meant
<1> QED BY <1>1, CodeSteps, TrapsTaken, TrapHandled DEF Trap!Next

LEMMA TrapTells == TrapInv => Trap!Undisturbed
BY DEF TrapInv, TrapTypeOK, InPlace, Meant, Trap!Undisturbed, Codes, Handlers

--------------------------------------------------------------------------------
(* The environment of the ISA tests in virtual memory.                          *)

Frames == 0 .. 2 * Vm!MAX_TEST_PAGES
Entries == [v : BOOLEAN, a : BOOLEAN, d : BOOLEAN, frame : Nat]
Running == {"user", "flush", "copy", "unmark", "return"}

VmTypeOK ==
  /\ access # Vm!None => access.page \in Touched /\ access.store \in BOOLEAN
  /\ pc # "user" => access # Vm!None
  /\ mapping \in [Touched -> Frames]
  /\ pte \in [Touched -> Entries] /\ tlb \in [Touched -> Entries \cup {Vm!None}]
  /\ mem \in [Frames -> [page : Touched \cup {0}, stored : BOOLEAN]]
  /\ freelist \in Seq(Frames \ {0})

\* The table leads to the frame noted for the page, and so does a translation the hardware
\* has kept, unless it is an old one that leads nowhere.
OneFrame ==
  \A p \in Touched :
    /\ pte[p].v <=> mapping[p] # 0
    /\ pte[p].v => pte[p].frame = mapping[p]
    /\ tlb[p] # Vm!None /\ tlb[p].v => mapping[p] # 0 /\ tlb[p].frame = mapping[p]

\* No frame serves twice.
Apart ==
  /\ \A p, q \in Touched : mapping[p] # 0 /\ mapping[p] = mapping[q] => p = q
  /\ Vm!IsInjective(freelist)
  /\ \A p \in Touched : \A k \in DOMAIN freelist : mapping[p] # freelist[k]

\* The page being mapped has its frame before the frame has the page's content.
Filled(p) == mapping[p] # 0 /\ ~(pc \in {"flush", "copy"} /\ p = access.page)

Holds ==
  \A p \in Touched :
    /\ Filled(p) => mem[mapping[p]] = [page |-> p, stored |-> p \in stored]
    /\ p \in stored => Filled(p)

VmInv ==
  pc \in Running => /\ VmTypeOK /\ OneFrame /\ Apart /\ Holds
                    /\ pc \in {"flush", "copy", "unmark"} => mapping[access.page] # 0

LEMMA NoneApart == Vm!None \notin Entries /\ Vm!Invalid \in Entries
<1>1. \A e \in Entries : DOMAIN e = {"v", "a", "d", "frame"}
  BY DEF Entries
<1>2. DOMAIN Vm!None = {"none"}
  BY DEF Vm!None
<1> QED BY <1>1, <1>2 DEF Vm!Invalid, Entries

LEMMA VmStarts == ASSUME Vm!Init PROVE VmInv
<1>1. PICK entropy \in Entropy : freelist = Vm!Deal(entropy)
  BY DEF Vm!Init
<1>2. freelist \in Seq(Frames \ {0}) /\ Vm!IsInjective(freelist) /\ 0 \in Frames
  <2>1. freelist \in Seq(1 .. 2 * Vm!MAX_TEST_PAGES) /\ Vm!IsInjective(freelist)
    BY <1>1, DealtAssumption DEF Vm!DealtOnce
  <2>2. 1 .. 2 * Vm!MAX_TEST_PAGES = Frames \ {0} /\ 0 \in Frames
    BY DealtAssumption DEF Vm!DealtOnce, Frames
  <2> QED BY <2>1, <2>2
<1>3. VmTypeOK
  BY <1>2, NoneApart DEF Vm!Init, VmTypeOK, Frames
<1>4. OneFrame /\ Holds
  BY DEF Vm!Init, OneFrame, Holds, Filled, Vm!Invalid
<1>5. Apart
  <2>1. \A k \in DOMAIN freelist : freelist[k] # 0
    BY <1>2
  <2> QED BY <1>2, <2>1 DEF Vm!Init, Apart
<1> QED BY <1>3, <1>4, <1>5 DEF Vm!Init, VmInv

\* What the hardware does with a translation.
LEMMA TlbSteps ==
  ASSUME VmInv, NEW p \in Touched, Vm!Keep(p) \/ Vm!Drop(p)
  PROVE  VmInv'
<1> SUFFICES ASSUME pc \in Running PROVE VmInv'
  BY DEF VmInv, Vm!Keep, Vm!Drop
<1>1. tlb' = [tlb EXCEPT ![p] = pte[p]] \/ tlb' = [tlb EXCEPT ![p] = Vm!None]
  BY DEF Vm!Keep, Vm!Drop
<1>2. UNCHANGED <<pc, hardware, access, count, pte, freelist, tail, mapping, mem, stored>>
  BY DEF Vm!Keep, Vm!Drop
<1>3. VmTypeOK' /\ OneFrame'
  BY <1>1, <1>2, NoneApart DEF VmInv, VmTypeOK, OneFrame
<1>4. Apart' /\ Holds'
  BY <1>2 DEF VmInv, Apart, Holds, Filled
<1> QED BY <1>2, <1>3, <1>4 DEF VmInv

LEMMA UsedLeads ==
  ASSUME VmInv, pc \in Running, NEW p \in Touched
  PROVE  /\ Vm!Used(p) \in Entries
         /\ Vm!Used(p).v => mapping[p] # 0 /\ Vm!Used(p).frame = mapping[p]
BY DEF VmInv, VmTypeOK, OneFrame, Vm!Used

\* A step that changes no more than the marks of the page's entry, and flushes it.
LEMMA FaultKeeps ==
  ASSUME VmInv, pc \in Running,
         NEW p \in Touched, p = access.page, tlb' = [tlb EXCEPT ![p] = Vm!None],
         pte' \in [Touched -> Entries], pte'[p].v = pte[p].v, pte'[p].frame = pte[p].frame,
         \A q \in Touched : q # p => pte'[q] = pte[q],
         UNCHANGED <<pc, access, freelist, mapping, mem, stored>>
  PROVE  VmInv'
<1>1. VmTypeOK'
  BY DEF VmInv, VmTypeOK
<1>2. OneFrame'
  <2> SUFFICES ASSUME NEW q \in Touched
               PROVE  /\ pte'[q].v <=> mapping[q] # 0
                      /\ pte'[q].v => pte'[q].frame = mapping[q]
                      /\ tlb'[q] # Vm!None /\ tlb'[q].v => mapping[q] # 0 /\ tlb'[q].frame = mapping[q]
    BY DEF OneFrame
  <2>1. CASE q = p BY <2>1 DEF VmInv, VmTypeOK, OneFrame
  <2>2. CASE q # p BY <2>2 DEF VmInv, VmTypeOK, OneFrame
  <2> QED BY <2>1, <2>2
<1>3. Apart' /\ Holds'
  BY DEF VmInv, Apart, Holds, Filled
<1> QED BY <1>1, <1>2, <1>3 DEF VmInv

\* The test's accesses.
LEMMA AccessSteps ==
  ASSUME VmInv, Vm!Begin \/ Vm!Hit \/ Vm!Marks
  PROVE  VmInv'
<1>0. pc = "user" /\ pc' = pc /\ UNCHANGED <<freelist, mapping>>
  BY DEF Vm!Begin, Vm!Hit, Vm!Marks
<1> USE <1>0 DEF VmInv, VmTypeOK, Running
<1>1. CASE Vm!Begin
  <2>1. UNCHANGED <<pte, tlb, mem, stored>> /\ access'.page \in Touched /\ access'.store \in BOOLEAN
    BY <1>1 DEF Vm!Begin
  <2> QED BY <2>1 DEF OneFrame, Apart, Holds, Filled
<1>2. CASE Vm!Hit
  <2>1. access.page \in Touched /\ access' = Vm!None /\ UNCHANGED <<pte, tlb>>
    BY <1>2 DEF Vm!Hit
  <2>2. PICK p \in Touched : p = access.page
    BY <2>1
  <2>3. Vm!Used(p).v /\ mapping[p] # 0 /\ Vm!Used(p).frame = mapping[p]
    BY <1>2, <2>2, UsedLeads DEF Vm!Hit, Vm!Permits
  <2>4. CASE access.store
    <3>1. mem' = [mem EXCEPT ![mapping[p]].stored = TRUE] /\ stored' = stored \cup {p}
      BY <1>2, <2>2, <2>3, <2>4 DEF Vm!Hit
    <3>2. mem[mapping[p]] = [page |-> p, stored |-> p \in stored]
      <4>1. Filled(p)
        BY <2>3 DEF Filled
      <4>2. Holds
        OBVIOUS
      <4> QED BY <4>1, <4>2, Zenon DEF Holds
    <3>3. mem'[mapping[p]] = [page |-> p, stored |-> TRUE] /\ mapping[p] \in Frames
      <4>1. mapping[p] \in Frames
        OBVIOUS
      <4>2. mem'[mapping[p]] = [mem[mapping[p]] EXCEPT !.stored = TRUE]
        BY <3>1, <4>1
      <4>3. mem[mapping[p]].page = p
        BY <3>2
      <4>4. /\ mem'[mapping[p]] \in [page : Touched \cup {0}, stored : BOOLEAN]
            /\ mem'[mapping[p]].page = p /\ mem'[mapping[p]].stored
        BY <4>1, <4>2, <4>3
      <4> QED BY <4>1, <4>4
    <3>4. mem' \in [Frames -> [page : Touched \cup {0}, stored : BOOLEAN]]
      BY <3>1
    <3>5. ASSUME NEW q \in Touched
          PROVE  /\ Filled(q)' => mem'[mapping[q]] = [page |-> q, stored |-> q \in stored']
                 /\ q \in stored' => Filled(q)'
      <4>1. Filled(q)' <=> mapping[q] # 0
        BY DEF Filled
      <4>2. CASE q = p
        BY <2>3, <3>1, <3>3, <4>1, <4>2
      <4>3. CASE q # p
        <5>1. mapping[q] # 0 => mapping[q] # mapping[p]
          BY <2>3, <4>3 DEF Apart
        <5>2. mapping[q] # 0 => mem'[mapping[q]] = mem[mapping[q]]
          BY <3>1, <5>1
        <5>3. (q \in stored) <=> (q \in stored')
          BY <3>1, <4>3
        <5>4. mapping[q] # 0 => mem[mapping[q]] = [page |-> q, stored |-> q \in stored]
          BY DEF Holds, Filled
        <5> QED BY <4>1, <5>2, <5>3, <5>4 DEF Holds, Filled
      <4> QED BY <4>2, <4>3
    <3> QED BY <2>1, <3>4, <3>5 DEF OneFrame, Apart, Holds
  <2>5. CASE ~access.store
    <3>1. UNCHANGED <<mem, stored>>
      BY <1>2, <2>5 DEF Vm!Hit
    <3> QED BY <2>1, <3>1 DEF OneFrame, Apart, Holds, Filled
  <2> QED BY <2>4, <2>5
<1>3. CASE Vm!Marks
  <2>1. access.page \in Touched /\ UNCHANGED <<mem, stored, access>>
    BY <1>3 DEF Vm!Marks
  <2>2. PICK p \in Touched : p = access.page
    BY <2>1
  <2>3. tlb' = [tlb EXCEPT ![p] = Vm!None]
    BY <1>3, <2>2 DEF Vm!Marks, Vm!flush_page
  <2>4. pte' = [pte EXCEPT ![p].a = TRUE, ![p].d = @ \/ access.store]
    BY <1>3, <2>2 DEF Vm!Marks
  <2>5. (pte[p].d \/ access.store) \in BOOLEAN
    OBVIOUS
  <2>6. pte'[p] \in Entries /\ pte'[p].v = pte[p].v /\ pte'[p].frame = pte[p].frame
    BY <2>4, <2>5 DEF Entries
  <2>7. pte' \in [Touched -> Entries] /\ \A q \in Touched : q # p => pte'[q] = pte[q]
    BY <2>4, <2>6
  <2> QED BY <1>0, <2>1, <2>2, <2>3, <2>6, <2>7, FaultKeeps
<1> QED BY <1>1, <1>2, <1>3

\* The faults of a page that is mapped, and the two flushes.
LEMMA MarkSteps ==
  ASSUME VmInv, Vm!MarkAccessed \/ Vm!MarkDirty \/ Vm!Flush \/ Vm!Return
  PROVE  VmInv'
<1>0. pc \in Running /\ UNCHANGED <<access, freelist, mapping, mem, stored>> /\ access # Vm!None
  BY DEF Vm!MarkAccessed, Vm!MarkDirty, Vm!Flush, Vm!Return, Vm!Faults, Running, VmInv, VmTypeOK
<1>1. PICK p \in Touched : p = access.page
  BY <1>0 DEF VmInv, VmTypeOK
<1>2. pte[p] \in Entries
  BY <1>0 DEF VmInv, VmTypeOK
<1>3. CASE Vm!MarkAccessed
  <2>1. pte' = [pte EXCEPT ![p].a = TRUE] /\ tlb' = [tlb EXCEPT ![p] = Vm!None] /\ pc' = pc
    BY <1>1, <1>3 DEF Vm!MarkAccessed, Vm!flush_page
  <2>2. pte'[p] \in Entries /\ pte'[p].v = pte[p].v /\ pte'[p].frame = pte[p].frame
        /\ pte' \in [Touched -> Entries] /\ \A q \in Touched : q # p => pte'[q] = pte[q]
    BY <1>0, <1>2, <2>1 DEF Entries, VmInv, VmTypeOK
  <2> QED BY <1>0, <1>1, <2>1, <2>2, FaultKeeps
<1>4. CASE Vm!MarkDirty
  <2>1. CASE pc' = "assertion"
    BY <2>1 DEF VmInv, Running
  <2>2. CASE pc' # "assertion"
    <3>1. pte' = [pte EXCEPT ![p].d = TRUE] /\ tlb' = [tlb EXCEPT ![p] = Vm!None] /\ pc' = pc
      BY <1>1, <1>4, <2>2 DEF Vm!MarkDirty, Vm!flush_page
    <3>2. pte'[p] \in Entries /\ pte'[p].v = pte[p].v /\ pte'[p].frame = pte[p].frame
          /\ pte' \in [Touched -> Entries] /\ \A q \in Touched : q # p => pte'[q] = pte[q]
      BY <1>0, <1>2, <3>1 DEF Entries, VmInv, VmTypeOK
    <3> QED BY <1>0, <1>1, <3>1, <3>2, FaultKeeps
  <2> QED BY <2>1, <2>2
<1>5. CASE Vm!Flush \/ Vm!Return
  <2>1. tlb' = [tlb EXCEPT ![p] = Vm!None] /\ pte' = pte
        /\ ((pc = "flush" /\ pc' = "copy") \/ (pc = "return" /\ pc' = "user"))
    BY <1>1, <1>5 DEF Vm!Flush, Vm!Return, Vm!flush_page
  <2>2. VmTypeOK' /\ OneFrame'
    BY <1>0, <2>1 DEF VmInv, VmTypeOK, OneFrame
  <2>3. Apart' /\ Holds'
    BY <1>0, <2>1 DEF VmInv, Apart, Holds, Filled
  <2> QED BY <1>0, <2>1, <2>2, <2>3 DEF VmInv
<1> QED BY <1>3, <1>4, <1>5

\* A frame taken from the head of the list is in use nowhere, nor left in the list.
LEMMA MapStep == ASSUME VmInv, Vm!Map PROVE VmInv'
<1>0. pc = "user" /\ pc \in Running /\ access # Vm!None
      /\ UNCHANGED <<access, tlb, mem, stored>>
  BY DEF Vm!Map, Vm!Faults, Running
<1>1. PICK p \in Touched : p = access.page
  BY <1>0 DEF VmInv, VmTypeOK
<1>2. CASE pc' = "assertion"
  BY <1>2 DEF VmInv, Running
<1>3. CASE pc' # "assertion"
  <2>1. /\ freelist # <<>> /\ mapping[p] = 0 /\ ~pte[p].v /\ pc' = "flush"
        /\ pte' = [pte EXCEPT ![p] = Vm!Leaf(freelist[1], TRUE, TRUE)]
        /\ mapping' = [mapping EXCEPT ![p] = freelist[1]]
        /\ freelist' = Tail(freelist)
    BY <1>1, <1>3 DEF Vm!Map
  <2>2. PICK f \in Frames \ {0} : f = freelist[1]
    BY <1>0, <2>1 DEF VmInv, VmTypeOK
  <2>3. f \in Nat
    BY DEF Frames
  <2>4. freelist' \in Seq(Frames \ {0}) /\ DOMAIN freelist' = 1 .. Len(freelist) - 1
        /\ \A k \in DOMAIN freelist' : freelist'[k] = freelist[k + 1] /\ k + 1 \in DOMAIN freelist
    BY <1>0, <2>1 DEF VmInv, VmTypeOK
  <2>5. \A k, l \in DOMAIN freelist : freelist[k] = freelist[l] => k = l
    BY <1>0 DEF VmInv, Apart, Vm!IsInjective
  <2>6. 1 \in DOMAIN freelist
    BY <1>0, <2>1 DEF VmInv, VmTypeOK
  <2>7. VmTypeOK'
    BY <1>0, <2>1, <2>2, <2>3, <2>4 DEF VmInv, VmTypeOK, Vm!Leaf, Entries
  <2>8. OneFrame'
    BY <1>0, <2>1, <2>2 DEF VmInv, VmTypeOK, OneFrame, Vm!Leaf
  <2>9. Apart'
    <3>1. \A q \in Touched : q # p => mapping'[q] = mapping[q] /\ mapping[q] # f
      BY <1>0, <2>1, <2>2, <2>6 DEF VmInv, VmTypeOK, Apart
    <3>2. mapping'[p] = f
      BY <1>0, <2>1, <2>2 DEF VmInv, VmTypeOK
    <3>3. \A q, r \in Touched : mapping'[q] # 0 /\ mapping'[q] = mapping'[r] => q = r
      BY <1>0, <3>1, <3>2 DEF VmInv, Apart
    <3>4. \A k, l \in DOMAIN freelist' : freelist'[k] = freelist'[l] => k = l
      BY <2>4, <2>5
    <3>5. \A q \in Touched : \A k \in DOMAIN freelist' : mapping'[q] # freelist'[k]
      <4> SUFFICES ASSUME NEW q \in Touched, NEW k \in DOMAIN freelist'
                   PROVE  mapping'[q] # freelist'[k]
        OBVIOUS
      <4>1. CASE q = p
        <5>1. k + 1 # 1
          BY <2>4
        <5> QED BY <2>2, <2>4, <2>5, <2>6, <3>2, <4>1, <5>1
      <4>2. CASE q # p
        BY <1>0, <2>4, <3>1, <4>2 DEF VmInv, Apart
      <4> QED BY <4>1, <4>2
    <3> QED BY <3>3, <3>4, <3>5 DEF Apart, Vm!IsInjective
  <2>10. Holds'
    <3>1. ~Filled(p) /\ ~Filled(p)' /\ p \notin stored
      BY <1>0, <1>1, <2>1 DEF VmInv, Holds, Filled
    <3>2. ASSUME NEW q \in Touched, q # p
          PROVE  mapping'[q] = mapping[q] /\ (Filled(q) <=> Filled(q)')
      BY <1>0, <1>1, <2>1, <3>2 DEF VmInv, VmTypeOK, Filled
    <3> QED BY <1>0, <3>1, <3>2 DEF VmInv, Holds
  <2>11. mapping'[access'.page] # 0
    BY <1>0, <1>1, <2>1, <2>2 DEF VmInv, VmTypeOK
  <2> QED BY <2>7, <2>8, <2>9, <2>10, <2>11 DEF VmInv
<1> QED BY <1>2, <1>3

\* The kernel writes into the frame it has mapped, and into no other page's.
LEMMA CopyStep == ASSUME VmInv, Vm!Copy PROVE VmInv'
<1>0. pc = "copy" /\ pc \in Running /\ UNCHANGED <<access, pte, tlb, freelist, mapping, stored>>
  BY DEF Vm!Copy, Running
<1>1. PICK p \in Touched : p = access.page
  BY <1>0 DEF VmInv, VmTypeOK
<1>2. CASE pc' = "assertion"
  BY <1>2 DEF VmInv, Running
<1>3. CASE pc' # "assertion"
  <2>1. Vm!Used(p).v /\ pc' = "unmark"
        /\ mem' = [mem EXCEPT ![Vm!Used(p).frame] = Vm!Image(p)]
    BY <1>1, <1>3 DEF Vm!Copy, Vm!Permits
  <2>2. mapping[p] # 0 /\ Vm!Used(p).frame = mapping[p] /\ mapping[p] \in Frames
    BY <1>0, <2>1, UsedLeads DEF VmInv, VmTypeOK
  <2>3. mem' = [mem EXCEPT ![mapping[p]] = [page |-> p, stored |-> FALSE]]
    BY <2>1, <2>2 DEF Vm!Image
  <2>4. VmTypeOK' /\ OneFrame' /\ Apart'
    <3>1. [page |-> p, stored |-> FALSE] \in [page : Touched \cup {0}, stored : BOOLEAN]
      OBVIOUS
    <3>2. mem' \in [Frames -> [page : Touched \cup {0}, stored : BOOLEAN]]
      BY <1>0, <2>3, <3>1 DEF VmInv, VmTypeOK
    <3>3. VmTypeOK'
      BY <1>0, <2>1, <3>2 DEF VmInv, VmTypeOK
    <3> QED BY <1>0, <3>3 DEF VmInv, OneFrame, Apart
  <2>5. Holds'
    <3> SUFFICES ASSUME NEW q \in Touched
                 PROVE  /\ Filled(q)' => mem'[mapping[q]] = [page |-> q, stored |-> q \in stored]
                        /\ q \in stored => Filled(q)'
      BY <1>0 DEF Holds
    <3>1. Filled(q)' <=> mapping[q] # 0
      BY <1>0, <2>1 DEF Filled
    <3>2. CASE q = p
      <4>1. p \notin stored
        BY <1>0, <1>1 DEF VmInv, Holds, Filled
      <4>2. mem'[mapping[p]] = [page |-> p, stored |-> FALSE]
        BY <1>0, <2>2, <2>3 DEF VmInv, VmTypeOK
      <4>3. (p \in stored) = FALSE
        BY <4>1
      <4> QED BY <3>2, <4>1, <4>2, <4>3
    <3>3. CASE q # p
      <4>1. Filled(q) <=> mapping[q] # 0
        BY <1>1, <3>3 DEF Filled
      <4>2. mapping[q] # 0 => mem'[mapping[q]] = mem[mapping[q]]
        BY <1>0, <2>2, <2>3, <3>3 DEF VmInv, VmTypeOK, Apart
      <4> QED BY <1>0, <3>1, <4>1, <4>2 DEF VmInv, Holds
    <3> QED BY <3>2, <3>3
  <2> QED BY <1>0, <2>1, <2>2, <2>4, <2>5, <1>1 DEF VmInv
<1> QED BY <1>2, <1>3

LEMMA UnmarkStep == ASSUME VmInv, Vm!Unmark PROVE VmInv'
<1>0. pc = "unmark" /\ pc' = "return" /\ pc \in Running
      /\ UNCHANGED <<access, tlb, freelist, mapping, mem, stored>>
  BY DEF Vm!Unmark, Running
<1>1. PICK p \in Touched : p = access.page
  BY <1>0 DEF VmInv, VmTypeOK
<1>2. pte' = [pte EXCEPT ![p] = [v |-> TRUE, a |-> FALSE, d |-> FALSE, frame |-> mapping[p]]]
  BY <1>1 DEF Vm!Unmark, Vm!Leaf
<1>3. mapping[p] # 0 /\ mapping[p] \in Nat
  BY <1>0, <1>1 DEF VmInv, VmTypeOK, Frames
<1>4. VmTypeOK' /\ OneFrame'
  BY <1>0, <1>2, <1>3 DEF VmInv, VmTypeOK, OneFrame, Entries
<1>5. Apart' /\ Holds'
  BY <1>0 DEF VmInv, Apart, Holds, Filled
<1> QED BY <1>0, <1>4, <1>5 DEF VmInv

LEMMA VmKeeps == VmInv /\ [Vm!Next]_(Vm!vars) => VmInv'
<1>1. ASSUME VmInv, UNCHANGED Vm!vars PROVE VmInv'
  BY <1>1 DEF Vm!vars, VmInv, VmTypeOK, OneFrame, Apart, Holds, Filled
<1>2. ASSUME Vm!Ecall \/ (\E p \in Touched : Vm!Evict(p)) \/ Vm!Terminate PROVE VmInv'
  BY <1>2 DEF Vm!Ecall, Vm!Evict, Vm!Terminate, VmInv, Running
<1> QED BY <1>1, <1>2, TlbSteps, AccessSteps, MarkSteps, MapStep, CopyStep, UnmarkStep
        DEF Vm!Next, Vm!Core, Vm!handle_fault, Vm!Stopped

LEMMA VmTells == VmInv => Vm!UserSees
<1> SUFFICES ASSUME VmInv, pc = "user" PROVE Vm!UserSees
  BY DEF Vm!UserSees
<1>1. pc \in Running
  BY DEF Running
<1>2. ASSUME NEW p \in Touched, Vm!Used(p).v
      PROVE  mem[Vm!Used(p).frame] = [page |-> p, stored |-> p \in stored]
  <2>1. mapping[p] # 0 /\ Vm!Used(p).frame = mapping[p]
    BY <1>1, <1>2, UsedLeads
  <2> QED BY <1>1, <2>1 DEF VmInv, Holds, Filled
<1> QED BY <1>1, <1>2 DEF VmInv, Apart, Vm!UserSees

--------------------------------------------------------------------------------
(* CoreMark's main program.                                                     *)

Ended == {"report", "done"}
Collecting == {"stop", "report", "done", "crashed"}
Long(duration) == /\ duration >= 10 * Second
                  /\ duration > 22 * Second => 10 * command.rate >= 11 * Second

MainTypeOK ==
  /\ pc \in {"calibrate", "start", "bind"} \cup Collecting /\ (pc = "bind" => method = "socket")
  /\ port \in Ports /\ method \in Parallel /\ command \in Commands
  /\ iterations \in Nat /\ contexts \in 0 .. MULTITHREAD /\ next \in Nat
  /\ child \in [Contexts -> {"none", "running", "ran", "stopped", "killed", "exited", "reaped"}]
  /\ forked \in [Contexts -> BOOLEAN]
  /\ segment \in [Contexts -> {"zero", "old", "own", "lost"}]
  /\ results \in [Contexts -> {"junk", "calibration", "zero", "old", "own"}]

\* Results that are not a context's own: those of the trial runs, and what a segment held that
\* no context is going to write to any more.
Sources ==
  \A c \in Contexts :
    /\ results[c] = "calibration" => c = 0 /\ ByTrial
    /\ results[c] = "old" =>
         pc \in Collecting /\ segment[c] = "old" /\ child[c] \notin {"running", "ran"}

\* Threads are through once they are joined, and none is created but for a context.
Joined ==
  method = "pthread" =>
    \A c \in Contexts :
      child[c] \in {"running", "ran"} =>
        /\ c < contexts /\ forked[c]
        /\ pc = "start" => c < next
        /\ pc = "stop" => c >= next
        /\ pc \notin Ended \cup {"calibrate"}

\* The trials before the last were short; the last sets the iterations.
Trials ==
  /\ pc = "calibrate" => /\ ByTrial
                         /\ \/ iterations = 0
                            \/ 10 * command.rate >= Wrap
                            \/ iterations * command.rate < Second
  /\ pc # "calibrate" /\ ByTrial => Long(iterations * command.rate)

\* The time told is that of the run, or no context has run at all.
Told ==
  pc \in Ended =>
    /\ took \in Nat /\ time \in Elapsed(took)
    /\ took = iterations * command.rate \/ \A c \in Contexts : results[c] # "own"

Validated ==
  /\ verdict # "none" => pc = "done"
  /\ verdict = "validated" /\ Known => \A c \in 0 .. contexts - 1 : Right(results[c])

MainInv == MainTypeOK /\ Sources /\ Joined /\ Trials /\ Told /\ Validated

\* What the clocks of the ports tell of a duration.
LEMMA Division ==
  ASSUME NEW n \in Nat, NEW s, NEW u, s = n \div Second, u = n % Second
  PROVE  s \in Nat /\ u \in Nat /\ n = 1000000 * s + u
<1>1. s \in Nat
  BY SMT DEF Second
<1>2. u \in Nat
  BY SMT DEF Second
<1>3. n = 1000000 * s + u
  BY SMT DEF Second
<1> QED BY <1>1, <1>2, <1>3

LEMMA Quotient ==
  ASSUME NEW n \in Int
  PROVE  /\ Quot(n, 1000) \in Int
         /\ 1000 * Quot(n, 1000) <= n + 999 /\ n <= 1000 * Quot(n, 1000) + 999
BY SMT DEF Quot

\* Seconds and milliseconds apart, and the difference in milliseconds.
LEMMA Rounding ==
  ASSUME NEW s \in Nat, NEW u \in Nat, NEW f \in Nat, NEW w \in Nat, NEW q \in Int,
         NEW start \in Nat, NEW d \in Nat, start = 1000000 * s + u, start + d = 1000000 * f + w,
         1000 * q <= (w - u) + 999, w - u <= 1000 * q + 999,
         NEW t, t = (f - s) * 1000 + q
  PROVE  t \in Nat /\ 1000 * t <= d + 999 /\ d <= 1000 * t + 999
<1>1. t \in Int /\ 1000 * t = 1000000 * (f - s) + 1000 * q
  BY SMT
<1>2. d = 1000000 * (f - s) + (w - u)
  BY SMT
<1>3. 1000 * t <= d + 999 /\ d <= 1000 * t + 999
  BY <1>1, <1>2, SMT
<1> QED BY <1>1, <1>3, SMT

\* What t ticks tell of a duration of d microseconds.
Tells(p, d, t) ==
  /\ t \in Nat
  /\ p.clock = "timespec" => /\ EE_TICKS_PER_SEC(p) = 1000
                             /\ 1000 * t <= d + 999 /\ d <= 1000 * t + 999
  /\ p.clock = "clock" => EE_TICKS_PER_SEC(p) = Second /\ t = d
  /\ p.clock = "cycles" => EE_TICKS_PER_SEC(p) = Second /\ t <= d /\ (d < Wrap => t = d)
  /\ p.clock \in {"timespec", "clock", "cycles"}

LEMMA TimeTold ==
  ASSUME NEW p \in Ports, NEW start \in Nat, NEW d \in Nat, NEW t, t = get_time(p, start, start + d)
  PROVE  Tells(p, d, t)
<1> SUFFICES /\ t \in Nat
             /\ p.clock = "timespec" => /\ EE_TICKS_PER_SEC(p) = 1000
                                        /\ 1000 * t <= d + 999 /\ d <= 1000 * t + 999
             /\ p.clock = "clock" => EE_TICKS_PER_SEC(p) = Second /\ t = d
             /\ p.clock = "cycles" => EE_TICKS_PER_SEC(p) = Second /\ t <= d /\ (d < Wrap => t = d)
             /\ p.clock \in {"timespec", "clock", "cycles"}
  BY DEF Tells
<1>0. p.clock \in {"timespec", "clock", "cycles"}
  BY InputsAssumption, SMT
<1>1. CASE p.clock = "timespec"
  <2>1. PICK s, u, f, w : /\ s = start \div Second /\ u = start % Second
                          /\ f = (start + d) \div Second /\ w = (start + d) % Second
    OBVIOUS
  <2>2. t = (f - s) * 1000 + Quot(w - u, 1000)
    BY <1>1, <2>1, SMT DEF get_time, MYTIMEDIFF, GETMYTIME
  <2>3. s \in Nat /\ u \in Nat /\ start = 1000000 * s + u
    BY <2>1, Division, SMT
  <2>4. f \in Nat /\ w \in Nat /\ start + d = 1000000 * f + w
    <3>1. PICK n \in Nat : n = start + d
      BY SMT
    <3>2. f = n \div Second /\ w = n % Second
      BY <2>1, <3>1
    <3>3. f \in Nat /\ w \in Nat /\ n = 1000000 * f + w
      BY <3>2, Division
    <3> QED BY <3>1, <3>3
  <2>5. PICK q : q = Quot(w - u, 1000)
    OBVIOUS
  <2>6. q \in Int /\ 1000 * q <= (w - u) + 999 /\ w - u <= 1000 * q + 999
    BY <2>3, <2>4, <2>5, Quotient, SMT
  <2>7. t \in Nat /\ 1000 * t <= d + 999 /\ d <= 1000 * t + 999
    BY <2>2, <2>3, <2>4, <2>5, <2>6, Rounding, SMT
  <2> QED BY <1>1, <2>7, SMT DEF EE_TICKS_PER_SEC
<1>2. CASE p.clock = "clock"
  BY <1>2, SMT DEF get_time, simple_clock, EE_TICKS_PER_SEC
<1>3. CASE p.clock = "cycles"
  <2>1. t = (((start + d) % Wrap) - (start % Wrap)) % Wrap
    BY <1>3, SMT DEF get_time, arty_clock
  <2>2. t \in Nat /\ t <= d /\ (d < Wrap => t = d)
    BY <2>1, SMT DEF Wrap
  <2> QED BY <1>3, <2>2, SMT DEF EE_TICKS_PER_SEC
<1> QED BY <1>0, <1>1, <1>2, <1>3
\* Whole seconds, of a duration and of the ticks told for it.
LEMMA Seconds ==
  ASSUME NEW p \in Ports, NEW d \in Nat, NEW t, Tells(p, d, t), NEW secs, secs = time_in_secs(p, t)
  PROVE  /\ secs \in Nat /\ secs * 1000000 <= d + 999
         /\ p.clock # "cycles" \/ d < Wrap => d < (secs + 1) * 1000000
<1>1. PICK k \in Nat : k = EE_TICKS_PER_SEC(p) /\ k \in {1000, 1000000}
  BY SMT DEF EE_TICKS_PER_SEC, Second
<1>2. t \in Nat
  BY SMT DEF Tells
<1>3. secs = t \div k
  BY <1>1, SMT DEF time_in_secs
<1>4. secs \in Nat /\ secs * k <= t /\ t < (secs + 1) * k
  <2>1. CASE k = 1000 BY <1>2, <1>3, <2>1, SMT
  <2>2. CASE k = 1000000 BY <1>2, <1>3, <2>2, SMT
  <2> QED BY <1>1, <2>1, <2>2, SMT
<1>5. CASE p.clock = "timespec"
  <2>1. k = 1000 /\ 1000 * t <= d + 999 /\ d <= 1000 * t + 999
    BY <1>1, <1>5, SMT DEF Tells
  <2>2. secs * 1000 <= t /\ t < (secs + 1) * 1000
    BY <1>4, <2>1, SMT
  <2> QED BY <1>2, <1>4, <2>1, <2>2, SMT
<1>6. CASE p.clock # "timespec"
  <2>1. k = 1000000 /\ t <= d /\ (p.clock # "cycles" \/ d < Wrap => t = d)
    BY <1>1, <1>6, SMT DEF Tells, Second
  <2> QED BY <1>2, <1>4, <2>1, SMT
<1> QED BY <1>5, <1>6, SMT

\* The factor makes ten seconds of any duration that is told as one, and not much more.
LEMMA Factors ==
  ASSUME NEW secs \in Nat, secs >= 1, NEW d \in Nat, secs * 1000000 <= d + 999,
         NEW f, f = Factor(secs)
  PROVE  /\ f \in Nat /\ d * f >= 10000000
         /\ d < (secs + 1) * 1000000 /\ d < 11000000 => d * f <= 22000000
<1>1. f = 1 + (10 \div secs)
  BY SMT DEF Factor
<1>2. CASE secs = 1  BY <1>1, <1>2, SMT
<1>3. CASE secs = 2  BY <1>1, <1>3, SMT
<1>4. CASE secs = 3  BY <1>1, <1>4, SMT
<1>5. CASE secs = 4  BY <1>1, <1>5, SMT
<1>6. CASE secs = 5  BY <1>1, <1>6, SMT
<1>7. CASE secs = 6  BY <1>1, <1>7, SMT
<1>8. CASE secs = 7  BY <1>1, <1>8, SMT
<1>9. CASE secs = 8  BY <1>1, <1>9, SMT
<1>10. CASE secs = 9  BY <1>1, <1>10, SMT
<1>11. CASE secs = 10 BY <1>1, <1>11, SMT
<1>12. CASE secs > 10
  <2>1. 10 \div secs = 0
    BY <1>12, SMT
  <2> QED BY <1>1, <1>12, <2>1, SMT
<1> QED BY <1>2, <1>3, <1>4, <1>5, <1>6, <1>7, <1>8, <1>9, <1>10, <1>11, <1>12, SMT

LEMMA MainStarts == Init => MainInv
<1> SUFFICES ASSUME Init PROVE MainInv
  OBVIOUS
<1>1. method \in Parallel /\ command.M \in Int /\ iterations \in Nat
  BY InputsAssumption, SeedsAssumption DEF Init
<1>2. contexts \in 0 .. MULTITHREAD
  BY <1>1, MultithreadAssumption DEF Init, portable_init
<1>3. segment \in [Contexts -> {"zero", "old", "own", "lost"}]
  BY InputsAssumption DEF Init
<1>4. MainTypeOK
  BY <1>1, <1>2, <1>3 DEF Init, MainTypeOK, Collecting
<1>5. Sources /\ Joined /\ Trials /\ Told /\ Validated
  BY DEF Init, Sources, Joined, Trials, Told, Validated, Ended, ByTrial
<1> QED BY <1>4, <1>5 DEF MainInv

\* Steps that choose no iterations, and steps before a run or after it.
LEMMA TrialsKept ==
  ASSUME MainInv, UNCHANGED <<given, iterations>>, pc # "calibrate", pc' # "calibrate"
  PROVE  Trials'
BY DEF MainInv, Trials, Long, ByTrial, given

LEMMA NotYet ==
  ASSUME MainInv, verdict' = verdict, verdict = "none", pc' \notin Ended
  PROVE  Told' /\ Validated'
BY DEF Told, Validated

LEMMA NoVerdict == ASSUME MainInv, pc # "done" PROVE verdict = "none"
BY DEF MainInv, Validated

LEMMA CalibrateStep == ASSUME MainInv, Calibrate PROVE MainInv'
<1>1. pc = "calibrate" /\ UNCHANGED <<port, method, command, seeds, id, contexts, time, took, next, child,
                                      forked, segment, datagram, verdict>>
      /\ results' = [results EXCEPT ![0] = "calibration"]
  BY DEF Calibrate, given, others
<1>2. command \in Commands /\ port \in Ports /\ command.rate \in Nat /\ iterations \in Nat
      /\ 0 \in Contexts /\ ByTrial
  BY <1>1, InputsAssumption, MultithreadAssumption DEF MainInv, MainTypeOK, Trials, Contexts
<1>3. PICK tried, rate \in Nat : tried = (IF iterations = 0 THEN 10 ELSE 10 * iterations) /\ rate = command.rate
  BY <1>2
<1>4. tried \in Nat
  BY <1>2, <1>3
<1>5. PICK d \in Nat : d = tried * rate
  BY <1>3, <1>4, SMT
<1>6. PICK start, t, secs :
        /\ start \in Nat /\ t = get_time(port, start, start + d) /\ secs = time_in_secs(port, t)
        /\ IF secs < 1 THEN iterations' = tried /\ pc' = pc
           ELSE iterations' = tried * Factor(secs) /\ pc' = "start"
  <2>1. \E ticks \in Elapsed(d) :
          IF time_in_secs(port, ticks) < 1 THEN iterations' = tried /\ pc' = pc
          ELSE iterations' = tried * Factor(time_in_secs(port, ticks)) /\ pc' = "start"
    BY <1>3, <1>5 DEF Calibrate
  <2> QED BY <2>1, InputsAssumption DEF Elapsed
<1>7. Tells(port, d, t)
  BY <1>2, <1>6, TimeTold
<1>8. /\ secs \in Nat /\ secs * 1000000 <= d + 999
      /\ port.clock # "cycles" \/ d < Wrap => d < (secs + 1) * 1000000
  BY <1>2, <1>6, <1>7, Seconds, SMT
<1>9. \/ 10 * rate >= Wrap
      \/ d < 11000000
      \/ iterations = 0 /\ 10 * rate >= 11000000 /\ d < Wrap
  <2>1. \/ iterations = 0 \/ 10 * rate >= Wrap \/ iterations * rate < 1000000
    BY <1>1, <1>3, SMT DEF MainInv, Trials, Second
  <2>2. CASE iterations = 0
    BY <1>3, <1>5, <2>2, SMT DEF Wrap
  <2>3. CASE iterations # 0 /\ iterations * rate < 1000000
    <3>1. PICK e \in Nat : e = iterations * rate
      BY <1>2, <1>3, SMT
    <3>2. d = 10 * e
      BY <1>2, <1>3, <1>5, <2>3, <3>1, SMT
    <3> QED BY <2>3, <3>1, <3>2, SMT
  <2> QED BY <2>1, <2>2, <2>3, SMT
<1>10. results' \in [Contexts -> {"junk", "calibration", "zero", "old", "own"}] /\ ByTrial'
  BY <1>1, <1>2 DEF MainInv, MainTypeOK, ByTrial
<1>11. MainTypeOK' /\ Trials'
  <2>1. CASE secs < 1
    <3>1. iterations' = tried /\ pc' = "calibrate"
      BY <1>1, <1>6, <2>1, SMT
    <3>2. 10 * rate >= Wrap \/ d < 1000000
      BY <1>8, <1>9, <2>1, SMT DEF Wrap
    <3>3. Trials'
      <4>1. 10 * command.rate >= Wrap \/ iterations' * command.rate < Second
        BY <1>3, <1>5, <3>1, <3>2, SMT DEF Second
      <4> QED BY <1>1, <1>10, <3>1, <4>1, Zenon DEF Trials
    <3> QED BY <1>1, <1>4, <1>10, <3>1, <3>3 DEF MainInv, MainTypeOK, Collecting
  <2>2. CASE secs >= 1
    <3>1. PICK f : f = Factor(secs) /\ iterations' = tried * f /\ pc' = "start"
      BY <1>6, <1>8, <2>2, SMT
    <3>2. /\ f \in Nat /\ d * f >= 10000000
          /\ d < (secs + 1) * 1000000 /\ d < 11000000 => d * f <= 22000000
      BY <1>8, <2>2, <3>1, Factors, SMT
    <3>3. iterations' \in Nat /\ iterations' * rate = d * f
      BY <1>3, <1>4, <1>5, <3>1, <3>2, SMT
    <3>4. d * f > 22000000 => 10 * rate >= 11000000
      BY <1>8, <1>9, <3>2, SMT DEF Wrap
    <3>5. Long(iterations * command.rate)'
      BY <1>1, <1>3, <3>2, <3>3, <3>4, SMT DEF Long, Second
    <3>6. Trials'
      BY <1>1, <3>1, <3>5, Zenon DEF Trials
    <3> QED BY <1>1, <1>10, <3>1, <3>3, <3>6 DEF MainInv, MainTypeOK, Collecting
  <2> QED BY <1>8, <2>1, <2>2, SMT
<1>12. Sources' /\ Joined' /\ Told' /\ Validated'
  <2>1. pc' \in {"calibrate", "start"}
    BY <1>1, <1>6, SMT
  <2>2. Sources'
    <3>1. ASSUME NEW c \in Contexts
          PROVE  results'[c] # "old" /\ (results'[c] = "calibration" => c = 0)
      <4>1. results[c] # "old" /\ (results[c] = "calibration" => c = 0)
        BY <1>1 DEF MainInv, Sources, Collecting
      <4>2. results'[c] = IF c = 0 THEN "calibration" ELSE results[c]
        BY <1>1 DEF MainInv, MainTypeOK
      <4> QED BY <4>1, <4>2
    <3> QED BY <1>10, <3>1 DEF Sources
  <2>3. Joined'
    BY <1>1, <2>1 DEF MainInv, Joined
  <2>4. Told' /\ Validated'
    <3>1. pc' \notin Ended
      BY <2>1 DEF Ended
    <3>2. verdict = "none" /\ verdict' = verdict
      BY <1>1, NoVerdict, SMT
    <3> QED BY <3>1, <3>2, NotYet
  <2> QED BY <2>2, <2>3, <2>4
<1> QED BY <1>11, <1>12 DEF MainInv
LEMMA RunSingleStep == ASSUME MainInv, RunSingle PROVE MainInv'
<1>1. /\ pc = "start" /\ method = "single" /\ pc' = "report"
      /\ results' = [results EXCEPT ![0] = "own"] /\ took' = iterations * command.rate
      /\ time' \in Elapsed(took')
      /\ UNCHANGED <<port, method, command, seeds, id, contexts, iterations, next, child,
                     forked, segment, datagram, verdict>>
  BY DEF RunSingle, Measured, given, others
<1>2. results' \in [Contexts -> {"junk", "calibration", "zero", "old", "own"}]
  BY <1>1 DEF MainInv, MainTypeOK
<1>3. MainTypeOK'
  BY <1>1, <1>2 DEF MainInv, MainTypeOK, Collecting
<1>4. ByTrial' = ByTrial
  BY <1>1 DEF ByTrial
<1>5. Sources'
  <2>1. ASSUME NEW c \in Contexts
        PROVE  results'[c] # "old" /\ (results'[c] = "calibration" => c = 0 /\ ByTrial)
    <3>1. results[c] # "old" /\ (results[c] = "calibration" => c = 0 /\ ByTrial)
      BY <1>1 DEF MainInv, Sources, Collecting
    <3>2. results'[c] = IF c = 0 THEN "own" ELSE results[c]
      BY <1>1 DEF MainInv, MainTypeOK
    <3> QED BY <3>1, <3>2
  <2> QED BY <1>4, <2>1 DEF Sources
<1>6. Joined'
  BY <1>1 DEF Joined
<1>7. Trials'
  BY <1>1, TrialsKept DEF given
<1>8. Told'
  <2>1. took' \in Nat
    BY <1>1, InputsAssumption DEF MainInv, MainTypeOK
  <2>2. (time \in Elapsed(took))' /\ took' = iterations' * command'.rate
    BY <1>1 DEF Elapsed
  <2> QED BY <2>1, <2>2 DEF Told
<1>9. Validated'
  BY <1>1, NoVerdict DEF Validated
<1> QED BY <1>3, <1>5, <1>6, <1>7, <1>8, <1>9 DEF MainInv

\* Starting a context.
LEMMA StartSteps == ASSUME MainInv, StartThread \/ StartFork \/ StartSocket PROVE MainInv'
<1>1. /\ pc = "start" /\ next < contexts
      /\ UNCHANGED <<port, method, command, seeds, id, contexts, iterations, time, took, datagram,
                     results, verdict>>
  BY DEF StartThread, StartFork, StartSocket, Starts, given
<1>2. PICK ok \in BOOLEAN :
        /\ forked' = [forked EXCEPT ![next] = ok]
        /\ child' = [child EXCEPT ![next] = IF ok THEN "running" ELSE "none"]
  BY DEF StartThread, StartFork, StartSocket, Starts
<1>3. \/ pc' = "start" /\ next' = next + 1
      \/ pc' = "bind" /\ next' = next /\ method = "socket"
  BY <1>1 DEF StartThread, StartFork, StartSocket, Starts
<1>4. segment' \in {segment, [segment EXCEPT ![next] = "lost"]}
  BY DEF StartThread, StartFork, StartSocket
<1>5. next \in Contexts
  BY <1>1, MultithreadAssumption DEF MainInv, MainTypeOK, Contexts
<1>6. MainTypeOK'
  <2>1. segment' \in [Contexts -> {"zero", "old", "own", "lost"}]
    BY <1>4 DEF MainInv, MainTypeOK
  <2>2. child' \in [Contexts -> {"none", "running", "ran", "stopped", "killed", "exited", "reaped"}]
        /\ forked' \in [Contexts -> BOOLEAN]
    BY <1>2 DEF MainInv, MainTypeOK
  <2> QED BY <1>1, <1>3, <2>1, <2>2 DEF MainInv, MainTypeOK
<1>7. ByTrial' = ByTrial
  BY <1>1 DEF ByTrial
<1>8. Sources'
  <2>1. \A c \in Contexts : results[c] # "old" /\ (results[c] = "calibration" => c = 0 /\ ByTrial)
    BY <1>1 DEF MainInv, Sources, Collecting
  <2> QED BY <1>1, <1>7, <2>1 DEF Sources
<1>9. Joined'
  <2> SUFFICES ASSUME method = "pthread", NEW c \in Contexts, child'[c] \in {"running", "ran"}
               PROVE  c < contexts /\ forked'[c] /\ c < next'
    BY <1>1, <1>3 DEF Joined, Ended
  <2>1. next' = next + 1 /\ next \in Nat
    BY <1>3 DEF MainInv, MainTypeOK
  <2>2. CASE c = next
    BY <1>1, <1>2, <1>5, <2>1, <2>2 DEF MainInv, MainTypeOK
  <2>3. CASE c # next
    <3>1. child'[c] = child[c] /\ forked'[c] = forked[c]
      BY <1>2, <2>3 DEF MainInv, MainTypeOK
    <3>2. c < contexts /\ forked[c] /\ c < next
      BY <1>1, <3>1 DEF MainInv, Joined
    <3> QED BY <2>1, <3>1, <3>2 DEF Contexts
  <2> QED BY <2>2, <2>3
<1>10. Trials'
  BY <1>1, <1>3, TrialsKept DEF given
<1>11. Told' /\ Validated'
  BY <1>1, <1>3, NotYet, NoVerdict DEF Ended
<1> QED BY <1>6, <1>8, <1>9, <1>10, <1>11 DEF MainInv

LEMMA BindStep == ASSUME MainInv, Bind PROVE MainInv'
<1>1. /\ pc = "bind" /\ pc' = "start" /\ next' = next + 1 /\ method = "socket"
      /\ UNCHANGED <<port, method, command, seeds, id, contexts, iterations, time, took, child, forked,
                     segment, results, verdict>>
  BY DEF Bind, given, MainInv, MainTypeOK
<1>2. MainTypeOK'
  BY <1>1 DEF MainInv, MainTypeOK
<1>3. Sources'
  BY <1>1 DEF MainInv, Sources, ByTrial, Collecting
<1>4. Joined'
  BY <1>1 DEF Joined
<1>5. Trials'
  BY <1>1, TrialsKept DEF given
<1>6. Told' /\ Validated'
  BY <1>1, NotYet, NoVerdict DEF Ended
<1> QED BY <1>2, <1>3, <1>4, <1>5, <1>6 DEF MainInv

LEMMA AllStartedStep == ASSUME MainInv, AllStarted PROVE MainInv'
<1>1. /\ pc = "start" /\ next = contexts /\ pc' = "stop" /\ next' = 0
      /\ UNCHANGED <<port, method, command, seeds, id, contexts, iterations, time, took, child, forked,
                     segment, datagram, results, verdict>>
  BY DEF AllStarted, given, others
<1>2. MainTypeOK'
  BY <1>1 DEF MainInv, MainTypeOK, Collecting
<1>3. Sources'
  BY <1>1 DEF MainInv, Sources, ByTrial, Collecting
<1>4. Joined'
  BY <1>1 DEF MainInv, Joined, Ended, Contexts
<1>5. Trials'
  BY <1>1, TrialsKept DEF given
<1>6. Told' /\ Validated'
  BY <1>1, NotYet, NoVerdict DEF Ended
<1> QED BY <1>2, <1>3, <1>4, <1>5, <1>6 DEF MainInv
\* What a context does.
LEMMA ContextSteps ==
  ASSUME MainInv, NEW d \in Contexts, Runs(d) \/ HandsOver(d) \/ Interrupted(d)
  PROVE  MainInv'
<1>1. UNCHANGED <<pc, port, method, command, seeds, id, contexts, iterations, time, took, next, forked, verdict>>
  BY DEF Runs, HandsOver, Interrupted, given, others
<1>2. child[d] \in {"running", "ran"}
  BY DEF Runs, HandsOver, Interrupted
<1>3. PICK s \in {"ran", "exited", "stopped", "killed"} : child' = [child EXCEPT ![d] = s]
  BY DEF Runs, HandsOver, Interrupted
<1>4. segment' \in {segment, [segment EXCEPT ![d] = "own"]}
  BY DEF Runs, HandsOver, Interrupted, others
<1>5. \/ results' = results
      \/ method = "pthread" /\ results' = [results EXCEPT ![d] = "own"]
  BY DEF Runs, HandsOver, Interrupted
<1>6. MainTypeOK'
  <2>1. child' \in [Contexts -> {"none", "running", "ran", "stopped", "killed", "exited", "reaped"}]
    BY <1>3 DEF MainInv, MainTypeOK
  <2>2. segment' \in [Contexts -> {"zero", "old", "own", "lost"}]
    BY <1>4 DEF MainInv, MainTypeOK
  <2>3. results' \in [Contexts -> {"junk", "calibration", "zero", "old", "own"}]
    BY <1>5 DEF MainInv, MainTypeOK
  <2> QED BY <1>1, <2>1, <2>2, <2>3 DEF MainInv, MainTypeOK
<1>7. ByTrial' = ByTrial
  BY <1>1 DEF ByTrial
<1>8. \A c \in Contexts : results'[c] = results[c] \/ (c = d /\ results'[c] = "own")
  BY <1>5 DEF MainInv, MainTypeOK
<1>9. \A c \in Contexts : c # d => child'[c] = child[c] /\ segment'[c] = segment[c]
  BY <1>3, <1>4 DEF MainInv, MainTypeOK
<1>10. Sources'
  <2> SUFFICES ASSUME NEW c \in Contexts
               PROVE  /\ results'[c] = "calibration" => c = 0 /\ ByTrial
                      /\ results'[c] = "old" =>
                           pc \in Collecting /\ segment'[c] = "old" /\ child'[c] \notin {"running", "ran"}
    BY <1>1, <1>7 DEF Sources
  <2>1. CASE c = d
    <3>1. results[c] # "old" /\ (results[c] = "calibration" => c = 0 /\ ByTrial)
      BY <1>2, <2>1 DEF MainInv, Sources
    <3> QED BY <1>8, <3>1
  <2>2. CASE c # d
    BY <1>8, <1>9, <2>2 DEF MainInv, Sources
  <2> QED BY <2>1, <2>2
<1>11. Joined'
  <2>1. \A c \in Contexts : child'[c] \in {"running", "ran"} => child[c] \in {"running", "ran"}
    BY <1>2, <1>9
  <2> QED BY <1>1, <2>1 DEF MainInv, Joined
<1>12. Trials'
  BY <1>1, <1>7 DEF MainInv, Trials, Long
<1>13. Told'
  <2> SUFFICES ASSUME pc \in Ended PROVE Told'
    BY <1>1 DEF Told
  <2>1. method # "pthread"
    BY <1>2 DEF MainInv, Joined
  <2>2. results' = results
    BY <1>5, <2>1
  <2> QED BY <1>1, <2>2 DEF MainInv, Told, Elapsed
<1>14. Validated'
  <2>1. ASSUME verdict = "validated", Known, NEW c \in 0 .. contexts - 1
        PROVE  Right(results'[c])
    <3>1. c \in Contexts /\ Right(results[c])
      BY <2>1, MultithreadAssumption DEF MainInv, MainTypeOK, Validated, Contexts
    <3> QED BY <1>8, <3>1 DEF Right
  <2> QED BY <1>1, <2>1 DEF MainInv, Validated, Known
<1> QED BY <1>6, <1>10, <1>11, <1>12, <1>13, <1>14 DEF MainInv

\* Waiting for a child starts none, and ends with a child that is through.
Waited(c, w) ==
  /\ w.child \in [Contexts -> {"none", "running", "ran", "stopped", "killed", "exited", "reaped"}]
  /\ \A e \in Contexts : w.child[e] \in {"running", "ran"} => child[e] \in {"running", "ran"}
  /\ w.same => w.child[c] \notin {"running", "ran"}

LEMMA Waiting ==
  ASSUME MainInv, NEW c \in Contexts, NEW w \in waitpid(c)
  PROVE  Waited(c, w)
<1> DEFINE States == {"none", "running", "ran", "stopped", "killed", "exited", "reaped"}
<1>1. child \in [Contexts -> States]
  BY DEF MainInv, MainTypeOK
<1>2. ASSUME NEW d \in Contexts, Waitable(d)
      PROVE  /\ Reaped(d) \in [Contexts -> States]
             /\ \A e \in Contexts : Reaped(d)[e] \in {"running", "ran"} => child[e] \in {"running", "ran"}
             /\ Reaped(d)[d] \notin {"running", "ran"}
  BY <1>1, <1>2 DEF Reaped, Waitable
<1>3. \/ w = [same |-> FALSE, child |-> child]
      \/ Waitable(c) /\ w = [same |-> TRUE, child |-> Reaped(c)]
      \/ Alive = {} /\ w = [same |-> TRUE, child |-> child]
      \/ \E d \in Contexts : Waitable(d) /\ w = [same |-> FALSE, child |-> Reaped(d)]
  BY DEF waitpid, Alive
<1>4. CASE w = [same |-> FALSE, child |-> child]
  BY <1>1, <1>4 DEF Waited
<1>5. CASE Waitable(c) /\ w = [same |-> TRUE, child |-> Reaped(c)]
  BY <1>2, <1>5 DEF Waited
<1>6. CASE Alive = {} /\ w = [same |-> TRUE, child |-> child]
  <2>1. child[c] \in {"none", "reaped"}
    BY <1>6 DEF Alive
  <2> QED BY <1>1, <1>6, <2>1 DEF Waited
<1>7. ASSUME NEW d \in Contexts, Waitable(d), w = [same |-> FALSE, child |-> Reaped(d)]
      PROVE  Waited(c, w)
  BY <1>2, <1>7 DEF Waited
<1> QED BY <1>3, <1>4, <1>5, <1>6, <1>7
LEMMA StopStep == ASSUME MainInv, core_stop_parallel PROVE MainInv'
<1>1. /\ pc = "stop" /\ next < contexts /\ pc' \in {"stop", "crashed"} /\ next' = next + 1
      /\ UNCHANGED <<port, method, command, seeds, id, contexts, iterations, time, took, forked,
                     segment, datagram, verdict>>
  BY DEF core_stop_parallel, given, others
<1>2. next \in Contexts /\ next \in Nat
  BY <1>1, MultithreadAssumption DEF MainInv, MainTypeOK, Contexts
<1>3. \/ method = "fork" /\ StopFork(next)
      \/ method = "socket" /\ StopSocket(next)
      \/ method \notin {"fork", "socket"} /\ StopThread(next)
  BY DEF core_stop_parallel
<1>4. /\ child' \in [Contexts -> {"none", "running", "ran", "stopped", "killed", "exited", "reaped"}]
      /\ \A e \in Contexts : child'[e] \in {"running", "ran"} => child[e] \in {"running", "ran"}
  <2>1. CASE \E w \in waitpid(next) : child' = w.child
    BY <1>2, <2>1, Waiting DEF Waited
  <2>2. CASE child' = child
    BY <2>2 DEF MainInv, MainTypeOK
  <2> QED BY <1>3, <2>1, <2>2 DEF StopFork, StopSocket, StopThread
<1>5. \/ results' = results
      \/ results' = [results EXCEPT ![next] = "own"]
      \/ /\ results' = [results EXCEPT ![next] = segment[next]]
         /\ segment[next] # "lost" /\ child'[next] \notin {"running", "ran"}
  <2>1. CASE method = "fork" /\ StopFork(next)
    <3>1. PICK w \in waitpid(next) :
            /\ child' = w.child
            /\ results' = IF w.same /\ segment[next] # "lost"
                          THEN [results EXCEPT ![next] = segment[next]] ELSE results
      BY <2>1 DEF StopFork
    <3>2. w.same => w.child[next] \notin {"running", "ran"}
      BY <1>2, Waiting DEF Waited
    <3> QED BY <3>1, <3>2
  <2> QED BY <1>3, <2>1 DEF StopSocket, StopThread
<1>6. MainTypeOK'
  <2>1. results' \in [Contexts -> {"junk", "calibration", "zero", "old", "own"}]
    <3>1. segment[next] \in {"zero", "old", "own", "lost"}
      BY <1>2 DEF MainInv, MainTypeOK
    <3> QED BY <1>5, <3>1 DEF MainInv, MainTypeOK
  <2> QED BY <1>1, <1>2, <1>4, <2>1 DEF MainInv, MainTypeOK, Collecting
<1>7. ByTrial' = ByTrial
  BY <1>1 DEF ByTrial
<1>8. Sources'
  <2> SUFFICES ASSUME NEW c \in Contexts
               PROVE  /\ results'[c] = "calibration" => c = 0 /\ ByTrial
                      /\ results'[c] = "old" => segment[c] = "old" /\ child'[c] \notin {"running", "ran"}
    BY <1>1, <1>7 DEF Sources, Collecting
  <2>1. CASE results'[c] = results[c]
    BY <1>4, <2>1 DEF MainInv, Sources
  <2>2. CASE results'[c] # results[c]
    <3>1. c = next /\ (results'[c] = "own" \/ (results'[c] = segment[c] /\ child'[c] \notin {"running", "ran"}))
      BY <1>2, <1>5, <2>2 DEF MainInv, MainTypeOK
    <3>2. segment[c] \in {"zero", "old", "own", "lost"}
      BY DEF MainInv, MainTypeOK
    <3> QED BY <3>1, <3>2
  <2> QED BY <2>1, <2>2
<1>9. Joined'
  <2> SUFFICES ASSUME method = "pthread", NEW c \in Contexts, child'[c] \in {"running", "ran"}
               PROVE  c < contexts /\ forked[c] /\ c >= next + 1
    BY <1>1 DEF Joined, Ended
  <2>1. child' = child /\ (forked[next] => child[next] = "exited")
    BY <1>3 DEF StopThread
  <2>2. c < contexts /\ forked[c] /\ c >= next
    BY <1>1, <2>1 DEF MainInv, Joined
  <2>3. c # next
    BY <2>1, <2>2
  <2> QED BY <1>2, <2>2, <2>3 DEF Contexts
<1>10. Trials'
  BY <1>1, TrialsKept DEF given
<1>11. Told' /\ Validated'
  <2>1. pc' \notin Ended
    BY <1>1 DEF Ended
  <2> QED BY <1>1, <2>1, NotYet, NoVerdict
<1> QED BY <1>6, <1>8, <1>9, <1>10, <1>11 DEF MainInv

LEMMA AllStoppedStep == ASSUME MainInv, AllStopped PROVE MainInv'
<1>1. /\ pc = "stop" /\ next = contexts /\ pc' = "report"
      /\ UNCHANGED <<port, method, command, seeds, id, contexts, iterations, next, child, forked,
                     segment, datagram, results, verdict>>
  BY DEF AllStopped, given, others
<1>2. MainTypeOK'
  BY <1>1 DEF MainInv, MainTypeOK, Collecting
<1>3. Sources'
  BY <1>1 DEF MainInv, Sources, ByTrial, Collecting
<1>4. Joined'
  BY <1>1 DEF MainInv, MainTypeOK, Joined, Ended, Contexts
<1>5. Trials'
  BY <1>1, TrialsKept DEF given
<1>6. Told'
  <2>1. \/ took' = iterations * command.rate /\ time' \in Elapsed(took')
        \/ (\A c \in Contexts : results[c] # "own") /\ took' = 0 /\ time' \in Elapsed(took')
    BY DEF AllStopped, Measured
  <2>2. took' \in Nat
    BY <2>1, InputsAssumption DEF MainInv, MainTypeOK
  <2>3. (time \in Elapsed(took))'
    BY <1>1, <2>1 DEF Elapsed
  <2> QED BY <1>1, <2>1, <2>2, <2>3 DEF Told
<1>7. Validated'
  BY <1>1, NoVerdict DEF Validated
<1> QED BY <1>2, <1>3, <1>4, <1>5, <1>6, <1>7 DEF MainInv

\* A sum of no errors has none in it.
LEMMA NoErrors ==
  ASSUME MainInv, ContextErrors + check_data_types(port, command.pointer) + (IF Short THEN 1 ELSE 0) = 0
  PROVE  \A c \in 0 .. contexts - 1 : Right(results[c])
<1> DEFINE Wrong == {c \in 0 .. contexts - 1 : ~Right(results[c])}
<1>1. IsFiniteSet(Wrong) /\ Cardinality(Wrong) \in Nat
  <2>1. contexts - 1 \in Int
    BY DEF MainInv, MainTypeOK
  <2>2. IsFiniteSet(0 .. contexts - 1)
    BY <2>1, FS_Interval
  <2>3. IsFiniteSet(Wrong)
    BY <2>2, FS_Subset
  <2> QED BY <2>3, FS_CardinalityType
<1>2. PICK n \in Nat, a \in Nat \ {0} : n = Cardinality(Wrong) /\ a = Algorithms
  BY <1>1, SeedsAssumption DEF MainInv, MainTypeOK, Algorithms
<1>3. check_data_types(port, command.pointer) \in {0, 1}
  BY DEF check_data_types
<1>4. ContextErrors = a * n
  BY <1>2 DEF ContextErrors
<1>5. a * n \in Nat /\ (n # 0 => a * n >= 1)
  BY <1>2, SMT
<1>6. n = 0
  BY <1>3, <1>4, <1>5, SMT
<1>7. Wrong = {}
  BY <1>1, <1>2, <1>6, FS_EmptySet
<1> QED BY <1>7

LEMMA ReportStep == ASSUME MainInv, Report PROVE MainInv'
<1>1. /\ pc = "report" /\ pc' = "done"
      /\ UNCHANGED <<port, method, command, seeds, id, contexts, iterations, time, took, next, child, forked,
                     segment, datagram, results>>
  BY DEF Report, given, others
<1>2. MainTypeOK'
  BY <1>1 DEF MainInv, MainTypeOK, Collecting
<1>3. Sources'
  BY <1>1 DEF MainInv, Sources, ByTrial, Collecting
<1>4. Joined'
  BY <1>1 DEF MainInv, Joined, Ended
<1>5. Trials'
  BY <1>1, TrialsKept DEF given
<1>6. Told'
  BY <1>1 DEF MainInv, Told, Ended, Elapsed
<1>7. ASSUME verdict' = "validated", Known PROVE \A c \in 0 .. contexts - 1 : Right(results[c])
  <2>1. PICK total_errors :
          /\ total_errors = (IF Known THEN ContextErrors ELSE -1)
                            + check_data_types(port, command.pointer) + (IF Short THEN 1 ELSE 0)
          /\ verdict' = CASE total_errors = 0 -> "validated"
                          [] total_errors > 0 -> "errors"
                          [] OTHER            -> "cannot validate"
    BY DEF Report
  <2>2. total_errors = 0
    BY <1>7, <2>1
  <2> QED BY <1>7, <2>1, <2>2, NoErrors
<1>8. Validated'
  <2>1. Known' = Known
    BY <1>1 DEF Known
  <2> QED BY <1>1, <1>7, <2>1 DEF Validated, Right
<1> QED BY <1>2, <1>3, <1>4, <1>5, <1>6, <1>8 DEF MainInv

LEMMA MainKeeps == MainInv /\ [Next]_vars => MainInv'
<1>1. ASSUME MainInv, UNCHANGED vars PROVE MainInv'
  <2>1. UNCHANGED <<pc, port, method, command, seeds, id, contexts, iterations, time, took, next, child, forked,
                    segment, datagram, results, verdict>>
    BY <1>1 DEF vars, given, others
  <2>2. MainTypeOK' /\ Sources' /\ Joined'
    BY <1>1, <2>1 DEF MainInv, MainTypeOK, Sources, Joined, ByTrial
  <2>3. Trials' /\ Told'
    BY <1>1, <2>1 DEF MainInv, Trials, Told, ByTrial, Long, Elapsed
  <2>4. Validated'
    BY <1>1, <2>1 DEF MainInv, Validated, Known, Right
  <2> QED BY <2>2, <2>3, <2>4 DEF MainInv
<1> QED BY <1>1, CalibrateStep, RunSingleStep, StartSteps, BindStep, AllStartedStep, StopStep,
           AllStoppedStep, ReportStep, ContextSteps DEF Next, Main, Context, Done

LEMMA MainTells == MainInv => Collected /\ TimedRight
<1> SUFFICES ASSUME MainInv PROVE Collected /\ TimedRight
  OBVIOUS
<1>1. Collected
  <2> SUFFICES ASSUME verdict = "validated", Known, NEW c \in 0 .. contexts - 1
               PROVE  results[c] = "own" \/ (c = 0 /\ ByTrial) \/ segment[c] = "old"
    BY DEF Collected
  <2>1. c \in Contexts /\ Right(results[c])
    BY MultithreadAssumption DEF MainInv, MainTypeOK, Validated, Contexts
  <2> QED BY <2>1 DEF MainInv, Sources, Right
<1>2. TimedRight
  <2> SUFFICES ASSUME verdict # "none", NEW c \in Contexts, results[c] = "own" PROVE TimedRight
    BY DEF TimedRight
  <2>1. took \in Nat /\ time \in Elapsed(took) /\ took = iterations * command.rate /\ pc = "done"
    BY DEF MainInv, Validated, Told, Ended
  <2>2. ByTrial => Long(took)
    BY <2>1 DEF MainInv, Trials
  <2>3. PICK start \in Nat : time = get_time(port, start, start + took)
    BY <2>1, InputsAssumption DEF Elapsed
  <2>4. Tells(port, took, time)
    BY <2>1, <2>3, TimeTold DEF MainInv, MainTypeOK
  <2>5. ASSUME port.clock # "cycles" \/ took < Wrap, NEW tick, tick = Second \div EE_TICKS_PER_SEC(port)
        PROVE  time * tick \in took - tick .. took + tick
    <3>1. CASE port.clock = "timespec"
      <4>1. tick = 1000
        BY <2>4, <2>5, <3>1, SMT DEF Tells, Second
      <4> QED BY <2>1, <2>4, <3>1, <4>1, SMT DEF Tells
    <3>2. CASE port.clock # "timespec"
      <4>1. tick = 1
        BY <2>4, <2>5, <3>2, SMT DEF Tells, Second
      <4>2. time = took
        BY <2>4, <2>5, <3>2, SMT DEF Tells
      <4> QED BY <2>1, <4>1, <4>2, SMT
    <3> QED BY <3>1, <3>2
  <2> QED BY <2>2, <2>5 DEF TimedRight, Long
<1> QED BY <1>1, <1>2
--------------------------------------------------------------------------------
(* The bench: one program, and the others idle.                                 *)

ProgramsInv ==
  /\ unit = "main" => MainInv
  /\ unit = "vm" => VmInv
  /\ unit = "trap" => TrapInv
  /\ unit # "main" => verdict = "none"

LEMMA ProgramsKeep == ProgramsSpec => []ProgramsInv
<1>1. ASSUME ProgramsInit PROVE ProgramsInv
  BY <1>1, MainStarts, VmStarts, TrapStarts DEF ProgramsInit, ProgramsInv, MainIdle
<1>2. ASSUME ProgramsInv, [ProgramsNext]_programVars PROVE ProgramsInv'
  <2>1. CASE UNCHANGED programVars
    <3>1. /\ unit' = unit /\ verdict' = verdict
          /\ UNCHANGED vars /\ UNCHANGED Vm!vars /\ UNCHANGED Trap!vars
      BY <2>1 DEF programVars, mainVars, vmVars, trapVars, vars, Vm!vars, Trap!vars
    <3> QED BY <1>2, <3>1, MainKeeps, VmKeeps, TrapKeeps DEF ProgramsInv
  <2>2. CASE MainOnly(Next)
    BY <1>2, <2>2, MainKeeps DEF MainOnly, ProgramsInv
  <2>3. CASE VmOnly(Vm!Next)
    BY <1>2, <2>3, VmKeeps DEF VmOnly, mainVars, ProgramsInv
  <2>4. CASE TrapOnly(Trap!Next)
    BY <1>2, <2>4, TrapKeeps DEF TrapOnly, mainVars, ProgramsInv
  <2> QED BY <1>2, <2>1, <2>2, <2>3, <2>4 DEF ProgramsNext, MainOnly, VmOnly, TrapOnly
<1> QED BY <1>1, <1>2, PTL DEF ProgramsSpec

\* With parameters the program knows, a verdict "validated" rests on the contexts' own
\* results, but for those of trial runs in context 0 and of an earlier program in a
\* shared segment (core_main.c:239-358).  With others it may rest on nothing: -1 for the
\* unknown seeds and 1 for a short run cancel.
THEOREM VerdictsAreEarned == ProgramsSpec => []Collected
<1>1. ProgramsInv => Collected
  BY MainTells DEF ProgramsInv, Collected
<1> QED BY <1>1, ProgramsKeep, PTL

\* The time told is the time taken, and a run of chosen length is long enough, on a machine of
\* any speed, for any moment the clock may be started at (core_main.c:226-241, core_portme.c).
THEOREM TimesAreRight == ProgramsSpec => []TimedRight
<1>1. ProgramsInv => TimedRight
  BY MainTells DEF ProgramsInv, TimedRight
<1> QED BY <1>1, ProgramsKeep, PTL

\* Whatever translations the hardware keeps, a test finds in its pages what it left there, and
\* no frame is dealt out twice: for any number of pages and accesses (vm.c:112-180).
THEOREM PagesAreTheTests == ProgramsSpec => []UserSees
<1>1. ProgramsInv => UserSees
  BY VmTells DEF ProgramsInv, UserSees
<1> QED BY <1>1, ProgramsKeep, PTL

\* Traps come and go without a trace in the registers, and what is reported is what was meant:
\* for any values and any number of traps (fpga/arty-a7/sw/init.h).
THEOREM TrapsLeaveNoTrace == ProgramsSpec => []Undisturbed
<1>1. ProgramsInv => Undisturbed
  BY TrapTells DEF ProgramsInv, Undisturbed
<1> QED BY <1>1, ProgramsKeep, PTL
================================================================================
