-------------------------------- MODULE TrapVector --------------------------------
(***************************************************************************)
(* The start-up code and the trap vector of the board's programs,          *)
(* fpga/arty-a7/sw/init.h (hello_world.S; isa-tests/env/p has the same):   *)
(* reset_vector, trap_vector, its handlers and write_tohost.  The core     *)
(* that takes the traps is external.  The SoC ties the interrupt lines     *)
(* low; the code is written for a core that gets interrupts.               *)
(***************************************************************************)
EXTENDS CoreUtil

CONSTANTS Values,     \* what the program may write to its registers
          Outcomes,   \* what it may report
          Traps       \* bound: interrupts and bus errors on the way

VARIABLES pc,
          regs,             \* a0, t5, t6 and TESTNUM (gp)
          mstatus,          \* [mie, mpie]
          mie,              \* interrupts selected at all
          mscratch, mepc, mcause,
          test_trap_data,   \* where t5 and t6 are saved
          tohost,
          kept,             \* history: the registers as the code not in a trap left them
          outcome,          \* history: what the program is to report
          count
vars == <<pc, regs, mstatus, mie, mscratch, mepc, mcause, test_trap_data, tohost, kept, outcome,
          count>>

MSTATUS_MIE  == 8
MSTATUS_MPIE == 128
Unhandled(testnum) == BitOr[testnum, 1337]

Interrupts == {"software", "timer", "external", "unknown"}
Errors     == {"fetch access", "load access", "store access"}

Init ==
  /\ pc = "reset_vector"
  /\ regs \in [a0 : Values, t5 : Values, t6 : Values, testnum : {0}]
  /\ mstatus = [mie |-> FALSE, mpie |-> FALSE] /\ mie = FALSE
  /\ mscratch = 0 /\ mepc = "reset_vector" /\ mcause = "none" /\ test_trap_data = <<0, 0>>
  /\ tohost = 0 /\ kept = regs /\ outcome = 0 /\ count = 0

\* The next instruction of code that is not in a trap handler.
Step(from, to, rs) ==
  /\ pc = from /\ pc' = to
  /\ regs' = rs /\ kept' = rs
  /\ UNCHANGED <<mscratch, mcause, test_trap_data, count>>

\* reset_vector: interrupts are let in before the program starts.
InitRegisters ==
  /\ Step("reset_vector", "enable", [regs EXCEPT !.t5 = 0, !.t6 = 0, !.testnum = 0])
  /\ UNCHANGED <<mstatus, mie, mepc, tohost, outcome>>

EnableInterrupts ==
  /\ Step("enable", "select", [regs EXCEPT !.a0 = MSTATUS_MIE])
  /\ mstatus' = [mstatus EXCEPT !.mie = TRUE]
  /\ UNCHANGED <<mie, mepc, tohost, outcome>>

SelectInterrupts ==
  /\ Step("select", "vector", [regs EXCEPT !.a0 = -1])
  /\ mie' = TRUE
  /\ UNCHANGED <<mstatus, mepc, tohost, outcome>>

\* mtvec, set when interrupts may have come already.
SetVector ==
  /\ Step("vector", "post_mtvec", regs)
  /\ UNCHANGED <<mstatus, mie, mepc, tohost, outcome>>

\* mstatus is cleared; the mret into the program lets interrupts in again.
post_mtvec ==
  /\ Step("post_mtvec", "mret", [regs EXCEPT !.a0 = MSTATUS_MPIE])
  /\ mstatus' = [mie |-> FALSE, mpie |-> TRUE]
  /\ mepc' = "program"
  /\ UNCHANGED <<mie, tohost, outcome>>

EnterProgram ==
  /\ Step("mret", mepc, [regs EXCEPT !.a0 = 0])
  /\ mstatus' = [mie |-> mstatus.mpie, mpie |-> TRUE]
  /\ UNCHANGED <<mie, mepc, tohost, outcome>>

Compute ==
  /\ \E r \in {"a0", "t5", "t6"}, v \in Values : Step("program", "program", [regs EXCEPT ![r] = v])
  /\ UNCHANGED <<mstatus, mie, mepc, tohost, outcome>>

--------------------------------------------------------------------------------
\* The core takes a trap.  Until mtvec is set it does so through the table at its boot
\* address, whose entries all jump to trap_vector as well (init.h:113-127).
TakeTrap(cause) ==
  /\ mepc' = pc /\ mcause' = cause
  /\ mstatus' = [mie |-> FALSE, mpie |-> mstatus.mie]
  /\ pc' = "trap_vector"
  /\ UNCHANGED <<mie, mscratch, test_trap_data, tohost>>

Interrupt(cause) ==
  /\ mstatus.mie /\ mie /\ count < Traps
  /\ TakeTrap(cause)
  /\ outcome' = IF cause = "unknown" THEN Unhandled(regs.testnum) ELSE outcome
  /\ count' = count + 1
  /\ UNCHANGED <<regs, kept>>

\* A bus error: the handler returns to the instruction, which is tried again.
BusError ==
  /\ pc = "program" /\ count < Traps
  /\ \E cause \in Errors : TakeTrap(cause)
  /\ count' = count + 1
  /\ UNCHANGED <<regs, kept, outcome>>

\* The program reports with an ecall, or runs into the unimp at its end.
Ends ==
  /\ pc = "program"
  /\ \E result \in Outcomes, cause \in {"ecall", "illegal instruction"} :
       /\ TakeTrap(cause)
       /\ regs' = [regs EXCEPT !.testnum = result] /\ kept' = regs'
       /\ outcome' = IF cause = "ecall" THEN result ELSE Unhandled(result)
  /\ UNCHANGED count

--------------------------------------------------------------------------------
InTrap(from, to) ==
  /\ pc = from /\ pc' = to
  /\ UNCHANGED <<mie, mcause, kept, outcome, count>>

\* Three registers are saved; the cause is compared in two of them.
trap_vector ==
  /\ InTrap("trap_vector", CASE mcause = "ecall" -> "write_tohost"
                             [] mcause \in Errors \cup (Interrupts \ {"unknown"}) -> "handler"
                             [] OTHER -> "other_exception")
  /\ mscratch' = regs.a0
  /\ test_trap_data' = <<regs.t5, regs.t6>>
  /\ \E cause, compared \in Values :
       regs' = [regs EXCEPT !.a0 = -2, !.t5 = cause, !.t6 = compared]
  /\ UNCHANGED <<mstatus, mepc, tohost>>

\* Mutant: t6 is restored from the place of t5.
Handler_SameWord ==
  /\ InTrap("handler", mepc)
  /\ regs' = [regs EXCEPT !.a0 = mscratch, !.t5 = test_trap_data[1], !.t6 = test_trap_data[1]]
  /\ mstatus' = [mie |-> mstatus.mpie, mpie |-> TRUE]
  /\ UNCHANGED <<mscratch, mepc, test_trap_data, tohost>>

\* The handlers of interrupts and bus errors restore the registers and return.
Handler ==
  /\ InTrap("handler", mepc)
  /\ regs' = [regs EXCEPT !.a0 = mscratch, !.t5 = test_trap_data[1], !.t6 = test_trap_data[2]]
  /\ mstatus' = [mie |-> mstatus.mpie, mpie |-> TRUE]
  /\ UNCHANGED <<mscratch, mepc, test_trap_data, tohost>>

other_exception ==
  /\ InTrap("other_exception", "write_tohost")
  /\ regs' = [regs EXCEPT !.testnum = Unhandled(@)]
  /\ UNCHANGED <<mstatus, mscratch, mepc, test_trap_data, tohost>>

\* The end, with interrupts let in: report, again and again.
write_tohost ==
  /\ Step("write_tohost", "store", [regs EXCEPT !.a0 = MSTATUS_MIE])
  /\ mstatus' = [mstatus EXCEPT !.mie = TRUE]
  /\ UNCHANGED <<mie, mepc, tohost, outcome>>

StoreTohost ==
  /\ \E address \in Values : Step("store", "write_tohost", [regs EXCEPT !.t5 = address])
  /\ tohost' = regs.testnum
  /\ UNCHANGED <<mstatus, mie, mepc, outcome>>

Next == \/ InitRegisters \/ EnableInterrupts \/ SelectInterrupts \/ SetVector \/ post_mtvec
        \/ EnterProgram \/ Compute \/ (\E cause \in Interrupts : Interrupt(cause)) \/ BusError \/ Ends
        \/ trap_vector \/ Handler \/ other_exception \/ write_tohost \/ StoreTohost
Spec == Init /\ [][Next]_vars

--------------------------------------------------------------------------------
\* Whatever interrupts it, in the middle of the start-up and of the last loop too,
\* code finds its registers as it left them; and what is reported is what the
\* program meant to report, marked from then on if a trap came that nobody handles
\* (init.h: one place to save t5 and t6, one mscratch).
Undisturbed ==
  /\ pc \notin {"trap_vector", "handler", "other_exception", "write_tohost"} => regs = kept
  /\ pc = "write_tohost" /\ mstatus.mie => regs = kept /\ tohost = outcome
  /\ pc = "store" => regs.testnum = outcome
================================================================================
