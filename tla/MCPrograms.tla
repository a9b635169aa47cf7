------------------------------- MODULE MCPrograms -------------------------------
(***************************************************************************)
(* A bench for three programs that others interrupt: "main" is CoreMark's  *)
(* main program with its contexts, "vm" the environment of the ISA tests   *)
(* in virtual memory, "trap" the trap vector of the board's programs.      *)
(* Init picks one, and only that one runs.                                 *)
(***************************************************************************)
EXTENDS CoreMain

CONSTANTS LfsrBits, Entropy, Touched, Accesses,    \* VmEnv
          Values, Outcomes, Traps                  \* TrapVector

VARIABLES unit,
          hardware, access, count, pte, tlb, freelist, tail, mapping, mem, stored,
          regs, mstatus, mie, mscratch, mepc, mcause, test_trap_data, tohost, kept, outcome, traps

Vm   == INSTANCE VmEnv
Trap == INSTANCE TrapVector WITH count <- traps

\* LFSR_NEXT of isa-tests/env/v/vm.c has the taps of a sequence of full length.
ASSUME DealtAssumption == Vm!DealtOnce

mainVars == <<given, iterations, time, took, next, child, others, results, verdict>>
vmVars   == <<hardware, access, count, pte, tlb, freelist, tail, mapping, mem, stored>>
trapVars == <<regs, mstatus, mie, mscratch, mepc, mcause, test_trap_data, tohost, kept, outcome, traps>>
programVars == <<unit, pc, mainVars, vmVars, trapVars>>

\* What the variables of the programs not under test hold.
MainIdle ==
  /\ port = 0 /\ method = "none" /\ command = 0 /\ seeds = 0 /\ id = 0 /\ contexts = 0 /\ iterations = 0
  /\ time = 0 /\ took = 0 /\ next = 0 /\ child = 0 /\ forked = 0 /\ segment = 0 /\ datagram = 0
  /\ results = 0 /\ verdict = "none"
VmIdle ==
  /\ hardware = 0 /\ access = 0 /\ count = 0 /\ pte = 0 /\ tlb = 0 /\ freelist = 0
  /\ tail = 0 /\ mapping = 0 /\ mem = 0 /\ stored = 0
TrapIdle ==
  /\ regs = 0 /\ mstatus = 0 /\ mie = 0 /\ mscratch = 0 /\ mepc = 0 /\ mcause = 0
  /\ test_trap_data = 0 /\ tohost = 0 /\ kept = 0 /\ outcome = 0 /\ traps = 0
ProgramsIdle == MainIdle /\ VmIdle /\ TrapIdle

ProgramsInit ==
  \/ unit = "main" /\ Init /\ VmIdle /\ TrapIdle
  \/ unit = "vm" /\ Vm!Init /\ MainIdle /\ TrapIdle
  \/ unit = "trap" /\ Trap!Init /\ MainIdle /\ VmIdle

MainOnly(A) == unit = "main" /\ A /\ UNCHANGED <<unit, vmVars, trapVars>>
VmOnly(A)   == unit = "vm" /\ A /\ UNCHANGED <<unit, mainVars, trapVars>>
TrapOnly(A) == unit = "trap" /\ A /\ UNCHANGED <<unit, mainVars, vmVars>>

ProgramsNext == MainOnly(Next) \/ VmOnly(Vm!Next) \/ TrapOnly(Trap!Next)
ProgramsSpec == ProgramsInit /\ [][ProgramsNext]_programVars

--------------------------------------------------------------------------------
\* A test finds in its pages what it left there (isa-tests/env/v/vm.c:112-180).
UserSees == unit = "vm" => Vm!UserSees

\* An interrupt or a bus error leaves no trace in the registers of what it came
\* upon (fpga/arty-a7/sw/init.h).
Undisturbed == unit = "trap" => Trap!Undisturbed
================================================================================
