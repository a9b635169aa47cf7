------------------------------- MODULE SimHarness -------------------------------
(***************************************************************************)
(* The simulation wrapper verilator/sim.cpp: the main thread, the system   *)
(* thread that clocks the Verilator model, and the JTAG thread that runs   *)
(* the remote bitbang server.  They share the model, guarded by a mutex.   *)
(* A step is what a thread does between two points where another thread    *)
(* could come in if the mutex did not keep it out.  Time stamps, the VCD   *)
(* dump and messages are left out.                                         *)
(***************************************************************************)
EXTENDS RbbServer

CONSTANTS
  Timeout,   \* 2**max_cycs_pow clocks, or 0 for none
  Bytes,     \* values the UART of the SoC prints
  MaxBytes   \* bound: characters it prints

ASSUME HarnessAssumption ==
  Timeout \in Nat /\ MaxBytes \in Nat /\ Bytes \cap {"none", "error"} = {}

VARIABLES
  pcMain, pcSys, pcJtag,   \* where each thread is
  mutex,                   \* its owner, or "free"
  cnt,                     \* sys_thrd: clocks counted (only if there is a timeout)
  cmd,                     \* jtag_thrd: the command being executed, else none
  ret,                     \* jtag_thrd: what getTdo read, until it is answered
  uart_rx_str,             \* sys_thrd: the characters collected
  top,                     \* the model: alive or deleted
  gotFinish,               \* the model: $finish was called
  quit,                    \* the model: its input quit
  tap,                     \* the model: clock pin, shifted bit and TDO of the TAP
  uart,                    \* the model: what the UART shows this cycle
  process,                 \* "running", "exited", "aborted", "killed"
  mirror,                  \* history: the TAP as the client's commands drive it
  reported                 \* history: characters the UART has shown

harnessVars == <<pcMain, pcSys, pcJtag, mutex, cnt, cmd, ret, uart_rx_str, top,
                 gotFinish, quit, tap, uart, process, mirror, reported>>
vars == <<serverVars, harnessVars>>

NoCommand == [do |-> "none"]

\* The TAP, reduced to its bypass register: TDI is sampled at the rising edge of
\* TCK and shown at the falling one; TRST clears it.
TapReset == [tck |-> 0, bit |-> 0, tdo |-> 0]
Drive(t, c) ==
  IF c.do = "reset" THEN [TapReset EXCEPT !.tck = t.tck]
  ELSE [tck |-> c.tck,
        bit |-> IF t.tck = 0 /\ c.tck = 1 THEN c.tdi ELSE t.bit,
        tdo |-> IF t.tck = 1 /\ c.tck = 0 THEN t.bit ELSE t.tdo]

Init ==
  /\ ServerInit
  /\ pcMain = "create" /\ pcSys = "new" /\ pcJtag = "new"
  /\ mutex = "free"
  /\ cnt = 0
  /\ cmd = NoCommand /\ ret = 1
  /\ uart_rx_str = <<>>
  /\ top = "alive" /\ gotFinish = FALSE /\ quit = 0
  /\ tap = TapReset /\ uart = "none"
  /\ process = "running"
  /\ mirror = TapReset
  /\ reported = <<>>

--------------------------------------------------------------------------------
(* pthread_mutex_lock and _unlock.                                              *)

Lock(thread) == mutex = "free" /\ mutex' = thread
Unlock(thread) == mutex = thread /\ mutex' = "free"

--------------------------------------------------------------------------------
(* main(): the system thread is created first and joined first.                 *)

CreateSys ==
  /\ pcMain = "create" /\ pcMain' = "create jtag"
  /\ pcSys' = "boot"
  /\ UNCHANGED <<pcJtag, mutex, cnt, cmd, ret, uart_rx_str, top, gotFinish, quit, tap, uart,
                 process, mirror, reported, serverVars>>

CreateJtag ==
  /\ pcMain = "create jtag" /\ pcMain' = "join sys"
  /\ pcJtag' = "listen"
  /\ UNCHANGED <<pcSys, mutex, cnt, cmd, ret, uart_rx_str, top, gotFinish, quit, tap, uart,
                 process, mirror, reported, serverVars>>

\* Mutant: nothing is written to the pipe.
JoinSys_NoPipe ==
  /\ pcMain = "join sys" /\ pcSys = "ended"
  /\ pcMain' = "join jtag"
  /\ UNCHANGED <<pcSys, pcJtag, mutex, cnt, cmd, ret, uart_rx_str, top, gotFinish, quit, tap,
                 uart, process, mirror, reported, serverVars>>

\* Once the system thread has ended, trip the JTAG thread.
JoinSys ==
  /\ pcMain = "join sys" /\ pcSys = "ended"
  /\ pcMain' = "join jtag"
  /\ pipe' = TRUE
  /\ UNCHANGED <<pcSys, pcJtag, mutex, cnt, cmd, ret, uart_rx_str, top, gotFinish, quit, tap,
                 uart, process, mirror, reported, sockfd, clientfd, events, client, backlog,
                 toServer, budget, replies, wanted>>

\* No thread can touch the model any more: it is deleted.
JoinJtag ==
  /\ pcMain = "join jtag" /\ pcJtag = "ended"
  /\ pcMain' = "end"
  /\ top' = "deleted"
  /\ process' = "exited"
  /\ UNCHANGED <<pcSys, pcJtag, mutex, cnt, cmd, ret, uart_rx_str, gotFinish, quit, tap, uart,
                 mirror, reported, serverVars>>

--------------------------------------------------------------------------------
(* sys_thrd(): reset, then one clock per turn until $finish or the timeout.     *)

SysLock(from, to) ==
  /\ pcSys = from /\ pcSys' = to
  /\ Lock("sys")
  /\ cnt' = IF from = "loop" /\ Timeout > 0 THEN cnt + 1 ELSE cnt
  /\ UNCHANGED <<pcMain, pcJtag, cmd, ret, uart_rx_str, top, gotFinish, quit, tap, uart,
                 process, mirror, reported, serverVars>>

SysUnlock ==
  /\ pcSys \in {"unlock", "done"}
  /\ Unlock("sys")
  /\ pcSys' = IF pcSys = "done" THEN "ended" ELSE "loop"
  /\ UNCHANGED <<pcMain, pcJtag, cnt, cmd, ret, uart_rx_str, top, gotFinish, quit, tap, uart,
                 process, mirror, reported, serverVars>>

\* Ten clocks with rst_n low, in one critical section.
SysReset ==
  /\ pcSys = "reset" /\ pcSys' = "unlock"
  /\ uart' = IF gotFinish THEN uart ELSE "none"
  /\ UNCHANGED <<pcMain, pcJtag, mutex, cnt, cmd, ret, uart_rx_str, top, gotFinish, quit, tap,
                 process, mirror, reported, serverVars>>

\* At the head of a turn: give up after $finish, else collect what the UART shows.
SysCheck ==
  /\ pcSys = "check"
  /\ IF gotFinish
       THEN pcSys' = "done" /\ UNCHANGED uart_rx_str
       ELSE /\ pcSys' = "rise"
            /\ uart_rx_str' = IF uart \in Bytes THEN Append(uart_rx_str, uart) ELSE uart_rx_str
  /\ UNCHANGED <<pcMain, pcJtag, mutex, cnt, cmd, ret, top, gotFinish, quit, tap, uart,
                 process, mirror, reported, serverVars>>

\* The rising edge: the program may end the simulation, the UART may show a
\* character or an error for one cycle.
SysRise ==
  /\ pcSys = "rise" /\ pcSys' = "fall"
  /\ gotFinish' \in {gotFinish, TRUE}
  /\ \/ uart' \in {"none", "error"} /\ UNCHANGED reported
     \/ \E b \in Bytes : /\ Len(reported) < MaxBytes
                         /\ uart' = b /\ reported' = Append(reported, b)
  /\ UNCHANGED <<pcMain, pcJtag, mutex, cnt, cmd, ret, uart_rx_str, top, quit, tap,
                 process, mirror, serverVars>>

\* Mutant: the UART is looked at again after the falling edge.
SysFall_CollectsAgain ==
  /\ pcSys = "fall"
  /\ uart_rx_str' = IF uart \in Bytes THEN Append(uart_rx_str, uart) ELSE uart_rx_str
  /\ IF Timeout > 0 /\ cnt > Timeout
       THEN pcSys' = "done" /\ quit' = 1 /\ gotFinish' = TRUE
       ELSE pcSys' = "unlock" /\ UNCHANGED <<quit, gotFinish>>
  /\ UNCHANGED <<pcMain, pcJtag, mutex, cnt, cmd, ret, top, tap, uart,
                 process, mirror, reported, serverVars>>

\* The falling edge, and after it the timeout: quit rises and the bench finishes.
SysFall ==
  /\ pcSys = "fall"
  /\ IF Timeout > 0 /\ cnt > Timeout
       THEN pcSys' = "done" /\ quit' = 1 /\ gotFinish' = TRUE
       ELSE pcSys' = "unlock" /\ UNCHANGED <<quit, gotFinish>>
  /\ UNCHANGED <<pcMain, pcJtag, mutex, cnt, cmd, ret, uart_rx_str, top, tap, uart,
                 process, mirror, reported, serverVars>>

--------------------------------------------------------------------------------
(* jtag_thrd() and verilator_backend.                                           *)

\* The socket is made, bound, listened on and put under epoll; any of it failing aborts.
JtagListen ==
  /\ pcJtag = "listen"
  /\ \/ listen /\ pcJtag' = "accept" /\ UNCHANGED process
     \/ process' = "aborted" /\ UNCHANGED <<pcJtag, serverVars>>
  /\ UNCHANGED <<pcMain, pcSys, mutex, cnt, cmd, ret, uart_rx_str, top, gotFinish, quit, tap,
                 uart, mirror, reported>>

\* A connection that cannot be accepted aborts.  (What fails between listen and
\* epoll_wait aborts in JtagListen.)
JtagAccept ==
  /\ \/ pcJtag = "accept" /\ epoll_wait /\ pcJtag' = "events" /\ UNCHANGED process
     \/ /\ pcJtag = "events" /\ HandleEvent /\ UNCHANGED process
        /\ pcJtag' = IF Len(events) = 1 THEN "loop" ELSE "events"
     \/ /\ pcJtag = "events" /\ Head(events) = "sock" /\ sockfd
        /\ process' = "aborted" /\ UNCHANGED <<pcJtag, serverVars>>
  /\ UNCHANGED <<pcMain, pcSys, mutex, cnt, cmd, ret, uart_rx_str, top, gotFinish, quit, tap,
                 uart, mirror, reported>>

\* while (!finished()) respond(): a command that touches the model goes for the mutex.
JtagRespond ==
  /\ pcJtag = "loop"
  /\ \/ finished /\ pcJtag' = "ended" /\ UNCHANGED <<cmd, serverVars>>
     \/ ~finished /\ ReadFails /\ UNCHANGED <<pcJtag, cmd>>
     \/ ~finished
        /\ \E c \in Commands :
             /\ ReadCommand(c)
             /\ IF c.do = "other" THEN UNCHANGED <<cmd, pcJtag>>
                  ELSE cmd' = c /\ pcJtag' = "command"
  /\ UNCHANGED <<pcMain, pcSys, mutex, cnt, ret, uart_rx_str, top, gotFinish, quit, tap,
                 uart, process, mirror, reported>>

\* Mutant: the mutex is not taken to look at TDO.
JtagLock_NotForTdo ==
  /\ pcJtag = "command" /\ pcJtag' = "model"
  /\ IF cmd.do = "tdo" THEN mutex' = mutex ELSE Lock("jtag")
  /\ UNCHANGED <<pcMain, pcSys, cnt, cmd, ret, uart_rx_str, top, gotFinish, quit, tap,
                 uart, process, mirror, reported, serverVars>>
JtagLock ==
  /\ pcJtag = "command" /\ pcJtag' = "model"
  /\ Lock("jtag")
  /\ UNCHANGED <<pcMain, pcSys, cnt, cmd, ret, uart_rx_str, top, gotFinish, quit, tap,
                 uart, process, mirror, reported, serverVars>>

\* Mutant: TDO is read as one while the model runs.
JtagModel_Inverted ==
  /\ pcJtag = "model" /\ pcJtag' = "unlock"
  /\ tap' = IF ~gotFinish /\ cmd.do \in {"pins", "reset"} THEN Drive(tap, cmd) ELSE tap
  /\ quit' = IF ~gotFinish /\ cmd.do = "quit" THEN 1 ELSE quit
  /\ gotFinish' = (gotFinish \/ cmd.do = "quit")
  /\ ret' = IF cmd.do = "tdo" THEN (IF gotFinish THEN tap.tdo ELSE 1) ELSE ret
  /\ UNCHANGED <<pcMain, pcSys, mutex, cnt, cmd, uart_rx_str, top, uart, process, mirror,
                 reported, serverVars>>

\* setInputs, reset, quit and getTdo on a model that has not finished; after
\* $finish the pins are left alone and TDO reads as one.
JtagModel ==
  /\ pcJtag = "model" /\ pcJtag' = "unlock"
  /\ tap' = IF ~gotFinish /\ cmd.do \in {"pins", "reset"} THEN Drive(tap, cmd) ELSE tap
  /\ quit' = IF ~gotFinish /\ cmd.do = "quit" THEN 1 ELSE quit
  /\ gotFinish' = (gotFinish \/ cmd.do = "quit")
  /\ ret' = IF cmd.do = "tdo" THEN (IF gotFinish THEN 1 ELSE tap.tdo) ELSE ret
  /\ UNCHANGED <<pcMain, pcSys, mutex, cnt, cmd, uart_rx_str, top, uart, process, mirror,
                 reported, serverVars>>

\* After the critical section: 'Q' closes the server, 'R' answers.
JtagUnlock ==
  /\ pcJtag = "unlock"
  /\ Unlock("jtag")
  /\ pcJtag' = CASE cmd.do = "quit" -> "quit"
                 [] cmd.do = "tdo" -> "reply"
                 [] OTHER -> "loop"
  /\ cmd' = NoCommand
  /\ UNCHANGED <<pcMain, pcSys, cnt, ret, uart_rx_str, top, gotFinish, quit, tap,
                 uart, process, mirror, reported, serverVars>>

JtagQuit ==
  /\ pcJtag = "quit" /\ pcJtag' = "loop"
  /\ finish
  /\ UNCHANGED <<pcMain, pcSys, mutex, cnt, cmd, ret, uart_rx_str, top, gotFinish, quit, tap,
                 uart, process, mirror, reported, pipe, events, client, backlog, toServer,
                 budget, replies, wanted>>

\* Nobody handles SIGPIPE: writing to a client that has gone may kill the process.
JtagReply ==
  /\ pcJtag = "reply" /\ pcJtag' = "loop"
  /\ WriteReply(ret)
  /\ ret' = 1
  /\ process' \in {"running"} \cup (IF client = "closed" THEN {"killed"} ELSE {})
  /\ UNCHANGED <<pcMain, pcSys, mutex, cnt, cmd, uart_rx_str, top, gotFinish, quit, tap,
                 uart, mirror, reported>>

--------------------------------------------------------------------------------
(* The client, with a TAP of its own to know what to expect.                    *)

ClientSend ==
  \E c \in Commands :
    /\ Send(c, mirror.tdo)
    /\ mirror' = IF c.do \in {"pins", "reset"} THEN Drive(mirror, c) ELSE mirror
    /\ UNCHANGED <<pcMain, pcSys, pcJtag, mutex, cnt, cmd, ret, uart_rx_str, top, gotFinish,
                   quit, tap, uart, process, reported>>

Client == ClientSend \/ ((Connect \/ Close) /\ UNCHANGED harnessVars)

Main == CreateSys \/ CreateJtag \/ JoinSys \/ JoinJtag
SysTakes == SysLock("boot", "reset") \/ SysLock("loop", "check")
Sys == SysUnlock \/ SysReset \/ SysCheck \/ SysRise \/ SysFall
Jtag == JtagListen \/ JtagAccept \/ JtagRespond \/ JtagModel \/ JtagUnlock
        \/ JtagQuit \/ JtagReply

\* The process is gone and stays so.
Gone == process # "running" /\ UNCHANGED vars

Next ==
  \/ process = "running" /\ (Main \/ SysTakes \/ Sys \/ JtagLock \/ Jtag \/ Client)
  \/ Gone

Spec == Init /\ [][Next]_vars

\* The threads run.  A thread that waits for the mutex gets it in the end: both
\* sleep outside of it for that purpose.  Nothing is asked of the client.
Running(A) == process = "running" /\ A
FairSpec ==
  /\ Spec
  /\ WF_vars(Running(Main))
  /\ WF_vars(Running(Sys))
  /\ WF_vars(Running(Jtag))
  /\ SF_vars(Running(SysTakes))
  /\ SF_vars(Running(JtagLock))

--------------------------------------------------------------------------------
InModelSys == pcSys \in {"reset", "check", "rise", "fall"}
InModelJtag == pcJtag = "model"

\* The Verilator model is in the hands of one thread at a time (th_arg: "Needs to
\* be guarded by the mutex"), which holds the mutex, and it is deleted only when
\* no thread can touch it any more.
ModelGuarded ==
  /\ InModelSys => mutex = "sys" /\ top = "alive"
  /\ InModelJtag => mutex = "jtag" /\ top = "alive"
  /\ top = "deleted" => pcSys = "ended" /\ pcJtag = "ended"

\* No character of the UART is missed or collected twice, though the thread looks
\* once per clock and the JTAG thread evaluates the model in between.  The one
\* shown in the cycle of $finish is the exception: nobody looks again.
MessageWhole ==
  LET seen == pcSys = "rise" \/ uart \notin Bytes
  IN reported = IF seen THEN uart_rx_str ELSE Append(uart_rx_str, uart)

\* The answers to the reads are, in order, the TDO that the client's own commands
\* produce, whatever the system clock does meanwhile; after $finish they are ones.
AnswersMatch ==
  /\ Len(replies) <= Len(wanted)
  /\ \A i \in DOMAIN replies : replies[i] = wanted[i] \/ (gotFinish /\ replies[i] = 1)

\* The program ends by itself once the simulation has finished, unless a client
\* is connected: accept() is woken by the pipe, in whatever order it comes in with
\* a connection.
EndsAlone == gotFinish ~> (process # "running" \/ clientfd)

\* 'Q' ends the program, also when it arrives with the timeout or with $finish.
QuitEnds == (cmd.do = "quit") ~> process # "running"

\* verilator/README.md: "The simulation remote bitbang server gets closed when the
\* simulation finishes (either on timeout, or by Verilog's $finish)".
ServerCloses == gotFinish ~> (finished \/ process # "running")
================================================================================
