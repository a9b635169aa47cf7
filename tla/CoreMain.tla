--------------------------------- MODULE CoreMain ---------------------------------
(***************************************************************************)
(* The main program of CoreMark (sw/coremark/core_main.c) and its parallel *)
(* contexts (core_portme.c of the Linux ports): how many iterations to     *)
(* make, starting and collecting the contexts, and the verdict.  A context *)
(* is a thread, a forked child that leaves its results in shared memory,   *)
(* or a forked child that sends them in a datagram.                        *)
(*                                                                         *)
(* What a context's results hold is told by where they come from: "junk"   *)
(* (never set), "calibration" (the main program's own trial runs), "zero"  *)
(* and "old" (a shared segment, fresh or left by an earlier program), or   *)
(* "own".  CoreBench models how the values come about: runs with the same  *)
(* seeds leave the same checksums.                                         *)
(***************************************************************************)
EXTENDS CoreUtil

CONSTANTS Ports,     \* the ports built
          Commands,  \* [argv, M, iterations, data, rate, pointer]: the arguments after M<n> and
                     \* its number (-1: none), the iterations and the size of the data built
                     \* in, the microseconds an iteration takes and the bytes of a pointer
                     \* on the machine
          Moments,   \* when the clock may be started
          MULTITHREAD,
          Segments   \* what a shared segment may hold at first: "zero", "old"

ASSUME MultithreadAssumption == MULTITHREAD \in Nat \ {0}
ASSUME InputsAssumption ==
  /\ \A p \in Ports : p.methods \subseteq Parallel /\ p.clock \in {"timespec", "clock", "cycles"}
  /\ \A c \in Commands : c.M \in Int /\ c.rate \in Nat
  /\ Moments \subseteq Nat /\ Segments \subseteq {"zero", "old"}

VARIABLES pc, port, method, command,
          seeds,
          id,        \* known_id, which the seeds and the size of the data make
          iterations, contexts,
          time,      \* total_time of the last measured run, in ticks
          took,      \* history: what it took, in microseconds
          next,      \* the context to be started or collected next
          child,     \* child[c]: none, running, ran, stopped, killed, exited, reaped
          forked,    \* forked[c]: fork or pthread_create succeeded
          segment,   \* segment[c]: the shared memory, "lost" where shmget failed
          datagram,  \* datagram[c] at the parent's socket: "none", "queued"; or there is
                     \* no socket ("failed") or it has no port ("unbound")
          results,   \* results[c]: where the results of context c come from
          verdict
given  == <<port, method, command, seeds, id, contexts>>
others == <<forked, segment, datagram>>
vars == <<pc, given, iterations, time, took, next, child, others, results, verdict>>

Contexts == 0 .. MULTITHREAD - 1

\* M<n> as first argument; without it all contexts the build allows for.
portable_init(M) == IF M \in 0 .. MULTITHREAD THEN M ELSE MULTITHREAD

\* The seeds are 16 bits wide; an override of the size is the seventh argument.
Seed(p, c, i) == get_seed_32(p, i, c.argv, c.data, c.iterations)
get_seed(p, c, i) == ((Seed(p, c, i) + 32768) % 65536) - 32768
Execs(p, c) == IF Seed(p, c, 5) = 0 THEN 7 ELSE Seed(p, c, 5)
\* The iterations are a number, and at least one algorithm is selected.
ASSUME SeedsAssumption ==
  \A p \in Ports, c \in Commands :
    Seed(p, c, 4) \in Nat /\ NumAlgorithms(Execs(p, c)) \in Nat \ {0}
Size == LET given_size == IF port.seeds = "arguments" THEN get_seed(port, command, 7) ELSE 0
        IN  SizeEach(IF given_size = 0 THEN command.data ELSE given_size, Execs(port, command))

Init ==
  /\ port \in Ports
  /\ method \in port.methods
  /\ command \in Commands
  /\ seeds = DefaultSeeds([i \in 1 .. 3 |-> get_seed(port, command, i)])
  /\ id = known_id(seeds, Size)
  /\ iterations = Seed(port, command, 4)
  /\ contexts = IF method = "single" THEN 1 ELSE portable_init(command.M)
  /\ segment \in IF method = "fork" THEN [Contexts -> Segments] ELSE [Contexts -> {"zero"}]
  /\ pc = IF iterations = 0 THEN "calibrate" ELSE "start"
  /\ time = 0 /\ took = 0 /\ next = 0
  /\ child = [c \in Contexts |-> "none"] /\ forked = [c \in Contexts |-> FALSE]
  /\ datagram = [c \in Contexts |-> "none"]
  /\ results = [c \in Contexts |-> "junk"]
  /\ verdict = "none"

\* A run between start_time and stop_time.
Elapsed(duration) == {get_time(port, start, start + duration) : start \in Moments}

\* One trial with ten times the iterations, from 1; the first that takes a second
\* sets the number of the real run.
Factor(secs) == 1 + 10 \div secs

Calibrate ==
  /\ pc = "calibrate"
  /\ LET tried == IF iterations = 0 THEN 10 ELSE 10 * iterations
     IN  \E ticks \in Elapsed(tried * command.rate) :
           LET secs == time_in_secs(port, ticks)
           IN  IF secs < 1 THEN iterations' = tried /\ UNCHANGED pc
               ELSE /\ iterations' = tried * Factor(secs)
                    /\ pc' = "start"
  /\ results' = [results EXCEPT ![0] = "calibration"]
  /\ UNCHANGED <<given, time, took, next, child, others, verdict>>

Measured(duration) ==
  /\ took' = duration
  /\ time' \in Elapsed(duration)

\* The only context of a build without parallel contexts.
RunSingle ==
  /\ pc = "start" /\ method = "single"
  /\ results' = [results EXCEPT ![0] = "own"]
  /\ Measured(iterations * command.rate)
  /\ pc' = "report"
  /\ UNCHANGED <<given, iterations, next, child, others, verdict>>

\* core_start_parallel.  The return value of pthread_create, a failed fork and a
\* failed shmget change nothing in the course of the main program.
Starts(way) ==
  /\ pc = "start" /\ method = way /\ next < contexts
  /\ \E ok \in BOOLEAN :
       /\ forked' = [forked EXCEPT ![next] = ok]
       /\ child' = [child EXCEPT ![next] = IF ok THEN "running" ELSE "none"]
  /\ UNCHANGED <<given, iterations, time, took, datagram, results, verdict>>

StartThread ==
  /\ Starts("pthread")
  /\ next' = next + 1
  /\ UNCHANGED <<pc, segment>>

StartFork ==
  /\ Starts("fork")
  /\ segment' \in {segment, [segment EXCEPT ![next] = "lost"]}
  /\ next' = next + 1
  /\ UNCHANGED pc

\* The child may be through before its parent has made and bound the socket: two steps.
\* What fails is reported and the program goes on.
StartSocket ==
  /\ Starts("socket")
  /\ pc' = "bind"
  /\ UNCHANGED <<next, segment>>

Bind ==
  /\ pc = "bind"
  /\ \E now \in {"none", "unbound", "failed"} : datagram' = [datagram EXCEPT ![next] = now]
  /\ next' = next + 1
  /\ pc' = "start"
  /\ UNCHANGED <<given, iterations, time, took, child, forked, segment, results, verdict>>

AllStarted ==
  /\ pc = "start" /\ method # "single" /\ next = contexts
  /\ pc' = "stop" /\ next' = 0
  /\ UNCHANGED <<given, iterations, time, took, child, others, results, verdict>>

--------------------------------------------------------------------------------
\* A context: iterate, then hand over the results, then exit.  A thread's results
\* are the main program's; a child stops when its memory or its socket fails.
Runs(c) ==
  /\ child[c] = "running"
  /\ child' = [child EXCEPT ![c] = "ran"]
  /\ results' = IF method = "pthread" THEN [results EXCEPT ![c] = "own"] ELSE results
  /\ UNCHANGED <<pc, given, iterations, time, took, next, others, verdict>>

\* A datagram to a port nobody has bound is lost; Bind finds none queued.
HandsOver(c) ==
  /\ child[c] = "ran"
  /\ child' = [child EXCEPT ![c] = "exited"]
  /\ segment' = IF method = "fork" /\ segment[c] # "lost"
                THEN [segment EXCEPT ![c] = "own"] ELSE segment
  /\ datagram' = IF method = "socket" /\ datagram[c] = "none"
                 THEN [datagram EXCEPT ![c] = "queued"] ELSE datagram
  /\ UNCHANGED <<pc, given, iterations, time, took, next, forked, results, verdict>>

\* Somebody stops or kills a child before it is through.
Interrupted(c) ==
  /\ child[c] \in {"running", "ran"} /\ method \in {"fork", "socket"}
  /\ \E how \in {"stopped", "killed"} : child' = [child EXCEPT ![c] = how]
  /\ UNCHANGED <<pc, given, iterations, time, took, next, others, results, verdict>>

--------------------------------------------------------------------------------
\* waitpid(pid, WUNTRACED): a child that exited, was killed, or is stopped.  For a
\* fork that failed the pid is -1, and the call waits for any child.
Waitable(c) == child[c] \in {"exited", "killed", "stopped"}
Reaped(c)   == [child EXCEPT ![c] = IF @ = "stopped" THEN @ ELSE "reaped"]
Alive       == {c \in Contexts : child[c] \notin {"none", "reaped"}}

\* What the call returns for context c, compared with the pid: TRUE and the
\* children after it, or FALSE.  Without any child left it is -1 at once, which is
\* the pid of a fork that failed.
waitpid(c) ==
  IF forked[c]
  THEN IF child[c] = "reaped" THEN {[same |-> FALSE, child |-> child]}
       ELSE IF Waitable(c) THEN {[same |-> TRUE, child |-> Reaped(c)]} ELSE {}
  ELSE IF Alive = {} THEN {[same |-> TRUE, child |-> child]}
       ELSE {[same |-> FALSE, child |-> Reaped(d)] : d \in {d \in Alive : Waitable(d)}}

StopFork(c) ==
  \E w \in waitpid(c) :
    /\ child' = w.child
    /\ results' = IF w.same /\ segment[c] # "lost"
                  THEN [results EXCEPT ![c] = segment[c]] ELSE results

\* The datagram first, then the child: without a datagram the call never returns,
\* without a socket at once and with an error.
StopSocket(c) ==
  \/ /\ datagram[c] = "queued"
     /\ results' = [results EXCEPT ![c] = "own"]
     /\ \E w \in waitpid(c) : child' = w.child
  \/ datagram[c] = "failed" /\ UNCHANGED <<child, results>>

\* Joining a thread that was never created is undefined: an error, or no verdict.
StopThread(c) ==
  /\ forked[c] => child[c] = "exited"
  /\ UNCHANGED <<child, results>>

\* Mutant: waits again for a child that brought nothing.
core_stop_parallel_Retry ==
  /\ pc = "stop" /\ next < contexts
  /\ CASE method = "fork"   -> StopFork(next)
       [] method = "socket" -> StopSocket(next)
       [] OTHER             -> StopThread(next)
  /\ pc' \in {pc} \cup (IF method = "pthread" /\ ~forked[next] THEN {"crashed"} ELSE {})
  /\ next' = IF method = "fork" /\ results' = results THEN next ELSE next + 1
  /\ UNCHANGED <<given, iterations, time, took, others, verdict>>

core_stop_parallel ==
  /\ pc = "stop" /\ next < contexts
  /\ CASE method = "fork"   -> StopFork(next)
       [] method = "socket" -> StopSocket(next)
       [] OTHER             -> StopThread(next)
  /\ pc' \in {pc} \cup (IF method = "pthread" /\ ~forked[next] THEN {"crashed"} ELSE {})
  /\ next' = next + 1
  /\ UNCHANGED <<given, iterations, time, took, others, verdict>>

\* The contexts run side by side, each on a processor of its own; no run takes
\* long where none was completed.
AllStopped ==
  /\ pc = "stop" /\ next = contexts
  /\ \/ contexts > 0 /\ Measured(iterations * command.rate)
     \/ (\A c \in Contexts : results[c] # "own") /\ Measured(0)
  /\ pc' = "report"
  /\ UNCHANGED <<given, iterations, next, child, others, results, verdict>>

--------------------------------------------------------------------------------
\* The checksums are right in results that come from a run with these seeds.
Right(source) == source \in {"own", "old", "calibration"}
Algorithms    == NumAlgorithms(Execs(port, command))
Known         == id >= 0
Short         == time_in_secs(port, time) < 10

\* Mutant: the errors of a context are set, not added up.
ContextErrors_Last == IF contexts > 0 /\ ~Right(results[contexts - 1]) THEN Algorithms ELSE 0

\* One for each selected algorithm of each context whose checksums differ.
ContextErrors == Algorithms * Cardinality({c \in 0 .. contexts - 1 : ~Right(results[c])})

\* Those, or -1 for unknown seeds, and one for types of a wrong size and a short run.
Report ==
  /\ pc = "report"
  /\ LET total_errors == (IF Known THEN ContextErrors ELSE -1)
                         + check_data_types(port, command.pointer) + (IF Short THEN 1 ELSE 0)
     IN  verdict' = CASE total_errors = 0 -> "validated"
                      [] total_errors > 0 -> "errors"
                      [] OTHER            -> "cannot validate"
  /\ pc' = "done"
  /\ UNCHANGED <<given, iterations, time, took, next, child, others, results>>

\* The main program waits for a datagram no one will send.
NoDatagram ==
  /\ method = "socket" /\ pc = "stop" /\ next < contexts
  /\ \/ datagram[next] = "none" /\ child[next] \notin {"running", "ran"}
     \/ datagram[next] = "unbound"

Done == (pc \in {"done", "crashed"} \/ NoDatagram) /\ UNCHANGED vars

Main == \/ Calibrate \/ RunSingle \/ StartThread \/ StartFork \/ StartSocket \/ Bind \/ AllStarted
        \/ core_stop_parallel \/ AllStopped \/ Report
Context(c) == Runs(c) \/ HandsOver(c)
Next == Main \/ (\E c \in Contexts : Context(c) \/ Interrupted(c)) \/ Done

\* The main program and each context get to run.
Spec == Init /\ [][Next]_vars /\ WF_vars(Main) /\ \A c \in Contexts : WF_vars(Context(c))

--------------------------------------------------------------------------------
ByTrial == Seed(port, command, 4) = 0

\* With seeds and size the program knows, the results a verdict "validated" rests on
\* are the contexts' own, whatever failed on the way: but for context 0 after trial
\* runs, whose results stand when its start fails, and for a segment that still holds
\* an earlier program's.  With others no checksum is compared.
Collected ==
  verdict = "validated" /\ Known =>
    \A c \in 0 .. contexts - 1 :
      \/ results[c] = "own"
      \/ c = 0 /\ ByTrial
      \/ segment[c] = "old"

\* The time told is what the run took, to a tick, unless the cycle counter went
\* round; and a run whose iterations are chosen by trial is long enough to be
\* valid, and not much longer, unless ten iterations are too long already.
TimedRight ==
  verdict # "none" /\ (\E c \in Contexts : results[c] = "own") =>
    /\ port.clock # "cycles" \/ took < Wrap
       => LET tick == Second \div EE_TICKS_PER_SEC(port)
          IN  time * tick \in took - tick .. took + tick
    /\ ByTrial => /\ took >= 10 * Second
                  /\ took > 22 * Second => 10 * command.rate >= 11 * Second

\* Whatever becomes of the contexts, there is a verdict, except where a datagram
\* is missing or a thread that never was is joined.
Reports == <>(verdict # "none" \/ NoDatagram \/ pc = "crashed")

\* "Must execute for at least 10 secs for a valid result!"
ShortRunsInvalid == verdict = "validated" => ~Short
================================================================================
