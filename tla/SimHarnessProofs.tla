---------------------------- MODULE SimHarnessProofs ----------------------------
(***************************************************************************)
(* For any client, UART, timeout and bounds: the Verilator model is        *)
(* guarded (who is inside it holds the mutex, and it is deleted after both *)
(* threads have ended), no character of the UART is lost or doubled, and   *)
(* the answers to a client are the TDO its own commands imply.             *)
(***************************************************************************)
EXTENDS SimHarness, TLAPS

\* Where a thread is while it holds the mutex.
HoldsSys == pcSys \in {"reset", "check", "rise", "fall", "unlock", "done"}
HoldsJtag == pcJtag \in {"model", "unlock"}

\* The mutex and the program counters agree, and main is never ahead of a thread
\* it joins: ModelGuarded says nothing of who holds the mutex outside the model.
GuardInv ==
  /\ mutex = "sys" <=> HoldsSys
  /\ mutex = "jtag" <=> HoldsJtag
  /\ pcMain \in {"create", "create jtag", "join sys", "join jtag", "end"}
  /\ top = IF pcMain = "end" THEN "deleted" ELSE "alive"
  /\ pcMain = "create" => pcSys = "new"
  /\ pcMain \in {"create", "create jtag"} => pcJtag = "new"
  /\ pcMain \in {"join jtag", "end"} => pcSys = "ended"
  /\ pcMain = "end" => pcJtag = "ended"

\* GuardInv holds at the start and is kept by every step of every thread.
LEMMA GuardInit == Init => GuardInv
  BY DEF Init, GuardInv, HoldsSys, HoldsJtag

LEMMA GuardMain == ASSUME GuardInv, Main PROVE GuardInv'
  BY DEF GuardInv, HoldsSys, HoldsJtag, Main, CreateSys, CreateJtag, JoinSys, JoinJtag

LEMMA GuardSys == ASSUME GuardInv, SysTakes \/ Sys PROVE GuardInv'
<1>1. CASE SysTakes
  BY <1>1 DEF GuardInv, HoldsSys, HoldsJtag, SysTakes, SysLock, Lock
<1>2. CASE SysUnlock
  BY <1>2 DEF GuardInv, HoldsSys, HoldsJtag, SysUnlock, Unlock
<1>3. CASE SysReset \/ SysCheck
  BY <1>3 DEF GuardInv, HoldsSys, HoldsJtag, SysReset, SysCheck
<1>4. CASE SysRise \/ SysFall
  BY <1>4 DEF GuardInv, HoldsSys, HoldsJtag, SysRise, SysFall
<1> QED BY <1>1, <1>2, <1>3, <1>4 DEF Sys

LEMMA GuardJtag == ASSUME GuardInv, JtagLock \/ Jtag PROVE GuardInv'
<1>1. CASE JtagLock
  BY <1>1 DEF GuardInv, HoldsSys, HoldsJtag, JtagLock, Lock
<1>2. CASE JtagListen \/ JtagAccept \/ JtagRespond
  BY <1>2 DEF GuardInv, HoldsSys, HoldsJtag, JtagListen, JtagAccept, JtagRespond
<1>3. CASE JtagUnlock
  <2>1. pcJtag' \in {"quit", "reply", "loop"}
    BY <1>3 DEF JtagUnlock
  <2> QED BY <1>3, <2>1 DEF GuardInv, HoldsSys, HoldsJtag, JtagUnlock, Unlock
<1>4. CASE JtagModel
  BY <1>4 DEF GuardInv, HoldsSys, HoldsJtag, JtagModel
<1>5. CASE JtagQuit \/ JtagReply
  BY <1>5 DEF GuardInv, HoldsSys, HoldsJtag, JtagQuit, JtagReply
<1> QED BY <1>1, <1>2, <1>3, <1>4, <1>5 DEF Jtag

\* The client and a process that is gone leave the threads alone.
LEMMA GuardRest == ASSUME GuardInv, Client \/ Gone \/ UNCHANGED vars PROVE GuardInv'
<1>1. UNCHANGED <<pcMain, pcSys, pcJtag, mutex, top>>
  BY DEF Client, ClientSend, Gone, vars, harnessVars
<1> QED BY <1>1 DEF GuardInv, HoldsSys, HoldsJtag

\* GuardInv is inductive: each thread takes and gives back the mutex where its
\* program counter says so.
THEOREM GuardInvariant == Spec => []GuardInv
<1>1. GuardInv /\ [Next]_vars => GuardInv'
  BY GuardMain, GuardSys, GuardJtag, GuardRest DEF Next
<1> QED BY GuardInit, <1>1, PTL DEF Spec

\* The model is in the hands of one thread at a time, which holds the mutex, and is
\* deleted when no thread can touch it (sim.cpp, th_arg and the two joins of main).
THEOREM Guarded == Spec => []ModelGuarded
<1>1. GuardInv => ModelGuarded
  BY DEF GuardInv, ModelGuarded, HoldsSys, HoldsJtag, InModelSys, InModelJtag
<1> QED BY GuardInvariant, <1>1, PTL

--------------------------------------------------------------------------------
(* The characters of the UART.                                                  *)

\* MessageWhole forgets that nothing has been shown while the model is in reset, which
\* is when what the UART shows is overwritten.
MessageInv ==
  /\ MessageWhole
  /\ pcSys \in {"new", "boot", "reset"} => uart \notin Bytes

\* The system thread collects a character before the next one can be shown.
LEMMA MessageSys == ASSUME MessageInv, SysTakes \/ Sys PROVE MessageInv'
<1> USE HarnessAssumption DEF MessageInv, MessageWhole
<1>1. CASE SysTakes
  BY <1>1 DEF SysTakes, SysLock
<1>2. CASE SysUnlock
  BY <1>2 DEF SysUnlock
<1>3. CASE SysReset
  BY <1>3 DEF SysReset
<1>4. CASE SysCheck
  BY <1>4 DEF SysCheck
<1>5. CASE SysRise
  BY <1>5 DEF SysRise
<1>6. CASE SysFall
  BY <1>6 DEF SysFall
<1> QED BY <1>1, <1>2, <1>3, <1>4, <1>5, <1>6 DEF Sys

\* Nobody else touches what the UART shows or the string.
LEMMA MessageRest ==
  ASSUME GuardInv, MessageInv, Main \/ JtagLock \/ Jtag \/ Client \/ Gone \/ UNCHANGED vars
  PROVE  MessageInv'
<1> USE DEF MessageInv, MessageWhole
<1>1. CASE Main
  BY <1>1 DEF GuardInv, Main, CreateSys, CreateJtag, JoinSys, JoinJtag
<1>2. CASE JtagLock \/ JtagListen \/ JtagAccept \/ JtagRespond
  BY <1>2 DEF JtagLock, JtagListen, JtagAccept, JtagRespond
<1>3. CASE JtagModel \/ JtagUnlock \/ JtagQuit \/ JtagReply
  BY <1>3 DEF JtagModel, JtagUnlock, JtagQuit, JtagReply
<1>4. CASE Client \/ Gone \/ UNCHANGED vars
  BY <1>4 DEF Client, ClientSend, Gone, vars, harnessVars
<1> QED BY <1>1, <1>2, <1>3, <1>4 DEF Jtag

\* What is collected is what the UART has shown, each character once and in order, but for
\* one that is just being shown: if it is that of the cycle of $finish, it is never
\* collected (sys_thrd of sim.cpp looks once per clock; SimHarness.MessageWhole).
THEOREM MessagesAreWhole == Spec => []MessageWhole
<1>1. Init => MessageInv
  BY HarnessAssumption DEF Init, MessageInv, MessageWhole
<1>2. GuardInv /\ MessageInv /\ [Next]_vars => MessageInv'
  BY MessageSys, MessageRest DEF Next
<1>3. MessageInv => MessageWhole
  BY DEF MessageInv
<1> QED BY GuardInvariant, <1>1, <1>2, <1>3, PTL DEF Spec

--------------------------------------------------------------------------------
(* The answers to the client.                                                   *)

Taps == [tck : Bits, bit : Bits, tdo : Bits]
Apply(t, c) == IF c.do \in {"pins", "reset"} THEN Drive(t, c) ELSE t
Asks(c) == IF c.do = "tdo" THEN 1 ELSE 0

\* The TAP once the command in the JTAG thread's hands is done, and how many answers
\* there will be then.
Executing == pcJtag \in {"command", "model"}
Answered == (pcJtag = "unlock" /\ cmd.do = "tdo") \/ pcJtag = "reply"
settled == IF Executing THEN Apply(tap, cmd) ELSE tap
due == Len(replies) + (IF (Executing /\ cmd.do = "tdo") \/ Answered THEN 1 ELSE 0)

\* The commands on their way lead from the TAP to the client's own: t[i] is the TAP and n[i]
\* the number of answers before the i-th of them.  After $finish the TAP stands still.
Leads(t, n) ==
  /\ t \in [1 .. Len(toServer) + 1 -> Taps]
  /\ n \in [1 .. Len(toServer) + 1 -> 0 .. Len(wanted)]
  /\ ~gotFinish => t[1] = settled
  /\ n[1] = due
  /\ t[Len(toServer) + 1] = mirror /\ n[Len(toServer) + 1] = Len(wanted)
  /\ \A i \in 1 .. Len(toServer) :
       /\ t[i + 1] = Apply(t[i], toServer[i])
       /\ n[i + 1] = n[i] + Asks(toServer[i])
       /\ toServer[i].do = "tdo" => wanted[n[i + 1]] = t[i].tdo

\* The answer in the JTAG thread's hands is the one the client wants next.
NextAnswer ==
  /\ Executing /\ cmd.do = "tdo" /\ ~gotFinish => tap.tdo = wanted[Len(replies) + 1]
  /\ Answered => ret = wanted[Len(replies) + 1] \/ (gotFinish /\ ret = 1)

AnswerTypes ==
  /\ tap \in Taps /\ mirror \in Taps /\ ret \in Bits
  /\ toServer \in Seq(Commands) /\ replies \in Seq(Bits) /\ wanted \in Seq(Bits)
  /\ cmd \in Commands \cup {NoCommand}
  /\ gotFinish \in BOOLEAN

\* AnswersMatch looks back only.  What makes the next answer right is that the commands on
\* their way take the TAP to where the client believes it to be; of a client that has
\* gone nothing is known, as the server then executes whatever letter it has.
AnswersInv ==
  /\ AnswerTypes
  /\ AnswersMatch
  /\ client # "closed" => NextAnswer /\ \E t, n : Leads(t, n)

LEMMA DriveType == ASSUME NEW t \in Taps, NEW c \in Commands PROVE Apply(t, c) \in Taps
<1>1. CASE c.do = "pins"
  <2>1. c \in PinCommands
    BY <1>1 DEF Commands
  <2>2. c.tck \in Bits /\ c.tdi \in Bits
    BY <2>1 DEF PinCommands
  <2> QED BY <1>1, <2>2 DEF Apply, Drive, Taps
<1>2. CASE c.do = "reset"
  BY <1>2 DEF Apply, Drive, Taps, TapReset, Bits
<1> QED BY <1>1, <1>2 DEF Apply

LEMMA AnswersInit == Init => AnswersInv
<1> SUFFICES ASSUME Init PROVE AnswersInv
  OBVIOUS
<1> USE DEF Init, ServerInit
<1>1. AnswerTypes
  <2>1. TapReset \in Taps /\ 1 \in Bits
    BY DEF Taps, TapReset, Bits
  <2>2. <<>> \in Seq(Commands) /\ <<>> \in Seq(Bits)
    OBVIOUS
  <2> QED BY <2>1, <2>2 DEF AnswerTypes
<1>2. AnswersMatch
  BY DEF AnswersMatch
<1>3. NextAnswer
  BY DEF NextAnswer, Executing, Answered
<1>4. Len(toServer) = 0 /\ Len(wanted) = 0 /\ settled = TapReset /\ due = 0 /\ mirror = TapReset
  BY DEF settled, due, Executing, Answered
<1>5. Leads([i \in 1 .. 1 |-> TapReset], [i \in 1 .. 1 |-> 0])
  BY <1>1, <1>4 DEF Leads, AnswerTypes
<1> QED BY <1>1, <1>2, <1>3, <1>5 DEF AnswersInv

\* A step that touches neither the commands, nor the TAP, nor the answers.
Quiet ==
  /\ UNCHANGED <<toServer, wanted, mirror, replies, tap, ret, cmd>>
  /\ Executing' <=> Executing
  /\ Answered' <=> Answered
  /\ gotFinish' \in BOOLEAN /\ (gotFinish => gotFinish')
  /\ client' # "closed" => client # "closed"

LEMMA QuietStep == ASSUME AnswersInv, Quiet PROVE AnswersInv'
<1>1. AnswerTypes'
  BY DEF AnswersInv, AnswerTypes, Quiet
<1>2. AnswersMatch'
  BY DEF AnswersInv, AnswersMatch, Quiet
<1>3. ASSUME client' # "closed" PROVE NextAnswer' /\ \E t, n : Leads(t, n)'
  <2>1. NextAnswer'
    BY <1>3 DEF AnswersInv, NextAnswer, Quiet
  <2>2. settled' = settled /\ due' = due
    BY DEF Quiet, settled, due
  <2>3. PICK t, n : Leads(t, n)
    BY <1>3 DEF AnswersInv, Quiet
  <2>4. Leads(t, n)'
    BY <2>2, <2>3 DEF Leads, Quiet
  <2> QED BY <2>1, <2>4
<1> QED BY <1>1, <1>2, <1>3 DEF AnswersInv

\* A command reaches the server's socket.
LEMMA SendStep == ASSUME AnswersInv, ClientSend PROVE AnswersInv'
<1>1. PICK c \in Commands :
        /\ Send(c, mirror.tdo)
        /\ mirror' = Apply(mirror, c)
        /\ UNCHANGED <<pcJtag, cmd, ret, gotFinish, tap, replies, client>>
  BY DEF ClientSend, Send, Apply
<1>2. /\ toServer' = Append(toServer, c) /\ client = "connected"
      /\ wanted' = IF c.do = "tdo" THEN Append(wanted, mirror.tdo) ELSE wanted
  BY <1>1 DEF Send
<1>3. AnswerTypes
  BY DEF AnswersInv
<1>4. mirror.tdo \in Bits /\ mirror' \in Taps
  BY <1>1, <1>3, DriveType DEF AnswerTypes, Taps
<1>5. AnswerTypes'
  BY <1>1, <1>2, <1>3, <1>4 DEF AnswerTypes
<1>6. /\ Len(wanted') = Len(wanted) + Asks(c) /\ Len(wanted) \in Nat
      /\ \A i \in 1 .. Len(wanted) : wanted'[i] = wanted[i]
      /\ c.do = "tdo" => wanted'[Len(wanted) + 1] = mirror.tdo
  BY <1>2, <1>3, <1>4 DEF AnswerTypes, Asks
<1>7. /\ Len(toServer') = Len(toServer) + 1 /\ Len(toServer) \in Nat
      /\ \A i \in 1 .. Len(toServer) : toServer'[i] = toServer[i]
      /\ toServer'[Len(toServer) + 1] = c
  BY <1>2, <1>3 DEF AnswerTypes
<1>8. AnswersMatch'
  <2>1. Len(wanted') >= Len(wanted) /\ Len(replies) \in Nat /\ DOMAIN replies = 1 .. Len(replies)
    BY <1>3, <1>6 DEF AnswerTypes, Asks
  <2>2. Len(replies) <= Len(wanted)
    BY DEF AnswersInv, AnswersMatch
  <2>3. \A i \in DOMAIN replies : i \in 1 .. Len(wanted)
    BY <1>6, <2>1, <2>2
  <2> QED BY <1>1, <1>6, <2>1, <2>2, <2>3 DEF AnswersInv, AnswersMatch
<1>9. PICK t, n : Leads(t, n)
  BY <1>2 DEF AnswersInv
<1>10. Len(replies) \in Nat /\ due <= Len(wanted) /\ due \in Nat
  <2>1. n[1] \in 0 .. Len(wanted)
    BY <1>7, <1>9 DEF Leads
  <2> QED BY <1>3, <1>6, <1>9, <2>1 DEF Leads, AnswerTypes
<1>11. NextAnswer'
  <2>1. (Executing /\ cmd.do = "tdo") \/ Answered => Len(replies) + 1 \in 1 .. Len(wanted)
    BY <1>6, <1>10 DEF due
  <2> QED BY <1>1, <1>2, <1>6, <2>1 DEF AnswersInv, NextAnswer, Executing, Answered
<1>12. settled' = settled /\ due' = due
  BY <1>1 DEF settled, due, Executing, Answered
<1> DEFINE m == Len(toServer)
<1> PICK t2, n2 :
      /\ t2 = [i \in 1 .. m + 2 |-> IF i <= m + 1 THEN t[i] ELSE mirror']
      /\ n2 = [i \in 1 .. m + 2 |-> IF i <= m + 1 THEN n[i] ELSE Len(wanted')]
  OBVIOUS
<1>13. Leads(t2, n2)'
  <2>1. /\ t2 \in [1 .. Len(toServer') + 1 -> Taps]
        /\ n2 \in [1 .. Len(toServer') + 1 -> 0 .. Len(wanted')]
    <3>1. Asks(c) \in {0, 1}
      BY DEF Asks
    <3> QED BY <1>4, <1>6, <1>7, <1>9, <3>1 DEF Leads
  <2>2. /\ \A i \in 1 .. m + 1 : t2[i] = t[i] /\ n2[i] = n[i]
        /\ t2[m + 2] = mirror' /\ n2[m + 2] = Len(wanted')
    BY <1>7
  <2>3. (~gotFinish' => t2[1] = settled') /\ n2[1] = due'
    BY <1>1, <1>7, <1>9, <1>12, <2>2 DEF Leads
  <2>4. t2[Len(toServer') + 1] = mirror' /\ n2[Len(toServer') + 1] = Len(wanted')
    BY <1>7, <2>2
  <2>5. ASSUME NEW i \in 1 .. Len(toServer')
        PROVE  /\ t2[i + 1] = Apply(t2[i], toServer'[i])
               /\ n2[i + 1] = n2[i] + Asks(toServer'[i])
               /\ toServer'[i].do = "tdo" => wanted'[n2[i + 1]] = t2[i].tdo
    <3>1. CASE i <= m
      <4>1. i \in 1 .. m /\ i \in 1 .. m + 1 /\ i + 1 \in 1 .. m + 1
        BY <1>7, <3>1
      <4>2. /\ t[i + 1] = Apply(t[i], toServer[i])
            /\ n[i + 1] = n[i] + Asks(toServer[i])
            /\ toServer[i].do = "tdo" => wanted[n[i + 1]] = t[i].tdo
            /\ n[i] \in 0 .. Len(wanted) /\ n[i + 1] \in 0 .. Len(wanted)
        BY <1>9, <4>1 DEF Leads
      <4>3. toServer[i].do = "tdo" => n[i + 1] \in 1 .. Len(wanted)
        BY <1>6, <4>2 DEF Asks
      <4> QED BY <1>6, <1>7, <2>2, <4>1, <4>2, <4>3
    <3>2. CASE i = m + 1
      <4>1. t2[i] = mirror /\ n2[i] = Len(wanted) /\ i + 1 = m + 2 /\ toServer'[i] = c
        BY <1>7, <1>9, <2>2, <3>2 DEF Leads
      <4> QED BY <1>1, <1>6, <2>2, <4>1 DEF Asks
    <3> QED BY <1>7, <3>1, <3>2
  <2> QED BY <2>1, <2>3, <2>4, <2>5 DEF Leads
<1> QED BY <1>5, <1>8, <1>11, <1>13 DEF AnswersInv

\* The server takes the next command from its socket, or makes one up when the client
\* has gone.
LEMMA RespondStep == ASSUME AnswersInv, JtagRespond PROVE AnswersInv'
<1>1. /\ UNCHANGED <<client, wanted, mirror, replies, tap, ret, gotFinish>> /\ pcJtag = "loop"
  BY DEF JtagRespond, ReadFails, ReadCommand, serverVars
<1>2. AnswerTypes
  BY DEF AnswersInv
<1>3. CASE UNCHANGED <<toServer, cmd>> /\ pcJtag' \in {"loop", "ended"}
  BY <1>1, <1>2, <1>3, QuietStep DEF Quiet, Executing, Answered, AnswerTypes
<1>4. ASSUME NEW c \in Commands, ReadCommand(c),
             IF c.do = "other" THEN UNCHANGED <<cmd, pcJtag>> ELSE cmd' = c /\ pcJtag' = "command"
      PROVE  AnswersInv'
  <2>1. AnswerTypes'
    <3>1. toServer' \in Seq(Commands)
      <4>1. toServer \in Seq(Commands)
        BY <1>2 DEF AnswerTypes
      <4>2. toServer' = toServer \/ (toServer # <<>> /\ toServer' = Tail(toServer))
        BY <1>4 DEF ReadCommand
      <4> QED BY <4>1, <4>2
    <3>2. cmd' \in Commands \cup {NoCommand}
      BY <1>2, <1>4 DEF AnswerTypes
    <3> QED BY <1>1, <1>2, <3>1, <3>2 DEF AnswerTypes
  <2>2. AnswersMatch'
    BY <1>1 DEF AnswersInv, AnswersMatch
  <2>3. ASSUME client # "closed" PROVE NextAnswer' /\ \E t, n : Leads(t, n)'
    <3>1. toServer # <<>> /\ c = Head(toServer) /\ toServer' = Tail(toServer)
      BY <1>4, <2>3 DEF ReadCommand
    <3>2. PICK t, n : Leads(t, n)
      BY <2>3 DEF AnswersInv
    <3> DEFINE m == Len(toServer)
    <3> PICK t2, n2 : t2 = [i \in 1 .. m |-> t[i + 1]] /\ n2 = [i \in 1 .. m |-> n[i + 1]]
      OBVIOUS
    <3>3. /\ m \in Nat \ {0} /\ c = toServer[1] /\ Len(toServer') = m - 1
          /\ \A i \in 1 .. m - 1 : toServer'[i] = toServer[i + 1]
      BY <1>2, <3>1 DEF AnswerTypes
    <3>4. settled = tap /\ due = Len(replies)
      BY <1>1, <1>2 DEF settled, due, Executing, Answered, AnswerTypes
    <3>5. /\ t[2] = Apply(t[1], c) /\ n[2] = n[1] + Asks(c)
          /\ c.do = "tdo" => wanted[n[2]] = t[1].tdo
          /\ n[1] = Len(replies) /\ (~gotFinish => t[1] = tap)
      <4>1. 1 \in 1 .. m
        BY <3>3
      <4> QED BY <3>2, <3>3, <3>4, <4>1 DEF Leads
    <3>6. settled' = Apply(tap, c) /\ due' = Len(replies) + Asks(c)
      BY <1>1, <1>2, <1>4 DEF settled, due, Executing, Answered, Asks, Apply, AnswerTypes
    <3>7. NextAnswer'
      BY <1>1, <1>4, <3>5 DEF NextAnswer, Executing, Answered, Asks
    <3>8. Leads(t2, n2)'
      <4>1. t2 \in [1 .. m -> Taps] /\ n2 \in [1 .. m -> 0 .. Len(wanted)]
        BY <3>2, <3>3 DEF Leads
      <4>2. \A i \in 1 .. m : t2[i] = t[i + 1] /\ n2[i] = n[i + 1]
        OBVIOUS
      <4>3. /\ ~gotFinish' => t2[1] = settled'
            /\ n2[1] = due'
        BY <1>1, <3>3, <3>5, <3>6, <4>2
      <4>4. t2[m] = mirror' /\ n2[m] = Len(wanted')
        BY <1>1, <3>2, <3>3, <4>2 DEF Leads
      <4>5. ASSUME NEW i \in 1 .. m - 1
            PROVE  /\ t2[i + 1] = Apply(t2[i], toServer'[i])
                   /\ n2[i + 1] = n2[i] + Asks(toServer'[i])
                   /\ toServer'[i].do = "tdo" => wanted[n2[i + 1]] = t2[i].tdo
        <5>1. i \in 1 .. m /\ i + 1 \in 1 .. m
          BY <3>3
        <5>2. /\ t[(i + 1) + 1] = Apply(t[i + 1], toServer[i + 1])
              /\ n[(i + 1) + 1] = n[i + 1] + Asks(toServer[i + 1])
              /\ toServer[i + 1].do = "tdo" => wanted[n[(i + 1) + 1]] = t[i + 1].tdo
          BY <3>2, <5>1 DEF Leads
        <5> QED BY <3>3, <4>2, <5>1, <5>2
      <4>6. Len(toServer') + 1 = m
        BY <3>3
      <4>7. ASSUME NEW i \in 1 .. Len(toServer')
            PROVE  /\ t2[i + 1] = Apply(t2[i], toServer'[i])
                   /\ n2[i + 1] = n2[i] + Asks(toServer'[i])
                   /\ toServer'[i].do = "tdo" => wanted'[n2[i + 1]] = t2[i].tdo
        BY <1>1, <3>3, <4>5
      <4>8. /\ t2 \in [1 .. Len(toServer') + 1 -> Taps]
            /\ n2 \in [1 .. Len(toServer') + 1 -> 0 .. Len(wanted')]
        BY <1>1, <4>1, <4>6
      <4>9. t2[Len(toServer') + 1] = mirror' /\ n2[Len(toServer') + 1] = Len(wanted')
        BY <4>4, <4>6
      <4> QED BY <4>3, <4>7, <4>8, <4>9 DEF Leads
    <3> QED BY <3>7, <3>8
  <2> QED BY <1>1, <2>1, <2>2, <2>3 DEF AnswersInv
<1> QED BY <1>1, <1>3, <1>4 DEF JtagRespond, ReadFails, serverVars

\* The command is executed on the model, which no longer listens after $finish.
LEMMA ModelStep == ASSUME AnswersInv, JtagModel PROVE AnswersInv'
<1>1. /\ UNCHANGED <<toServer, wanted, mirror, replies, cmd, client>>
      /\ pcJtag = "model" /\ pcJtag' = "unlock"
      /\ gotFinish' \in BOOLEAN /\ (gotFinish => gotFinish')
  BY DEF JtagModel, serverVars, AnswersInv, AnswerTypes
<1>2. AnswerTypes
  BY DEF AnswersInv
<1>3. tap' \in Taps /\ ret' \in Bits /\ (~gotFinish => tap' = Apply(tap, cmd))
  <2>1. cmd.do \in {"pins", "reset"} => cmd \in Commands
    BY <1>2 DEF AnswerTypes, NoCommand
  <2>2. cmd \in Commands => Apply(tap, cmd) \in Taps
    BY <1>2, DriveType DEF AnswerTypes
  <2>3. tap.tdo \in Bits /\ 1 \in Bits
    BY <1>2 DEF AnswerTypes, Taps, Bits
  <2> QED BY <1>2, <2>1, <2>2, <2>3 DEF JtagModel, Apply, AnswerTypes
<1>4. AnswerTypes'
  BY <1>1, <1>2, <1>3 DEF AnswerTypes
<1>5. AnswersMatch'
  BY <1>1 DEF AnswersInv, AnswersMatch
<1>6. ASSUME client # "closed" PROVE NextAnswer' /\ \E t, n : Leads(t, n)'
  <2>1. NextAnswer'
    BY <1>1, <1>6 DEF AnswersInv, NextAnswer, JtagModel, Executing, Answered
  <2>2. (~gotFinish' => settled' = settled) /\ due' = due
    BY <1>1, <1>3 DEF settled, due, Executing, Answered
  <2>3. PICK t, n : Leads(t, n)
    BY <1>6 DEF AnswersInv
  <2>4. Leads(t, n)'
    BY <1>1, <2>2, <2>3 DEF Leads
  <2> QED BY <2>1, <2>4
<1> QED BY <1>1, <1>4, <1>5, <1>6 DEF AnswersInv

LEMMA UnlockStep == ASSUME AnswersInv, JtagUnlock PROVE AnswersInv'
<1>1. /\ UNCHANGED <<toServer, wanted, mirror, replies, tap, ret, gotFinish, client>>
      /\ pcJtag = "unlock" /\ cmd' = NoCommand
      /\ pcJtag' \in {"quit", "reply", "loop"} /\ (pcJtag' = "reply" <=> cmd.do = "tdo")
  BY DEF JtagUnlock, serverVars
<1>2. AnswerTypes'
  BY <1>1 DEF AnswersInv, AnswerTypes
<1>3. AnswersMatch'
  BY <1>1 DEF AnswersInv, AnswersMatch
<1>4. ASSUME client # "closed" PROVE NextAnswer' /\ \E t, n : Leads(t, n)'
  <2>1. NextAnswer'
    BY <1>1, <1>4 DEF AnswersInv, NextAnswer, Executing, Answered
  <2>2. settled' = settled /\ due' = due
    BY <1>1 DEF settled, due, Executing, Answered
  <2>3. PICK t, n : Leads(t, n)
    BY <1>4 DEF AnswersInv
  <2>4. Leads(t, n)'
    BY <1>1, <2>2, <2>3 DEF Leads
  <2> QED BY <2>1, <2>4
<1> QED BY <1>1, <1>2, <1>3, <1>4 DEF AnswersInv

\* The answer is written, or lost with its client.
LEMMA ReplyStep == ASSUME AnswersInv, JtagReply PROVE AnswersInv'
<1>1. /\ UNCHANGED <<toServer, wanted, mirror, tap, cmd, gotFinish, client>>
      /\ pcJtag = "reply" /\ pcJtag' = "loop" /\ ret' = 1
      /\ replies' = IF client = "closed" THEN replies ELSE Append(replies, ret)
  BY DEF JtagReply, WriteReply
<1>2. AnswerTypes
  BY DEF AnswersInv
<1>3. AnswerTypes'
  BY <1>1, <1>2 DEF AnswerTypes, Bits
<1>4. CASE client = "closed"
  BY <1>1, <1>3, <1>4 DEF AnswersInv, AnswersMatch
<1>5. CASE client # "closed"
  <2>1. PICK t, n : Leads(t, n)
    BY <1>5 DEF AnswersInv
  <2>2. /\ Len(replies) \in Nat /\ Len(wanted) \in Nat /\ due = Len(replies) + 1
        /\ Len(replies') = Len(replies) + 1 /\ replies'[Len(replies) + 1] = ret
        /\ \A i \in 1 .. Len(replies) : replies'[i] = replies[i]
    BY <1>1, <1>2, <1>5 DEF AnswerTypes, due, Answered
  <2>3. Len(replies) + 1 <= Len(wanted)
    <3>1. Len(toServer) \in Nat
      BY <1>2 DEF AnswerTypes
    <3>2. n[1] \in 0 .. Len(wanted)
      BY <2>1, <3>1 DEF Leads
    <3> QED BY <2>1, <2>2, <3>2 DEF Leads
  <2>4. ret = wanted[Len(replies) + 1] \/ (gotFinish /\ ret = 1)
    BY <1>1, <1>5 DEF AnswersInv, NextAnswer, Answered
  <2>5. AnswersMatch'
    BY <1>1, <1>2, <1>3, <2>2, <2>3, <2>4 DEF AnswersInv, AnswersMatch, AnswerTypes
  <2>6. NextAnswer'
    BY <1>1 DEF NextAnswer, Executing, Answered
  <2>7. settled' = settled /\ due' = due
    BY <1>1, <2>2 DEF settled, due, Executing, Answered
  <2>8. Leads(t, n)'
    BY <1>1, <2>1, <2>7 DEF Leads
  <2> QED BY <1>3, <2>5, <2>6, <2>8 DEF AnswersInv
<1> QED BY <1>4, <1>5

\* Everything else is quiet.
LEMMA QuietSteps ==
  ASSUME GuardInv, AnswersInv,
         \/ Main \/ SysTakes \/ Sys \/ JtagLock \/ JtagListen \/ JtagAccept \/ JtagQuit
         \/ (Connect \/ Close) /\ UNCHANGED harnessVars
         \/ UNCHANGED vars
  PROVE  Quiet
<1> USE DEF Quiet, Executing, Answered
<1>1. gotFinish \in BOOLEAN
  BY DEF AnswersInv, AnswerTypes
<1>2. CASE Main
  BY <1>1, <1>2 DEF Main, CreateSys, CreateJtag, JoinSys, JoinJtag, GuardInv, serverVars
<1>3. CASE SysTakes \/ SysUnlock \/ SysReset \/ SysCheck
  BY <1>1, <1>3 DEF SysTakes, SysLock, SysUnlock, SysReset, SysCheck, serverVars
<1>4. CASE SysRise \/ SysFall
  BY <1>1, <1>4 DEF SysRise, SysFall, serverVars
<1>5. CASE JtagLock
  BY <1>1, <1>5 DEF JtagLock, serverVars
<1>6. CASE JtagListen
  BY <1>1, <1>6 DEF JtagListen, listen, serverVars
<1>7. CASE JtagAccept
  BY <1>1, <1>7 DEF JtagAccept, epoll_wait, HandleEvent, finish, serverVars
<1>8. CASE JtagQuit
  BY <1>1, <1>8 DEF JtagQuit
<1>9. CASE (Connect \/ Close) /\ UNCHANGED harnessVars
  BY <1>1, <1>9 DEF Connect, Close, harnessVars
<1>10. CASE UNCHANGED vars
  BY <1>1, <1>10 DEF vars, serverVars, harnessVars
<1> QED BY <1>2, <1>3, <1>4, <1>5, <1>6, <1>7, <1>8, <1>9, <1>10 DEF Sys

\* The answers to a client's reads are the TDO its own commands imply, or one after $finish
\* (verilator_backend and respond(); SimHarness.AnswersMatch).
THEOREM AnswersAreTheClients == Spec => []AnswersMatch
<1>1. GuardInv /\ AnswersInv /\ [Next]_vars => AnswersInv'
  BY QuietSteps, QuietStep, SendStep, RespondStep, ModelStep, UnlockStep, ReplyStep
     DEF Next, Jtag, Client, Gone
<1>2. AnswersInv => AnswersMatch
  BY DEF AnswersInv
<1> QED BY GuardInvariant, AnswersInit, <1>1, <1>2, PTL DEF Spec
================================================================================
