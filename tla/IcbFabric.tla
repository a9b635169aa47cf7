------------------------------- MODULE IcbFabric -------------------------------
(***************************************************************************)
(* rtl/perips/sirv_icb1to16_bus.v: the peripheral fabric.  A buffer        *)
(* (sirv_gnrl_icb_buffer) queues commands and responses, a splitter        *)
(* (sirv_gnrl_icb_splt) sends each command to the slave its address        *)
(* selects and remembers, in rspid, whose response to return next.  The    *)
(* queues are the abstract ones SirvGnrlFifo and SirvPipeStage implement.  *)
(***************************************************************************)
EXTENDS Integers, Sequences, TLAPS

CONSTANTS
  RegSlaves,   \* register files that answer in the cycle of the command
  TiedSlaves,  \* unused ports: always ready, always an (error) response
  LateSlaves,  \* slaves that answer some cycles later
  Tags,        \* tell one command from the next
  OUTS         \* SPLT_FIFO_OUTS_NUM, 1 in the SoC

Default == "deft"
Slaves == RegSlaves \cup TiedSlaves \cup LateSlaves \cup {Default}
Commands == [to : Slaves, tag : Tags]
NoTag == "none"
Responses == [from : Slaves, tag : Tags \cup {NoTag}, err : BOOLEAN]

\* Each address belongs to one slave, and at least one command may be outstanding.
FabricAssumption ==
  /\ RegSlaves \cap TiedSlaves = {} /\ RegSlaves \cap LateSlaves = {}
  /\ TiedSlaves \cap LateSlaves = {}
  /\ Default \notin RegSlaves \cup TiedSlaves \cup LateSlaves
  /\ OUTS \in Nat \ {0}

ICB_FIFO_DP == 2

VARIABLES
  cmd_q, rsp_q,   \* the two queues of the buffer
  rspid,          \* the slaves of the commands whose response is outstanding
  late,           \* the commands each late slave works on
  pending         \* history: commands accepted from the master and unanswered

vars == <<cmd_q, rsp_q, rspid, late, pending>>

--------------------------------------------------------------------------------
i_icb_cmd_ready == Len(cmd_q) < ICB_FIFO_DP
i_icb_rsp_valid == rsp_q # <<>>
i_icb_rsp == Head(rsp_q)

buf_icb_cmd_valid == cmd_q # <<>>
buf_icb_rsp_ready == Len(rsp_q) < ICB_FIFO_DP

\* The slave addressed by the first command; the default slave when none is.
indic == IF buf_icb_cmd_valid THEN Head(cmd_q).to ELSE Default

rspid_fifo_full == Len(rspid) = OUTS
rspid_fifo_empty == rspid = <<>>

\* Mutant: commands to different slaves may be outstanding together.
cmd_diff_branch_Never == FALSE

\* No command while one to another slave is unanswered (ALLOW_DIFF = 0).
cmd_diff_branch == ~rspid_fifo_empty /\ indic # Head(rspid)

may_issue == ~cmd_diff_branch /\ ~rspid_fifo_full
cmd_valid(s) == buf_icb_cmd_valid /\ may_issue /\ indic = s

\* Whose response is next: the oldest outstanding command's, or, with none, that
\* of the command now offered, which may answer in the same cycle.
rsp_port_id == IF rspid_fifo_empty THEN indic ELSE Head(rspid)

rsp_ready(s) == rsp_port_id = s /\ buf_icb_rsp_ready

\* The slaves.  A register file and the default slave connect ready to ready and
\* valid to valid.  A late slave takes or answers when it likes (goes, answers).
cmd_ready(s, goes) ==
  \/ s \in RegSlaves \cup {Default} /\ rsp_ready(s)
  \/ s \in TiedSlaves
  \/ s \in LateSlaves /\ goes /\ Len(late[s]) < OUTS

rsp_valid(s, answers) ==
  \/ s \in RegSlaves \cup {Default} /\ cmd_valid(s)
  \/ s \in TiedSlaves
  \/ s \in LateSlaves /\ answers /\ late[s] # <<>>

rsp(s) ==
  [from |-> s,
   tag  |-> IF s \in RegSlaves THEN Head(cmd_q).tag
            ELSE IF s \in LateSlaves THEN Head(late[s]).tag ELSE NoTag,
   err  |-> s \in TiedSlaves \cup {Default}]

late_asked == buf_icb_cmd_valid /\ may_issue /\ indic \in LateSlaves
late_busy == rsp_port_id \in LateSlaves /\ late[rsp_port_id] # <<>>

rspid_fifo_bypass(wen, ren) == rspid_fifo_empty /\ wen /\ ren

Init ==
  /\ cmd_q = <<>> /\ rsp_q = <<>> /\ rspid = <<>> /\ pending = <<>>
  /\ late = [s \in LateSlaves |-> <<>>]

Pushed(q, push, x) == IF push THEN Append(q, x) ELSE q
Popped(q, pop) == IF pop THEN Tail(q) ELSE q

\* One rising edge of clk: the master offers a command and takes a response.
Cycle(i_icb_cmd_valid, cmd, i_icb_rsp_ready, goes, answers) ==
  LET accept == i_icb_cmd_valid /\ i_icb_cmd_ready
      return == i_icb_rsp_valid /\ i_icb_rsp_ready
      wen    == buf_icb_cmd_valid /\ may_issue /\ cmd_ready(indic, goes)
      ren    == rsp_valid(rsp_port_id, answers) /\ buf_icb_rsp_ready
      bypass == rspid_fifo_bypass(wen, ren)
  IN  /\ cmd_q' = Pushed(Popped(cmd_q, wen), accept, cmd)
      /\ rsp_q' = Pushed(Popped(rsp_q, return), ren, rsp(rsp_port_id))
      /\ rspid' = Pushed(Popped(rspid, ren /\ ~bypass /\ ~rspid_fifo_empty), wen /\ ~bypass, indic)
      /\ late' = [s \in LateSlaves |->
                    Pushed(Popped(late[s], ren /\ s = rsp_port_id), wen /\ s = indic, Head(cmd_q))]
      /\ pending' = Pushed(Popped(pending, return), accept, cmd)

Reset ==
  /\ cmd_q' = <<>> /\ rsp_q' = <<>> /\ rspid' = <<>> /\ pending' = <<>>
  /\ late' = [s \in LateSlaves |-> <<>>]

\* A master that pipelines its commands and takes responses when it likes.
Next ==
  \/ \E valid, ready, goes, answers \in BOOLEAN, cmd \in Commands :
       Cycle(valid, cmd, ready, goes, answers)
  \/ Reset

Spec == Init /\ [][Next]_vars

--------------------------------------------------------------------------------
Answers(r, c) ==
  /\ r.from = c.to
  /\ r.err <=> c.to \in TiedSlaves \cup {Default}
  /\ ~r.err => r.tag = c.tag

\* Every command accepted is in exactly one place, in order: answered in the
\* response queue, outstanding at a slave, or waiting in the command queue; an
\* answer is the one its own slave gave to that command; and a late slave works on
\* the commands outstanding and on no others.
AllAccounted ==
  LET answered == Len(rsp_q)
      issued   == answered + Len(rspid)
  IN  /\ Len(pending) = issued + Len(cmd_q)
      /\ \A n \in 1 .. answered : Answers(rsp_q[n], pending[n])
      /\ \A n \in 1 .. Len(rspid) : rspid[n] = pending[answered + n].to
      /\ \A n \in 1 .. Len(cmd_q) : cmd_q[n] = pending[issued + n]
      /\ \A s \in LateSlaves :
           late[s] = IF rspid # <<>> /\ Head(rspid) = s
                     THEN SubSeq(pending, answered + 1, issued) ELSE <<>>

--------------------------------------------------------------------------------
(***************************************************************************)
(* The proof of AllAccounted, for every set of slaves and every OUTS.      *)
(***************************************************************************)
TypeOK ==
  /\ cmd_q \in Seq(Commands) /\ Len(cmd_q) <= ICB_FIFO_DP
  /\ rsp_q \in Seq(Responses) /\ Len(rsp_q) <= ICB_FIFO_DP
  /\ rspid \in Seq(Slaves) /\ Len(rspid) <= OUTS
  /\ late \in [LateSlaves -> Seq(Commands)]
  /\ pending \in Seq(Commands)

\* What is outstanding is outstanding at one slave, and only at one that may
\* keep its response back: a register file and the default slave never do.
OneBranch ==
  \A n \in 1 .. Len(rspid) : rspid[n] = rspid[1] /\ rspid[n] \in LateSlaves \cup TiedSlaves

\* AllAccounted, element by element.
InOrder ==
  /\ Len(pending) = Len(rsp_q) + Len(rspid) + Len(cmd_q)
  /\ \A n \in 1 .. Len(rsp_q) : Answers(rsp_q[n], pending[n])
  /\ \A n \in 1 .. Len(rspid) : rspid[n] = pending[Len(rsp_q) + n].to
  /\ \A n \in 1 .. Len(cmd_q) : cmd_q[n] = pending[Len(rsp_q) + Len(rspid) + n]

AtWork ==
  \A s \in LateSlaves :
    IF rspid # <<>> /\ rspid[1] = s
    THEN /\ Len(late[s]) = Len(rspid)
         /\ \A n \in 1 .. Len(rspid) : late[s][n] = pending[Len(rsp_q) + n]
    ELSE late[s] = <<>>

IInv == TypeOK /\ OneBranch /\ InOrder /\ AtWork

One(b) == IF b THEN 1 ELSE 0

\* A queue after a cycle in which p items leave its head and g come, each 0 or 1.
Moved(q, p, g, x) == Pushed(Popped(q, p = 1), g = 1, x)

\* What is then in the queue t.
Queued(S, q, p, g, x, t) ==
  /\ t \in Seq(S) /\ Len(t) = Len(q) - p + g
  /\ \A n \in 1 .. Len(q) - p : t[n] = q[n + p]
  /\ g = 1 => t[Len(t)] = x

LEMMA QueueStep ==
  ASSUME NEW S, NEW q \in Seq(S), NEW p \in {0, 1}, NEW g \in {0, 1}, NEW x, NEW t,
         t = Moved(q, p, g, x),
         p = 1 => q # <<>>, g = 1 => x \in S
  PROVE  Queued(S, q, p, g, x, t)
<1> DEFINE rest == Popped(q, p = 1)
<1>1. /\ rest \in Seq(S) /\ Len(rest) \in Nat
      /\ Len(rest) = Len(q) - p
      /\ \A n \in 1 .. Len(rest) : rest[n] = q[n + p]
  <2>1. CASE p = 1
    BY <2>1 DEF Popped
  <2>2. CASE p = 0
    BY <2>2 DEF Popped
  <2> QED BY <2>1, <2>2
<1>2. t = Pushed(rest, g = 1, x)
  BY DEF Moved
<1> HIDE DEF rest
<1>3. /\ t \in Seq(S) /\ Len(t) = Len(rest) + g
      /\ \A n \in 1 .. Len(rest) : t[n] = rest[n]
      /\ g = 1 => t[Len(t)] = x
  <2>1. CASE g = 1
    BY <1>1, <1>2, <2>1 DEF Pushed
  <2>2. CASE g = 0
    BY <1>1, <1>2, <2>2 DEF Pushed
  <2> QED BY <2>1, <2>2
<1> QED
  BY <1>1, <1>3 DEF Queued

LEMMA InitIInv == ASSUME FabricAssumption PROVE Init => IInv
<1> SUFFICES ASSUME Init PROVE IInv
  OBVIOUS
<1>1. /\ cmd_q = <<>> /\ rsp_q = <<>> /\ rspid = <<>> /\ pending = <<>>
      /\ late = [s \in LateSlaves |-> <<>>]
  BY DEF Init
<1>2. TypeOK
  BY <1>1 DEF FabricAssumption, TypeOK, ICB_FIFO_DP
<1>3. OneBranch /\ InOrder
  BY <1>1 DEF OneBranch, InOrder
<1>4. AtWork
  BY <1>1 DEF AtWork
<1> QED BY <1>2, <1>3, <1>4 DEF IInv

LEMMA ResetIInv == ASSUME FabricAssumption, Reset PROVE IInv'
<1>1. /\ cmd_q' = <<>> /\ rsp_q' = <<>> /\ rspid' = <<>> /\ pending' = <<>>
      /\ late' = [s \in LateSlaves |-> <<>>]
  BY DEF Reset
<1>2. TypeOK'
  BY <1>1 DEF FabricAssumption, TypeOK, ICB_FIFO_DP
<1>3. OneBranch' /\ InOrder'
  BY <1>1 DEF OneBranch, InOrder
<1>4. AtWork'
  BY <1>1 DEF AtWork
<1> QED BY <1>2, <1>3, <1>4 DEF IInv

\* The splitter's handshakes in a cycle, as Cycle defines them.
issues(goes) == buf_icb_cmd_valid /\ may_issue /\ cmd_ready(indic, goes)
returns(answers) == rsp_valid(rsp_port_id, answers) /\ buf_icb_rsp_ready

\* A command goes out only behind commands to the same slave, and there is room
\* to remember it.
LEMMA Issued ==
  ASSUME FabricAssumption, IInv, NEW goes, issues(goes)
  PROVE  /\ cmd_q # <<>> /\ indic = cmd_q[1].to /\ indic \in Slaves
         /\ Len(rspid) < OUTS
         /\ rspid # <<>> => indic = rspid[1]
<1>1. cmd_q # <<>> /\ indic = cmd_q[1].to /\ indic \in Slaves
  <2>1. cmd_q \in Seq(Commands) /\ cmd_q # <<>>
    BY DEF IInv, TypeOK, issues, buf_icb_cmd_valid
  <2>2. Head(cmd_q) = cmd_q[1] /\ cmd_q[1] \in Commands
    BY <2>1
  <2> QED BY <2>1, <2>2 DEF indic, buf_icb_cmd_valid, Commands
<1>2. Len(rspid) < OUTS /\ (rspid # <<>> => indic = rspid[1])
  BY DEF IInv, TypeOK, FabricAssumption, issues, may_issue, rspid_fifo_full, rspid_fifo_empty,
     cmd_diff_branch
<1> QED BY <1>1, <1>2

\* With nothing outstanding, only the command going out can be answered.
LEMMA AnswersOffered ==
  ASSUME FabricAssumption, IInv, NEW goes, NEW answers, rspid = <<>>, returns(answers)
  PROVE  issues(goes) /\ rsp_port_id = indic /\ indic \notin LateSlaves
<1>1. rsp_port_id = indic
  BY DEF rsp_port_id, rspid_fifo_empty
<1>2. indic \notin LateSlaves
  BY <1>1 DEF returns, rsp_valid, IInv, AtWork, FabricAssumption
<1>3. may_issue
  BY DEF may_issue, cmd_diff_branch, rspid_fifo_full, rspid_fifo_empty, FabricAssumption
<1>4. buf_icb_cmd_valid
  <2>1. CASE indic \in TiedSlaves
    BY <2>1 DEF indic, FabricAssumption
  <2>2. CASE indic \notin TiedSlaves
    BY <1>1, <1>2, <2>2 DEF returns, rsp_valid, cmd_valid
  <2> QED BY <2>1, <2>2
<1>5. cmd_ready(indic, goes)
  <2>1. CASE indic \in TiedSlaves
    BY <2>1 DEF cmd_ready
  <2>2. CASE indic \notin TiedSlaves
    BY <1>1, <1>2, <2>2 DEF returns, cmd_ready, rsp_ready, rsp_valid
  <2> QED BY <2>1, <2>2
<1> QED BY <1>1, <1>2, <1>3, <1>4, <1>5 DEF issues

\* A slave that answers in the cycle of the command is never left outstanding.
LEMMA AnsweredAtOnce ==
  ASSUME FabricAssumption, IInv, NEW goes, NEW answers, issues(goes),
         indic \notin LateSlaves \cup TiedSlaves
  PROVE  rspid = <<>> /\ returns(answers)
<1>1. indic \in RegSlaves \cup {Default} /\ rsp_ready(indic)
  <2>1. indic \in Slaves
    BY Issued
  <2>2. cmd_ready(indic, goes)
    BY DEF issues
  <2> QED BY <2>1, <2>2 DEF Slaves, cmd_ready
<1>2. rspid = <<>>
  <2>1. rspid \in Seq(Slaves) /\ OneBranch
    BY DEF IInv, TypeOK
  <2>2. rspid # <<>> => indic = rspid[1]
    BY Issued
  <2>3. rspid # <<>> => 1 \in 1 .. Len(rspid)
    BY <2>1
  <2> QED BY <2>1, <2>2, <2>3 DEF OneBranch
<1>3. rsp_valid(rsp_port_id, answers) /\ buf_icb_rsp_ready
  <2>1. rsp_port_id = indic /\ buf_icb_rsp_ready
    BY <1>1 DEF rsp_ready
  <2>2. cmd_valid(indic)
    BY DEF cmd_valid, issues
  <2> QED BY <1>1, <2>1, <2>2 DEF rsp_valid
<1> QED BY <1>2, <1>3 DEF returns

\* What a slave answers a command of its own.
LEMMA AnswerOf ==
  ASSUME FabricAssumption, NEW c \in Commands,
         c.to \in RegSlaves => Head(cmd_q) = c,
         c.to \in LateSlaves => Head(late[c.to]) = c
  PROVE  rsp(c.to) \in Responses /\ Answers(rsp(c.to), c)
<1>1. c.to \in Slaves /\ c.tag \in Tags
  BY DEF Commands
<1>2. CASE c.to \in TiedSlaves \cup {Default}
  <2>1. rsp(c.to) = [from |-> c.to, tag |-> NoTag, err |-> TRUE]
    BY <1>2 DEF rsp, FabricAssumption
  <2> QED BY <1>1, <1>2, <2>1 DEF Responses, Answers
<1>3. CASE c.to \in RegSlaves \cup LateSlaves
  <2>1. c.to \notin TiedSlaves \cup {Default}
    BY <1>3 DEF FabricAssumption
  <2>2. (IF c.to \in RegSlaves THEN Head(cmd_q).tag
         ELSE IF c.to \in LateSlaves THEN Head(late[c.to]).tag ELSE NoTag) = c.tag
    <3>1. CASE c.to \in RegSlaves
      BY <3>1
    <3>2. CASE c.to \notin RegSlaves
      BY <1>3, <3>2
    <3> QED BY <3>1, <3>2
  <2>3. rsp(c.to) = [from |-> c.to, tag |-> c.tag, err |-> FALSE]
    <3>1. (c.to \in TiedSlaves \cup {Default}) = FALSE
      BY <2>1
    <3> QED BY <2>2, <3>1 DEF rsp
  <2> QED BY <1>1, <2>1, <2>3 DEF Responses, Answers
<1> QED BY <1>1, <1>2, <1>3 DEF Slaves

\* The response put in the queue is the one of the oldest command unanswered.
LEMMA RightAnswer ==
  ASSUME FabricAssumption, IInv, NEW answers, returns(answers)
  PROVE  /\ Len(rsp_q) < ICB_FIFO_DP
         /\ Len(rspid) + Len(cmd_q) > 0
         /\ rsp(rsp_port_id) \in Responses
         /\ Answers(rsp(rsp_port_id), pending[Len(rsp_q) + 1])
<1>1. Len(rsp_q) < ICB_FIFO_DP
  BY DEF returns, buf_icb_rsp_ready
<1>2. CASE rspid = <<>>
  <2>1. issues(TRUE) /\ rsp_port_id = indic /\ indic \notin LateSlaves
    BY <1>2, AnswersOffered
  <2>2. cmd_q # <<>> /\ indic = cmd_q[1].to /\ indic \in Slaves
    BY <2>1, Issued
  <2>3. cmd_q[1] = pending[Len(rsp_q) + 1] /\ cmd_q[1] \in Commands /\ Head(cmd_q) = cmd_q[1]
    BY <1>2, <2>2 DEF IInv, TypeOK, InOrder
  <2>4. rsp(indic) \in Responses /\ Answers(rsp(indic), cmd_q[1])
    BY <2>1, <2>2, <2>3, AnswerOf
  <2>5. Len(cmd_q) > 0
    BY <2>2 DEF IInv, TypeOK
  <2> QED BY <1>1, <1>2, <2>1, <2>3, <2>4, <2>5 DEF IInv, TypeOK
<1>3. CASE rspid # <<>>
  <2> DEFINE s == rspid[1]
  <2>1. rsp_port_id = s /\ s \in LateSlaves \cup TiedSlaves /\ Len(rspid) \in Nat \ {0}
    BY <1>3 DEF rsp_port_id, rspid_fifo_empty, IInv, TypeOK, OneBranch
  <2>2. s = pending[Len(rsp_q) + 1].to
    BY <2>1 DEF IInv, TypeOK, InOrder
  <2>3. pending[Len(rsp_q) + 1] \in Commands
    BY <2>1 DEF IInv, TypeOK, InOrder
  <2>4. CASE s \in LateSlaves
    <3>1. late[s] # <<>> /\ Head(late[s]) = late[s][1]
      BY <2>1, <2>4 DEF IInv, TypeOK, AtWork
    <3>2. late[s][1] = pending[Len(rsp_q) + 1]
      BY <1>3, <2>1, <2>4 DEF IInv, TypeOK, AtWork
    <3>3. Len(rspid) + Len(cmd_q) > 0
      BY <2>1 DEF IInv, TypeOK
    <3>4. s \notin RegSlaves
      BY <2>4 DEF FabricAssumption
    <3> QED BY <1>1, <2>1, <2>2, <2>3, <3>1, <3>2, <3>3, <3>4, AnswerOf
  <2>5. CASE s \in TiedSlaves
    <3>1. Len(rspid) + Len(cmd_q) > 0
      BY <2>1 DEF IInv, TypeOK
    <3>2. s \notin RegSlaves \cup LateSlaves
      BY <2>5 DEF FabricAssumption
    <3> QED BY <1>1, <2>1, <2>2, <2>3, <3>1, <3>2, AnswerOf
  <2> QED BY <2>1, <2>4, <2>5
<1> QED BY <1>2, <1>3

\* A cycle keeps the invariant.  o commands are answered and a accepted at the
\* master, w go out and r are answered at the slaves, p of them from rspid, and u
\* is put in rspid: each is 0 or 1.
LEMMA CycleIInv ==
  ASSUME FabricAssumption, IInv, NEW valid \in BOOLEAN, NEW cmd \in Commands,
         NEW ready \in BOOLEAN, NEW goes \in BOOLEAN, NEW answers \in BOOLEAN,
         Cycle(valid, cmd, ready, goes, answers)
  PROVE  IInv'
<1> DEFINE accept == valid /\ i_icb_cmd_ready
           return == i_icb_rsp_valid /\ ready
           wen    == issues(goes)
           ren    == returns(answers)
           bypass == rspid_fifo_empty /\ wen /\ ren
           popr   == ren /\ ~bypass /\ ~rspid_fifo_empty
           pushr  == wen /\ ~bypass
<1>1. /\ cmd_q' = Pushed(Popped(cmd_q, wen), accept, cmd)
      /\ rsp_q' = Pushed(Popped(rsp_q, return), ren, rsp(rsp_port_id))
      /\ rspid' = Pushed(Popped(rspid, popr), pushr, indic)
      /\ pending' = Pushed(Popped(pending, return), accept, cmd)
  BY DEF Cycle, issues, returns, rspid_fifo_bypass
<1>2. /\ accept \in BOOLEAN /\ return \in BOOLEAN /\ wen \in BOOLEAN /\ ren \in BOOLEAN
      /\ popr \in BOOLEAN /\ pushr \in BOOLEAN
  BY DEF issues, returns, buf_icb_cmd_valid, i_icb_cmd_ready, i_icb_rsp_valid, may_issue,
     cmd_ready, rsp_valid, buf_icb_rsp_ready
<1>3. /\ cmd_q \in Seq(Commands) /\ Len(cmd_q) \in Nat /\ Len(cmd_q) <= ICB_FIFO_DP
      /\ rsp_q \in Seq(Responses) /\ Len(rsp_q) \in Nat /\ Len(rsp_q) <= ICB_FIFO_DP
      /\ rspid \in Seq(Slaves) /\ Len(rspid) \in Nat /\ Len(rspid) <= OUTS
      /\ pending \in Seq(Commands) /\ Len(pending) \in Nat
      /\ Len(pending) = Len(rsp_q) + Len(rspid) + Len(cmd_q)
  BY DEF IInv, TypeOK, InOrder
<1>4. OUTS \in Nat \ {0} /\ ICB_FIFO_DP = 2
  BY DEF FabricAssumption, ICB_FIFO_DP
<1>5. /\ wen => cmd_q # <<>> /\ indic \in Slaves /\ Len(rspid) < OUTS
      /\ ren => rsp(rsp_port_id) \in Responses /\ Len(rsp_q) < ICB_FIFO_DP
      /\ ren /\ rspid = <<>> => wen
      /\ popr => rspid # <<>>
      /\ return => rsp_q # <<>> /\ pending # <<>>
      /\ accept => Len(cmd_q) < ICB_FIFO_DP
  <2>1. wen => cmd_q # <<>> /\ indic \in Slaves /\ Len(rspid) < OUTS
    BY Issued
  <2>2. ren => rsp(rsp_port_id) \in Responses /\ Len(rsp_q) < ICB_FIFO_DP
    BY RightAnswer
  <2>3. ren /\ rspid = <<>> => wen
    BY AnswersOffered
  <2>4. popr => rspid # <<>>
    BY DEF rspid_fifo_empty
  <2>5. return => rsp_q # <<>> /\ pending # <<>>
    BY <1>3 DEF i_icb_rsp_valid
  <2>6. accept => Len(cmd_q) < ICB_FIFO_DP
    BY DEF i_icb_cmd_ready
  <2> QED BY <2>1, <2>2, <2>3, <2>4, <2>5, <2>6
<1>6. /\ bypass <=> rspid = <<>> /\ wen /\ ren
      /\ popr <=> ren /\ rspid # <<>>
      /\ pushr <=> wen /\ ~(rspid = <<>> /\ ren)
  BY DEF rspid_fifo_empty
<1> HIDE DEF accept, return, wen, ren, bypass, popr, pushr
<1>7. rspid = <<>> <=> Len(rspid) = 0
  BY <1>3
<1> DEFINE o == One(return)
           a == One(accept)
           w == One(wen)
           r == One(ren)
           p == One(popr)
           u == One(pushr)
<1>8. /\ o \in {0, 1} /\ a \in {0, 1} /\ w \in {0, 1} /\ r \in {0, 1} /\ p \in {0, 1} /\ u \in {0, 1}
      /\ w - u = r - p /\ (Len(rspid) > 0 => r = p) /\ (Len(rspid) = 0 => p = 0)
      /\ u = 1 => w = 1 /\ (Len(rspid) = 0 => r = 0)
  BY <1>2, <1>3, <1>5, <1>6, <1>7 DEF One
<1>9. /\ cmd_q' = Moved(cmd_q, w, a, cmd)
      /\ rsp_q' = Moved(rsp_q, o, r, rsp(rsp_port_id))
      /\ rspid' = Moved(rspid, p, u, indic)
      /\ pending' = Moved(pending, o, a, cmd)
  BY <1>1 DEF Moved, Pushed, Popped, One
<1>10. /\ (w = 1 => cmd_q # <<>>) /\ (o = 1 => rsp_q # <<>> /\ pending # <<>>)
       /\ (p = 1 => rspid # <<>>) /\ (r = 1 => rsp(rsp_port_id) \in Responses)
       /\ (u = 1 => indic \in Slaves)
  BY <1>5, <1>6 DEF One
<1>11. (a = 1 <=> accept) /\ (r = 1 <=> ren) /\ (u = 1 <=> pushr) /\ (w = 1 <=> wen)
  BY <1>2 DEF One
<1>12. w = One(issues(goes)) /\ r = One(returns(answers))
  BY DEF wen, ren
<1> HIDE DEF o, a, w, r, p, u
<1>13. /\ cmd_q' \in Seq(Commands) /\ Len(cmd_q') = Len(cmd_q) - w + a
       /\ \A n \in 1 .. Len(cmd_q) - w : cmd_q'[n] = cmd_q[n + w]
       /\ a = 1 => cmd_q'[Len(cmd_q')] = cmd
  <2>1. Queued(Commands, cmd_q, w, a, cmd, cmd_q')
    BY <1>3, <1>8, <1>9, <1>10, QueueStep
  <2> QED BY <2>1 DEF Queued
<1>14. /\ rsp_q' \in Seq(Responses) /\ Len(rsp_q') = Len(rsp_q) - o + r
       /\ \A n \in 1 .. Len(rsp_q) - o : rsp_q'[n] = rsp_q[n + o]
       /\ r = 1 => rsp_q'[Len(rsp_q')] = rsp(rsp_port_id)
  <2>1. Queued(Responses, rsp_q, o, r, rsp(rsp_port_id), rsp_q')
    BY <1>3, <1>8, <1>9, <1>10, QueueStep
  <2> QED BY <2>1 DEF Queued
<1>15. /\ rspid' \in Seq(Slaves) /\ Len(rspid') = Len(rspid) - p + u
       /\ \A n \in 1 .. Len(rspid) - p : rspid'[n] = rspid[n + p]
       /\ u = 1 => rspid'[Len(rspid')] = indic
  <2>1. Queued(Slaves, rspid, p, u, indic, rspid')
    BY <1>3, <1>8, <1>9, <1>10, QueueStep
  <2> QED BY <2>1 DEF Queued
<1>16. /\ pending' \in Seq(Commands) /\ Len(pending') = Len(pending) - o + a
       /\ \A n \in 1 .. Len(pending) - o : pending'[n] = pending[n + o]
       /\ a = 1 => pending'[Len(pending')] = cmd
  <2>1. Queued(Commands, pending, o, a, cmd, pending')
    BY <1>3, <1>8, <1>9, <1>10, QueueStep
  <2> QED BY <2>1 DEF Queued
<1>17. Len(cmd_q') <= ICB_FIFO_DP /\ Len(rsp_q') <= ICB_FIFO_DP /\ Len(rspid') <= OUTS
  <2>1. Len(cmd_q') <= ICB_FIFO_DP
    BY <1>3, <1>4, <1>5, <1>8, <1>13, <1>11
  <2>2. Len(rsp_q') <= ICB_FIFO_DP
    BY <1>3, <1>4, <1>5, <1>8, <1>14, <1>11
  <2>3. u = 1 => Len(rspid) < OUTS
    BY <1>5, <1>6, <1>11
  <2>4. Len(rspid') <= OUTS
    BY <1>3, <1>4, <1>8, <1>15, <2>3
  <2> QED BY <2>1, <2>2, <2>4
<1>18. /\ \A n \in 1 .. Len(rsp_q) : Answers(rsp_q[n], pending[n])
       /\ \A n \in 1 .. Len(rspid) : rspid[n] = pending[Len(rsp_q) + n].to
       /\ \A n \in 1 .. Len(cmd_q) : cmd_q[n] = pending[Len(rsp_q) + Len(rspid) + n]
  BY DEF IInv, InOrder
<1>19. /\ Len(rsp_q) \in Nat /\ Len(rspid) \in Nat /\ Len(cmd_q) \in Nat
       /\ Len(rsp_q') \in Nat /\ Len(rspid') \in Nat /\ Len(cmd_q') \in Nat
       /\ Len(pending) = Len(rsp_q) + Len(rspid) + Len(cmd_q)
       /\ Len(rsp_q') = Len(rsp_q) - o + r /\ Len(rspid') = Len(rspid) - p + u
       /\ Len(cmd_q') = Len(cmd_q) - w + a /\ Len(pending') = Len(pending) - o + a
       /\ w = u + r - p
       /\ o \in Int /\ a \in Int /\ w \in Int /\ r \in Int /\ p \in Int /\ u \in Int
  <2>1. o \in Int /\ a \in Int /\ w \in Int /\ r \in Int /\ p \in Int /\ u \in Int
    BY <1>8
  <2>2. w = u + r - p
    BY <1>8, <2>1
  <2>3. Len(rsp_q') \in Nat /\ Len(rspid') \in Nat /\ Len(cmd_q') \in Nat
    BY <1>13, <1>14, <1>15
  <2> QED BY <1>3, <1>13, <1>14, <1>15, <1>16, <2>1, <2>2, <2>3
<1>20. Len(pending') = Len(rsp_q') + Len(rspid') + Len(cmd_q')
  BY <1>19
<1>21. ASSUME NEW n \in 1 .. Len(rsp_q') PROVE Answers(rsp_q'[n], pending'[n])
  <2>1. CASE n <= Len(rsp_q) - o
    <3>1. n + o \in 1 .. Len(rsp_q) /\ n \in 1 .. Len(rsp_q) - o /\ n \in 1 .. Len(pending) - o
      BY <1>3, <1>8, <2>1
    <3> QED BY <1>14, <1>16, <1>18, <3>1
  <2>2. CASE n > Len(rsp_q) - o
    <3>1. n = Len(rsp_q') /\ r = 1 /\ n + o = Len(rsp_q) + 1
      BY <1>3, <1>8, <1>14, <2>2
    <3>2. Len(rspid) + Len(cmd_q) > 0 /\ Answers(rsp(rsp_port_id), pending[Len(rsp_q) + 1])
      BY <1>11, <3>1, RightAnswer DEF ren
    <3>3. n \in 1 .. Len(pending) - o
      BY <1>3, <1>8, <3>1, <3>2
    <3>4. rsp_q'[n] = rsp(rsp_port_id) /\ pending'[n] = pending[Len(rsp_q) + 1]
      BY <1>14, <1>16, <3>1, <3>3
    <3> QED BY <3>2, <3>4
  <2> QED BY <1>3, <1>8, <2>1, <2>2
\* Where the commands at the slaves are now.
<1>22. ASSUME NEW n \in 1 .. Len(rspid) - p
       PROVE  pending'[Len(rsp_q') + n] = pending[Len(rsp_q) + n + p]
  <2>1. n \in Nat \ {0} /\ n + p <= Len(rspid)
    BY <1>19
  <2>2. Len(rspid) > 0
    BY <1>8, <1>19, <2>1
  <2>3. r = p
    BY <1>8, <2>2
  <2>4. Len(rsp_q') + n + o = Len(rsp_q) + n + p
    BY <1>19, <2>1, <2>3
  <2>5. Len(rsp_q') + n >= 1 /\ Len(rsp_q) + n + p <= Len(pending)
    BY <1>19, <2>1, SMTT(30)
  <2>6. Len(rsp_q') + n \in 1 .. Len(pending) - o
    BY <1>19, <2>1, <2>4, <2>5
  <2> QED BY <1>16, <2>4, <2>6
<1>23. ASSUME u = 1
       PROVE  /\ cmd_q # <<>> /\ cmd_q[1] = pending'[Len(rsp_q') + Len(rspid')]
              /\ Head(cmd_q) = cmd_q[1] /\ indic = cmd_q[1].to
  <2>1. cmd_q # <<>> /\ indic = cmd_q[1].to
    BY <1>8, <1>11, <1>23, Issued DEF wen
  <2>2. cmd_q[1] = pending[Len(rsp_q) + Len(rspid) + 1] /\ Len(cmd_q) > 0 /\ Head(cmd_q) = cmd_q[1]
    BY <1>3, <1>18, <2>1
  <2>3. /\ Len(rsp_q') + Len(rspid') + o = Len(rsp_q) + Len(rspid) + 1
        /\ Len(rsp_q') + Len(rspid') \in 1 .. Len(pending) - o
    <3>1. w = 1 /\ r = p /\ Len(cmd_q) >= 1
      BY <1>8, <1>19, <1>23, <2>2
    <3>2. Len(rsp_q') + Len(rspid') + o = Len(rsp_q) + Len(rspid) + 1
      BY <1>19, <1>23, <3>1
    <3>3. Len(rsp_q') + Len(rspid') >= 1
      <4>1. p <= Len(rspid)
        <5>1. p = 1 => Len(rspid) # 0
          BY <1>8
        <5>2. p = 0 \/ p = 1
          BY <1>8
        <5> QED BY <1>3, <5>1, <5>2
      <4>2. Len(rspid') = Len(rspid) - p + 1
        BY <1>19, <1>23
      <4>3. Len(rspid') >= 1
        BY <1>3, <1>19, <4>1, <4>2
      <4>4. Len(rsp_q') \in Nat /\ Len(rspid') \in Nat
        BY <1>19
      <4> QED BY <4>3, <4>4
    <3>4. Len(rsp_q) + Len(rspid) + 1 <= Len(pending)
      BY <1>19, <3>1
    <3> QED BY <1>19, <3>2, <3>3, <3>4
  <2> QED BY <1>16, <2>1, <2>2, <2>3
<1>24. ASSUME NEW n \in 1 .. Len(rspid') PROVE rspid'[n] = pending'[Len(rsp_q') + n].to
  <2>1. CASE n <= Len(rspid) - p
    <3>1. n \in 1 .. Len(rspid) - p /\ n + p \in 1 .. Len(rspid) /\ Len(rsp_q) + n + p = Len(rsp_q) + (n + p)
      BY <1>3, <1>8, <2>1
    <3> QED BY <1>15, <1>18, <1>22, <3>1
  <2>2. CASE n > Len(rspid) - p
    <3>1. n = Len(rspid') /\ u = 1
      BY <1>3, <1>8, <1>15, <2>2
    <3> QED BY <1>15, <1>23, <3>1
  <2> QED BY <1>3, <1>8, <2>1, <2>2
<1>25. ASSUME NEW n \in 1 .. Len(cmd_q')
       PROVE  cmd_q'[n] = pending'[Len(rsp_q') + Len(rspid') + n]
  <2>1. CASE n <= Len(cmd_q) - w
    <3>1. n \in 1 .. Len(cmd_q) - w /\ n + w \in 1 .. Len(cmd_q)
      BY <1>3, <1>8, <2>1
    <3>2. /\ Len(rsp_q') + Len(rspid') + n + o = Len(rsp_q) + Len(rspid) + (n + w)
          /\ Len(rsp_q') + Len(rspid') + n \in 1 .. Len(pending) - o
      <4>1. n \in Int /\ n >= 1 /\ n + w <= Len(cmd_q)
        BY <1>19, <3>1
      <4>2. Len(rsp_q') + Len(rspid') + n + o = Len(rsp_q) + Len(rspid) + (n + w)
        BY <1>19, <4>1
      <4>3. Len(rsp_q') + Len(rspid') + n >= 1 /\ Len(rsp_q) + Len(rspid) + (n + w) <= Len(pending)
        BY <1>19, <4>1, SMTT(30)
      <4>4. Len(rsp_q') + Len(rspid') + n <= Len(pending) - o
        BY <1>19, <4>1, <4>2, <4>3
      <4> QED BY <1>19, <4>1, <4>2, <4>3, <4>4
    <3>3. cmd_q'[n] = cmd_q[n + w]
      BY <1>8, <1>13, <3>1
    <3>5. cmd_q[n + w] = pending[Len(rsp_q) + Len(rspid) + (n + w)]
      BY <1>18, <3>1
    <3>4. pending'[Len(rsp_q') + Len(rspid') + n] = pending[Len(rsp_q') + Len(rspid') + n + o]
      BY <1>16, <3>2
    <3> QED BY <3>2, <3>3, <3>4, <3>5
  <2>2. CASE n > Len(cmd_q) - w
    <3>1. n = Len(cmd_q') /\ a = 1
      BY <1>3, <1>8, <1>13, <2>2
    <3>2. Len(pending') = Len(rsp_q') + Len(rspid') + n
      BY <1>20, <3>1
    <3>3. cmd_q'[n] = cmd
      BY <1>8, <1>13, <3>1
    <3>4. pending'[Len(pending')] = cmd
      BY <1>8, <1>16, <3>1
    <3> QED BY <3>2, <3>3, <3>4
  <2> QED BY <1>3, <1>8, <2>1, <2>2
<1>26. InOrder'
  BY <1>20, <1>21, <1>24, <1>25 DEF InOrder
<1> DEFINE d == IF Len(rspid) > 0 THEN rspid[1] ELSE indic
<1>27. Len(rspid) > 0 => d = rspid[1] /\ d \in LateSlaves \cup TiedSlaves /\ rsp_port_id = d
  BY <1>3, <1>7 DEF IInv, OneBranch, rsp_port_id, rspid_fifo_empty
<1>28. Len(rspid) = 0 => d = indic /\ rsp_port_id = d
  BY <1>7 DEF rsp_port_id, rspid_fifo_empty
<1>29. w = 1 => indic = d
  BY <1>3, <1>7, <1>11, Issued DEF wen
<1>30. u = 1 => d \in LateSlaves \cup TiedSlaves
  <2>1. CASE Len(rspid) > 0
    BY <1>27, <2>1
  <2>2. CASE Len(rspid) = 0
    BY <1>8, <1>11, <1>28, <2>2, AnsweredAtOnce DEF wen, ren
  <2> QED BY <1>3, <2>1, <2>2
<1>31. \A n \in 1 .. Len(rspid) : rspid[n] = rspid[1]
  BY DEF IInv, OneBranch
<1> HIDE DEF d
<1>32. ASSUME NEW n \in 1 .. Len(rspid')
       PROVE  rspid'[n] = d /\ d \in LateSlaves \cup TiedSlaves
  <2>1. CASE n <= Len(rspid) - p
    <3>1. n \in 1 .. Len(rspid) - p /\ n + p \in 1 .. Len(rspid) /\ Len(rspid) > 0
      BY <1>3, <1>8, <2>1
    <3> QED BY <1>15, <1>27, <1>31, <3>1
  <2>2. CASE n > Len(rspid) - p
    <3>1. n = Len(rspid') /\ u = 1
      BY <1>3, <1>8, <1>15, <2>2
    <3> QED BY <1>8, <1>15, <1>29, <1>30, <3>1
  <2> QED BY <1>3, <1>8, <2>1, <2>2
<1>33. OneBranch'
  <2>1. ASSUME NEW n \in 1 .. Len(rspid')
        PROVE  rspid'[n] = rspid'[1] /\ rspid'[n] \in LateSlaves \cup TiedSlaves
    <3>1. 1 \in 1 .. Len(rspid')
      BY <1>15
    <3> QED BY <1>32, <3>1
  <2> QED BY <2>1 DEF OneBranch
\* The commands a late slave works on.
<1>34. ASSUME NEW s \in LateSlaves
       PROVE  /\ late'[s] \in Seq(Commands)
              /\ IF rspid' # <<>> /\ rspid'[1] = s
                 THEN /\ Len(late'[s]) = Len(rspid')
                      /\ \A n \in 1 .. Len(rspid') : late'[s][n] = pending'[Len(rsp_q') + n]
                 ELSE late'[s] = <<>>
  <2> DEFINE ps == One(ren /\ s = rsp_port_id)
             us == One(wen /\ s = indic)
  <2>1. /\ late[s] \in Seq(Commands)
        /\ Len(rspid) > 0 /\ s = d =>
             /\ Len(late[s]) = Len(rspid)
             /\ \A n \in 1 .. Len(rspid) : late[s][n] = pending[Len(rsp_q) + n]
        /\ Len(rspid) = 0 \/ s # d => late[s] = <<>>
    BY <1>3, <1>7, <1>27 DEF IInv, TypeOK, AtWork
  <2>2. late'[s] = Moved(late[s], ps, us, Head(cmd_q))
    BY DEF Cycle, wen, ren, issues, returns, Moved, Pushed, Popped, One
  <2>3. ps \in {0, 1} /\ us \in {0, 1}
    BY DEF One
  <2>4. /\ Len(rspid) > 0 /\ s = d => ps = p /\ us = u
        /\ Len(rspid) > 0 /\ s # d => ps = 0 /\ us = 0
        /\ Len(rspid) = 0 => ps = 0 /\ us = (IF s = d THEN u ELSE 0)
    <3>1. CASE Len(rspid) > 0
      BY <1>2, <1>8, <1>11, <1>27, <1>29, <3>1 DEF One
    <3>2. CASE Len(rspid) = 0
      <4>1. ren => rsp_port_id \notin LateSlaves
        BY <1>7, <3>2, AnswersOffered DEF ren
      <4>2. s = d => r = 0
        BY <1>8, <1>11, <1>28, <3>2, <4>1
      <4> QED BY <1>2, <1>8, <1>11, <1>28, <1>29, <3>2, <4>1, <4>2 DEF One
    <3> QED BY <1>3, <3>1, <3>2
  <2>5. us = 1 => Head(cmd_q) \in Commands
    <3>1. us = 1 => wen
      BY <1>2 DEF One
    <3>2. us = 1 => cmd_q # <<>>
      BY <1>5, <3>1
    <3> QED BY <1>3, <3>2
  <2> HIDE DEF ps, us
  <2>6. ps = 1 => late[s] # <<>>
    BY <1>3, <1>8, <2>1, <2>4
  <2>7. Queued(Commands, late[s], ps, us, Head(cmd_q), late'[s])
    BY <2>1, <2>2, <2>3, <2>5, <2>6, QueueStep
  <2>8. /\ late'[s] \in Seq(Commands) /\ Len(late'[s]) = Len(late[s]) - ps + us
        /\ \A n \in 1 .. Len(late[s]) - ps : late'[s][n] = late[s][n + ps]
        /\ us = 1 => late'[s][Len(late'[s])] = Head(cmd_q)
    BY <2>7 DEF Queued
  <2>9. CASE s = d
    <3>1. Len(late[s]) = Len(rspid) /\ Len(late'[s]) = Len(rspid') /\ us = u
      <4>1. us = u
        BY <1>19, <2>4, <2>9
      <4>2. Len(late[s]) = Len(rspid)
        BY <1>19, <2>1, <2>9
      <4>3. ps = p
        BY <1>8, <1>19, <2>4, <2>9
      <4> QED BY <1>19, <2>8, <4>1, <4>2, <4>3
    <3>2. ASSUME NEW n \in 1 .. Len(rspid') PROVE late'[s][n] = pending'[Len(rsp_q') + n]
      <4>1. CASE n <= Len(rspid) - p
        <5>1. Len(rspid) > 0 /\ n \in 1 .. Len(rspid) - p /\ n + p \in 1 .. Len(rspid) /\ ps = p
          BY <1>3, <1>8, <2>4, <2>9, <4>1
        <5>2. late[s][n + p] = pending[Len(rsp_q) + n + p] /\ late'[s][n] = late[s][n + p]
          <6>1. late[s][n + p] = pending[Len(rsp_q) + (n + p)]
            BY <2>1, <2>9, <5>1
          <6>2. Len(rsp_q) + (n + p) = Len(rsp_q) + n + p
            BY <1>8, <1>19
          <6>3. late'[s][n] = late[s][n + p]
            BY <2>8, <3>1, <5>1
          <6> QED BY <6>1, <6>2, <6>3
        <5> QED BY <1>22, <5>1, <5>2
      <4>2. CASE n > Len(rspid) - p
        <5>1. n = Len(rspid') /\ u = 1
          BY <1>3, <1>8, <1>15, <4>2
        <5> QED BY <1>23, <2>8, <3>1, <5>1
      <4> QED BY <1>3, <1>8, <4>1, <4>2
    <3>3. rspid' # <<>> => rspid'[1] = s
      BY <1>15, <1>32, <2>9
    <3>4. rspid' = <<>> => late'[s] = <<>>
      BY <2>8, <3>1
    <3> QED BY <2>8, <3>1, <3>2, <3>3, <3>4
  <2>10. CASE s # d
    <3>1. late'[s] = <<>>
      <4>1. late[s] = <<>> /\ ps = 0 /\ us = 0
        BY <1>3, <2>1, <2>4, <2>10
      <4> QED BY <2>8, <4>1
    <3>2. rspid' # <<>> => rspid'[1] # s
      BY <1>15, <1>32, <2>10
    <3> QED BY <2>8, <3>1, <3>2
  <2> QED BY <2>9, <2>10
<1>35. AtWork'
  BY <1>34 DEF AtWork
<1>36. TypeOK'
  <2>1. late' \in [LateSlaves -> Seq(Commands)]
    BY <1>34 DEF Cycle
  <2> QED BY <1>13, <1>14, <1>15, <1>16, <1>17, <2>1 DEF TypeOK
<1> QED
  BY <1>26, <1>33, <1>35, <1>36 DEF IInv

\* The invariant holds from reset on.
LEMMA FabricInv == ASSUME FabricAssumption PROVE Spec => []IInv
<1>1. Init => IInv
  BY InitIInv
<1>2. IInv /\ [Next]_vars => IInv'
  <2> SUFFICES ASSUME IInv, [Next]_vars PROVE IInv'
    OBVIOUS
  <2>1. ASSUME NEW valid \in BOOLEAN, NEW ready \in BOOLEAN, NEW goes \in BOOLEAN,
               NEW answers \in BOOLEAN, NEW cmd \in Commands,
               Cycle(valid, cmd, ready, goes, answers)
        PROVE  IInv'
    BY <2>1, CycleIInv
  <2>2. CASE Reset
    BY <2>2, ResetIInv
  <2>3. CASE UNCHANGED vars
    BY <2>3 DEF vars, IInv, TypeOK, OneBranch, InOrder, AtWork
  <2> QED BY <2>1, <2>2, <2>3 DEF Next
<1> QED BY <1>1, <1>2, PTL DEF Spec

LEMMA InvAllAccounted == ASSUME FabricAssumption, IInv PROVE AllAccounted
<1> DEFINE answered == Len(rsp_q)
           issued   == answered + Len(rspid)
<1>1. /\ cmd_q \in Seq(Commands) /\ Len(cmd_q) \in Nat
      /\ rsp_q \in Seq(Responses) /\ answered \in Nat
      /\ rspid \in Seq(Slaves) /\ Len(rspid) \in Nat
      /\ pending \in Seq(Commands) /\ Len(pending) = issued + Len(cmd_q)
      /\ \A s \in LateSlaves : late[s] \in Seq(Commands)
  BY DEF IInv, TypeOK, InOrder
<1>2. ASSUME NEW s \in LateSlaves, rspid # <<>>, Head(rspid) = s
      PROVE  late[s] = SubSeq(pending, answered + 1, issued)
  <2> DEFINE work == SubSeq(pending, answered + 1, issued)
  <2>1. rspid[1] = s
    BY <1>1, <1>2
  <2>2. /\ Len(late[s]) = Len(rspid)
        /\ \A n \in 1 .. Len(rspid) : late[s][n] = pending[answered + n]
    BY <1>2, <2>1 DEF IInv, AtWork
  <2>3. /\ work \in Seq(Commands) /\ Len(work) = Len(rspid)
        /\ \A n \in 1 .. Len(rspid) : work[n] = pending[answered + n]
    BY <1>1
  <2> HIDE DEF work
  <2>4. late[s] = work
    <3>1. late[s] \in [1 .. Len(rspid) -> Commands] /\ work \in [1 .. Len(rspid) -> Commands]
      BY <1>1, <2>2, <2>3
    <3>2. \A n \in 1 .. Len(rspid) : late[s][n] = work[n]
      BY <2>2, <2>3
    <3> QED BY <3>1, <3>2
  <2> QED BY <2>4 DEF work
<1>3. ASSUME NEW s \in LateSlaves, ~(rspid # <<>> /\ Head(rspid) = s) PROVE late[s] = <<>>
  BY <1>1, <1>3 DEF IInv, AtWork
<1>4. /\ \A n \in 1 .. answered : Answers(rsp_q[n], pending[n])
      /\ \A n \in 1 .. Len(rspid) : rspid[n] = pending[answered + n].to
      /\ \A n \in 1 .. Len(cmd_q) : cmd_q[n] = pending[issued + n]
  BY DEF IInv, InOrder
<1> HIDE DEF answered, issued
<1>5. \A s \in LateSlaves :
        late[s] = IF rspid # <<>> /\ Head(rspid) = s
                  THEN SubSeq(pending, answered + 1, issued) ELSE <<>>
  BY <1>2, <1>3
<1> QED
  BY <1>1, <1>4, <1>5 DEF AllAccounted, answered, issued

\* Every command the fabric accepts is in one place and in its order, and every
\* response is its own slave's answer to the oldest command unanswered: for every
\* set of slaves and every number of outstanding commands (sirv_gnrl_icb_splt).
THEOREM Accounting == ASSUME FabricAssumption PROVE Spec => []AllAccounted
<1>1. IInv => AllAccounted
  BY InvAllAccounted
<1> QED BY <1>1, FabricInv, PTL
================================================================================
