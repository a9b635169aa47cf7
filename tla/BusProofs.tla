------------------------------- MODULE BusProofs -------------------------------
(***************************************************************************)
(* Proofs about the buses of the coreplex and about the benches of         *)
(* MCCoreplexBus, for every set of peripherals.                            *)
(***************************************************************************)
EXTENDS MCCoreplexBus, TLAPS

Requests == DataAccesses \cup {NoReq}
Fetches == InstrAccesses \cup {NoReq}

BusTypeOK ==
  /\ data_req \in Requests /\ data_out \in Requests
  /\ instr_req \in Fetches /\ instr_out \in Fetches
  /\ mem \in [Words -> Bytes]
  /\ flash \in Fetches
  /\ tcm_data_rvalid \in BOOLEAN /\ tcm_instr_rvalid \in BOOLEAN
  /\ dm_instr_sel \in BOOLEAN /\ dm_instr_rvalid \in BOOLEAN /\ dm_data_rvalid \in BOOLEAN
  /\ dtm_data_rvalid \in BOOLEAN /\ perip_data_rvalid \in BOOLEAN /\ perip_instr_rvalid \in BOOLEAN

\* The data port has one access under way; with one in the fabric it has no other,
\* and no answer yet.
OneAccess ==
  /\ data_req # NoReq => data_out = NoReq \/ data_rvalid
  /\ pending # <<>> => Len(pending) = 1 /\ pending[1].to = data_out.to /\ ~data_rvalid

\* The fetch port likewise, with the flash for the fabric.
OneFetch ==
  /\ instr_req # NoReq => instr_out = NoReq \/ instr_rvalid
  /\ flash # NoReq => flash.to = "flash" /\ instr_out.to = "flash" /\ ~instr_rvalid

BusInv == BusTypeOK /\ OneAccess /\ OneFetch /\ Perips!IInv /\ AnswersMatch /\ ReadsCurrent

\* What an access can be.
LEMMA Accesses ==
  /\ \A c \in Requests : c.to \in DataTargets \cup {"nowhere"} /\ c.word \in Words /\ c.byte \in Bytes
  /\ \A c \in Requests : c.to = "nowhere" <=> c = NoReq
  /\ \A c \in Fetches : c.to \in {"tcm", "dm", "flash", "hole", "nowhere"} /\ c.word \in Words
  /\ \A c \in Fetches : c.to = "nowhere" <=> c = NoReq
  /\ NoReq.to = "nowhere" /\ "nowhere" \notin DataTargets
<1>1. NoReq.to = "nowhere" /\ NoReq.word \in Words /\ NoReq.byte \in Bytes
  BY DEF NoReq, Words, Bytes
<1>2. "nowhere" \notin DataTargets
  BY BusAssumption DEF DataTargets
<1>3. "tcm" \in DataTargets
  BY DEF DataTargets
<1>4. \A c \in DataAccesses : c.to \in DataTargets /\ c.word \in Words /\ c.byte \in Bytes
  <2> SUFFICES ASSUME NEW c \in DataAccesses
               PROVE  c.to \in DataTargets /\ c.word \in Words /\ c.byte \in Bytes
    OBVIOUS
  <2>1. CASE c \in Access({"tcm"}, {TRUE}, Words, Bytes)
    BY <1>3, <2>1 DEF Access
  <2>2. CASE c \in Access({"tcm"}, {FALSE}, Words, {0})
    BY <1>3, <2>2 DEF Access, Bytes
  <2>3. CASE c \in Access(DataTargets \ {"tcm"}, {TRUE}, {0}, {1})
    BY <2>3 DEF Access, Words, Bytes
  <2> QED BY <2>1, <2>2, <2>3 DEF DataAccesses
<1>5. \A c \in InstrAccesses : c.to \in {"tcm", "dm", "flash", "hole"} /\ c.word \in Words
  <2> SUFFICES ASSUME NEW c \in InstrAccesses
               PROVE  c.to \in {"tcm", "dm", "flash", "hole"} /\ c.word \in Words
    OBVIOUS
  <2>1. CASE c \in Access({"tcm"}, {FALSE}, Words, {0})
    BY <2>1 DEF Access
  <2>2. CASE c \in Access({"dm", "flash", "hole"}, {FALSE}, {0}, {0})
    BY <2>2 DEF Access, Words
  <2> QED BY <2>1, <2>2 DEF InstrAccesses
<1>6. /\ \A c \in Requests : c \in DataAccesses \/ c = NoReq
      /\ \A c \in Fetches : c \in InstrAccesses \/ c = NoReq
  BY DEF Requests, Fetches
<1> QED BY <1>1, <1>2, <1>4, <1>5, <1>6

LEMMA BusInit == Init => BusInv
<1> SUFFICES ASSUME Init PROVE BusInv
  OBVIOUS
<1>1. Perips!IInv
  BY BusAssumption, Perips!InitIInv DEF Init
<1>2. pending = <<>>
  BY DEF Init, Perips!Init
<1>3. BusTypeOK
  <2>1. NoReq \in Requests /\ NoReq \in Fetches
    BY DEF Requests, Fetches
  <2>2. [w \in Words |-> 0] \in [Words -> Bytes]
    BY DEF Bytes
  <2> QED BY <2>1, <2>2 DEF Init, BusTypeOK
<1>4. OneAccess /\ OneFetch
  BY <1>2 DEF Init, OneAccess, OneFetch
<1>5. AnswersMatch /\ ReadsCurrent
  BY DEF Init, AnswersMatch, ReadsCurrent
<1> QED BY <1>1, <1>3, <1>4, <1>5 DEF BusInv

LEMMA BusReset == ASSUME BusInv, Reset PROVE BusInv'
<1>1. Perips!IInv'
  BY BusAssumption, Perips!ResetIInv DEF Reset
<1>2. pending' = <<>>
  BY DEF Reset, Perips!Reset
<1>3. BusTypeOK'
  BY DEF BusInv, Reset, BusTypeOK, Requests, Fetches
<1>4. OneAccess' /\ OneFetch'
  BY <1>2 DEF Reset, OneAccess, OneFetch
<1>5. AnswersMatch' /\ ReadsCurrent'
  BY DEF Reset, AnswersMatch, ReadsCurrent
<1> QED BY <1>1, <1>3, <1>4, <1>5 DEF BusInv

\* The fabric answers every access it accepts with its own slave.
LEMMA FabricAnswer ==
  ASSUME Perips!IInv
  PROVE  /\ rsp_q # <<>> => pending # <<>> /\ Perips!i_icb_rsp.from = pending[1].to
         /\ \A n \in 1 .. Len(pending) : pending[n].to \in Perips!Slaves
         /\ pending \in Seq(Perips!Commands) /\ Len(pending) \in Nat
         /\ Len(rsp_q) <= Len(pending)
<1>1. /\ rsp_q \in Seq(Perips!Responses) /\ pending \in Seq(Perips!Commands)
      /\ Len(rsp_q) \in Nat /\ Len(rspid) \in Nat /\ Len(cmd_q) \in Nat /\ Len(pending) \in Nat
      /\ Len(pending) = Len(rsp_q) + Len(rspid) + Len(cmd_q)
      /\ \A n \in 1 .. Len(rsp_q) : Perips!Answers(rsp_q[n], pending[n])
  BY DEF Perips!IInv, Perips!TypeOK, Perips!InOrder
<1>2. ASSUME rsp_q # <<>> PROVE pending # <<>> /\ Perips!i_icb_rsp.from = pending[1].to
  <2>1. Len(rsp_q) > 0 /\ Head(rsp_q) = rsp_q[1]
    BY <1>1, <1>2
  <2>2. Perips!Answers(rsp_q[1], pending[1]) /\ pending # <<>>
    BY <1>1, <2>1
  <2> QED BY <2>1, <2>2 DEF Perips!Answers, Perips!i_icb_rsp
<1>3. ASSUME NEW n \in 1 .. Len(pending) PROVE pending[n].to \in Perips!Slaves
  <2>1. pending[n] \in Perips!Commands
    BY <1>1
  <2> QED BY <2>1 DEF Perips!Commands
<1>4. Len(rsp_q) <= Len(pending)
  BY <1>1
<1> QED BY <1>1, <1>2, <1>3, <1>4

\* One cycle of the bus keeps its invariant.
LEMMA BusCycle ==
  ASSUME BusInv, NEW goes \in BOOLEAN, NEW answers \in BOOLEAN, NEW moves \in BOOLEAN,
         NEW datas \in SUBSET DataAccesses, NEW instrs \in SUBSET InstrAccesses,
         Cycle(goes, answers, moves, datas, instrs)
  PROVE  BusInv'
<1> USE DEF Asks
<1>1. BusTypeOK /\ OneAccess /\ OneFetch /\ Perips!IInv /\ AnswersMatch
  BY DEF BusInv
<1>2. Tcm /\ Dm /\ Dtm /\ Cpu2Pd(goes, answers) /\ Cpu2Pi(moves) /\ Core(moves, datas, instrs)
  BY DEF Cycle
<1>3. perip_cs \in BOOLEAN /\ perip_cmd \in Perips!Commands
  <2>1. (CHOOSE t \in Tags : TRUE) \in Tags
    BY BusAssumption
  <2>2. (IF perip_cs THEN data_req.to ELSE Perips!Default) \in Perips!Slaves
    BY DEF perip_cs, Perips!Slaves
  <2> QED BY <2>1, <2>2 DEF perip_cs, perip_cmd, Perips!Commands
<1>4. Perips!IInv'
  BY <1>1, <1>2, <1>3, BusAssumption, Perips!CycleIInv DEF Cpu2Pd
<1>5. BusTypeOK'
  <2>1. data_req' \in Requests
    BY <1>1, <1>2 DEF BusTypeOK, Requests, Core
  <2>2. instr_req' \in Fetches
    BY <1>1, <1>2 DEF BusTypeOK, Fetches, Core
  <2>3. NoReq \in Requests /\ NoReq \in Fetches
    BY DEF Requests, Fetches
  <2>4. data_out' \in Requests /\ instr_out' \in Fetches /\ flash' \in Fetches
    BY <1>1, <1>2, <2>3 DEF BusTypeOK, Core, Cpu2Pi
  <2>5. mem' \in [Words -> Bytes]
    BY <1>1, <1>2, Accesses DEF BusTypeOK, Tcm
  <2>6. /\ tcm_data_rvalid' \in BOOLEAN /\ tcm_instr_rvalid' \in BOOLEAN
        /\ dm_instr_sel' \in BOOLEAN /\ dm_instr_rvalid' \in BOOLEAN /\ dm_data_rvalid' \in BOOLEAN
        /\ dtm_data_rvalid' \in BOOLEAN /\ perip_data_rvalid' \in BOOLEAN /\ perip_instr_rvalid' \in BOOLEAN
    BY <1>1, <1>2
       DEF Tcm, Dm, Dtm, Cpu2Pd, Cpu2Pi, data_cs, instr_cs, dm_instr_sel_nxt, dm_instr_rvalid_nxt,
           dm_data_rvalid_nxt, Perips!i_icb_rsp_valid, flash_works, BusTypeOK
  <2> QED BY <2>1, <2>2, <2>4, <2>5, <2>6 DEF BusTypeOK
\* The data port.
<1>6. /\ data_req = NoReq <=> data_req.to = "nowhere"
      /\ data_out = NoReq <=> data_out.to = "nowhere"
      /\ instr_req = NoReq <=> instr_req.to = "nowhere"
      /\ instr_out = NoReq <=> instr_out.to = "nowhere"
      /\ NoReq.to = "nowhere"
  BY <1>1, Accesses DEF BusTypeOK
<1>7. Perips!Slaves \cap {"tcm", "dm", "dtm", "hole", "flash", "nowhere"} = {}
  BY BusAssumption
<1>8. data_gnt <=> data_cs("tcm") \/ dm_data_gnt \/ data_cs("dtm") \/ (perip_cs /\ Perips!i_icb_cmd_ready)
  BY DEF data_gnt
<1>9. data_req = NoReq =>
        /\ ~data_gnt /\ ~perip_cs /\ ~data_cs("tcm") /\ ~data_cs("dm") /\ ~data_cs("dtm")
  BY <1>6, <1>7 DEF data_gnt, data_cs, dm_data_gnt, perip_cs
<1>10. data_out' = IF data_gnt THEN data_req ELSE IF data_rvalid THEN NoReq ELSE data_out
  BY <1>2 DEF Core
<1>11. /\ tcm_data_rvalid' = data_cs("tcm") /\ dm_data_rvalid' = dm_data_gnt
       /\ dtm_data_rvalid' = data_cs("dtm") /\ perip_data_rvalid' = (rsp_q # <<>>)
       /\ perip_data_rdata' = IF rsp_q # <<>> THEN Perips!i_icb_rsp.from ELSE NoData
  BY <1>2 DEF Tcm, Dm, Dtm, Cpu2Pd, dm_data_rvalid_nxt, dm_data_gnt, Perips!i_icb_rsp_valid
\* With an access in the fabric the core asks for no other.
<1>12. ASSUME pending # <<>>
       PROVE  /\ data_req = NoReq /\ data_out' = data_out /\ data_out.to \in Perips!Slaves
              /\ Len(pending) = 1 /\ pending[1].to = data_out.to
  <2>1. Len(pending) = 1 /\ pending[1].to = data_out.to /\ ~data_rvalid
    BY <1>1, <1>12 DEF OneAccess
  <2>2. data_out.to \in Perips!Slaves
    BY <1>1, <2>1, FabricAnswer
  <2>3. data_req = NoReq
    BY <1>1, <1>6, <1>7, <2>1, <2>2 DEF OneAccess
  <2> QED BY <1>9, <1>10, <2>1, <2>2, <2>3
<1>13. pending' = Perips!Pushed(Perips!Popped(pending, rsp_q # <<>>),
                                perip_cs /\ Perips!i_icb_cmd_ready, perip_cmd)
  BY <1>2 DEF Cpu2Pd, Perips!Cycle, Perips!i_icb_rsp_valid
<1>14. ASSUME pending' # <<>>
       PROVE  Len(pending') = 1 /\ pending'[1].to = data_out'.to /\ ~data_rvalid'
  <2>1. CASE pending # <<>>
    <3>1. ~perip_cs /\ ~data_cs("tcm") /\ ~data_cs("dm") /\ ~data_cs("dtm")
      BY <1>9, <1>12, <2>1
    <3>2. rsp_q = <<>>
      BY <1>1, <1>12, <1>13, <1>14, <2>1, <3>1, FabricAnswer DEF Perips!Pushed, Perips!Popped
    <3>3. pending' = pending
      BY <1>13, <3>1, <3>2 DEF Perips!Pushed, Perips!Popped
    <3> QED BY <1>11, <1>12, <2>1, <3>1, <3>2, <3>3 DEF data_rvalid, dm_data_gnt
  <2>2. CASE pending = <<>>
    <3>1. rsp_q = <<>>
      BY <1>1, <2>2, FabricAnswer
    <3>2. perip_cs /\ Perips!i_icb_cmd_ready /\ pending' = <<perip_cmd>>
      BY <1>13, <1>14, <2>2, <3>1 DEF Perips!Pushed, Perips!Popped
    <3>3. data_gnt /\ perip_cmd.to = data_req.to
      BY <3>2 DEF data_gnt, perip_cmd
    <3>4. ~data_cs("tcm") /\ ~data_cs("dm") /\ ~data_cs("dtm")
      BY <1>7, <3>2 DEF perip_cs, data_cs
    <3> QED BY <1>10, <1>11, <3>1, <3>2, <3>3, <3>4 DEF data_rvalid, dm_data_gnt
  <2> QED BY <2>1, <2>2
<1>15. data_req' # NoReq => data_out' = NoReq \/ data_rvalid'
  <2>1. CASE data_req # NoReq /\ ~data_gnt
    BY <1>1, <1>10, <2>1 DEF OneAccess
  <2>2. CASE ~(data_req # NoReq /\ ~data_gnt)
    BY <1>2, <2>2 DEF Core
  <2> QED BY <2>1, <2>2
<1>16. OneAccess'
  BY <1>14, <1>15 DEF OneAccess
<1>17. /\ tcm_data_rvalid' => data_out'.to = "tcm"
       /\ dm_data_rvalid' => data_out'.to = "dm"
       /\ dtm_data_rvalid' => data_out'.to = "dtm"
       /\ perip_data_rvalid' => data_out'.to = perip_data_rdata'
  <2>1. perip_data_rvalid' => data_out'.to = perip_data_rdata'
    BY <1>1, <1>11, <1>12, FabricAnswer
  <2> QED BY <1>8, <1>10, <1>11, <2>1 DEF data_cs, dm_data_gnt
\* The fetch port.
<1>18. instr_gnt(moves) <=> instr_cs("tcm") \/ dm_instr_gnt \/ (flash_takes /\ moves)
  BY DEF instr_gnt
<1>19. instr_out' = IF instr_gnt(moves) THEN instr_req ELSE IF instr_rvalid THEN NoReq ELSE instr_out
  BY <1>2 DEF Core
<1>20. /\ tcm_instr_rvalid' = instr_cs("tcm") /\ dm_instr_rvalid' = dm_instr_gnt
       /\ perip_instr_rvalid' = (flash # NoReq /\ moves)
       /\ flash' = IF flash # NoReq THEN IF moves THEN NoReq ELSE flash
                   ELSE IF flash_takes /\ moves THEN instr_req ELSE NoReq
  BY <1>2 DEF Tcm, Dm, Cpu2Pi, dm_instr_rvalid_nxt, dm_instr_gnt, flash_works
<1>21. ASSUME flash # NoReq
       PROVE  /\ instr_req = NoReq /\ instr_out' = instr_out /\ instr_out.to = "flash"
              /\ ~instr_cs("tcm") /\ ~dm_instr_gnt
  <2>1. flash.to = "flash" /\ instr_out.to = "flash" /\ ~instr_rvalid
    BY <1>1, <1>21 DEF OneFetch
  <2>2. instr_req = NoReq
    BY <1>1, <1>6, <2>1 DEF OneFetch
  <2>3. ~instr_cs("tcm") /\ ~dm_instr_gnt /\ ~flash_takes
    BY <1>6, <2>2 DEF instr_cs, dm_instr_gnt, flash_takes
  <2> QED BY <1>18, <1>19, <2>1, <2>2, <2>3
<1>22. ASSUME flash' # NoReq
       PROVE  flash'.to = "flash" /\ instr_out'.to = "flash" /\ ~instr_rvalid'
  <2>1. CASE flash # NoReq
    BY <1>1, <1>20, <1>21, <1>22, <2>1 DEF instr_rvalid, OneFetch
  <2>2. CASE flash = NoReq
    <3>1. flash_takes /\ moves /\ flash' = instr_req
      BY <1>20, <1>22, <2>2
    <3>2. instr_req.to = "flash"
      BY <3>1 DEF flash_takes, instr_cs
    <3>3. ~instr_cs("tcm") /\ ~dm_instr_gnt
      BY <3>2 DEF instr_cs, dm_instr_gnt
    <3> QED BY <1>18, <1>19, <1>20, <2>2, <3>1, <3>2, <3>3 DEF instr_rvalid
  <2> QED BY <2>1, <2>2
<1>23. instr_req' # NoReq => instr_out' = NoReq \/ instr_rvalid'
  <2>1. CASE instr_req # NoReq /\ ~instr_gnt(moves)
    BY <1>1, <1>19, <2>1 DEF OneFetch
  <2>2. CASE ~(instr_req # NoReq /\ ~instr_gnt(moves))
    BY <1>2, <2>2 DEF Core
  <2> QED BY <2>1, <2>2
<1>24. OneFetch'
  BY <1>22, <1>23 DEF OneFetch
<1>25. /\ tcm_instr_rvalid' => instr_out'.to = "tcm"
       /\ dm_instr_rvalid' => instr_out'.to = "dm"
       /\ perip_instr_rvalid' => instr_out'.to = "flash"
  BY <1>18, <1>19, <1>20, <1>21 DEF instr_cs, dm_instr_gnt
<1>26. AnswersMatch'
  BY <1>17, <1>25 DEF AnswersMatch
\* The memory.
<1>27. ReadsCurrent'
  <2>1. /\ tcm_data_rdata' = IF data_cs("tcm") THEN mem[data_req.word] ELSE NoData
        /\ tcm_instr_rdata' = IF instr_cs("tcm") THEN mem[instr_req.word] ELSE NoData
        /\ mem' = IF data_cs("tcm") /\ data_req.we THEN [mem EXCEPT ![data_req.word] = data_req.byte]
                  ELSE mem
    BY <1>2 DEF Tcm, tcm_write, addrb
  <2>2. mem \in [Words -> Bytes] /\ data_req.word \in Words /\ instr_req.word \in Words
    BY <1>1, Accesses DEF BusTypeOK
  <2>3. tcm_data_rvalid' => data_out' = data_req /\ data_cs("tcm")
    BY <1>8, <1>10, <1>11
  <2>4. tcm_instr_rvalid' => instr_out' = instr_req /\ instr_cs("tcm")
    BY <1>18, <1>19, <1>20
  <2>5. tcm_data_rvalid' /\ ~data_out'.we => tcm_data_rdata' = mem'[data_out'.word]
    BY <2>1, <2>3
  <2>6. tcm_instr_rvalid' =>
          \/ tcm_instr_rdata' = mem'[instr_out'.word]
          \/ tcm_data_rvalid' /\ data_out'.we /\ data_out'.word = instr_out'.word
    <3>1. CASE data_cs("tcm") /\ data_req.we /\ data_req.word = instr_req.word
      BY <1>8, <1>10, <1>11, <2>4, <3>1
    <3>2. CASE ~(data_cs("tcm") /\ data_req.we /\ data_req.word = instr_req.word)
      BY <2>1, <2>2, <2>4, <3>2
    <3> QED BY <3>1, <3>2
  <2> QED BY <2>5, <2>6 DEF ReadsCurrent
<1> QED BY <1>4, <1>5, <1>16, <1>24, <1>26, <1>27 DEF BusInv


LEMMA ClockInv ==
  ASSUME BusInv, NEW datas \in SUBSET DataAccesses, NEW instrs \in SUBSET InstrAccesses,
         ClockOf(datas, instrs)
  PROVE  BusInv'
BY BusCycle DEF ClockOf, Goes, Answers, Moves, Choice

LEMMA BusStutter == ASSUME BusInv, UNCHANGED vars PROVE BusInv'
<1>1. Perips!IInv'
  BY DEF BusInv, vars, fabric, Perips!IInv, Perips!TypeOK, Perips!OneBranch, Perips!InOrder, Perips!AtWork
<1>2. BusTypeOK' /\ OneAccess' /\ OneFetch'
  BY DEF BusInv, vars, ports, tcm, bridges, fabric, BusTypeOK, OneAccess, OneFetch, data_rvalid, instr_rvalid
<1>3. AnswersMatch' /\ ReadsCurrent'
  BY DEF BusInv, vars, ports, tcm, bridges, AnswersMatch, Asks, ReadsCurrent
<1> QED BY <1>1, <1>2, <1>3 DEF BusInv

LEMMA BusInvariant == Spec => []BusInv
<1>1. BusInv /\ [Next]_vars => BusInv'
  <2>1. ASSUME BusInv, Clock PROVE BusInv'
    BY <2>1, ClockInv DEF Clock
  <2>2. ASSUME BusInv, Reset PROVE BusInv'
    BY <2>2, BusReset
  <2>3. ASSUME BusInv, UNCHANGED vars PROVE BusInv'
    BY <2>3, BusStutter
  <2> QED BY <2>1, <2>2, <2>3 DEF Next
<1> QED BY BusInit, <1>1, PTL DEF Spec

\* An answer comes from the slave the access went to, and so never from two at
\* once: the ORs of zr_coreplex.sv (lines 579-609) never mix two answers, for
\* every set of peripherals.
THEOREM AnswersApart == Spec => []AnswersMatch
<1>1. BusInv => AnswersMatch
  BY DEF BusInv
<1> QED BY <1>1, BusInvariant, PTL

LEMMA StoreOnly == ASSUME BusInv, [Next]_vars PROVE OnlyItsStores
<1>1. CASE Clock
  <2>1. Tcm /\ data_out' = IF data_gnt THEN data_req ELSE IF data_rvalid THEN NoReq ELSE data_out
    BY <1>1 DEF Clock, ClockOf, Cycle, Core
  <2>2. mem' # mem => tcm_write /\ mem' = [mem EXCEPT ![data_req.word] = data_req.byte]
    BY <2>1 DEF Tcm, addrb
  <2>3. tcm_write => data_gnt /\ data_req.we /\ data_req.to = "tcm"
    BY DEF tcm_write, data_gnt, data_cs, Asks
  <2> QED BY <2>1, <2>2, <2>3 DEF OnlyItsStores
<1>2. CASE Reset \/ UNCHANGED vars
  BY <1>2 DEF Reset, vars, tcm, OnlyItsStores
<1> QED BY <1>1, <1>2 DEF Next

\* What the TCM returns is what was stored there last, and nothing but a store
\* granted to the TCM changes it (zr_coreplex.sv lines 125-185).
THEOREM MemoryCurrent == Spec => TcmCurrent
<1>1. BusInv /\ BusInv' /\ [Next]_vars => [ReadsCurrent' /\ OnlyItsStores]_vars
  BY StoreOnly DEF BusInv
<1> QED BY <1>1, BusInvariant, PTL DEF Spec, TcmCurrent

LEMMA DmCycle ==
  ASSUME BusInv, NEW goes \in BOOLEAN, NEW answers \in BOOLEAN, NEW moves \in BOOLEAN,
         Cycle(goes, answers, moves, DataAccesses, InstrAccesses)
  PROVE  DmAlternates /\ DmAnswers
<1>1. /\ dm_instr_sel \in BOOLEAN /\ dm_instr_sel' = dm_instr_sel_nxt
      /\ dm_instr_rvalid' = dm_instr_rvalid_nxt /\ dm_data_rvalid' = dm_data_rvalid_nxt
  BY DEF BusInv, BusTypeOK, Cycle, Dm
<1>2. "dm" \notin Perips!Slaves /\ NoReq.to # "dm"
  BY BusAssumption DEF NoReq
<1>3. ASSUME data_cs("dm"), ~dm_data_gnt PROVE dm_data_gnt'
  <2>1. data_req # NoReq /\ ~data_gnt
    BY <1>2, <1>3 DEF data_cs, Asks, data_gnt, perip_cs
  <2>2. data_req' = data_req
    BY <2>1 DEF Cycle, Core
  <2>3. ~dm_instr_sel'
    BY <1>1, <1>3 DEF dm_instr_sel_nxt, dm_data_gnt
  <2> QED BY <1>3, <2>2, <2>3 DEF dm_data_gnt, data_cs, Asks
<1>4. ASSUME instr_cs("dm"), ~dm_instr_gnt PROVE dm_instr_gnt'
  <2>1. instr_req # NoReq /\ ~instr_gnt(moves)
    BY <1>2, <1>4 DEF instr_cs, Asks, instr_gnt, flash_takes
  <2>2. instr_req' = instr_req
    BY <2>1 DEF Cycle, Core
  <2>3. dm_instr_sel'
    BY <1>1, <1>4 DEF dm_instr_sel_nxt, dm_instr_gnt
  <2> QED BY <1>4, <2>2, <2>3 DEF dm_instr_gnt, instr_cs, Asks
<1>5. dm_data_gnt => data_out' = data_req
  BY DEF Cycle, Core, data_gnt
<1>6. dm_instr_gnt => instr_out' = instr_req
  BY DEF Cycle, Core, instr_gnt
<1>7. /\ ~(dm_data_gnt /\ dm_instr_gnt)
      /\ dm_data_rvalid' <=> dm_data_gnt
      /\ dm_instr_rvalid' <=> dm_instr_gnt
  BY <1>1 DEF dm_data_rvalid_nxt, dm_instr_rvalid_nxt, dm_data_gnt, dm_instr_gnt
<1> QED BY <1>3, <1>4, <1>5, <1>6, <1>7 DEF DmAlternates, DmAnswers

LEMMA DmTurns == ASSUME BusInv, [Next]_vars PROVE [DmAlternates /\ DmAnswers]_vars
<1>1. CASE Clock
  BY <1>1, DmCycle DEF Clock, ClockOf, Goes, Answers, Moves, Choice
<1>2. CASE Reset
  <2>1. ~(dm_data_gnt /\ dm_instr_gnt)
    BY DEF BusInv, BusTypeOK, dm_data_gnt, dm_instr_gnt
  <2> QED BY <1>2, <2>1 DEF Reset, DmAlternates, DmAnswers
<1> QED BY <1>1, <1>2 DEF Next

\* The debug module's port serves one of the core's two ports at a time and answers
\* the one it granted, with that port's own access under way, and neither is refused
\* twice in a row (dm_instr_sel, zr_coreplex.sv lines 318-354).
THEOREM DmTakesTurns == Spec => DmShared
<1>1. BusInv /\ [Next]_vars => [DmAlternates /\ DmAnswers]_vars
  BY DmTurns
<1> QED BY <1>1, BusInvariant, PTL DEF Spec, DmShared

--------------------------------------------------------------------------------
\* The bench: the fabric is the SoC's, or the one with two commands outstanding.
BenchInv ==
  /\ bench \in {"core", "live", "soc", "deep"}
  /\ bench = "deep" => Deep!IInv
  /\ bench # "deep" => Perips!IInv
  /\ bench \in {"core", "live"} => BusInv

LEMMA DeepAssumption == Deep!FabricAssumption
BY BusAssumption DEF Perips!FabricAssumption, Deep!FabricAssumption, Perips!Default, Deep!Default

LEMMA BenchCommands == SocCommands \subseteq Perips!Commands /\ DeepCommands \subseteq Deep!Commands
<1>1. /\ reg \in Perips!Slaves /\ tied \in Perips!Slaves /\ slow \in Perips!Slaves
      /\ Perips!Default \in Perips!Slaves /\ "x" \in Tags /\ "y" \in Tags
  BY BenchAssumption DEF Perips!Slaves
<1>2. Deep!Commands = Perips!Commands
  BY DEF Deep!Commands, Perips!Commands, Deep!Slaves, Perips!Slaves, Deep!Default, Perips!Default
<1>3. \A to \in Perips!Slaves, tag \in Tags : Cmd(to, tag) \in Perips!Commands
  BY DEF Cmd, Perips!Commands
<1> QED BY <1>1, <1>2, <1>3 DEF SocCommands, DeepCommands

LEMMA LiveAccesses == LiveDatas \subseteq DataAccesses /\ LiveInstrs \subseteq InstrAccesses
<1>1. {"tcm", "dm", "dtm", reg, slow} \subseteq DataTargets
  BY BenchAssumption DEF DataTargets, Perips!Slaves
<1>4. 0 \in Words /\ 1 \in Bytes
  BY DEF Words, Bytes
<1>2. ASSUME NEW c \in LiveDatas PROVE c \in DataAccesses
  <2>1. c \in [to : {"tcm", "dm", "dtm", reg, slow}, we : {TRUE}, word : {0}, byte : {1}]
    BY <1>2 DEF LiveDatas, Access
  <2>2. CASE c.to = "tcm"
    <3>1. c \in Access({"tcm"}, {TRUE}, Words, Bytes)
      BY <1>4, <2>1, <2>2 DEF Access
    <3> QED BY <3>1 DEF DataAccesses
  <2>3. CASE c.to # "tcm"
    <3>1. c \in Access(DataTargets \ {"tcm"}, {TRUE}, {0}, {1})
      BY <1>1, <2>1, <2>3 DEF Access
    <3> QED BY <3>1 DEF DataAccesses
  <2> QED BY <2>2, <2>3
<1>3. ASSUME NEW c \in LiveInstrs PROVE c \in InstrAccesses
  <2>1. c \in [to : {"tcm", "dm", "flash"}, we : {FALSE}, word : {0}, byte : {0}]
    BY <1>3 DEF LiveInstrs, Access
  <2>2. CASE c.to = "tcm"
    <3>1. c \in Access({"tcm"}, {FALSE}, Words, {0})
      BY <1>4, <2>1, <2>2 DEF Access
    <3> QED BY <3>1 DEF InstrAccesses
  <2>3. CASE c.to # "tcm"
    <3>1. c \in Access({"dm", "flash", "hole"}, {FALSE}, {0}, {0})
      BY <2>1, <2>3 DEF Access
    <3> QED BY <3>1 DEF InstrAccesses
  <2> QED BY <2>2, <2>3
<1> QED BY <1>2, <1>3

LEMMA BenchStep == BenchInv /\ [BenchNext]_benchVars => BenchInv'
<1> SUFFICES ASSUME BenchInv, [BenchNext]_benchVars PROVE BenchInv'
  OBVIOUS
<1>1. BusInv => Perips!IInv
  BY DEF BusInv
<1>2. CASE bench = "core" /\ Next /\ UNCHANGED bench
  <2>1. BusInv'
    BY <1>2, ClockInv, BusReset DEF BenchInv, Next, Clock
  <2> QED BY <1>2, <2>1 DEF BenchInv, BusInv
<1>3. CASE Live(ClockOf)
  <2>1. BusInv'
    BY <1>3, ClockInv, LiveAccesses DEF BenchInv, Live
  <2> QED BY <1>3, <2>1 DEF BenchInv, BusInv, Live
<1>4. CASE Soc
  <2>1. PICK valid \in BOOLEAN, ready \in BOOLEAN, cmd \in SocCommands, goes \in Goes, answers \in Answers :
          Perips!Cycle(valid, cmd, ready, goes, answers)
    BY <1>4 DEF Soc
  <2>2. goes \in BOOLEAN /\ answers \in BOOLEAN
    BY DEF Goes, Answers, Choice
  <2>3. Perips!FabricAssumption /\ cmd \in Perips!Commands /\ Perips!IInv
    BY <1>4, BusAssumption, BenchCommands DEF BenchInv, Soc
  <2>4. Perips!IInv'
    BY <2>1, <2>2, <2>3, Perips!CycleIInv
  <2> QED BY <1>4, <2>4 DEF BenchInv, Soc
<1>5. CASE DeepSoc
  <2>1. Deep!IInv'
    BY <1>5, DeepAssumption, BenchCommands, Deep!CycleIInv DEF BenchInv, DeepSoc
  <2> QED BY <1>5, <2>1 DEF BenchInv, DeepSoc
<1>6. CASE UNCHANGED benchVars
  <2>1. bench' = bench /\ UNCHANGED vars
    BY <1>6 DEF benchVars
  <2>2. BusInv => BusInv'
    BY <2>1, BusStutter
  <2>3. (Perips!IInv => Perips!IInv') /\ (Deep!IInv => Deep!IInv')
    BY <2>1 DEF vars, fabric, Perips!IInv, Perips!TypeOK, Perips!OneBranch, Perips!InOrder, Perips!AtWork,
       Deep!IInv, Deep!TypeOK, Deep!OneBranch, Deep!InOrder, Deep!AtWork
  <2> QED BY <2>1, <2>2, <2>3 DEF BenchInv
<1> QED BY <1>2, <1>3, <1>4, <1>5, <1>6 DEF BenchNext

\* The fabric answers every command once, in order and from its own slave,
\* behind the core and behind a master that pipelines its commands, with the
\* one command outstanding that the SoC allows and with two (sirv_gnrl_icb_splt).
THEOREM FabricAccounts == BenchSpec => []AllAccounted
<1>1. BenchInit => BenchInv
  <2> SUFFICES ASSUME BenchInit PROVE BenchInv
    OBVIOUS
  <2>1. BusInv
    BY BusInit DEF BenchInit
  <2>2. Deep!IInv
    BY DeepAssumption, Deep!InitIInv DEF BenchInit, Init, Perips!Init, Deep!Init
  <2> QED BY <2>1, <2>2 DEF BenchInit, BenchInv, BusInv
<1>2. BenchInv => AllAccounted
  <2> SUFFICES ASSUME BenchInv PROVE AllAccounted
    OBVIOUS
  <2>1. CASE bench = "deep"
    <3>1. Deep!AllAccounted
      BY <2>1, DeepAssumption, Deep!InvAllAccounted DEF BenchInv
    <3> QED BY <3>1 DEF AllAccounted, Perips!AllAccounted, Deep!AllAccounted, Perips!Answers,
               Deep!Answers, Perips!Default, Deep!Default
  <2>2. CASE bench # "deep"
    BY <2>2, BusAssumption, Perips!InvAllAccounted DEF BenchInv, AllAccounted
  <2> QED BY <2>1, <2>2
<1> QED BY <1>1, <1>2, BenchStep, PTL DEF BenchSpec

================================================================================
