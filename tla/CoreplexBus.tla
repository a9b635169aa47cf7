------------------------------ MODULE CoreplexBus ------------------------------
(***************************************************************************)
(* rtl/zr_coreplex.sv: the instruction and data ports of the core and what *)
(* answers them: the TCM, the debug module (one port for both), the window *)
(* of the bus-side DTM, and two cpu2icb bridges, to the flash for fetches  *)
(* and to the peripheral fabric for data.  The grants, valids and data of  *)
(* all of them are ORed, so the bus works only if they take turns.         *)
(* The core (external) holds a request until its grant and has one access  *)
(* per port under way; it may ask again in the cycle of the answer.        *)
(***************************************************************************)
EXTENDS Naturals, Sequences

CONSTANTS RegSlaves, TiedSlaves, LateSlaves, Tags

VARIABLES
  data_req, instr_req,    \* what the core drives
  data_out, instr_out,    \* history: the accesses granted and unanswered
  mem, tcm_data_rvalid, tcm_instr_rvalid,
  tcm_data_rdata, tcm_instr_rdata,   \* as the OR sees them, masked with rvalid
  dm_instr_sel, dm_instr_rvalid, dm_data_rvalid,
  dtm_data_rvalid,
  perip_data_rvalid, perip_data_rdata,
  flash,                  \* the fetch the flash works on (external)
  perip_instr_rvalid,
  cmd_q, rsp_q, rspid, late, pending

Perips == INSTANCE IcbFabric WITH OUTS <- 1
fabric == <<cmd_q, rsp_q, rspid, late, pending>>

\* Each address belongs to one slave of the fabric, or to one of the others.
ASSUME BusAssumption ==
  /\ Perips!FabricAssumption /\ Tags # {}
  /\ Perips!Slaves \cap {"tcm", "dm", "dtm", "hole", "flash", "nowhere"} = {}

ports == <<data_req, instr_req, data_out, instr_out>>
tcm == <<mem, tcm_data_rvalid, tcm_data_rdata, tcm_instr_rvalid, tcm_instr_rdata>>
bridges == <<dm_instr_sel, dm_instr_rvalid, dm_data_rvalid, dtm_data_rvalid,
             perip_data_rvalid, perip_data_rdata, flash, perip_instr_rvalid>>
vars == <<ports, tcm, bridges, fabric>>

--------------------------------------------------------------------------------
\* One byte column of two words of the TCM; the other columns are alike.
Words == 0 .. 1
Bytes == 0 .. 1

\* An access: where it goes, whether it writes the byte column, and, for the
\* TCM, the word and the byte.  No slave decodes an address in the hole.  Only the
\* TCM treats loads and stores differently; the rest are stores it must ignore.
Access(to, wes, words, bytes) == [to : to, we : wes, word : words, byte : bytes]
NoReq == [to |-> "nowhere", we |-> FALSE, word |-> 0, byte |-> 0]
DataTargets == {"tcm", "dm", "dtm", "hole"} \cup Perips!Slaves
DataAccesses ==
  Access({"tcm"}, {TRUE}, Words, Bytes) \cup Access({"tcm"}, {FALSE}, Words, {0})
  \cup Access(DataTargets \ {"tcm"}, {TRUE}, {0}, {1})
InstrAccesses ==
  Access({"tcm"}, {FALSE}, Words, {0}) \cup Access({"dm", "flash", "hole"}, {FALSE}, {0}, {0})

Asks(req, to) == req.to = to
data_cs(to) == Asks(data_req, to)
instr_cs(to) == Asks(instr_req, to)
perip_cs == data_req.to \in Perips!Slaves

\* Mutant: the port keeps its side until both ask.
dm_instr_sel_nxt_Sticky ==
  IF instr_cs("dm") /\ data_cs("dm") THEN ~dm_instr_sel ELSE dm_instr_sel

\* The debug module's one port: the two sides alternate while both ask.
dm_instr_sel_nxt ==
  IF instr_cs("dm") /\ data_cs("dm") THEN ~dm_instr_sel
  ELSE IF instr_cs("dm") \/ data_cs("dm") THEN instr_cs("dm") ELSE dm_instr_sel

dm_instr_gnt == dm_instr_sel /\ instr_cs("dm")
dm_data_gnt == ~dm_instr_sel /\ data_cs("dm")

data_gnt ==
  data_cs("tcm") \/ dm_data_gnt \/ data_cs("dtm") \/ (perip_cs /\ Perips!i_icb_cmd_ready)

\* Mutant: an answer whether the side was granted or not.
dm_instr_rvalid_nxt_Asked == instr_cs("dm")

dm_instr_rvalid_nxt == dm_instr_sel /\ instr_cs("dm")
dm_data_rvalid_nxt == ~dm_instr_sel /\ data_cs("dm")

\* The flash (external) takes one fetch at a time, and takes it and answers it
\* when it moves.
flash_takes == instr_cs("flash") /\ flash = NoReq
flash_works == flash # NoReq
instr_gnt(moves) == instr_cs("tcm") \/ dm_instr_gnt \/ (flash_takes /\ moves)

data_rvalid == perip_data_rvalid \/ tcm_data_rvalid \/ dm_data_rvalid \/ dtm_data_rvalid
instr_rvalid == perip_instr_rvalid \/ tcm_instr_rvalid \/ dm_instr_rvalid

--------------------------------------------------------------------------------
\* Mutant: the memory is enabled by any data request ("TODO use *_req_o").
tcm_write_Req == data_req.we

tcm_write == data_cs("tcm") /\ data_req.we

addrb == data_req.word

NoData == "none"

\* Both ports of dp_ram: a read in the cycle of a write sees the old byte.
Tcm ==
  /\ tcm_data_rvalid' = data_cs("tcm")
  /\ tcm_instr_rvalid' = instr_cs("tcm")
  /\ tcm_data_rdata' = IF data_cs("tcm") THEN mem[addrb] ELSE NoData
  /\ tcm_instr_rdata' = IF instr_cs("tcm") THEN mem[instr_req.word] ELSE NoData
  /\ mem' = IF tcm_write THEN [mem EXCEPT ![addrb] = data_req.byte] ELSE mem

Dm ==
  /\ dm_instr_sel' = dm_instr_sel_nxt
  /\ dm_instr_rvalid' = dm_instr_rvalid_nxt
  /\ dm_data_rvalid' = dm_data_rvalid_nxt

\* The bus-side DTM answers in the cycle of the command (Icb2DebugBus).
Dtm == dtm_data_rvalid' = data_cs("dtm")

\* cpu2icb drops the error flag: the core never sees data_err_i.
perip_cmd == [to |-> IF perip_cs THEN data_req.to ELSE Perips!Default, tag |-> CHOOSE t \in Tags : TRUE]
Cpu2Pd(goes, answers) ==
  /\ Perips!Cycle(perip_cs, perip_cmd, TRUE, goes, answers)
  /\ perip_data_rvalid' = Perips!i_icb_rsp_valid
  /\ perip_data_rdata' = IF Perips!i_icb_rsp_valid THEN Perips!i_icb_rsp.from ELSE NoData

\* The read port of sirv_flash_qspi_top.
Cpu2Pi(moves) ==
  /\ perip_instr_rvalid' = (flash_works /\ moves)
  /\ flash' = IF flash_works THEN IF moves THEN NoReq ELSE flash
              ELSE IF flash_takes /\ moves THEN instr_req ELSE NoReq

\* The core's ports.  A request is held until it is granted; the next one comes
\* when no access is under way or with the answer of the last.
Core(moves, datas, instrs) ==
  /\ data_out' = IF data_gnt THEN data_req ELSE IF data_rvalid THEN NoReq ELSE data_out
  /\ instr_out' = IF instr_gnt(moves) THEN instr_req ELSE IF instr_rvalid THEN NoReq ELSE instr_out
  /\ data_req' \in IF data_req # NoReq /\ ~data_gnt THEN {data_req}
                   ELSE IF data_out' = NoReq \/ data_rvalid' THEN datas \cup {NoReq}
                   ELSE {NoReq}
  /\ instr_req' \in IF instr_req # NoReq /\ ~instr_gnt(moves) THEN {instr_req}
                    ELSE IF instr_out' = NoReq \/ instr_rvalid' THEN instrs \cup {NoReq}
                    ELSE {NoReq}

\* One rising edge of clk; the core chooses among the accesses datas and instrs.
Cycle(goes, answers, moves, datas, instrs) ==
  /\ Tcm /\ Dm /\ Dtm
  /\ Cpu2Pd(goes, answers)
  /\ Cpu2Pi(moves)
  /\ Core(moves, datas, instrs)

\* A slave that may delay chooses only when it is asked.
Choice(asked) == IF asked THEN BOOLEAN ELSE {FALSE}
Goes == Choice(Perips!late_asked)
Answers == Choice(Perips!late_busy)
Moves == Choice(flash_takes \/ flash_works)

Init ==
  /\ data_req = NoReq /\ instr_req = NoReq /\ data_out = NoReq /\ instr_out = NoReq
  /\ mem = [w \in Words |-> 0] /\ tcm_data_rdata = NoData /\ tcm_instr_rdata = NoData
  /\ tcm_data_rvalid = FALSE /\ tcm_instr_rvalid = FALSE
  /\ dm_instr_sel = TRUE /\ dm_instr_rvalid = FALSE /\ dm_data_rvalid = FALSE
  /\ dtm_data_rvalid = FALSE
  /\ perip_data_rvalid = FALSE /\ perip_data_rdata = NoData
  /\ flash = NoReq /\ perip_instr_rvalid = FALSE
  /\ Perips!Init

\* rst_n: the core starts again, the memory keeps its contents.
Reset ==
  /\ data_req' = NoReq /\ instr_req' = NoReq /\ data_out' = NoReq /\ instr_out' = NoReq
  /\ mem' = mem /\ tcm_data_rdata' = NoData /\ tcm_instr_rdata' = NoData
  /\ tcm_data_rvalid' = FALSE /\ tcm_instr_rvalid' = FALSE
  /\ dm_instr_sel' = TRUE /\ dm_instr_rvalid' = FALSE /\ dm_data_rvalid' = FALSE
  /\ dtm_data_rvalid' = FALSE
  /\ perip_data_rvalid' = FALSE /\ perip_data_rdata' = NoData
  /\ flash' = NoReq /\ perip_instr_rvalid' = FALSE
  /\ Perips!Reset

ClockOf(datas, instrs) ==
  \E goes \in Goes, answers \in Answers, moves \in Moves : Cycle(goes, answers, moves, datas, instrs)

Clock == ClockOf(DataAccesses, InstrAccesses)
Next == Clock \/ Reset

Spec == Init /\ [][Next]_vars

\* A slave that may delay moves.
LateTakes(datas, instrs) ==
  /\ Perips!late_asked
  /\ \E moves \in Moves : Cycle(TRUE, FALSE, moves, datas, instrs)
LateAnswers(datas, instrs) ==
  /\ Perips!late_busy
  /\ \E moves \in Moves : Cycle(FALSE, TRUE, moves, datas, instrs)
FlashMoves(datas, instrs) ==
  /\ flash_takes \/ flash_works
  /\ \E goes \in Goes, answers \in Answers : Cycle(goes, answers, TRUE, datas, instrs)

--------------------------------------------------------------------------------
\* The valids and the data of the slaves are ORed (lines 579-609): an answer on
\* a port comes only while an access is under way, from the slave it went to, and
\* so never from two slaves at once.
AnswersMatch ==
  /\ tcm_data_rvalid => Asks(data_out, "tcm")
  /\ dm_data_rvalid => Asks(data_out, "dm")
  /\ dtm_data_rvalid => Asks(data_out, "dtm")
  /\ perip_data_rvalid => Asks(data_out, perip_data_rdata)
  /\ tcm_instr_rvalid => Asks(instr_out, "tcm")
  /\ dm_instr_rvalid => Asks(instr_out, "dm")
  /\ perip_instr_rvalid => Asks(instr_out, "flash")

\* A load from the TCM returns the byte last stored there; so does a fetch, save
\* that it misses a store granted in the very same cycle.
ReadsCurrent ==
  /\ tcm_data_rvalid /\ ~data_out.we => tcm_data_rdata = mem[data_out.word]
  /\ tcm_instr_rvalid =>
       \/ tcm_instr_rdata = mem[instr_out.word]
       \/ tcm_data_rvalid /\ data_out.we /\ data_out.word = instr_out.word

\* The TCM changes only by a store granted to it, and just as that store says:
\* the write strobes of its RAM (line 180) do not look at the address.
OnlyItsStores ==
  mem' # mem =>
    /\ data_out'.to = "tcm" /\ data_out'.we
    /\ mem' = [mem EXCEPT ![data_out'.word] = data_out'.byte]

\* A byte of the TCM is what was last stored there, and that is what is read
\* (zr_coreplex.sv lines 125-185).
TcmCurrent == [][ReadsCurrent' /\ OnlyItsStores]_vars

\* Of the two sides of the debug module's port none is refused twice in a row.
DmAlternates ==
  /\ data_cs("dm") /\ ~dm_data_gnt => dm_data_gnt' \/ data_req' = NoReq
  /\ instr_cs("dm") /\ ~dm_instr_gnt => dm_instr_gnt' \/ instr_req' = NoReq

\* The port serves one side at a time; an answer is that of the side granted in the
\* cycle before, whose own access is under way then, and every grant has its
\* answer, unless a reset comes between (data_out and instr_out are emptied).
DmAnswers ==
  /\ ~(dm_data_gnt /\ dm_instr_gnt) /\ ~(dm_data_rvalid' /\ dm_instr_rvalid')
  /\ dm_data_rvalid' => dm_data_gnt /\ data_out' = data_req
  /\ dm_instr_rvalid' => dm_instr_gnt /\ instr_out' = instr_req
  /\ dm_data_gnt => dm_data_rvalid' \/ data_out' = NoReq
  /\ dm_instr_gnt => dm_instr_rvalid' \/ instr_out' = NoReq

\* The core's two ports share the debug module (zr_coreplex.sv lines 318-354).
DmShared == [][DmAlternates /\ DmAnswers]_vars
================================================================================
