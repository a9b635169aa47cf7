----------------------------- MODULE MCCoreplexBus -----------------------------
(***************************************************************************)
(* A bench for the buses: the core on its two ports, making any access or  *)
(* with few accesses, no reset and fairness ("live"); or the fabric alone  *)
(* behind a master that pipelines its commands, with the one outstanding   *)
(* command the SoC allows ("soc") or with two ("deep").                    *)
(***************************************************************************)
EXTENDS CoreplexBus

CONSTANTS reg, tied, slow

ASSUME BenchAssumption ==
  reg \in RegSlaves /\ tied \in TiedSlaves /\ slow \in LateSlaves /\ {"x", "y"} \subseteq Tags

OneReg == {reg}
OneTied == {tied}
OneSlow == {slow}

VARIABLE bench

Deep == INSTANCE IcbFabric WITH OUTS <- 2

core == <<ports, tcm, bridges>>

\* Tags matter only where a slave gives them back.
Cmd(to, tag) == [to |-> to, tag |-> tag]
SocCommands == {Cmd(reg, "x"), Cmd(reg, "y"), Cmd(slow, "x"), Cmd(slow, "y"), Cmd(tied, "x"), Cmd(Perips!Default, "x")}
DeepCommands == {Cmd(reg, "x"), Cmd(tied, "x"), Cmd(slow, "x"), Cmd(slow, "y")}

Soc ==
  /\ bench = "soc" /\ UNCHANGED <<bench, core>>
  /\ \E valid, ready \in BOOLEAN, cmd \in SocCommands, goes \in Goes, answers \in Answers :
       Perips!Cycle(valid, cmd, ready, goes, answers)
DeepSoc ==
  /\ bench = "deep" /\ UNCHANGED <<bench, core>>
  /\ \E valid, ready, goes, answers \in BOOLEAN, cmd \in DeepCommands :
       Deep!Cycle(valid, cmd, ready, goes, answers)

\* One access of each kind, and none to an address that no slave decodes.
LiveDatas == Access({"tcm", "dm", "dtm", reg, slow}, {TRUE}, {0}, {1})
LiveInstrs == Access({"tcm", "dm", "flash"}, {FALSE}, {0}, {0})
Live(A(_, _)) == bench = "live" /\ UNCHANGED bench /\ A(LiveDatas, LiveInstrs)

BenchInit == bench \in {"core", "live", "soc", "deep"} /\ Init
BenchNext ==
  \/ bench = "core" /\ Next /\ UNCHANGED bench
  \/ Live(ClockOf)
  \/ Soc \/ DeepSoc

benchVars == <<bench, vars>>

\* The clock runs, and a slave that may delay does not delay for ever.
BenchSpec ==
  /\ BenchInit /\ [][BenchNext]_benchVars
  /\ WF_benchVars(Live(ClockOf)) /\ WF_benchVars(Live(LateTakes))
  /\ WF_benchVars(Live(LateAnswers)) /\ WF_benchVars(Live(FlashMoves))

--------------------------------------------------------------------------------
\* The fabric answers every command once, in order, from its own slave.
AllAccounted == Perips!AllAccounted

\* A load, a store or a fetch to an address that some slave decodes is granted and
\* answered, whatever the other port and the slaves do meanwhile; and the debug
\* module's port serves one side at a time, answers the side it granted, and refuses
\* none twice in a row.
Served ==
  /\ DmShared
  /\ bench = "live" /\ data_req # NoReq ~> data_rvalid
  /\ bench = "live" /\ instr_req # NoReq ~> instr_rvalid
================================================================================
