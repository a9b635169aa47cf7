------------------------------ MODULE DebugProofs ------------------------------
(***************************************************************************)
(* What is proved of the debug path, for every set of request words, every *)
(* counter width and every sequence of register accesses: first the        *)
(* interrupt mask alone, then all parts of the bench of MCDebug.           *)
(***************************************************************************)
EXTENDS MCDebug, TLAPS

--------------------------------------------------------------------------------
(* The temporary interrupt disable lasts as long as it should. *)

\* The counter tells the age of the last write, and stops when it has wrapped.
CountsAge ==
  cnt_dm_tmp_idis = IF age < Window THEN Window - 1 - age ELSE Modulus - 1

MaskIInv == TypeOK /\ CountsAge

LEMMA MaskInvariance == Spec => []MaskIInv
<1> USE MaskAssumption
<1>1. Init => MaskIInv
  BY DEF Init, MaskIInv, TypeOK, CountsAge, Modulus, Commands
<1>2. MaskIInv /\ [Next]_vars => MaskIInv'
  <2> SUFFICES ASSUME MaskIInv, [Next]_vars PROVE MaskIInv'
    OBVIOUS
  <2>1. CASE Next
    <3>1. reg_dm_ien' \subseteq Harts /\ reg_dm_tmp_idis' \subseteq Harts
      BY <2>1 DEF MaskIInv, TypeOK, Next, p_dm_ien_reg, p_dm_tmp_idis_reg, Commands
    <3>2. cmd' \in Commands /\ dm_dbg_irq' \subseteq Harts
      BY <2>1 DEF Next
    <3>3. age' \in 0 .. Window /\ cnt_dm_tmp_idis' \in 0 .. Modulus - 1 /\ CountsAge'
      <4>1. CASE dtm_rst \/ cmd.do = "idis"
        BY <2>1, <4>1 DEF Next, Aging, p_dm_tmp_idis_cnt, CountsAge, Modulus
      <4>2. CASE ~dtm_rst /\ cmd.do # "idis" /\ age < Window
        <5>1. cnt_dm_tmp_idis = Window - 1 - age /\ age \in 0 .. Window
          BY <4>2 DEF MaskIInv, TypeOK, CountsAge
        <5>2. ~cnt_dm_tmp_idis_urun
          BY <5>1 DEF cnt_dm_tmp_idis_urun
        <5>3. age' = age + 1 /\ cnt_dm_tmp_idis' = Decrement(cnt_dm_tmp_idis)
          BY <2>1, <4>2, <5>2 DEF Next, Aging, p_dm_tmp_idis_cnt
        <5> QED
          BY <4>2, <5>1, <5>3 DEF CountsAge, Decrement, Modulus
      <4>3. CASE ~dtm_rst /\ cmd.do # "idis" /\ ~(age < Window)
        BY <2>1, <4>3 DEF MaskIInv, TypeOK, CountsAge, Next, Aging, p_dm_tmp_idis_cnt,
           cnt_dm_tmp_idis_urun, Modulus
      <4> QED
        BY <4>1, <4>2, <4>3
    <3> QED
      BY <3>1, <3>2, <3>3 DEF MaskIInv, TypeOK
  <2>2. CASE UNCHANGED vars
    BY <2>2 DEF vars, MaskIInv, TypeOK, CountsAge
  <2> QED
    BY <2>1, <2>2
<1> QED
  BY <1>1, <1>2, PTL DEF Spec

\* A line is blocked for exactly Window cycles after a write of the temporary
\* disable register, and afterwards for good, whatever is written meanwhile.
THEOREM BlockLastsExactly == Spec => []BlockedExactly
<1>1. MaskIInv => BlockedExactly
  <2> SUFFICES ASSUME MaskIInv PROVE BlockedExactly
    OBVIOUS
  <2>1. cnt_dm_tmp_idis_urun <=> ~(age < Window)
    BY MaskAssumption DEF MaskIInv, TypeOK, CountsAge, cnt_dm_tmp_idis_urun, Modulus
  <2> QED
    BY <2>1 DEF BlockedExactly, dbg_ien, MaskIInv, TypeOK
<1> QED
  BY <1>1, MaskInvariance, PTL

--------------------------------------------------------------------------------
(* The bench: the invariant of the part that runs. *)
BenchInv ==
  /\ part \in {"mask", "request", "fast", "slow"}
  /\ part = "fast" => Fast!IInv
  /\ part = "slow" => Slow!IInv

LEMMA Settings ==
  ASSUME Fast!Discipline
  PROVE  /\ SPACED /\ Slow!Discipline
         /\ Alone!BusAssumption /\ Fast!Bus!BusAssumption /\ Slow!Bus!BusAssumption
         /\ Fast!TransportAssumption /\ Slow!TransportAssumption
BY BenchAssumption DEF Fast!Discipline, Slow!Discipline, Alone!BusAssumption,
   Fast!Bus!BusAssumption, Slow!Bus!BusAssumption, Fast!TransportAssumption,
   Slow!TransportAssumption, Fast!Bus!DmiReq, Slow!Bus!DmiReq

LEMMA SlowInit == Fast!Init => Slow!Init
BY DEF Fast!Init, Slow!Init, Fast!Bus!BusInit, Slow!Bus!BusInit, Fast!Arb!ArbInit,
   Slow!Arb!ArbInit, Fast!Arb!DmInit, Slow!Arb!DmInit, Fast!Arb!Ports, Slow!Arb!Ports

LEMMA BenchStarts ==
  ASSUME Fast!Discipline, BenchInit
  PROVE  BenchInv
BY Settings, SlowInit, Fast!IInvInit, Slow!IInvInit DEF BenchInit, BenchInv

\* The bus-side DTM is clocked in three of the parts and rests in the fourth.
LEMMA DtmClocked ==
  ASSUME BenchNext
  PROVE  /\ UNCHANGED part
         /\ \/ Dtm!BusClock /\ Dtm!NextCommand
            \/ part = "mask" /\ UNCHANGED <<dbusVars, anyVars, pathVars>>
<1> USE DEF Dtm!BusClock, Dtm!p_req_regs, Dtm!p_resp_regs, Dtm!p_dbus_op_start,
            Dtm!p_dbus_stat_sticky, Dtm!p_dbus_req_op, Dtm!p_dbus_fsm_act, Dtm!Asking,
            Dtm!status_busy, Dtm!dtm_rst, Dtm!we_ctrl, Dtm!we_dbus_req_dword,
            Dtm!we_dbus_req_others, Dtm!dbus_op_done, Dtm!dbus_rsp_stat, Dtm!dbus_fsm_nxt
<1>1. ASSUME part = "request", Alone!BusClock PROVE Dtm!BusClock
  BY <1>1 DEF Alone!BusClock, Alone!p_req_regs, Alone!p_resp_regs, Alone!p_dbus_op_start,
     Alone!p_dbus_stat_sticky, Alone!p_dbus_req_op, Alone!p_dbus_fsm_act, Alone!Asking,
     Alone!status_busy, Alone!dtm_rst, Alone!we_ctrl, Alone!we_dbus_req_dword,
     Alone!we_dbus_req_others, Alone!dbus_op_done, Alone!dbus_rsp_stat, Alone!dbus_fsm_nxt
<1>2. ASSUME part = "fast", Fast!Bus!BusClock PROVE Dtm!BusClock
  BY <1>2 DEF Fast!Bus!BusClock, Fast!Bus!p_req_regs, Fast!Bus!p_resp_regs, Fast!Bus!p_dbus_op_start,
     Fast!Bus!p_dbus_stat_sticky, Fast!Bus!p_dbus_req_op, Fast!Bus!p_dbus_fsm_act,
     Fast!Bus!Asking, Fast!Bus!status_busy, Fast!Bus!dtm_rst, Fast!Bus!we_ctrl,
     Fast!Bus!we_dbus_req_dword, Fast!Bus!we_dbus_req_others, Fast!Bus!dbus_op_done,
     Fast!Bus!dbus_rsp_stat, Fast!Bus!dbus_fsm_nxt
<1>3. ASSUME part = "slow", Slow!Bus!BusClock PROVE Dtm!BusClock
  BY <1>3 DEF Slow!Bus!BusClock, Slow!Bus!p_req_regs, Slow!Bus!p_resp_regs, Slow!Bus!p_dbus_op_start,
     Slow!Bus!p_dbus_stat_sticky, Slow!Bus!p_dbus_req_op, Slow!Bus!p_dbus_fsm_act,
     Slow!Bus!Asking, Slow!Bus!status_busy, Slow!Bus!dtm_rst, Slow!Bus!we_ctrl,
     Slow!Bus!we_dbus_req_dword, Slow!Bus!we_dbus_req_others, Slow!Bus!dbus_op_done,
     Slow!Bus!dbus_rsp_stat, Slow!Bus!dbus_fsm_nxt
<1>4. /\ Alone!NextCommand => Dtm!NextCommand
      /\ Fast!Bus!NextCommand => Dtm!NextCommand
      /\ Slow!Bus!NextCommand => Dtm!NextCommand
  BY DEF Dtm!NextCommand, Alone!NextCommand, Fast!Bus!NextCommand, Slow!Bus!NextCommand,
     Dtm!Commands, Alone!Commands, Fast!Bus!Commands, Slow!Bus!Commands
<1> QED
  BY <1>1, <1>2, <1>3, <1>4 DEF BenchNext, On, SlowStep, Alone!Next, Fast!Next, Slow!Next

LEMMA BenchRests ==
  ASSUME BenchInv, UNCHANGED <<part, dbusVars, anyVars, pathVars>>
  PROVE  BenchInv'
<1>1. UNCHANGED Fast!vars /\ UNCHANGED Slow!vars
  BY DEF dbusVars, pathVars, Fast!vars, Slow!vars, Fast!Bus!busFlops, Slow!Bus!busFlops,
     Fast!Bus!aux, Slow!Bus!aux, Fast!Arb!flops, Slow!Arb!flops, Fast!jtagVars, Slow!jtagVars
<1> QED
  BY <1>1, Fast!IInvStutter, Slow!IInvStutter DEF BenchInv

LEMMA BenchKeeps ==
  ASSUME Fast!Discipline, BenchInv, [BenchNext]_benchVars
  PROVE  BenchInv'
<1>1. CASE BenchNext
  <2>1. CASE Dtm!BusClock /\ Dtm!NextCommand
    <3>1. UNCHANGED part
      BY <1>1, DtmClocked
    <3>2. part = "fast" => Fast!IInv'
      BY <1>1, Settings, Fast!IInvStep DEF BenchInv, BenchNext, On, SlowStep
    <3>3. part = "slow" => Slow!IInv'
      BY <1>1, Settings, Slow!IInvStep DEF BenchInv, BenchNext, On, SlowStep
    <3> QED BY <3>1, <3>2, <3>3 DEF BenchInv
  <2>2. CASE UNCHANGED <<part, dbusVars, anyVars, pathVars>>
    BY <2>2, BenchRests
  <2> QED BY <1>1, <2>1, <2>2, DtmClocked
<1>2. CASE UNCHANGED benchVars
  BY <1>2, BenchRests DEF benchVars
<1> QED BY <1>1, <1>2

LEMMA BenchInvariance == ASSUME Fast!Discipline PROVE BenchSpec => []BenchInv
<1>1. BenchInit => BenchInv
  BY BenchStarts
<1>2. BenchInv /\ [BenchNext]_benchVars => BenchInv'
  BY BenchKeeps
<1> QED BY <1>1, <1>2, PTL DEF BenchSpec

\* In the parts "fast" and "slow", the promises of DebugTransport.
LEMMA TransportKept ==
  ASSUME BenchInv
  PROVE  OwnAnswers /\ PollSound /\ HandshakeCompletes
<1>1. part = "fast" => Fast!PollSound /\ Fast!OwnAnswers /\ Fast!HandshakeCompletes
  BY Fast!IInvImplies DEF BenchInv
<1>2. part = "slow" => Slow!PollSound /\ Slow!OwnAnswers /\ Slow!HandshakeCompletes
  BY Slow!IInvImplies DEF BenchInv
<1>3. Slow!PollSound => Fast!PollSound
  BY DEF Fast!PollSound, Slow!PollSound, Fast!Bus!status_busy, Slow!Bus!status_busy
<1>4. Slow!OwnAnswers => Fast!OwnAnswers
  BY DEF Fast!OwnAnswers, Slow!OwnAnswers, Fast!Bus!status_busy, Slow!Bus!status_busy
<1>5. Slow!HandshakeCompletes => Fast!HandshakeCompletes
  BY DEF Fast!HandshakeCompletes, Slow!HandshakeCompletes, Fast!Bus!dtm_req_valid,
     Slow!Bus!dtm_req_valid, Fast!Arb!dtm_req_accept, Slow!Arb!dtm_req_accept,
     Fast!Arb!dtm_req_allow, Slow!Arb!dtm_req_allow, Fast!Arb!Ports, Slow!Arb!Ports,
     Fast!Arb!Other, Slow!Arb!Other
<1> QED
  BY <1>1, <1>2, <1>3, <1>4, <1>5 DEF transport, OwnAnswers, PollSound, HandshakeCompletes

\* Each DTM gets the answer to its own request and only when it waits for one
\* (dmi_arbiter.sv lines 185-239), a reset of the bus-side DTM in the middle of
\* a request included.
THEOREM AnswersGoHome == ASSUME Fast!Discipline PROVE BenchSpec => []OwnAnswers
<1>1. BenchInv => OwnAnswers
  BY TransportKept
<1> QED BY <1>1, BenchInvariance, PTL

\* A status read that shows the DTM not busy means the response registers hold
\* the answer to the request started last (icb2debug_bus.sv lines 119-123).
THEOREM PollsAreSound == ASSUME Fast!Discipline PROVE BenchSpec => []PollSound
<1>1. BenchInv => PollSound
  BY TransportKept
<1> QED BY <1>1, BenchInvariance, PTL

\* Used one at a time, a DTM that sees ready has handed its request over
\* (dmi_arbiter.sv lines 31-32).
THEOREM HandshakesComplete == ASSUME Fast!Discipline PROVE BenchSpec => []HandshakeCompletes
<1>1. BenchInv => HandshakeCompletes
  BY TransportKept
<1> QED BY <1>1, BenchInvariance, PTL

--------------------------------------------------------------------------------
(* The registers of the bus-side DTM, on the DMI of every part. *)

DtmInv == (SPACED => Dtm!Latched) /\ Dtm!RefusalKept

DmiReady == IF part = "request" THEN any_req_ready ELSE 1 \in req_rdy

\* A cycle keeps what is latched: the registers change only in IDLE, and then
\* towards what is asked.
LEMMA DtmLatchedStep ==
  ASSUME SPACED, Dtm!Latched, Dtm!BusClock, Dtm!NextCommand
  PROVE  Dtm!Latched'
<1> USE DEF Dtm!Latched, Dtm!RegistersHoldAsked, Dtm!status_busy
<1>1. (dbus_fsm_act \in {"IDLE", "REQ_BUSY", "RSP_BUSY"})'
  BY DEF Dtm!BusClock, Dtm!p_dbus_fsm_act, Dtm!dbus_fsm_nxt
<1>2. ASSUME dbus_op_start' PROVE (dbus_cmd.do = "none")' /\ Dtm!RegistersHoldAsked'
  <2>1. dbus_cmd.do = "others"
    BY <1>2 DEF Dtm!BusClock, Dtm!p_dbus_op_start, Dtm!we_dbus_req_others
  <2>2. dbus_cmd'.do = "none"
    BY <2>1 DEF Dtm!NextCommand
  <2>3. Dtm!RegistersHoldAsked'
    <3>1. CASE Dtm!status_busy
      BY <2>1, <3>1 DEF Dtm!BusClock, Dtm!p_req_regs, Dtm!Asking, Dtm!we_ctrl
    <3>2. CASE ~Dtm!status_busy
      BY <2>1, <3>2 DEF Dtm!BusClock, Dtm!p_req_regs, Dtm!Asking, Dtm!we_ctrl,
        Dtm!we_dbus_req_others, Dtm!we_dbus_req_dword
    <3> QED BY <3>1, <3>2
  <2> QED BY <2>2, <2>3
<1>3. ASSUME Dtm!status_busy'
      PROVE  Dtm!RegistersHoldAsked' /\ (dbus_req_op = reg_dbus_req_others.op)'
  <2>1. ~Dtm!dtm_rst
    BY <1>3 DEF Dtm!BusClock, Dtm!p_dbus_fsm_act
  <2>2. CASE Dtm!status_busy
    BY <2>1, <2>2 DEF Dtm!BusClock, Dtm!p_req_regs, Dtm!p_dbus_req_op, Dtm!Asking, Dtm!dtm_rst
  <2>3. CASE ~Dtm!status_busy
    <3>1. dbus_op_start
      BY <1>1, <1>3, <2>1, <2>3 DEF Dtm!BusClock, Dtm!p_dbus_fsm_act, Dtm!dbus_fsm_nxt
    <3>2. ~Dtm!we_dbus_req_others /\ ~Dtm!we_dbus_req_dword /\ ~Dtm!we_ctrl
      BY <3>1 DEF Dtm!we_dbus_req_others, Dtm!we_dbus_req_dword, Dtm!we_ctrl
    <3> QED
      BY <2>1, <2>3, <3>1, <3>2 DEF Dtm!BusClock, Dtm!p_req_regs, Dtm!p_dbus_req_op, Dtm!Asking
  <2> QED BY <2>2, <2>3
<1> QED BY <1>1, <1>2, <1>3

\* A request shown is what was asked, and no write disturbs it.
LEMMA ShownStep ==
  ASSUME Dtm!Latched, Dtm!BusClock
  PROVE  Dtm!ShownWhole
<1> SUFFICES ASSUME Dtm!dtm_req_valid
             PROVE  Dtm!ShownWhole
  BY DEF Dtm!ShownWhole
<1>1. Dtm!status_busy
  BY DEF Dtm!dtm_req_valid, Dtm!status_busy
<1>2. Dtm!dtm_req_bits = asked
  BY <1>1 DEF Dtm!Latched, Dtm!RegistersHoldAsked, Dtm!dtm_req_bits
<1>3. ASSUME ~DmiReady, ~Dtm!dtm_rst
      PROVE  Dtm!dtm_req_valid' /\ Dtm!dtm_req_bits' = Dtm!dtm_req_bits
  BY <1>1, <1>3 DEF Dtm!BusClock, Dtm!p_req_regs, Dtm!p_dbus_req_op, Dtm!p_dbus_fsm_act,
    Dtm!dbus_fsm_nxt, Dtm!dbus_op_done, Dtm!dtm_req_valid, Dtm!dtm_req_bits, DmiReady
<1> QED BY <1>2, <1>3 DEF Dtm!ShownWhole, DmiReady

\* A refusal sets the sticky bit, which the answer then stores.
LEMMA RefusalStep ==
  ASSUME Dtm!RefusalKept, Dtm!BusClock
  PROVE  Dtm!RefusalKept' /\ Dtm!RefusalTold
<1>1. Dtm!RefusalKept'
  BY DEF Dtm!RefusalKept, Dtm!BusClock, Dtm!p_dbus_stat_sticky, Dtm!Asking, Dtm!dtm_rst
<1>2. Dtm!RefusalTold
  BY DEF Dtm!RefusalKept, Dtm!RefusalTold, Dtm!BusClock, Dtm!p_resp_regs, Dtm!dbus_rsp_stat
<1> QED BY <1>1, <1>2

LEMMA DtmRests ==
  ASSUME UNCHANGED <<part, dbusVars, anyVars, pathVars>>
  PROVE  (DtmInv => DtmInv') /\ UNCHANGED Dtm!busVars
BY DEF dbusVars, anyVars, pathVars, Dtm!busVars, Dtm!busFlops, Dtm!dmiWires, Dtm!aux,
   DtmInv, Dtm!Latched, Dtm!RefusalKept, Dtm!RegistersHoldAsked, Dtm!status_busy

\* Unlike BenchInv, it needs nothing of how the transport is used.
LEMMA DtmInvariance == BenchSpec => []DtmInv
<1>1. BenchInit => DtmInv
  BY DEF BenchInit, Fast!Init, Fast!Bus!BusInit, DtmInv, Dtm!Latched, Dtm!RefusalKept,
     Dtm!status_busy
<1>2. DtmInv /\ [BenchNext]_benchVars => DtmInv'
  <2> SUFFICES ASSUME DtmInv, [BenchNext]_benchVars PROVE DtmInv'
    OBVIOUS
  <2>1. CASE Dtm!BusClock /\ Dtm!NextCommand
    BY <2>1, DtmLatchedStep, RefusalStep DEF DtmInv
  <2>2. CASE UNCHANGED <<part, dbusVars, anyVars, pathVars>>
    BY <2>2, DtmRests
  <2> QED BY <2>1, <2>2, DtmClocked DEF benchVars
<1> QED BY <1>1, <1>2, PTL DEF BenchSpec

\* On the DMI of every part the request that goes out is the one software wrote,
\* when software waits for its responses (icb2debug_bus.sv lines 279-323 and
\* 369-440).
THEOREM RequestsGoOutWhole == SPACED /\ BenchSpec => RequestUntorn
<1> SUFFICES ASSUME SPACED PROVE BenchSpec => RequestUntorn
  OBVIOUS
<1>1. DtmInv /\ [BenchNext]_benchVars => [Dtm!ShownWhole]_(Dtm!busVars)
  <2> SUFFICES ASSUME DtmInv, [BenchNext]_benchVars
               PROVE  [Dtm!ShownWhole]_(Dtm!busVars)
    OBVIOUS
  <2>1. CASE Dtm!BusClock
    BY <2>1, ShownStep DEF DtmInv
  <2>2. CASE UNCHANGED <<part, dbusVars, anyVars, pathVars>>
    BY <2>2, DtmRests
  <2> QED BY <2>1, <2>2, DtmClocked DEF benchVars
<1> QED BY <1>1, DtmInvariance, PTL DEF BenchSpec, RequestUntorn, Dtm!RequestUntorn

\* A write refused while a request runs is told with its answer, in every part
\* and however fast software writes (icb2debug_bus.sv lines 355-372).
THEOREM RefusalsAreTold == BenchSpec => RefusalReported
<1>1. DtmInv /\ [BenchNext]_benchVars => [Dtm!RefusalTold]_(Dtm!busVars)
  <2> SUFFICES ASSUME DtmInv, [BenchNext]_benchVars
               PROVE  [Dtm!RefusalTold]_(Dtm!busVars)
    OBVIOUS
  <2>1. CASE Dtm!BusClock
    BY <2>1, RefusalStep DEF DtmInv
  <2>2. CASE UNCHANGED <<part, dbusVars, anyVars, pathVars>>
    BY <2>2, DtmRests
  <2> QED BY <2>1, <2>2, DtmClocked DEF benchVars
<1> QED BY <1>1, DtmInvariance, PTL DEF BenchSpec, RefusalReported, Dtm!RefusalReported

\* In the bench too, a line is blocked for exactly Window cycles: the other parts
\* leave the mask alone.
THEOREM BlockLastsInBench == BenchSpec => []BlockedExactly
<1>1. BenchInit => Init
  BY DEF BenchInit
<1>2. [BenchNext]_benchVars => [Next]_vars
  BY DEF BenchNext, On, SlowStep, benchVars
<1> QED BY <1>1, <1>2, BlockLastsExactly, PTL DEF BenchSpec, Spec
================================================================================
