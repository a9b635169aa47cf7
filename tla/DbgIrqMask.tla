------------------------------- MODULE DbgIrqMask -------------------------------
(***************************************************************************)
(* The interrupt side of rtl/icb2debug_bus.sv: the DM interrupt enable     *)
(* register, the temporary disable register with its down-counter, and     *)
(* the gate in rtl/zr_coreplex.sv they are meant for.                      *)
(***************************************************************************)
EXTENDS Naturals

CONSTANTS
  Harts,   \* the interrupt lines, HART_NUM of them
  Hart0,   \* the one line that reaches a core
  Window   \* half the range of cnt_dm_tmp_idis: 64, the counter has 7 bits

ASSUME MaskAssumption == Hart0 \in Harts /\ Window \in Nat \ {0}

VARIABLES
  reg_dm_ien, reg_dm_tmp_idis,  \* flops: the lines whose bit is set
  cnt_dm_tmp_idis,              \* flop: counts down modulo 2 * Window
  cmd,                          \* input: the ICB command of this cycle
  dm_dbg_irq,                   \* input: the lines the DM asserts
  age                           \* auxiliary: full cycles since the last write of
                                \* TMP_IDIS, capped at Window; Window after reset

vars == <<reg_dm_ien, reg_dm_tmp_idis, cnt_dm_tmp_idis, cmd, dm_dbg_irq, age>>

Modulus == 2 * Window

Commands ==
  [do : {"none", "ctrl", "read_ien", "read_idis", "read_stat"}]
  \cup [do : {"ien", "idis"}, mask : SUBSET Harts]

dtm_rst == cmd.do = "ctrl"

\* The top bit of the counter.
cnt_dm_tmp_idis_urun == cnt_dm_tmp_idis >= Window

dbg_ien == reg_dm_ien \ (IF cnt_dm_tmp_idis_urun THEN {} ELSE reg_dm_tmp_idis)

\* The read multiplexer has no case for the two interrupt registers; of the
\* status register, the interrupt bits.
icb_rsp_rdata == IF cmd.do = "read_stat" THEN dm_dbg_irq ELSE {}

\* The gated lines, and the wire the core is connected to.
dbg_irq     == dm_dbg_irq \cap dbg_ien
debug_req_i == Hart0 \in dm_dbg_irq

\* Subtraction in the width of the counter: it wraps.
Decrement(n) == IF n = 0 THEN Modulus - 1 ELSE n - 1

p_dm_ien_reg ==
  reg_dm_ien' = IF dtm_rst THEN {}
                ELSE IF cmd.do = "ien" THEN cmd.mask ELSE reg_dm_ien

p_dm_tmp_idis_reg ==
  reg_dm_tmp_idis' = IF dtm_rst THEN {}
                     ELSE IF cmd.do = "idis" THEN cmd.mask ELSE reg_dm_tmp_idis

\* Mutant: loaded one too high.
p_dm_tmp_idis_cnt_OneMore ==
  cnt_dm_tmp_idis' =
    IF dtm_rst THEN Modulus - 1
    ELSE IF cmd.do = "idis" THEN Window
    ELSE IF cnt_dm_tmp_idis_urun THEN cnt_dm_tmp_idis
    ELSE Decrement(cnt_dm_tmp_idis)
p_dm_tmp_idis_cnt ==
  cnt_dm_tmp_idis' =
    IF dtm_rst THEN Modulus - 1
    ELSE IF cmd.do = "idis" THEN Window - 1
    ELSE IF cnt_dm_tmp_idis_urun THEN cnt_dm_tmp_idis
    ELSE Decrement(cnt_dm_tmp_idis)

Aging ==
  age' = IF dtm_rst THEN Window
         ELSE IF cmd.do = "idis" THEN 0
         ELSE IF age < Window THEN age + 1 ELSE age

Init ==
  /\ reg_dm_ien = {} /\ reg_dm_tmp_idis = {}
  /\ cnt_dm_tmp_idis = Modulus - 1
  /\ cmd \in Commands
  /\ dm_dbg_irq \in SUBSET Harts
  /\ age = Window

Next ==
  /\ p_dm_ien_reg
  /\ p_dm_tmp_idis_reg
  /\ p_dm_tmp_idis_cnt
  /\ Aging
  /\ cmd' \in Commands
  /\ dm_dbg_irq' \in SUBSET Harts

Spec == Init /\ [][Next]_vars

--------------------------------------------------------------------------------
TypeOK ==
  /\ reg_dm_ien \subseteq Harts
  /\ reg_dm_tmp_idis \subseteq Harts
  /\ cnt_dm_tmp_idis \in 0 .. Modulus - 1
  /\ cmd \in Commands
  /\ dm_dbg_irq \subseteq Harts
  /\ age \in 0 .. Window

\* The counter and the time since the last write never drift apart: the lines
\* of the temporary disable register are blocked for exactly Window cycles,
\* the others not at all, and the block is over for good when the counter
\* underruns, however often it has wrapped before (lines 85-98).
BlockedExactly ==
  \A h \in Harts :
    h \in dbg_ien <=> h \in reg_dm_ien /\ ~(h \in reg_dm_tmp_idis /\ age < Window)

\* "To restart the counter, one can read and write back the register" (lines
\* 94-95): a read of it returns what it holds.
ReadsBack == cmd.do = "read_idis" => icb_rsp_rdata = reg_dm_tmp_idis

\* "Individual bits AND-mask interrupt request outputs of the DM module. The
\* masking is implemented at the Coreplex level" (lines 80-81).
MaskedAtCore == debug_req_i => Hart0 \in dbg_irq
================================================================================
