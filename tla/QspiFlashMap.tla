------------------------------ MODULE QspiFlashMap ------------------------------
(***************************************************************************)
(* rtl/perips/sirv_spi_flashmap.v: the master of the QSPI link that turns  *)
(* a read of the flash window into a command to the flash: instruction,    *)
(* address, padding, data.  While its frame is open and the next address   *)
(* follows, it goes straight to the next byte of data.  The format it uses *)
(* is latched while the link is inactive.                                  *)
(***************************************************************************)
EXTENDS Naturals

VARIABLES
  map_state,   \* "idle", "cmd", "addr", "pad", "pre" or "data"
  map_cnt,     \* bytes of the address left
  latched,     \* the instruction format of the open frame
  a_address    \* of the read accepted last

vars == <<map_state, map_cnt, latched, a_address>>

--------------------------------------------------------------------------------
Byte(n, i) == (n \div 256 ^ i) % 256

insn(io_ctrl, active) == IF active THEN latched ELSE io_ctrl

merge(a_bits, active) == active /\ a_bits = a_address + 1

in_data == map_state = "data"
idle == map_state = "idle"

io_addr_ready(en, data_ready) == idle /\ (en \/ data_ready)
io_data_valid(en, addr_valid, rx_valid) ==
  (in_data /\ rx_valid) \/ (idle /\ ~en /\ addr_valid)

begins(en, addr_valid) == idle /\ en /\ addr_valid
restarts(en, addr_valid, a_bits, active) ==
  begins(en, addr_valid) /\ ~merge(a_bits, active)

io_link_tx_valid == map_state \in {"cmd", "pad", "pre"} \/ (map_state = "addr" /\ map_cnt # 0)
cnt_done(tx_ready) == map_cnt = 0 \/ (map_cnt = 1 /\ tx_ready)

\* What it offers the link: the byte, and the SCK periods and the lanes it takes.
io_link_tx_bits(i) ==
  CASE map_state = "pad" -> i.pad_code
    [] map_state = "addr" -> IF map_cnt = 0 THEN 0 ELSE Byte(a_address, map_cnt - 1)
    [] OTHER -> i.cmd_code
io_link_fmt_proto(i) ==
  CASE map_state = "pre" -> i.data_proto
    [] map_state = "cmd" -> i.cmd_proto
    [] OTHER -> i.addr_proto
io_link_cnt(i) ==
  IF map_state = "pad" THEN i.pad_cnt ELSE 8 \div 2 ^ io_link_fmt_proto(i)

io_link_lock(en, addr_valid) == ~idle \/ (en /\ addr_valid)

\* latched takes the format in the first cycle, the link being inactive; before that it
\* is not looked at.
Init(io_ctrl) ==
  /\ map_state = "idle" /\ map_cnt = 0 /\ a_address = 0
  /\ latched = io_ctrl

\* One rising edge of the clock.
Cycle(io_ctrl, en, addr_valid, a_bits, data_ready, tx_ready, rx_valid, active) ==
  LET i == insn(io_ctrl, active)
  IN  /\ map_state' =
           CASE idle ->
                  IF ~begins(en, addr_valid) THEN "idle"
                  ELSE IF merge(a_bits, active) THEN "pre"
                  ELSE IF i.cmd_en THEN "cmd" ELSE "addr"
             [] map_state = "cmd" -> IF tx_ready THEN "addr" ELSE "cmd"
             [] map_state = "addr" -> IF cnt_done(tx_ready) THEN "pad" ELSE "addr"
             [] map_state = "pad" -> IF tx_ready THEN "pre" ELSE "pad"
             [] map_state = "pre" -> IF tx_ready THEN "data" ELSE "pre"
             [] in_data -> IF data_ready /\ rx_valid THEN "idle" ELSE "data"
      /\ map_cnt' = IF map_state = "cmd" /\ tx_ready THEN i.addr_len
                    ELSE IF map_state = "addr" /\ map_cnt # 0 /\ tx_ready THEN map_cnt - 1
                    ELSE map_cnt
      /\ latched' = insn(io_ctrl, active)
      /\ a_address' = IF addr_valid /\ io_addr_ready(en, data_ready) THEN a_bits ELSE a_address

================================================================================
