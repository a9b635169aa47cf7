------------------------------- MODULE QspiMedia -------------------------------
(***************************************************************************)
(* The transfers of the QSPI controller: the shift engine first, then the  *)
(* frames built on it.                                                     *)
(***************************************************************************)
EXTENDS Naturals, FiniteSetsExt

(***************************************************************************)
(* rtl/perips/sirv_qspi_physical.v: the shift engine of the QSPI           *)
(* controller.  It performs one micro-operation at a time, a transfer of   *)
(* some periods of SCK or a delay, and shifts in what the pins carried     *)
(* three cycles ago, when it has passed their synchroniser.  A byte is a   *)
(* number below 256, bit 7 first on the wire.                              *)
(***************************************************************************)
VARIABLES
  ctrl_sck,                  \* the clock settings in force: div, pol, pha
  ctrl_fmt,                  \* the format in force: proto, endian, iodir
  scnt, tcnt, cref, sck,     \* periods left, cycles left of this half, its phase, the pin
  buffer, txd, setup_d, xfr, done,
  sampling,                  \* T_119, T_120, sample_d
  ending                     \* T_122, T_123, last_d

vars == <<ctrl_sck, ctrl_fmt, scnt, tcnt, cref, sck, buffer, txd, setup_d, xfr, done,
          sampling, ending>>

Protos == 0 .. 2   \* single, dual, quad
Lanes(proto) == 2 ^ proto

Bit(n, i) == (n \div 2 ^ i) % 2
Reversed(byte) == MapThenSumSet(LAMBDA i : Bit(byte, i) * 2 ^ (7 - i), 0 .. 7)
Ordered(endian, byte) == IF endian THEN Reversed(byte) ELSE byte

\* A micro-operation on offer; fn is "xfer" or "delay".
Op(valid, fn, stb, cnt, data) ==
  [valid |-> valid, fn |-> fn, stb |-> stb, cnt |-> cnt, data |-> data]

--------------------------------------------------------------------------------
stop == scnt = 0
beat == tcnt = 0
cinv == ctrl_sck.pha # ctrl_sck.pol
last_fall == scnt = 1 /\ beat /\ ~cref
rests == last_fall \/ stop   \* GEN_21

\* Mutant: the next transfer starts while the last bits of this one are sampled.
io_op_ready_Early == rests

io_op_ready == rests /\ done
io_rx_valid == done
io_rx_bits == Ordered(ctrl_fmt.endian, buffer)

accepts(op) == io_op_ready /\ op.valid
transfers(op) == accepts(op) /\ op.fn = "xfer"
\* The pins change: a transfer starts, or SCK falls within one (GEN_60).
sets_up(op) == transfers(op) \/ (~last_fall /\ ~stop /\ beat /\ xfr /\ ~cref)

\* The pins dq0 .. dq3 driven, and what on: with two lanes, bit 6 and bit 5.
driven ==
  IF ~ctrl_fmt.iodir THEN {} ELSE 0 .. Lanes(ctrl_fmt.proto) - 1
top_bits(proto, byte) ==
  CASE proto = 0 -> byte \div 128
    [] proto = 1 -> byte \div 32
    [] proto = 2 -> byte \div 16

\* The buffer moves up by one bit for each lane and takes in what the pins carry;
\* with one lane, the pin dq1 (T_179).
shifted(dq) ==
  LET w == Lanes(ctrl_fmt.proto)
      pins == IF w = 1 THEN Bit(dq, 1) ELSE dq % 2 ^ w
  IN  (IF setup_d \/ (sampling[3] /\ stop) THEN (buffer * 2 ^ w) % 256
       ELSE buffer - (buffer % 2 ^ w))
      + (IF sampling[3] THEN pins ELSE buffer % 2 ^ w)

Init ==
  /\ ctrl_sck = [div |-> 0, pol |-> FALSE, pha |-> FALSE]
  /\ ctrl_fmt = [proto |-> 0, endian |-> FALSE, iodir |-> FALSE]
  /\ scnt = 0 /\ tcnt = 0 /\ cref = TRUE /\ sck = FALSE
  /\ buffer = 0 /\ txd = 0 /\ setup_d = FALSE /\ xfr = FALSE /\ done = TRUE
  /\ sampling = <<FALSE, FALSE, FALSE>> /\ ending = <<FALSE, FALSE, FALSE>>

\* The settings a micro-operation latches with its strobe.
Latch(op, io_ctrl_sck, io_ctrl_fmt) ==
  /\ ctrl_fmt' = IF accepts(op) /\ op.stb THEN io_ctrl_fmt ELSE ctrl_fmt
  /\ ctrl_sck' = IF accepts(op) /\ op.stb /\ op.fn = "delay" THEN io_ctrl_sck ELSE ctrl_sck

\* The two counters, and SCK.
Clock(op, io_ctrl_sck) ==
  /\ scnt' = IF accepts(op) THEN op.cnt
             ELSE IF ~stop /\ beat /\ ~cref THEN scnt - 1 ELSE scnt
  /\ tcnt' = IF stop \/ beat THEN ctrl_sck.div ELSE tcnt - 1
  /\ cref' = IF ~stop /\ beat THEN ~cref ELSE cref
  /\ sck' = IF accepts(op) /\ op.fn = "delay" /\ op.stb THEN io_ctrl_sck.pol
            ELSE IF transfers(op) THEN cinv
            ELSE IF last_fall THEN ctrl_sck.pol
            ELSE IF beat /\ ~stop /\ xfr THEN cref # cinv ELSE sck

\* What is shifted out and in, and the end of the transfer.
Shift(op, io_ctrl_fmt, dq) ==
  LET data == Ordered(io_ctrl_fmt.endian, op.data)
      rises == ~stop /\ beat /\ xfr /\ cref
  IN  /\ buffer' = IF transfers(op) THEN data ELSE shifted(dq)
      /\ txd' = IF ~sets_up(op) THEN txd
                ELSE (IF rests THEN top_bits(io_ctrl_fmt.proto, data)
                      ELSE top_bits(ctrl_fmt.proto, buffer)) % 16
      /\ setup_d' = sets_up(op)
      /\ xfr' = IF accepts(op) THEN op.fn = "xfer" ELSE xfr
      /\ done' = IF transfers(op) THEN op.cnt = 0 ELSE done \/ ending[3]
      /\ sampling' = <<rises, sampling[1], sampling[2]>>
      /\ ending' = <<rises /\ scnt = 1, ending[1], ending[2]>>

\* One rising edge of the clock; dq is what the synchroniser shows.
Cycle(op, io_ctrl_sck, io_ctrl_fmt, dq) ==
  /\ Latch(op, io_ctrl_sck, io_ctrl_fmt)
  /\ Clock(op, io_ctrl_sck)
  /\ Shift(op, io_ctrl_fmt, dq)

--------------------------------------------------------------------------------
(***************************************************************************)
(* rtl/perips/sirv_qspi_media.v: the frames of the QSPI controller.  It    *)
(* asserts the chip select for the master that has a byte to send, passes  *)
(* its bytes to the shift engine, and releases the chip select when it is  *)
(* told to (clear) or when the level the pin should have changes.          *)
(***************************************************************************)
VARIABLES
  media_state,   \* "main", "interxfr" or "intercs"
  cs_id, cs_dflt_0, cs_set,   \* the chip; the level of its pin; whether the frame set it
  clear, cs_assert

media == <<media_state, cs_id, cs_dflt_0, cs_set, clear, cs_assert>>

--------------------------------------------------------------------------------
Fmt(proto, endian, iodir) == [proto |-> proto, endian |-> endian, iodir |-> iodir]

\* What a master drives: a byte to send with the number of SCK periods it takes and
\* its format, and whether it wants the pin asserted, or kept as it is.
Link(tx_valid, tx_bits, cnt, fmt, set, hold) ==
  [tx_valid |-> tx_valid, tx_bits |-> tx_bits, cnt |-> cnt, fmt |-> fmt,
   cs_set |-> set, cs_hold |-> hold]

s_main == media_state = "main"
s_interxfr == media_state = "interxfr"
s_intercs == media_state = "intercs"

continuous(ctrl) == ctrl.delay1.interxfr = 0
\* The level the pin should have (T_163).
cs_level(link, ctrl) == ctrl.csdef # (link.cs_set /\ ~ctrl.csid)
cs_deassert(link, ctrl) ==
  clear \/ (cs_level(link, ctrl) # cs_dflt_0 /\ ~link.cs_hold)

opens(link) == ~cs_assert /\ link.tx_valid    \* T_189
idles(link) == ~cs_assert /\ ~link.tx_valid   \* T_195
in_frame(link, ctrl) == s_main /\ cs_assert /\ ~cs_deassert(link, ctrl)

media_tx_ready(link, ctrl) == in_frame(link, ctrl) /\ io_op_ready
io_link_active == cs_assert

\* The micro-operation offered.  Outside a transfer the count is that of the delay
\* due, but it is on offer only between transfers.
io_op(link, ctrl) ==
  Op((s_interxfr /\ ~continuous(ctrl)) \/ (in_frame(link, ctrl) /\ link.tx_valid),
     IF in_frame(link, ctrl) THEN "xfer" ELSE "delay",
     s_intercs \/ (s_main /\ idles(link)) \/ in_frame(link, ctrl),
     CASE s_intercs -> ctrl.delay1.intercs
       [] s_interxfr -> ctrl.delay1.interxfr
       [] s_main /\ idles(link) -> 0
       [] s_main /\ opens(link) -> ctrl.delay0.cssck
       [] s_main /\ cs_assert /\ cs_deassert(link, ctrl) -> ctrl.delay0.sckcs
       [] OTHER -> link.cnt,
     link.tx_bits)

MediaInit ==
  /\ Init
  /\ media_state = "main" /\ cs_id = FALSE /\ cs_dflt_0 = TRUE /\ cs_set = FALSE
  /\ clear = FALSE /\ cs_assert = FALSE

MediaState(link, ctrl) ==
  media_state' =
    CASE s_intercs -> IF io_op_ready THEN "main" ELSE "intercs"
      [] s_interxfr -> IF io_op_ready \/ continuous(ctrl) THEN "main" ELSE "interxfr"
      [] s_main ->
           IF ~cs_assert \/ ~io_op_ready THEN "main"
           ELSE IF cs_deassert(link, ctrl) THEN "intercs"
           ELSE IF link.tx_valid THEN "interxfr" ELSE "main"

ChipSelect(link, io_link_cs_clear, ctrl) ==
  LET starts == s_main /\ opens(link) /\ io_op_ready
  IN  /\ cs_id' = IF s_main /\ idles(link) THEN ctrl.csid ELSE cs_id
      /\ cs_set' = IF starts THEN link.cs_set ELSE cs_set
      /\ cs_dflt_0' = IF s_intercs /\ io_op_ready THEN cs_dflt_0 # (cs_set /\ ~cs_id)
                      ELSE IF s_main /\ idles(link) THEN ctrl.csdef
                      ELSE IF starts THEN cs_level(link, ctrl) ELSE cs_dflt_0
      /\ clear' = (~s_intercs /\ (clear \/ (io_link_cs_clear /\ cs_assert)))
      /\ cs_assert' = (~s_intercs /\ (cs_assert \/ starts))

\* One rising edge of the clock.
MediaCycle(link, io_link_cs_clear, ctrl, dq) ==
  /\ MediaState(link, ctrl)
  /\ ChipSelect(link, io_link_cs_clear, ctrl)
  /\ Cycle(io_op(link, ctrl), [div |-> ctrl.sckdiv, pol |-> ctrl.sckmode.pol, pha |-> ctrl.sckmode.pha], link.fmt, dq)

================================================================================
