------------------------------- MODULE FlashQspi -------------------------------
(***************************************************************************)
(* rtl/perips/sirv_flash_qspi.v: the QSPI controller: its registers, the   *)
(* two masters of its link (the flash map and the FIFO), the arbiter       *)
(* between them (sirv_qspi_arbiter.v) and the media access with its shift  *)
(* engine.                                                                 *)
(***************************************************************************)
EXTENDS QspiMedia, Sequences, TLC

CONSTANT DEPTH   \* of the FIFO's queues, 8 in the SoC
ASSUME DepthAssumption == DEPTH \in Nat \ {0}

VARIABLES
  ctrl,                              \* the registers
  sel,                               \* the master selected: "map" or "fifo"
  txq, rxq, rxen, cs_mode,           \* the FIFO
  map_state, map_cnt, latched, a_address   \* the flash map

fifo == INSTANCE QspiFifo
flash == INSTANCE QspiFlashMap

qspi == <<vars, media, ctrl, sel, txq, rxq, rxen, cs_mode,
          map_state, map_cnt, latched, a_address>>

--------------------------------------------------------------------------------
\* An access to the registers in this cycle; a read matters only at rxdata.
Access(reg, we, data) == [reg |-> reg, we |-> we, data |-> data]
NoAccess == Access("none", FALSE, 0)

Reset ==
  [sckdiv |-> 3, sckmode |-> [pol |-> FALSE, pha |-> FALSE],
   csid |-> FALSE, csdef |-> TRUE, csmode |-> 0,
   delay0 |-> [cssck |-> 1, sckcs |-> 1], delay1 |-> [intercs |-> 1, interxfr |-> 0],
   fmt |-> [proto |-> 0, endian |-> FALSE, iodir |-> FALSE, len |-> 8],
   txmark |-> 0, rxmark |-> 0, ie |-> [txwm |-> FALSE, rxwm |-> FALSE],
   fctrl |-> TRUE,
   ffmt |-> [cmd_en |-> TRUE, addr_len |-> 3, pad_cnt |-> 0, cmd_proto |-> 0,
             addr_proto |-> 0, data_proto |-> 0, cmd_code |-> 3, pad_code |-> 0]]

Written(a) ==
  IF a.we /\ a.reg \in DOMAIN ctrl THEN [ctrl EXCEPT ![a.reg] = a.data] ELSE ctrl
pushes(a) == a.we /\ a.reg = "txdata"
pops(a) == ~a.we /\ a.reg = "rxdata"

io_tl_i_0_0 ==
  \/ fifo!io_ip_txwm(ctrl.txmark) /\ ctrl.ie.txwm
  \/ fifo!io_ip_rxwm(ctrl.rxmark) /\ ctrl.ie.rxwm

map_format == [endian |-> ctrl.fmt.endian] @@ ctrl.ffmt
map_active == cs_assert /\ sel = "map"

\* What each master offers the link: the flash map in its format i, and the FIFO.
MapLink(i) ==
  Link(flash!io_link_tx_valid, flash!io_link_tx_bits(i), flash!io_link_cnt(i),
       Fmt(flash!io_link_fmt_proto(i), i.endian, map_state # "pre"), TRUE, TRUE)
FifoLink ==
  Link(fifo!io_link_tx_valid, fifo!io_link_tx_bits, fifo!io_link_cnt(ctrl.fmt),
       Fmt(ctrl.fmt.proto, ctrl.fmt.endian, ctrl.fmt.iodir), ~fifo!cs_mode_off, FALSE)
io_outer == IF sel = "map" THEN MapLink(flash!insn(map_format, map_active)) ELSE FifoLink

\* The arbiter: the selected master keeps the link while it locks it; when the other
\* takes over, the frame is closed.
wanted == IF ctrl.fctrl THEN "map" ELSE "fifo"

sel_set(f_valid) ==
  ~(IF sel = "map" THEN flash!io_link_lock(ctrl.fctrl, f_valid) ELSE fifo!io_link_lock)

\* Mutant: the frame of one master goes on under the other.
io_outer_cs_clear_Kept(f_valid, f_addr, tx_ready) ==
  IF sel = "map" THEN flash!restarts(ctrl.fctrl, f_valid, f_addr, map_active)
  ELSE fifo!io_link_cs_clear(ctrl.csmode, tx_ready)

io_outer_cs_clear(f_valid, f_addr, tx_ready) ==
  \/ sel_set(f_valid) /\ sel # wanted
  \/ IF sel = "map" THEN flash!restarts(ctrl.fctrl, f_valid, f_addr, map_active)
     ELSE fifo!io_link_cs_clear(ctrl.csmode, tx_ready)

\* What the flash window answers in this cycle.
io_tl_f_0_d_valid(f_valid) ==
  flash!io_data_valid(ctrl.fctrl, f_valid, io_rx_valid /\ sel = "map")
io_tl_f_0_d_data == IF flash!in_data THEN io_rx_bits ELSE 0

QspiInit ==
  /\ MediaInit /\ fifo!Init /\ sel = "map"
  /\ ctrl = Reset /\ flash!Init(map_format)

Edge(link, tx_ready, a, f_valid, f_addr, d_ready, dq) ==
  /\ ctrl' = Written(a)
  /\ sel' = IF sel_set(f_valid) THEN wanted ELSE sel
  /\ fifo!Cycle(ctrl.fmt, ctrl.csmode, pushes(a), a.data, pops(a),
                tx_ready /\ sel = "fifo", io_rx_valid /\ sel = "fifo", io_rx_bits)
  /\ flash!Cycle(map_format, ctrl.fctrl, f_valid, f_addr, d_ready,
                 tx_ready /\ sel = "map", io_rx_valid /\ sel = "map", map_active)
  /\ MediaCycle(link, io_outer_cs_clear(f_valid, f_addr, tx_ready), ctrl, dq)

\* One rising edge of the clock: an access to the registers, a read of the flash
\* window pending or not, what the pins show.
QspiCycle(a, f_valid, f_addr, d_ready, dq) ==
  \E link \in {io_outer} : \E tx_ready \in {media_tx_ready(link, ctrl)} :
    Edge(link, tx_ready, a, f_valid, f_addr, d_ready, dq)

================================================================================
