-------------------------------- MODULE QspiFifo --------------------------------
(***************************************************************************)
(* rtl/perips/sirv_qspi_fifo.v: the master of the QSPI link that software  *)
(* drives byte by byte.  Its queues are the abstract ones SirvQueue1       *)
(* implements.  A transfer with the direction "receive" (iodir 0) leaves   *)
(* one byte in the receive queue, or loses it when the queue is full.      *)
(***************************************************************************)
EXTENDS Naturals, Sequences

CONSTANT DEPTH   \* of both queues, 8 in the SoC

VARIABLES txq, rxq, rxen, cs_mode

vars == <<txq, rxq, rxen, cs_mode>>

AUTO == 0
HOLD == 2
OFF == 3

--------------------------------------------------------------------------------
io_tx_ready == Len(txq) < DEPTH
io_rx_valid == rxq # <<>>
io_ip_txwm(wm) == Len(txq) < wm
io_ip_rxwm(wm) == Len(rxq) > wm

io_link_tx_valid == txq # <<>>
io_link_tx_bits == IF txq = <<>> THEN 0 ELSE Head(txq)

\* The periods of SCK that len bits take on the lanes of the format.  The rest that
\* costs one more is that of twice the lanes: an odd len on one lane sends a bit more.
io_link_cnt(fmt) ==
  LET lanes == 2 ^ fmt.proto
  IN  fmt.len \div lanes + (IF fmt.len % (2 * lanes) = 0 THEN 0 ELSE 1)

cs_mode_off == cs_mode = OFF
fire_tx(tx_ready) == tx_ready /\ io_link_tx_valid

\* The mode is left, or a byte was taken and the mode keeps no frame open for more.
io_link_cs_clear(mode, tx_ready) ==
  cs_mode # mode \/ (fire_tx(tx_ready) /\ cs_mode \notin {HOLD, OFF})

io_link_lock == io_link_tx_valid \/ rxen

\* Mutant: the flag outlives the byte.
rxen_nxt_Stays(fmt, tx_ready, rx_valid) ==
  IF fire_tx(tx_ready) THEN ~fmt.iodir ELSE rxen

rxen_nxt(fmt, tx_ready, rx_valid) ==
  IF fire_tx(tx_ready) THEN ~fmt.iodir ELSE rxen /\ ~rx_valid

Init == txq = <<>> /\ rxq = <<>> /\ rxen = FALSE /\ cs_mode = AUTO

Popped(q, pop) == IF pop THEN Tail(q) ELSE q
Pushed(q, push, byte) == IF push THEN Append(q, byte) ELSE q

\* One rising edge of the clock: software pushes a byte or pops one, the link takes
\* one or brings one.
Cycle(fmt, mode, tx_valid, tx_bits, rx_ready, tx_ready, rx_valid, rx_bits) ==
  /\ txq' = Pushed(Popped(txq, fire_tx(tx_ready)), tx_valid /\ io_tx_ready, tx_bits)
  /\ rxq' = Pushed(Popped(rxq, rx_ready /\ io_rx_valid),
                   rx_valid /\ rxen /\ Len(rxq) < DEPTH, rx_bits)
  /\ rxen' = rxen_nxt(fmt, tx_ready, rx_valid)
  /\ cs_mode' = mode

================================================================================
