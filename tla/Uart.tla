---------------------------------- MODULE Uart ----------------------------------
(***************************************************************************)
(* rtl/perips/sirv_uart.v: the UART behind its bus port.  Software writes  *)
(* bytes to a transmit queue and reads them from a receive queue; the      *)
(* queues are the abstract ones SirvQueue1 implements.  A byte written to  *)
(* a full queue, or received into one, is lost without a trace.            *)
(***************************************************************************)
EXTENDS Integers, Sequences

CONSTANT DEPTH   \* of both queues, 8 in the SoC

VARIABLES
  div, txen, rxen, txwm, rxwm, nstop, ie_rxwm, ie_txwm,   \* the registers
  txq, rxq,
  prescaler, counter, shifter, out,                       \* the transmitter
  rx_state, rx_buffer, push_rx_fifo, filter, dlc, enable  \* the receiver

u_txm == INSTANCE UartTx
u_rxm == INSTANCE UartRx

regs == <<div, txen, rxen, txwm, rxwm, nstop, ie_rxwm, ie_txwm>>
vars == <<regs, txq, rxq, prescaler, counter, shifter, out,
          rx_state, rx_buffer, push_rx_fifo, filter, dlc, enable>>

--------------------------------------------------------------------------------
\* An access in this cycle: the register its address selects, and the fields
\* written to it.  Address bits 11 .. 5 do not count for a write or a pop, so each
\* register answers at every multiple of 32.
Access(reg, we, data) == [reg |-> reg, we |-> we, data |-> data]
NoAccess == Access("none", FALSE, <<>>)
Reads(a, reg) == a.reg = reg /\ ~a.we
Writes(a, reg) == a.reg = reg /\ a.we

txq_io_enq_ready == Len(txq) < DEPTH
txq_io_deq_valid == txq # <<>>
rxq_io_enq_ready == Len(rxq) < DEPTH
rxq_io_deq_valid == rxq # <<>>

\* Bit 31 of txdata.
txdata_full == ~txq_io_enq_ready

\* Mutant: the last byte waits for the next.
rx_ip_Above == Len(rxq) > rxwm + 1

tx_ip == Len(txq) < txwm
rx_ip == Len(rxq) > rxwm
io_interrupts == (tx_ip /\ ie_txwm) \/ (rx_ip /\ ie_rxwm)

enqueues(a) == Writes(a, "txdata") /\ txq_io_enq_ready
txq_pops == u_txm!starts(txen, txq_io_deq_valid)
\* Mutant: the receiver does not look at the queue.
receives_Always == push_rx_fifo

receives == push_rx_fifo /\ rxq_io_enq_ready
rxq_pops(a) == Reads(a, "rxdata") /\ rxq_io_deq_valid

Pushed(q, push, byte) == IF push THEN Append(q, byte) ELSE q
Popped(q, pop) == IF pop THEN Tail(q) ELSE q

Field(a, reg, field, old) == IF Writes(a, reg) THEN a.data[field] ELSE old

Init ==
  /\ div = 542 /\ txen = FALSE /\ rxen = FALSE /\ nstop = FALSE
  /\ txwm = 0 /\ rxwm = 0 /\ ie_rxwm = FALSE /\ ie_txwm = FALSE
  /\ txq = <<>> /\ rxq = <<>>
  /\ u_txm!Init /\ u_rxm!Init

\* One rising edge of the clock.
Cycle(a, io_port_rxd) ==
  /\ div' = Field(a, "div", "div", div)
  /\ txen' = Field(a, "txctrl", "txen", txen)
  /\ nstop' = Field(a, "txctrl", "nstop", nstop)
  /\ txwm' = Field(a, "txctrl", "txwm", txwm)
  /\ rxen' = Field(a, "rxctrl", "rxen", rxen)
  /\ rxwm' = Field(a, "rxctrl", "rxwm", rxwm)
  /\ ie_txwm' = Field(a, "ie", "txwm", ie_txwm)
  /\ ie_rxwm' = Field(a, "ie", "rxwm", ie_rxwm)
  /\ txq' = Pushed(Popped(txq, txq_pops), enqueues(a), a.data)
  /\ rxq' = Pushed(Popped(rxq, rxq_pops(a)), receives, rx_buffer)
  /\ u_txm!Cycle(txen, txq_io_deq_valid, Head(txq), div, nstop)
  /\ u_rxm!Cycle(rxen, io_port_rxd, div)

================================================================================
