--------------------------------- MODULE UartRx ---------------------------------
(***************************************************************************)
(* rtl/perips/uart_rx.v: the receiver of the UART, as sirv_uart sets it    *)
(* up: eight bits, no parity, one stop bit sampled.  It filters the line,  *)
(* finds the middle of the start bit and samples every io_div cycles; its  *)
(* error flags are not connected.                                          *)
(***************************************************************************)
EXTENDS Integers, Sequences

VARIABLES rx_state, rx_buffer, push_rx_fifo, filter, dlc, enable

vars == <<rx_state, rx_buffer, push_rx_fifo, filter, dlc, enable>>

Bits == {0, 1}
WIDTH == 8

\* The states, numbered as in the code; PARITY, 10, is never entered.
IDLE == 0
START == 1
BIT0 == 2
BIT7 == 9
STOP1 == 11
STOP2 == 12
BitStates == BIT0 .. BIT7
NoBits == [n \in 1 .. WIDTH |-> 0]

\* The majority of the last three samples.
filtered_rxd == IF filter[1] + filter[2] + filter[3] >= 2 THEN 1 ELSE 0

rx_start(io_en) == io_en /\ filtered_rxd = 0

\* Mutant: the first sample comes a whole bit after the start edge.
preset_Whole(io_div) == io_div - 1

\* Half a bit; 16 bits wide, so it wraps for a divisor below two.
preset(io_div) == (io_div \div 2 - 1) % 2^16

\* The state after a sample is taken.
sampled ==
  CASE rx_state = START -> IF filtered_rxd = 0 THEN BIT0 ELSE IDLE
    [] rx_state = BIT7 -> STOP1
    [] OTHER -> rx_state + 1

Init ==
  /\ rx_state = IDLE /\ rx_buffer = NoBits /\ push_rx_fifo = FALSE
  /\ filter = <<1, 1, 1>> /\ dlc = 0 /\ enable = FALSE

Fsm(io_en) ==
  CASE rx_state = IDLE ->
         /\ push_rx_fifo' = FALSE /\ rx_buffer' = NoBits
         /\ rx_state' = IF rx_start(io_en) THEN START ELSE IDLE
    [] rx_state = STOP2 ->
         push_rx_fifo' = TRUE /\ rx_buffer' = rx_buffer /\ rx_state' = IDLE
    [] OTHER ->
         /\ push_rx_fifo' = push_rx_fifo
         /\ rx_state' = IF enable THEN sampled ELSE rx_state
         /\ rx_buffer' = IF enable /\ rx_state \in BitStates
                         THEN [rx_buffer EXCEPT ![rx_state - START] = filtered_rxd] ELSE rx_buffer

\* One rising edge of the clock.
Cycle(io_en, io_in, io_div) ==
  /\ Fsm(io_en)
  /\ dlc' = IF rx_state = IDLE THEN preset(io_div)
            ELSE IF dlc = 0 THEN (io_div - 1) % 2^16 ELSE dlc - 1
  /\ enable' = (io_div # 0 /\ dlc = 0)
  /\ filter' = <<io_in, filter[1], filter[2]>>

================================================================================
