--------------------------------- MODULE MCUart ---------------------------------
(***************************************************************************)
(* A bench for the UART: its line is wired back to it, as to a second UART *)
(* with the same settings.  Software sets it up, then writes the bytes     *)
(* while it sees room, and reads what arrives when it is interrupted.      *)
(***************************************************************************)
EXTENDS Uart

CONSTANTS
  DIVS,     \* the divisors software chooses from
  BYTES,    \* the bytes it sends, least bit first
  MESSAGE   \* how many it sends

VARIABLES
  pc,     \* the step of the set-up
  todo,   \* the divisor and the stop bits software chose, and the bytes left to send
  room,   \* software has read that the transmit queue has room, and not used it
  due     \* history: bytes accepted and neither read nor lost by overrun

benchVars == <<vars, pc, todo, room, due>>

TxCtrl(on) == Access("txctrl", TRUE, [txen |-> on, nstop |-> todo.nstop, txwm |-> 0])
SetUp ==
  <<Access("div", TRUE, [div |-> todo.div]),
    Access("rxctrl", TRUE, [rxen |-> TRUE, rxwm |-> 0]),
    Access("ie", TRUE, [rxwm |-> TRUE, txwm |-> FALSE]),
    TxCtrl(TRUE)>>
Running == pc > Len(SetUp)

\* What is due after the pop, the overrun and the write of this cycle.
Without(q, n) == SubSeq(q, 1, n - 1) \o SubSeq(q, n + 1, Len(q))
overruns == push_rx_fifo /\ ~rxq_io_enq_ready
due_nxt(a) ==
  LET kept == IF overruns THEN Without(due, Len(rxq) + 1) ELSE due
  IN  Pushed(Popped(kept, rxq_pops(a)), enqueues(a), a.data)

Do(a) ==
  /\ Cycle(a, out)
  /\ due' = due_nxt(a)
  /\ room' = IF Reads(a, "txdata") THEN ~txdata_full
             ELSE IF Writes(a, "txdata") THEN FALSE ELSE room
  /\ todo' = IF Writes(a, "txdata") THEN [todo EXCEPT !.bytes = @ - 1] ELSE todo
Run(a) == Running /\ pc' = pc /\ Do(a)

BenchInit ==
  /\ Init /\ pc = 1 /\ room = FALSE /\ due = <<>>
  /\ todo \in [div : DIVS, nstop : BOOLEAN, bytes : {MESSAGE}]
Prepare == ~Running /\ pc' = pc + 1 /\ Do(SetUp[pc])
Poll == ~room /\ todo.bytes > 0 /\ Run(Access("txdata", FALSE, <<>>))
Send == room /\ todo.bytes > 0 /\ \E byte \in BYTES : Run(Access("txdata", TRUE, byte))
Receive == io_interrupts /\ Run(Access("rxdata", FALSE, <<>>))
Pause == txen /\ Run(TxCtrl(FALSE))
Resume == ~txen /\ Run(TxCtrl(TRUE))
Wait == Run(NoAccess)

BenchNext == Prepare \/ Poll \/ Send \/ Receive \/ Pause \/ Resume \/ Wait

\* The clock runs; software answers an interrupt and does not pause for ever.
BenchSpec ==
  /\ BenchInit /\ [][BenchNext]_benchVars
  /\ WF_benchVars(BenchNext) /\ WF_benchVars(Receive) /\ SF_benchVars(Wait /\ txen)

--------------------------------------------------------------------------------
\* What the receiver delivers is the next byte written that has not arrived, each
\* once and whole: the receiver's own divider stays in step with the transmitter's,
\* which takes one cycle more for each bit (change log, sirv_uart.v:20).
ArrivesWhole ==
  push_rx_fifo => Len(due) > Len(rxq) /\ rx_buffer = due[Len(rxq) + 1]

\* Software reads the bytes in the order it wrote them; between the queues no more
\* than two are on the line, one whose stop bit is going out and the next; and a
\* byte written after txdata showed room is accepted, however long software waits.
Accounted ==
  /\ Len(rxq) <= Len(due) /\ rxq = SubSeq(due, 1, Len(rxq))
  /\ Len(due) - Len(rxq) - Len(txq) \in 0 .. 2
  /\ room => txq_io_enq_ready

\* Once software stops sending, all it sent has been read or was lost by overrun.
Arrives == []<>(due = <<>>)
================================================================================
