-------------------------------- MODULE MCQspi --------------------------------
(***************************************************************************)
(* A bench for the QSPI controller, with the flash on its pins.  Software  *)
(* reads the flash window at any address, changes the format of these      *)
(* reads at any time, and between them runs jobs on the FIFO, as           *)
(* isa-tests/soc/qspi-trans.S does: it sends a command in one of the chip  *)
(* select modes, waits until it is out, turns the direction and receives.  *)
(***************************************************************************)
EXTENDS FlashQspi

CONSTANTS
  SIZE,      \* bytes in the flash
  FORMATS,   \* the codes of the mapped reads software chooses from
  JOBS,      \* how many of the jobs below it runs
  SETTLES    \* software waits for the end of the frame before it maps the flash again

VARIABLES
  cnt_bit, cnt_byte, buffer_in, buffer_out, cmd, addr_base, addr_offset,
  xfer_type, xfer_mode,   \* the flash
  sync,      \* the synchroniser of the pins: what they showed one to three cycles ago
  pc, job,   \* the step of the job running, 0 for none, and the job
  reading,   \* the address of the read pending, or NoRead
  due,       \* history: which bytes of the job are accepted and not out
  shown      \* history: the bytes the flash put out for the FIFO and software has not read

Memory == [i \in 0 .. SIZE - 1 |-> (37 * i + 169) % 256]
dev == INSTANCE SpiModel

benchVars ==
  <<qspi, cnt_bit, cnt_byte, buffer_in, buffer_out, cmd, addr_base, addr_offset,
    xfer_type, xfer_mode, sync, pc, job, reading, due, shown>>
NoRead == -1

\* A mapped read whose data comes on the lanes of its code.
Format(code) == [Reset.ffmt EXCEPT !.cmd_code = code, !.data_proto = dev!mode_of(code)]

\* A job: the mode of the chip select, the bytes to send, how many to receive and on
\* how many lanes, the delay between transfers.
Job(csmode, tx, rx, proto, interxfr) ==
  [csmode |-> csmode, tx |-> tx, rx |-> rx, proto |-> proto, interxfr |-> interxfr]
Jobs ==
  <<Job(fifo!OFF, <<dev!FAST_READ_D, 0, 0, 1>>, 2, 1, 0),
    Job(fifo!HOLD, <<dev!LOOP, 90>>, 1, 0, 1),
    Job(fifo!AUTO, <<195, 90>>, 0, 0, 0)>>

Write(reg, data) == Access(reg, TRUE, data)
Push(byte, n) == [nth |-> n] @@ Write("txdata", byte)
WriteFmt(proto, iodir) ==
  Write("fmt", [proto |-> proto, endian |-> FALSE, iodir |-> iodir, len |-> 8])
Wait(what) == Access(what, FALSE, 0)

Script(j) ==
  <<Write("fctrl", FALSE), Write("delay1", [intercs |-> 1, interxfr |-> j.interxfr]),
    Write("csmode", j.csmode), WriteFmt(0, TRUE)>>
  \o (IF j.csmode = fifo!OFF THEN <<Write("csdef", FALSE)>> ELSE <<>>)
  \o [n \in 1 .. Len(j.tx) |-> Push(j.tx[n], n)]
  \o <<Wait("sent"), WriteFmt(j.proto, FALSE)>>
  \o [n \in 1 .. j.rx |-> Push(0, Len(j.tx) + n)]
  \o [n \in 1 .. j.rx |-> Access("rxdata", FALSE, 0)]
  \o <<Write("csdef", TRUE), Write("csmode", fifo!AUTO), Wait("over"), Write("fctrl", TRUE)>>
Scripts == [k \in 1 .. JOBS |-> Script(Jobs[k])]

Ready(step) ==
  CASE step.reg = "txdata" -> fifo!io_tx_ready
    [] step.reg = "rxdata" -> fifo!io_rx_valid
    [] step.reg = "sent" -> txq = <<>> /\ (SETTLES => io_op_ready)
    [] step.reg = "over" -> SETTLES => ~cs_assert
    [] OTHER -> TRUE

--------------------------------------------------------------------------------
\* The pins: what the controller or the flash drives, a pull-up elsewhere.
Pin(i) == IF i \in driven THEN Bit(txd, i)
          ELSE IF ~cs_dflt_0 /\ i \in dev!dq_driven THEN Bit(dev!dq_o, i) ELSE 1
pins == Pin(0) + 2 * Pin(1) + 4 * Pin(2) + 8 * Pin(3)

\* The flash has taken in a byte of the FIFO, or begins to put one out for it.
in_flight == Len(due) > Len(txq)
rises == in_flight /\ ~sck /\ sck' /\ ~cs_dflt_0'
hears == rises /\ dev!last_bit
shows == rises /\ cnt_bit % dev!bits_of_byte = 0 /\ xfer_type = "DATA_OUT" /\ ~ctrl_fmt.iodir

Tick(a, f_valid, f_addr, d_ready) ==
  /\ QspiCycle(a, f_valid, f_addr, d_ready, sync[3])
  /\ dev!Cycle(sck, sck', cs_dflt_0', pins)
  /\ sync' = <<pins, sync[1], sync[2]>>
  /\ reading' = IF io_tl_f_0_d_valid(f_valid) /\ d_ready THEN NoRead
                ELSE IF f_valid THEN f_addr ELSE reading
  /\ due' = fifo!Pushed(fifo!Popped(due, hears), pushes(a), a.nth)
  /\ shown' = fifo!Pushed(fifo!Popped(shown, pops(a) /\ fifo!io_rx_valid /\ shown # <<>>), shows, buffer_out)

Run(a, d_ready) == Tick(a, FALSE, 0, d_ready)

BenchInit ==
  /\ QspiInit /\ dev!Init /\ sync = <<0, 0, 0>>
  /\ pc = 0 /\ job = 1 /\ reading = NoRead /\ due = <<>> /\ shown = <<>>
Start ==
  /\ pc = 0 /\ reading = NoRead /\ due = <<>>
  /\ job' \in 1 .. JOBS /\ pc' = 1 /\ Run(NoAccess, TRUE)
Step ==
  /\ pc > 0 /\ job' = job
  /\ pc' = IF pc = Len(Scripts[job]) THEN 0 ELSE pc + 1
  /\ \E step \in {Scripts[job][pc]} : Ready(step) /\ Run(step, TRUE)
Read ==
  /\ pc \in {0, 2} /\ reading = NoRead /\ UNCHANGED <<pc, job>>
  /\ \E addr \in 0 .. SIZE - 1 : Tick(NoAccess, TRUE, addr, TRUE)
Reformat ==
  /\ pc = 0 /\ UNCHANGED <<pc, job>>
  /\ \E code \in FORMATS \ {ctrl.ffmt.cmd_code} : Run(Write("ffmt", Format(code)), TRUE)
Idle == UNCHANGED <<pc, job>> /\ Run(NoAccess, TRUE)
Stall == io_tl_f_0_d_valid(FALSE) /\ UNCHANGED <<pc, job>> /\ Run(NoAccess, FALSE)

BenchNext == Start \/ Step \/ Read \/ Reformat \/ Idle \/ Stall

\* The clock runs, and the bus is ready for an answer from time to time.
BenchSpec == BenchInit /\ [][BenchNext]_benchVars /\ WF_benchVars(Idle)

--------------------------------------------------------------------------------
\* A read of the flash window is answered with the byte at its address.
FlashRead ==
  reading # NoRead /\ flash!in_data /\ io_rx_valid /\ sel = "map"
    => io_rx_bits = Memory[reading]

\* The flash hears the bytes written to the FIFO, each once, in order and whole, in
\* the frames the chip select mode asks for.
Heard ==
  [][hears => /\ ctrl_fmt.iodir => dev!buffer_in_comb(pins) = Jobs[job].tx[Head(due)]
              /\ cnt_byte = IF Jobs[job].csmode = fifo!AUTO THEN 0
                            ELSE IF Head(due) > 5 THEN 5 ELSE Head(due) - 1]_benchVars

\* What software finds in the receive queue is what the flash put out, in order.
Received == Len(shown) - Len(rxq) \in 0 .. 1 /\ rxq = SubSeq(shown, 1, Len(rxq))

\* Every read is answered, and every byte written to the FIFO goes out.
Served == []<>(reading = NoRead) /\ []<>(due = <<>>)

\* SCK runs at the clock divided as software set it: a byte takes 8 * 2 * (sckdiv + 1)
\* cycles (isa-tests/soc/qspi-trans.S:53; soc.h:151 "Serial clock divisor").
SckDivided == xfr /\ ~stop => ctrl_sck.div = ctrl.sckdiv
================================================================================
