------------------------------- MODULE MCQueues --------------------------------
(***************************************************************************)
(* A bench for the queues of the SoC and for the UART, which is two of     *)
(* them with a serial line between: Init picks the unit under test, and    *)
(* only that unit's clocks run.                                            *)
(***************************************************************************)
EXTENDS SirvGnrlFifo

CONSTANTS
  a, b,                          \* items
  ODD,                           \* the depth of the second fifo_v3, no power of two
  Words,                         \* what crosses between the clocks
  DEPTH, DIVS, BYTES, MESSAGE    \* of the UART

\* A frame stays in step for the divisors from 14 up: from there the samples of a
\* bit, taken every div cycles from the middle of the start bit, keep within bits of
\* div + 1 cycles to the end of the byte.
ASSUME DivisorAssumption == \A d \in DIVS : d \in Nat /\ 14 <= d /\ d < 2^16
ASSUME ByteAssumption == \A byte \in BYTES : byte \in Seq({0, 1}) /\ Len(byte) = 8
ASSUME MessageAssumption == DEPTH \in Nat /\ MESSAGE \in Nat
ASSUME ItemAssumption == a \in Items /\ 0 \in Words
ASSUME OddAssumption == ODD \in Nat \ {0}

TwoItems == {a, b}
TwoBytes == {<<1, 0, 1, 1, 0, 0, 1, 0>>, <<0, 0, 0, 0, 0, 0, 0, 0>>}
\* Distinct enough to tell a word from the next two.
FourWords == 0 .. 3

VARIABLES
  unit,
  read_pointer_q, write_pointer_q, status_cnt_q, mem_q,
  rp_t, wp_t, cnt_t, mem_t,
  ram, wptr, rptr_1, maybe_full,
  vld_r, stage_dat,
  req_src_q, ack_src_q, ack_q, data_src_q, req_dst_q, req_q0, req_q1, ack_dst_q, data_dst_q,
  div, txen, rxen, txwm, rxwm, nstop, ie_rxwm, ie_txwm, txq, rxq,
  prescaler, counter, shifter, out,
  rx_state, rx_buffer, push_rx_fifo, filter, dlc, enable,
  pc, todo, room, due

\* One as the SoC uses it, and one of an odd depth that lets items fall through.
Plain   == INSTANCE FifoV3 WITH ZeroItem <- a, DEPTH <- DP, FALL_THROUGH <- FALSE
Through == INSTANCE FifoV3 WITH ZeroItem <- a, DEPTH <- ODD, FALL_THROUGH <- TRUE,
             read_pointer_q <- rp_t, write_pointer_q <- wp_t, status_cnt_q <- cnt_t, mem_q <- mem_t
Bytes   == INSTANCE SirvQueue1 WITH Depth <- DP, rptr <- rptr_1
Stage   == INSTANCE SirvPipeStage WITH o_dat <- stage_dat
Cdc     == INSTANCE Cdc2Phase WITH Items <- Words, ZeroItem <- 0
Serial  == INSTANCE MCUart

\* $clog2: the pointers reach every entry.
ASSUME PointersReach ==
  /\ Plain!PtrRange \in Nat /\ Plain!PtrRange >= DP
  /\ Through!PtrRange \in Nat /\ Through!PtrRange >= ODD

plainVars == <<read_pointer_q, write_pointer_q, status_cnt_q, mem_q>>
throughVars == <<rp_t, wp_t, cnt_t, mem_t>>
v3Vars == <<plainVars, throughVars>>
bytesVars == <<ram, wptr, rptr_1, maybe_full>>
stageVars == <<vld_r, stage_dat>>
cdcVars == <<req_src_q, ack_src_q, ack_q, data_src_q,
             req_dst_q, req_q0, req_q1, ack_dst_q, data_dst_q>>
serialVars ==
  <<div, txen, rxen, txwm, rxwm, nstop, ie_rxwm, ie_txwm, txq, rxq,
    prescaler, counter, shifter, out,
    rx_state, rx_buffer, push_rx_fifo, filter, dlc, enable, pc, todo, room, due>>
allVars == <<unit, vars, v3Vars, bytesVars, stageVars, cdcVars, serialVars>>

Units == {"onehot", "plain", "through", "bytes", "stage", "cdc", "cdc no reset", "uart"}

\* The registers of a unit that is not under test have some fixed content.
Idle(u) == unit # u

BenchInit ==
  /\ unit \in Units
  /\ Init /\ (Idle("onehot") => fifo_rf_r = [s \in Slots |-> a])
  /\ Plain!Init /\ Through!Init
  /\ Bytes!Init /\ (Idle("bytes") => ram = [s \in Slots |-> a])
  /\ Stage!Init /\ (Idle("stage") => stage_dat = a)
  /\ Cdc!Init
  /\ Serial!BenchInit
  /\ Idle("uart") => todo = [div |-> CHOOSE d \in DIVS : TRUE, nstop |-> FALSE, bytes |-> MESSAGE]

OneHot  == unit = "onehot" /\ Next
           /\ UNCHANGED <<unit, v3Vars, bytesVars, stageVars, cdcVars, serialVars>>
V3Plain  == unit = "plain" /\ Plain!Next
           /\ UNCHANGED <<unit, vars, throughVars, bytesVars, stageVars, cdcVars, serialVars>>
V3Through == unit = "through" /\ Through!Next
           /\ UNCHANGED <<unit, vars, plainVars, bytesVars, stageVars, cdcVars, serialVars>>
Queue1  == unit = "bytes" /\ Bytes!Next
           /\ UNCHANGED <<unit, vars, v3Vars, stageVars, cdcVars, serialVars>>
PipeStage == unit = "stage" /\ Stage!Next
           /\ UNCHANGED <<unit, vars, v3Vars, bytesVars, cdcVars, serialVars>>
CdcTick(tick) == tick /\ UNCHANGED <<unit, vars, v3Vars, bytesVars, stageVars, serialVars>>
Crossing ==
  \/ unit = "cdc" /\ CdcTick(Cdc!Next)
  \/ unit = "cdc no reset" /\ CdcTick(Cdc!SrcTick \/ Cdc!DstTick)

Line(tick) ==
  unit = "uart" /\ tick /\ UNCHANGED <<unit, vars, v3Vars, bytesVars, stageVars, cdcVars>>

BenchNext ==
  OneHot \/ V3Plain \/ V3Through \/ Queue1 \/ PipeStage \/ Crossing \/ Line(Serial!BenchNext)

\* The fairness of Cdc2Phase (both clocks run, the receiver takes its word) and of MCUart.
BenchSpec ==
  /\ BenchInit /\ [][BenchNext]_allVars
  /\ WF_allVars(unit = "cdc no reset" /\ CdcTick(Cdc!SrcEdge(FALSE, 0)))
  /\ WF_allVars(unit = "cdc no reset" /\ CdcTick(Cdc!DstEdge(TRUE)))
  /\ WF_allVars(Line(Serial!BenchNext)) /\ WF_allVars(Line(Serial!Receive))
  /\ SF_allVars(Line(Serial!Wait /\ txen))

--------------------------------------------------------------------------------
\* Flags, data, usage (fifo_v3), the count the watermarks compare (sirv_queue_1)
\* and what both sides of the crossing see are those of the items held.
FlagsTell ==
  /\ Plain!OutputsAgree /\ Through!OutputsAgree /\ Plain!UsageTells
  /\ Bytes!CountTells
  /\ Cdc!OutputsAgree

\* cdc_2phase: the unsynchronised data lines are sampled only while they are held.
CaptureSafe == Cdc!CaptureSafe

\* Every other queue, too, is first in, first out, loses nothing and shows what it
\* holds, and so does the crossing (fifo_v3.sv, sirv_queue_1.v,
\* sirv_gnrl_pipe_stage.sv, cdc_2phase.sv).
OtherQueues ==
  /\ Plain!Queues /\ Through!Queues /\ Bytes!Queues /\ Stage!Queues /\ Cdc!Crosses
  /\ [](FlagsTell /\ CaptureSafe)

\* Every byte the receiver delivers is the next one sent (uart_rx.v, sirv_uarttx.v).
ArrivesWhole == Serial!ArrivesWhole

\* Of the bytes sent, all are read in order, in a queue or on the line (sirv_uart.v).
Accounted == Serial!Accounted

\* What is sent arrives: software reads its byte or it was lost by overrun (sirv_uart.v);
\* the receiver is shown the word, and the sender let in again (cdc_2phase.sv).
Arrives ==
  /\ Serial!Arrives
  /\ unit = "cdc no reset" /\ Cdc!channel # <<>> ~> Cdc!valid_o
  /\ unit = "cdc no reset" /\ ~Cdc!ready_o ~> Cdc!ready_o
================================================================================
