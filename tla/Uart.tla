--------------------------------- MODULE Uart ---------------------------------
(***************************************************************************)
(* A serial line: the transmitter of one UART, its line, the receiver of   *)
(* another, and the programs at both ends, which poll the status before    *)
(* every access.  A step is a cycle of the clock of the receiver; the one  *)
(* of the transmitter may be a cycle early or late MaxSlips times a frame. *)
(***************************************************************************)
EXTENDS Integers, Sequences, SequencesExt

CONSTANTS
  Divider,      \* clk_freq / baud_rate
  Width,        \* bits of a byte
  Depth,        \* fifoDepth
  Bytes,        \* sent by the program
  MaxSlips

VARIABLES
  tx, txQueue,          \* the registers of the transmitter
  rxd, rx, rxQueue,     \* rxd_reg0 to rxd_reg2; the registers of the receiver
  writer, reader,       \* the programs: "poll" or "access"
  slips,
  sent, got             \* history: bytes written and not read or lost; the
                        \* last one read, as it was written and as it is read

uartVars == <<tx, txQueue, rxd, rx, rxQueue, writer, reader, slips, sent, got>>

UartInit ==
  /\ tx \in {[baud |-> b, tick |-> 0, state |-> "idle", buff |-> <<>>, reg |-> 1, count |-> 0] :
               b \in 0..Divider}
  /\ rx = [baud |-> 0, tick |-> 0, enable |-> FALSE, buff |-> [k \in 1..Width |-> 0],
           count |-> 0, state |-> "idle"]
  /\ rxd = <<1, 1, 1>> /\ txQueue = <<>> /\ rxQueue = <<>>
  /\ writer = "poll" /\ reader = "poll" /\ slips = 0
  /\ sent = <<>> /\ got = <<0, 0>>

\* The bits of a byte, the lowest first.
Bit(b)    == [k \in 1..Width |-> (b \div 2^(k - 1)) % 2]
Value(bs) == FoldLeft(LAMBDA v, k : v + bs[k] * 2^(k - 1), 0, [k \in 1..Width |-> k])
Frame(b)  == <<0>> \o Bit(b) \o <<1>>

\* From the edge of the start bit half a bit passes.
HalfBit == Divider \div 2

\* A counter of log2Up(Divider) bits holds every number that comes up to Divider
\* unless that is a power of two; then it would never be reached.
CounterHolds == \A k \in 0..Divider : Divider # 2^k

\* The bits of a byte are enough for it, and half a bit is enough for the
\* slips of a frame and for the registers before the receiver.
UartAssumption ==
  /\ CounterHolds
  /\ Divider \in Nat /\ Width \in Nat \ {0} /\ Depth \in Nat \ {0} /\ MaxSlips \in Nat
  /\ MaxSlips + 2 <= HalfBit
  /\ \A b \in Bytes : Value(Bit(b)) = b

-----------------------------------------------------------------------------
(* The transmitter. *)

\* The counter goes on by one, or by none or two in a slip.
TxBaud(step) ==
  IF tx.baud >= Divider /\ step > 0 THEN [tx EXCEPT !.baud = 0, !.tick = 1]
  ELSE [tx EXCEPT !.baud = @ + step, !.tick = 0]

\* Mutant: the line goes idle before the stop bit is over.
FrameEndEarly == Width + 1

FrameEnd == Width + 2

\* A byte is taken from an idle state or at the end of a frame.
TxTakes ==
  /\ txQueue # <<>>
  /\ tx.state = "idle" \/ (tx.tick = 1 /\ tx.count = FrameEnd)

Transmit(step) ==
  LET t == TxBaud(step)
      frame == Frame(Head(txQueue))
  IN  tx' = CASE tx.state = "idle" /\ TxTakes -> [t EXCEPT !.buff = frame, !.state = "send"]
              [] tx.state = "send" /\ tx.tick = 1 /\ tx.count # FrameEnd ->
                   [t EXCEPT !.buff = Tail(@), !.reg = Head(tx.buff), !.count = @ + 1]
              [] tx.state = "send" /\ TxTakes ->
                   [t EXCEPT !.buff = Tail(frame), !.reg = 0, !.count = 1]
              [] tx.state = "send" /\ tx.tick = 1 /\ tx.count = FrameEnd /\ txQueue = <<>> ->
                   [t EXCEPT !.reg = 1, !.count = 0, !.state = "idle"]
              [] OTHER -> t

-----------------------------------------------------------------------------
(* The receiver. *)

Sampled == rxd[3]

RxBaud ==
  IF ~rx.enable THEN rx
  ELSE IF rx.baud = Divider THEN [rx EXCEPT !.baud = 0, !.tick = 1]
  ELSE [rx EXCEPT !.baud = @ + 1, !.tick = 0]

Receive ==
  LET r == RxBaud
      tick == rx.tick = 1
  IN  rx' = CASE rx.state = "idle" /\ Sampled = 0 ->
                   [r EXCEPT !.state = "start", !.baud = HalfBit, !.enable = TRUE]
              [] rx.state = "start" /\ tick ->
                   [r EXCEPT !.state = IF Sampled = 0 THEN "receive_data" ELSE "idle"]
              [] rx.state = "receive_data" /\ tick ->
                   [r EXCEPT !.state = IF rx.count = Width - 1 THEN "stop_bit" ELSE @,
                             !.count = (@ + 1) % Width,
                             !.buff = Append(Tail(@), Sampled)]
              [] rx.state = "stop_bit" /\ tick -> [r EXCEPT !.state = "idle", !.enable = FALSE]
              [] OTHER -> r

\* A byte is complete; without room for it it is lost.
Complete == rx.state = "stop_bit" /\ rx.tick = 1 /\ Sampled = 1
Lost     == Complete /\ Len(rxQueue) = Depth

-----------------------------------------------------------------------------
(* The programs: uart_write and uart_read. *)

\* What the programs do in this cycle: a look at the status, an access or
\* nothing; new is the byte to write, or none.
Looks(p, ready) == IF p = "poll" /\ ready THEN "access" ELSE p

Writes(new) == writer = "access" /\ new # <<>>
Reads(on)   == on /\ reader = "access"

\* The bytes that come into the queues.
Entered(new) == IF Writes(new) /\ Len(txQueue) < Depth THEN new ELSE <<>>
Arrived      == IF Complete /\ ~Lost THEN <<Value(rx.buff)>> ELSE <<>>

Cycle(step, new, on) ==
  /\ Transmit(step) /\ Receive
  /\ rxd' = <<tx.reg, rxd[1], rxd[2]>>
  /\ slips' = (IF TxTakes THEN 0 ELSE slips) + (IF step = 1 THEN 0 ELSE 1)
  /\ writer' = IF Writes(new) THEN "poll" ELSE Looks(writer, Len(txQueue) < Depth)
  /\ reader' = IF Reads(on) THEN "poll" ELSE IF on THEN Looks(reader, rxQueue # <<>>) ELSE reader
  /\ txQueue' = (IF TxTakes THEN Tail(txQueue) ELSE txQueue) \o Entered(new)
  /\ rxQueue' = (IF Reads(on) THEN Tail(rxQueue) ELSE rxQueue) \o Arrived
  /\ LET kept == IF Lost THEN RemoveAt(sent, Depth + 1) ELSE sent
     IN  sent' = (IF Reads(on) THEN Tail(kept) ELSE kept) \o (IF Writes(new) THEN new ELSE <<>>)
  /\ got' = IF Reads(on) THEN <<Head(sent), Head(rxQueue)>> ELSE got

\* A slip may come at any cycle of a frame.
Clock(on) ==
  \E new \in {<<>>} \cup {<<b>> : b \in Bytes} :
    \E step \in IF slips < MaxSlips /\ tx.state = "send" THEN 0..2 ELSE {1} : Cycle(step, new, on)

UartNext == \E on \in BOOLEAN : Clock(on)

UartSpec == UartInit /\ [][UartNext]_uartVars

-----------------------------------------------------------------------------
(* Properties. *)

\* Bytes are read as they were written and in their order, whatever came
\* before them on the line, but for those that find the queue full; and none
\* is lost on the line, which holds one and hands one over.
IsLine == got[1] = got[2] /\ Len(sent) <= 2 * Depth + 2

=============================================================================
