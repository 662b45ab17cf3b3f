----------------------------- MODULE QueuingPort -----------------------------
(***************************************************************************)
(* One channel of the message passing library between two cores of the     *)
(* network on chip, after both ports were created: the source copies a     *)
(* message and its flag word by DMA into the next slot of a ring in the    *)
(* sink's scratchpad, the sink acknowledges by writing its receive count   *)
(* back into the source's scratchpad.  Nothing is shared but those two     *)
(* remote writes, which arrive some time after they were sent.             *)
(*                                                                         *)
(* A message is the number of successful sends up to it, and so is each of *)
(* its words: a slot whose words differ holds a torn message.              *)
(***************************************************************************)
EXTENDS Integers, Sequences

CONSTANTS
  NumBuf,     \* num_buf, the slots of the sink
  Words,      \* the data words of a message
  CountMod,   \* send_count and recv_count count modulo 2^32
  Waits,      \* how long calls wait: "forever" (time_usecs = 0) or "timed"
  MaxMsgs     \* the source sends no more than this

ASSUME PortAssumption ==
  /\ NumBuf \in Nat \ {0} /\ Words \in Nat \ {0} /\ MaxMsgs \in Nat
  /\ CountMod \in Nat /\ CountMod > NumBuf
  /\ Waits \in SUBSET {"forever", "timed"}

FLAG_VALID   == 1
FLAG_INVALID == 0
Flag         == Words + 1         \* where a buffer keeps its flag
Buffer       == [1..Flag -> Nat]

VARIABLES
  write_buf,        \* which of the source's two buffers is write_buf
  bufs,             \* their words
  send_ptr, send_count,
  send_recv_count,  \* written by the sink
  sending,          \* how long the mp_send in progress waits, or "no"
  dma,              \* the source's transfer: buffer, slot and next word
  net,              \* its packets on the way (msg is history)
  recv_bufs,        \* the sink's slots
  recv_ptr, recv_count,
  acking,           \* the same of mp_ack_n
  num_acks,         \* and its argument
  ack_dma,          \* is the sink's transfer active
  ack_net,          \* the counts on the way back
  sent, arrived, received, acked   \* history: how many messages so far

source == <<write_buf, bufs, send_ptr, send_count, sending>>
sink   == <<recv_ptr, recv_count, acking, num_acks>>
noc    == <<dma, net, ack_dma, ack_net, recv_bufs, send_recv_count>>
vars   == <<source, sink, noc, sent, arrived, received, acked>>

\* Mutants: counters that do not wrap, a ring one slot too long, one buffer
\* for the program and the DMA.
MinusSigned(c, d) == c - d
AdvanceLate(p)    == IF p = NumBuf THEN 0 ELSE p + 1
SameBuffer(b)     == b

\* Unsigned counters and ring pointers, without division.
Plus(c, n)  == IF c + n < CountMod THEN c + n ELSE c + n - CountMod
Minus(c, d) == IF c >= d THEN c - d ELSE c - d + CountMod
Advance(p)  == IF p = NumBuf - 1 THEN 0 ELSE p + 1
Shadow(b)   == 1 - b       \* shadow_write_buf, when b is write_buf

dma_active == dma.next <= Flag

Init ==
  /\ write_buf = 0 /\ bufs = [b \in 0..1 |-> [w \in 1..Flag |-> 0]]
  /\ send_ptr = 0 /\ send_count = 0 /\ send_recv_count = 0
  /\ sending = "no"
  /\ dma = [buf |-> 0, slot |-> 0, next |-> Flag + 1] /\ net = <<>>
  /\ recv_bufs = [s \in 0..NumBuf - 1 |-> [w \in 1..Flag |-> 0]]
  /\ recv_ptr = 0 /\ recv_count = 0
  /\ acking = "no" /\ num_acks = 0 /\ ack_dma = FALSE /\ ack_net = <<>>
  /\ sent = 0 /\ arrived = 0 /\ received = 0 /\ acked = 0

-----------------------------------------------------------------------------
(* The source. *)

\* The program fills write_buf and calls mp_send.  A call that timed out
\* left the message there, and is repeated.
mp_send(wait) ==
  /\ sending = "no" /\ sent < MaxMsgs
  /\ bufs' = [bufs EXCEPT ![write_buf] =
                [w \in 1..Flag |-> IF w = Flag THEN @[w] ELSE sent + 1]]
  /\ sending' = wait
  /\ UNCHANGED <<write_buf, send_ptr, send_count, sink, noc>>
  /\ UNCHANGED <<sent, arrived, received, acked>>

\* One round of its loop.  The count of the sink is read once.
mp_nbsend ==
  LET room == Minus(send_count, send_recv_count) # NumBuf
  IN  /\ sending # "no"
      /\ bufs' = [bufs EXCEPT ![write_buf][Flag] = FLAG_VALID]
      /\ IF room /\ ~dma_active
         THEN /\ dma' = [buf |-> write_buf, slot |-> send_ptr, next |-> 1]
              /\ send_count' = Plus(send_count, 1)
              /\ send_ptr' = Advance(send_ptr)
              /\ write_buf' = Shadow(write_buf)
              /\ sending' = "no"
              /\ sent' = sent + 1
         ELSE UNCHANGED <<dma, send_count, send_ptr, write_buf, sending, sent>>
      /\ UNCHANGED <<net, recv_bufs, ack_dma, ack_net, send_recv_count, sink>>
      /\ UNCHANGED <<arrived, received, acked>>

send_timeout ==
  /\ sending = "timed"
  /\ sending' = "no"
  /\ UNCHANGED <<write_buf, bufs, send_ptr, send_count, sink, noc>>
  /\ UNCHANGED <<sent, arrived, received, acked>>

-----------------------------------------------------------------------------
(* The network on chip, in both directions.  A DMA entry is free again     *)
(* when the last word has left, and words of one core arrive in order.     *)

Transmit ==
  /\ dma_active
  /\ net' = Append(net, [slot |-> dma.slot, word |-> dma.next,
                         val |-> bufs[dma.buf][dma.next], msg |-> sent])
  /\ dma' = [dma EXCEPT !.next = @ + 1]
  /\ UNCHANGED <<source, sink, recv_bufs, ack_dma, ack_net, send_recv_count>>
  /\ UNCHANGED <<sent, arrived, received, acked>>

Deliver ==
  /\ net # <<>>
  /\ LET p == Head(net)
     IN  /\ recv_bufs' = [recv_bufs EXCEPT ![p.slot][p.word] = p.val]
         /\ arrived' = IF p.word = Flag THEN arrived + 1 ELSE arrived
  /\ net' = Tail(net)
  /\ UNCHANGED <<source, sink, dma, ack_dma, ack_net, send_recv_count>>
  /\ UNCHANGED <<sent, received, acked>>

TransmitAck ==
  /\ ack_dma
  /\ ack_net' = Append(ack_net, recv_count)
  /\ ack_dma' = FALSE
  /\ UNCHANGED <<source, sink, dma, net, recv_bufs, send_recv_count>>
  /\ UNCHANGED <<sent, arrived, received, acked>>

DeliverAck ==
  /\ ack_net # <<>>
  /\ send_recv_count' = Head(ack_net)
  /\ ack_net' = Tail(ack_net)
  /\ UNCHANGED <<source, sink, dma, net, recv_bufs, ack_dma>>
  /\ UNCHANGED <<sent, arrived, received, acked>>

-----------------------------------------------------------------------------
(* The sink. *)

\* A successful mp_nbrecv; one that finds no flag changes nothing, and
\* mp_recv repeats it.
mp_nbrecv ==
  /\ acking = "no"
  /\ recv_bufs[recv_ptr][Flag] # FLAG_INVALID
  /\ recv_ptr' = Advance(recv_ptr)
  /\ recv_bufs' = [recv_bufs EXCEPT ![recv_ptr][Flag] = FLAG_INVALID]
  /\ received' = received + 1
  /\ UNCHANGED <<source, recv_count, acking, num_acks, dma, net, ack_dma, ack_net>>
  /\ UNCHANGED <<send_recv_count, sent, arrived, acked>>

\* The program acknowledges messages it has received.
mp_ack_n(n, wait) ==
  /\ acking = "no" /\ n \in 1..received - acked
  /\ acking' = wait /\ num_acks' = n
  /\ UNCHANGED <<source, recv_ptr, recv_count, noc>>
  /\ UNCHANGED <<sent, arrived, received, acked>>

\* A mutant: the new count is not sent.
start_ack_kept ==
  /\ acking # "no" /\ ~ack_dma
  /\ recv_count' = Plus(recv_count, num_acks)
  /\ acking' = "no" /\ num_acks' = 0
  /\ acked' = acked + num_acks
  /\ UNCHANGED <<source, recv_ptr, noc, sent, arrived, received>>

\* The previous acknowledgement has left, so that noc_nbwrite succeeds.
start_ack ==
  /\ acking # "no" /\ ~ack_dma
  /\ recv_count' = Plus(recv_count, num_acks)
  /\ ack_dma' = TRUE
  /\ acking' = "no" /\ num_acks' = 0
  /\ acked' = acked + num_acks
  /\ UNCHANGED <<source, recv_ptr, dma, net, recv_bufs, ack_net>>
  /\ UNCHANGED <<send_recv_count, sent, arrived, received>>

\* A mutant: the count is not taken back when the call times out.
ack_timeout_counted ==
  /\ acking = "timed"
  /\ recv_count' = Plus(recv_count, num_acks)
  /\ acking' = "no" /\ num_acks' = 0
  /\ UNCHANGED <<source, recv_ptr, noc>>
  /\ UNCHANGED <<sent, arrived, received, acked>>

ack_timeout ==
  /\ acking = "timed"
  /\ acking' = "no" /\ num_acks' = 0
  /\ UNCHANGED <<source, recv_ptr, recv_count, noc>>
  /\ UNCHANGED <<sent, arrived, received, acked>>

Next ==
  \/ \E wait \in Waits : mp_send(wait)
  \/ mp_nbsend \/ send_timeout
  \/ Transmit \/ Deliver \/ TransmitAck \/ DeliverAck
  \/ mp_nbrecv
  \/ \E n \in 1..NumBuf, wait \in Waits : mp_ack_n(n, wait)
  \/ start_ack \/ ack_timeout

Spec == Init /\ [][Next]_vars

\* Both cores run, the sink's program receives and acknowledges for ever,
\* and the network delivers.  The source's program may stop.
Fairness ==
  /\ WF_vars(mp_nbsend)
  /\ WF_vars(Transmit) /\ WF_vars(Deliver)
  /\ WF_vars(TransmitAck) /\ WF_vars(DeliverAck)
  /\ WF_vars(mp_nbrecv)
  /\ WF_vars(\E n \in 1..NumBuf, wait \in Waits : mp_ack_n(n, wait))
  /\ WF_vars(start_ack)

FairSpec == Spec /\ Fairness

-----------------------------------------------------------------------------
(* Properties. *)

Counter == 0..CountMod - 1
Slot    == 0..NumBuf - 1
Call    == {"no", "forever", "timed"}
Packet  == [slot : Slot, word : 1..Flag, val : Nat, msg : Nat]

TypeOK ==
  /\ write_buf \in 0..1 /\ bufs \in [0..1 -> Buffer]
  /\ send_ptr \in Slot /\ send_count \in Counter /\ send_recv_count \in Counter
  /\ sending \in Call
  /\ dma \in [buf : 0..1, slot : Slot, next : 1..Flag + 1]
  /\ net \in Seq(Packet)
  /\ recv_bufs \in [Slot -> Buffer]
  /\ recv_ptr \in Slot /\ recv_count \in Counter
  /\ acking \in Call /\ num_acks \in 0..NumBuf /\ ack_dma \in BOOLEAN /\ ack_net \in Seq(Counter)
  /\ sent \in Nat /\ arrived \in Nat /\ received \in Nat /\ acked \in Nat

\* The slot of message k, less than a ring away from message r + 1 in slot p.
SlotAt(p, r, k) ==
  LET q == p + (k - r - 1)
  IN  IF q < 0 THEN q + NumBuf ELSE IF q >= NumBuf THEN q - NumBuf ELSE q

SlotOf(k) == SlotAt(recv_ptr, received, k)

\* A message the sink has received stays whole and in its slot until the
\* sink acknowledges it: nothing the source sends meanwhile, after whatever
\* time-outs, overwrites it, and no message was lost, repeated or overtaken
\* before it (mp_nbsend, mp_nbrecv, mp_ack_n).
HeldIntact ==
  \A k \in acked + 1..received : \A w \in 1..Words :
    recv_bufs[SlotOf(k)][w] = k

\* The program never writes the buffer the DMA is still reading: the swap of
\* the two write buffers in mp_nbsend and the one DMA entry of the remote
\* core suffice for that.
SourceStable == dma_active => dma.buf # write_buf

\* The message a slot holds, 0 when its words differ.
Content(s) ==
  LET first == recv_bufs[s][1]
  IN  IF \A w \in 1..Words : recv_bufs[s][w] = first THEN first ELSE 0

Queue == INSTANCE MessageQueue WITH
  Capacity <- NumBuf, Message <- 1..MaxMsgs,
  queue <- [i \in 1..sent - received |-> received + i],
  held  <- [i \in 1..received - acked |-> Content(SlotOf(acked + i))]

\* The channel is a bounded queue of whole messages.
IsQueue == Queue!Spec

\* When the sink's acknowledgements wait for their transfer, a send that waits
\* for room without a time-out returns, because they come back.
SendReturns == [](acking # "timed") => (sending = "forever" ~> sending = "no")

\* Every message that was sent is received: the sink catches up with a source
\* that stops, here at MaxMsgs, as any program may.
EverySentReceived == [](acking # "timed") => []<>(received = sent)

\* Both: a channel whose acknowledgements go out serves senders and sinks.
Delivers == SendReturns /\ EverySentReceived

=============================================================================
