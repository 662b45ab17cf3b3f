-------------------------- MODULE QueuingPortProofs --------------------------
(***************************************************************************)
(* Proofs about QueuingPort, for rings, messages and counters of any size, *)
(* and about the creation of ports, for every table of channels.           *)
(***************************************************************************)
EXTENDS QueuingPort, SequenceTheorems, WellFoundedInduction, TLAPS

\* How many messages the source has sent beyond the one a count stands for.
Ahead(c) == Minus(send_count, c)

\* Received messages arrived, arrived ones were sent, and no more are on
\* their way or held than the ring has slots.
Counts ==
  /\ acked <= received /\ received <= arrived /\ arrived <= sent
  /\ sent <= acked + NumBuf
  /\ send_ptr = SlotOf(sent + 1)
  /\ acking # "no" => num_acks \in 1..received - acked

\* The counts on their way to the source grow towards recv_count, so the
\* source always sees too many messages outstanding and never too few.
Window ==
  /\ Ahead(send_recv_count) <= NumBuf
  /\ Ahead(recv_count) = sent - acked
  /\ Ahead(recv_count) <= Ahead(send_recv_count)
  /\ \A i \in 1..Len(ack_net) :
       /\ Ahead(recv_count) <= Ahead(ack_net[i])
       /\ Ahead(ack_net[i]) <= Ahead(send_recv_count)
  /\ \A i, j \in 1..Len(ack_net) :
       i < j => Ahead(ack_net[j]) <= Ahead(ack_net[i])

\* The message being transmitted is the last one that was sent, in a buffer
\* the program does not write.
Sender ==
  /\ sending # "no" =>
       sent < MaxMsgs /\ \A w \in 1..Words : bufs[write_buf][w] = sent + 1
  /\ dma_active =>
       /\ dma.buf # write_buf
       /\ dma.slot = SlotOf(sent) /\ arrived < sent
       /\ bufs[dma.buf][Flag] = FLAG_VALID
       /\ \A w \in 1..Words : bufs[dma.buf][w] = sent

\* q is the word that leaves the source right after p.
Follows(p, msg, word) ==
  IF p.word = Flag THEN msg = p.msg + 1 /\ word = 1
                   ELSE msg = p.msg /\ word = p.word + 1

\* The words on the way are those between the next to arrive and the next
\* to leave, in order.
Wire ==
  /\ \A i \in 1..Len(net) :
       /\ arrived < net[i].msg /\ net[i].msg <= sent
       /\ net[i].slot = SlotOf(net[i].msg)
       /\ net[i].val = IF net[i].word = Flag THEN FLAG_VALID ELSE net[i].msg
  /\ \A i \in 1..Len(net) - 1 : Follows(net[i], net[i + 1].msg, net[i + 1].word)
  /\ \A i, j \in 1..Len(net) : i < j /\ net[i].word = Flag => net[i].msg < net[j].msg
  /\ dma_active => \A i \in 1..Len(net) : net[i].word = Flag => net[i].msg < sent
  /\ net # <<>> =>
       /\ net[1].msg = arrived + 1
       /\ IF dma_active THEN Follows(net[Len(net)], sent, dma.next)
                        ELSE net[Len(net)].msg = sent /\ net[Len(net)].word = Flag
  /\ net = <<>> => arrived = IF dma_active THEN sent - 1 ELSE sent

\* The word of message arrived + 1 that arrives next.
NextWord == IF net # <<>> THEN net[1].word
            ELSE IF dma_active THEN dma.next ELSE 1

\* Slots between the acknowledged messages and the arriving one are intact,
\* and a slot is flagged exactly while its message waits to be received.
Ring ==
  /\ \A k \in acked + 1..arrived : \A w \in 1..Words : recv_bufs[SlotOf(k)][w] = k
  /\ \A k \in received + 1..received + NumBuf :
       recv_bufs[SlotOf(k)][Flag] = IF k <= arrived THEN FLAG_VALID ELSE FLAG_INVALID
  /\ arrived < sent => \A w \in 1..Words :
       w < NextWord => recv_bufs[SlotOf(arrived + 1)][w] = arrived + 1

IInv == TypeOK /\ Counts /\ Window /\ Sender /\ Wire /\ Ring

-----------------------------------------------------------------------------
(* Slots and counters. *)

LEMMA SlotFacts ==
  ASSUME NEW p \in Slot, NEW r \in Int, NEW k \in Int,
         -NumBuf <= k - r - 1, k - r - 1 <= NumBuf
  PROVE  /\ SlotAt(p, r, k) \in Slot
         /\ Advance(p) \in Slot
         /\ -NumBuf < k - r - 1 => SlotAt(Advance(p), r + 1, k) = SlotAt(p, r, k)
         /\ k - r - 1 < NumBuf => SlotAt(p, r, k + 1) = Advance(SlotAt(p, r, k))
  BY PortAssumption DEF Slot, SlotAt, Advance

LEMMA SlotsDiffer ==
  ASSUME NEW p \in Slot, NEW r \in Int, NEW j \in Int, NEW k \in Int,
         -NumBuf <= j - r - 1, k - r - 1 <= NumBuf, j < k, k < j + NumBuf
  PROVE  SlotAt(p, r, j) # SlotAt(p, r, k)
  BY PortAssumption DEF Slot, SlotAt

LEMMA CounterFacts ==
  ASSUME NEW c \in Counter, NEW d \in Counter, NEW n \in 0..NumBuf
  PROVE  /\ Plus(c, n) \in Counter
         /\ Minus(c, d) \in Counter
         /\ Minus(c, d) < NumBuf => Minus(Plus(c, 1), d) = Minus(c, d) + 1
         /\ n <= Minus(c, d) => Minus(c, Plus(d, n)) = Minus(c, d) - n
  BY PortAssumption DEF Counter, Plus, Minus

-----------------------------------------------------------------------------
(* Types. *)

LEMMA InitType == Init => TypeOK
<1> SUFFICES ASSUME Init PROVE TypeOK
  OBVIOUS
<1> USE PortAssumption DEF Init
<1>1. bufs \in [0..1 -> Buffer] /\ recv_bufs \in [Slot -> Buffer]
  BY DEF Buffer, Slot
<1>2. dma \in [buf : 0..1, slot : Slot, next : 1..Flag + 1]
  BY DEF Slot, Flag
<1>3. net \in Seq(Packet)
  OBVIOUS
<1>4. ack_net \in Seq(Counter)
  OBVIOUS
<1>5. 0 \in Slot /\ 0 \in Counter /\ 0 \in 0..NumBuf /\ 0 \in 0..1 /\ 0 \in Nat
  BY DEF Slot, Counter
<1>6. QED
  BY <1>1, <1>2, <1>3, <1>4, <1>5 DEF TypeOK, Call

LEMMA TypeStep == TypeOK /\ [Next]_vars => TypeOK'
<1> SUFFICES ASSUME TypeOK, [Next]_vars PROVE TypeOK'
  OBVIOUS
<1> USE PortAssumption DEF TypeOK
<1>1. ASSUME NEW wait \in Waits, mp_send(wait) PROVE TypeOK'
  <2>1. bufs' \in [0..1 -> Buffer]
    <3> DEFINE b == [w \in 1..Flag |-> IF w = Flag THEN bufs[write_buf][w] ELSE sent + 1]
    <3>1. bufs[write_buf] \in [1..Flag -> Nat] /\ sent + 1 \in Nat
      BY DEF Buffer
    <3>2. b \in Buffer
      BY <3>1 DEF Buffer
    <3>3. bufs' = [bufs EXCEPT ![write_buf] = b]
      BY <1>1 DEF mp_send
    <3> HIDE DEF b
    <3>4. QED
      BY <3>2, <3>3
  <2>2. sending' \in Call
    BY <1>1 DEF mp_send, Call
  <2>3. QED
    BY <1>1, <2>1, <2>2 DEF mp_send, sink, noc
<1>2. CASE mp_nbsend
  <2>1. bufs' \in [0..1 -> Buffer]
    <3>1. bufs' = [bufs EXCEPT ![write_buf][Flag] = FLAG_VALID]
      BY <1>2 DEF mp_nbsend, Shadow
    <3>2. FLAG_VALID \in Nat
      BY DEF FLAG_VALID
    <3>3. QED
      BY <3>1, <3>2 DEF Buffer
  <2>2. Plus(send_count, 1) \in Counter /\ Advance(send_ptr) \in Slot
    <3>1. 1 \in 0..NumBuf /\ send_count \in Counter /\ send_ptr \in Slot
      OBVIOUS
    <3>2. Plus(send_count, 1) \in Counter
      BY <3>1, CounterFacts
    <3>3. QED
      BY <3>1, <3>2 DEF Advance, Slot
  <2>3. dma' \in [buf : 0..1, slot : Slot, next : 1..Flag + 1]
    BY <1>2 DEF mp_nbsend, Shadow, Flag
  <2>4. write_buf' \in 0..1 /\ sent' \in Nat
    BY <1>2 DEF mp_nbsend, Shadow
  <2>5. send_count' \in Counter /\ send_ptr' \in Slot
    BY <1>2, <2>2 DEF mp_nbsend, Shadow
  <2>6. sending' \in Call
    BY <1>2 DEF mp_nbsend, Shadow, Call
  <2>7. QED
    BY <1>2, <2>1, <2>3, <2>4, <2>5, <2>6 DEF mp_nbsend, Shadow, sink
<1>3. CASE send_timeout
  BY <1>3 DEF send_timeout, sink, noc, Call
<1>4. CASE Transmit
  <2> DEFINE p == [slot |-> dma.slot, word |-> dma.next,
                   val |-> bufs[dma.buf][dma.next], msg |-> sent]
  <2>1. dma.next \in 1..Flag
    BY <1>4 DEF Transmit, dma_active, Flag
  <2>2. bufs[dma.buf][dma.next] \in Nat
    <3>1. bufs[dma.buf] \in Buffer
      OBVIOUS
    <3>2. QED
      BY <2>1, <3>1 DEF Buffer
  <2>3. p \in Packet
    BY <2>1, <2>2 DEF Packet
  <2>4. net' = Append(net, p)
    BY <1>4 DEF Transmit
  <2>5. net' \in Seq(Packet)
    BY <2>3, <2>4
  <2>6. dma' \in [buf : 0..1, slot : Slot, next : 1..Flag + 1]
    <3>1. dma.next + 1 \in 1..Flag + 1
      BY <2>1 DEF Flag
    <3>2. QED
      BY <1>4, <3>1 DEF Transmit
  <2>7. QED
    BY <1>4, <2>5, <2>6 DEF Transmit, source, sink
<1>5. CASE Deliver
  <2>1. Head(net) \in Packet /\ net' \in Seq(Packet)
    BY <1>5 DEF Deliver
  <2>2. recv_bufs' \in [Slot -> Buffer]
    BY <1>5, <2>1 DEF Deliver, Buffer, Packet
  <2>3. arrived' \in Nat
    BY <1>5 DEF Deliver
  <2>4. QED
    BY <1>5, <2>1, <2>2, <2>3 DEF Deliver, source, sink
<1>6. CASE TransmitAck
  <2>1. recv_count \in Counter /\ ack_net \in Seq(Counter)
    OBVIOUS
  <2>2. ack_net' \in Seq(Counter)
    BY <1>6, <2>1 DEF TransmitAck
  <2>3. QED
    BY <1>6, <2>2 DEF TransmitAck, source, sink
<1>7. CASE DeliverAck
  BY <1>7 DEF DeliverAck, source, sink
<1>8. CASE mp_nbrecv
  <2>1. recv_bufs' \in [Slot -> Buffer]
    <3>1. recv_bufs' = [recv_bufs EXCEPT ![recv_ptr][Flag] = FLAG_INVALID]
      BY <1>8 DEF mp_nbrecv
    <3>2. FLAG_INVALID \in Nat
      BY DEF FLAG_INVALID
    <3>3. QED
      BY <3>1, <3>2 DEF Buffer
  <2>2. recv_ptr' \in Slot
    BY <1>8 DEF mp_nbrecv, Advance, Slot
  <2>3. QED
    BY <1>8, <2>1, <2>2 DEF mp_nbrecv, source
<1>9. ASSUME NEW n \in 1..NumBuf, NEW wait \in Waits, mp_ack_n(n, wait) PROVE TypeOK'
  BY <1>9 DEF mp_ack_n, source, noc, Call
<1>10. CASE start_ack
  <2>1. Plus(recv_count, num_acks) \in Counter
    BY CounterFacts DEF Call
  <2>2. QED
    BY <1>10, <2>1 DEF start_ack, source, Call
<1>11. CASE ack_timeout
  BY <1>11 DEF ack_timeout, source, noc, Call
<1>12. CASE UNCHANGED vars
  BY <1>12 DEF vars, source, sink, noc
<1>13. QED
  BY <1>1, <1>2, <1>3, <1>4, <1>5, <1>6, <1>7, <1>8, <1>9, <1>10, <1>11,
     <1>12 DEF Next

-----------------------------------------------------------------------------
(* The invariant, one lemma per action. *)

Rest == Counts /\ Window /\ Sender /\ Wire /\ Ring

LEMMA AppendFacts ==
  ASSUME NEW S, NEW s \in Seq(S), NEW e \in S
  PROVE  /\ Append(s, e) \in Seq(S) /\ Len(Append(s, e)) = Len(s) + 1
         /\ \A i \in 1..Len(s) : Append(s, e)[i] = s[i]
         /\ Append(s, e)[Len(s) + 1] = e
  OBVIOUS

LEMMA TailFacts ==
  ASSUME NEW S, NEW s \in Seq(S), s # <<>>
  PROVE  /\ Len(s) \in Nat \ {0} /\ Head(s) = s[1]
         /\ Tail(s) \in Seq(S) /\ Len(Tail(s)) = Len(s) - 1
         /\ \A i \in 1..Len(s) - 1 : Tail(s)[i] = s[i + 1]
  OBVIOUS

LEMMA AheadType ==
  TypeOK => \A c \in Counter : Ahead(c) \in Counter /\ Ahead(c) \in Nat
  BY PortAssumption DEF TypeOK, Counter, Ahead, Minus

LEMMA PacketType ==
  TypeOK => /\ Len(net) \in Nat /\ (net # <<>> <=> Len(net) >= 1)
            /\ \A i \in 1..Len(net) :
                 /\ net[i] \in Packet /\ net[i].slot \in Slot
                 /\ net[i].msg \in Nat /\ net[i].word \in 1..Flag
<1> SUFFICES ASSUME TypeOK
             PROVE  /\ Len(net) \in Nat /\ (net # <<>> <=> Len(net) >= 1)
                    /\ \A i \in 1..Len(net) : net[i] \in Packet
  BY DEF Packet
<1>1. net \in Seq(Packet)
  BY DEF TypeOK
<1>2. QED
  BY <1>1

LEMMA InitRest == Init => Rest
<1> SUFFICES ASSUME Init PROVE Rest
  OBVIOUS
<1> USE PortAssumption DEF Init
<1>1. Counts
  BY DEF Counts, SlotOf, SlotAt
<1>2. Window
  BY DEF Window, Ahead, Minus
<1>3. ~dma_active /\ sending = "no"
  BY DEF dma_active, Flag
<1>4. Sender
  BY <1>3 DEF Sender
<1>5. Wire
  BY <1>3 DEF Wire
<1>6. Ring
  <2>1. \A k \in received + 1..received + NumBuf :
          recv_bufs[SlotOf(k)][Flag] = FLAG_INVALID
    <3>1. SUFFICES ASSUME NEW k \in received + 1..received + NumBuf
                   PROVE  recv_bufs[SlotOf(k)][Flag] = FLAG_INVALID
      OBVIOUS
    <3>2. SlotOf(k) \in 0..NumBuf - 1
      BY DEF SlotOf, SlotAt
    <3>3. QED
      BY <3>2 DEF FLAG_INVALID, Flag
  <2>2. \A k \in received + 1..received + NumBuf : ~(k <= arrived)
    OBVIOUS
  <2>3. ~(arrived < sent) /\ acked + 1..arrived = {}
    OBVIOUS
  <2>4. QED
    BY <2>1, <2>2, <2>3 DEF Ring
<1>7. QED
  BY <1>1, <1>2, <1>4, <1>5, <1>6 DEF Rest

LEMMA SendStep ==
  ASSUME TypeOK, Rest, NEW wait \in Waits, mp_send(wait)
  PROVE  Rest'
<1> USE PortAssumption
<1>1. UNCHANGED <<write_buf, send_ptr, send_count, recv_ptr, recv_count, acking,
                  num_acks, noc, sent, arrived, received, acked>>
  BY DEF mp_send, sink
<1>2. Counts'
  BY <1>1 DEF Rest, Counts, SlotOf
<1>3. Window'
  BY <1>1 DEF Rest, Window, Ahead, noc
<1>4. Sender'
  <2>1. /\ \A w \in 1..Words : bufs'[write_buf][w] = sent + 1
        /\ sent < MaxMsgs
        /\ bufs'[1 - write_buf] = bufs[1 - write_buf]
    BY SMTT(30) DEF mp_send, TypeOK, Flag
  <2>2. dma_active => dma.buf = 1 - write_buf
    BY DEF TypeOK, Rest, Sender
  <2>3. QED
    BY <1>1, <2>1, <2>2 DEF Rest, Sender, SlotOf, dma_active, noc
<1>5. Wire'
  BY <1>1 DEF Rest, Wire, SlotOf, dma_active, noc, Follows
<1>6. Ring'
  BY <1>1 DEF Rest, Ring, SlotOf, NextWord, dma_active, noc
<1>7. QED
  BY <1>2, <1>3, <1>4, <1>5, <1>6 DEF Rest

LEMMA NbSendFails ==
  ASSUME TypeOK, Rest, mp_nbsend, sent' = sent
  PROVE  Rest'
<1> USE PortAssumption
<1>1. /\ UNCHANGED <<write_buf, send_ptr, send_count, sending, sink, noc>>
      /\ UNCHANGED <<sent, arrived, received, acked>>
  BY DEF mp_nbsend, Shadow, noc, TypeOK
<1>2. Counts'
  BY <1>1 DEF Rest, Counts, SlotOf, sink
<1>3. Window'
  BY <1>1 DEF Rest, Window, Ahead, noc, sink
<1>4. Sender'
  <2>1. /\ \A w \in 1..Words : bufs'[write_buf][w] = bufs[write_buf][w]
        /\ bufs'[1 - write_buf] = bufs[1 - write_buf]
    BY DEF mp_nbsend, Shadow, TypeOK, Flag, Buffer
  <2>2. dma_active => dma.buf = 1 - write_buf
    BY DEF TypeOK, Rest, Sender
  <2>3. QED
    BY <1>1, <2>1, <2>2 DEF Rest, Sender, SlotOf, dma_active, noc, sink
<1>5. Wire'
  BY <1>1 DEF Rest, Wire, SlotOf, dma_active, noc, Follows, sink
<1>6. Ring'
  BY <1>1 DEF Rest, Ring, SlotOf, NextWord, dma_active, noc, sink
<1>7. QED
  BY <1>2, <1>3, <1>4, <1>5, <1>6 DEF Rest

LEMMA NbSendStarts ==
  ASSUME TypeOK, Rest, mp_nbsend, sent' # sent
  PROVE  Rest'
<1> USE PortAssumption
<1>1. /\ sending # "no" /\ ~dma_active /\ Ahead(send_recv_count) # NumBuf
      /\ dma' = [buf |-> write_buf, slot |-> send_ptr, next |-> 1]
      /\ send_count' = Plus(send_count, 1) /\ send_ptr' = Advance(send_ptr)
      /\ write_buf' = 1 - write_buf /\ sending' = "no" /\ sent' = sent + 1
      /\ UNCHANGED <<net, recv_bufs, ack_dma, ack_net, send_recv_count, sink>>
      /\ UNCHANGED <<arrived, received, acked>>
  BY DEF mp_nbsend, Shadow, Ahead
<1>2. dma_active'
  BY <1>1 DEF dma_active, Flag
<1>3. UNCHANGED <<recv_ptr, recv_count, acking, num_acks>>
  BY <1>1 DEF sink
<1>4. Ahead(recv_count) < NumBuf /\ Ahead(send_recv_count) < NumBuf
  <2>1. Ahead(recv_count) \in Nat /\ Ahead(send_recv_count) \in Nat
    BY AheadType DEF TypeOK
  <2>2. QED
    BY <1>1, <2>1 DEF Rest, Window
<1>5. Counts'
  <2>1. sent + 1 <= acked + NumBuf
    BY <1>4 DEF Rest, Window, TypeOK
  <2>2. SlotOf(sent + 2) = Advance(SlotOf(sent + 1))
    <3>1. sent + 1 \in Int /\ received \in Int /\ recv_ptr \in Slot
          /\ -NumBuf <= (sent + 1) - received - 1 /\ (sent + 1) - received - 1 < NumBuf
      BY <2>1 DEF Rest, Counts, TypeOK
    <3>2. SlotAt(recv_ptr, received, (sent + 1) + 1) = Advance(SlotAt(recv_ptr, received, sent + 1))
      BY <3>1, SlotFacts
    <3>3. (sent + 1) + 1 = sent + 2
      BY DEF TypeOK
    <3>4. QED
      BY <3>2, <3>3 DEF SlotOf
  <2>3. (sent + 1) + 1 = sent + 2
    BY DEF TypeOK
  <2>4. send_ptr' = SlotOf(sent + 1)'
    BY <1>1, <1>3, <2>2, <2>3 DEF Rest, Counts, SlotOf
  <2>5. QED
    BY <1>1, <1>3, <2>1, <2>4 DEF Rest, Counts, TypeOK
<1>6. Window'
  <2>1. \A c \in Counter : Ahead(c) < NumBuf => Ahead(c)' = Ahead(c) + 1
    BY <1>1, CounterFacts DEF Ahead, TypeOK
  <2>2. \A i \in 1..Len(ack_net) : ack_net[i] \in Counter
    BY DEF TypeOK
  <2>3. \A c \in Counter : Ahead(c) \in Int
    BY CounterFacts DEF Ahead, TypeOK, Counter
  <2>4. send_recv_count \in Counter /\ recv_count \in Counter
    BY DEF TypeOK
  <2>5. \A i \in 1..Len(ack_net) : Ahead(ack_net[i]) < NumBuf
    BY <1>4, <2>2, <2>3, <2>4 DEF Rest, Window
  <2>6. /\ Ahead(send_recv_count)' = Ahead(send_recv_count) + 1
        /\ Ahead(recv_count)' = Ahead(recv_count) + 1
    BY <1>1, <1>3, <1>4, <2>1, <2>4 DEF Ahead
  <2>7. \A i \in 1..Len(ack_net) : Ahead(ack_net[i])' = Ahead(ack_net[i]) + 1
    BY <1>1, <2>1, <2>2, <2>5 DEF Ahead
  <2>8. \A i \in 1..Len(ack_net) : Ahead(ack_net[i]) \in Int
    BY <2>2, <2>3
  <2>9. Ahead(send_recv_count) \in Int /\ Ahead(recv_count) \in Int
    BY <2>3, <2>4
  <2>10. /\ Ahead(send_recv_count)' <= NumBuf
         /\ Ahead(recv_count)' = sent' - acked'
         /\ Ahead(recv_count)' <= Ahead(send_recv_count)'
    BY <1>1, <1>4, <2>6, <2>9 DEF Rest, Window, TypeOK
  <2>11. \A i \in 1..Len(ack_net) :
           /\ Ahead(recv_count)' <= Ahead(ack_net[i])'
           /\ Ahead(ack_net[i])' <= Ahead(send_recv_count)'
    BY <2>6, <2>7, <2>8, <2>9 DEF Rest, Window
  <2>12. \A i, j \in 1..Len(ack_net) :
           i < j => Ahead(ack_net[j])' <= Ahead(ack_net[i])'
    BY <2>7, <2>8 DEF Rest, Window
  <2>13. ack_net' = ack_net
    BY <1>1
  <2>14. QED
    BY <2>10, <2>11, <2>12, <2>13 DEF Window
<1>7. Sender'
  <2>1. /\ bufs'[write_buf][Flag] = FLAG_VALID
        /\ \A w \in 1..Words : bufs'[write_buf][w] = bufs[write_buf][w]
    <3>1. bufs \in [0..1 -> Buffer] /\ write_buf \in 0..1
      BY DEF TypeOK
    <3>2. bufs[write_buf] \in [1..Flag -> Nat]
      BY <3>1 DEF Buffer
    <3>3. Flag \in 1..Flag /\ \A w \in 1..Words : w \in 1..Flag /\ w # Flag
      BY DEF Flag
    <3>4. bufs'[write_buf] = [bufs[write_buf] EXCEPT ![Flag] = FLAG_VALID]
      BY <3>1 DEF mp_nbsend
    <3>5. QED
      BY <3>2, <3>3, <3>4
  <2>2. send_ptr = SlotOf(sent)' /\ write_buf # 1 - write_buf
    BY <1>1, <1>3 DEF Rest, Counts, SlotOf, TypeOK
  <2>3. arrived < sent + 1
    BY DEF Rest, Counts, TypeOK
  <2>4. /\ dma'.buf = write_buf /\ dma'.slot = send_ptr
        /\ write_buf' = 1 - write_buf /\ sending' = "no"
        /\ sent' = sent + 1 /\ arrived' = arrived
    BY <1>1
  <2>5. \A w \in 1..Words : bufs[write_buf][w] = sent + 1
    BY <1>1 DEF Rest, Sender
  <2>6. QED
    BY <2>1, <2>2, <2>3, <2>4, <2>5 DEF Sender
<1>8. Wire'
  <2>1. \A i \in 1..Len(net) : net[i].msg \in Nat /\ net[i].msg <= sent + 1
    BY PacketType, SMTT(30) DEF Rest, Wire, TypeOK
  <2>5. \A i \in 1..Len(net) : net[i].msg < sent + 1
    BY PacketType, SMTT(30) DEF Rest, Wire, TypeOK
  <2>2. net # <<>> => Follows(net[Len(net)], sent + 1, 1)
    BY <1>1 DEF Rest, Wire, Follows
  <2>3. net = <<>> => arrived = (sent + 1) - 1
    BY <1>1 DEF Rest, Wire, TypeOK
  <2>4. QED
    BY <1>1, <1>2, <1>3, <2>1, <2>2, <2>3, <2>5 DEF Rest, Wire, SlotOf, Follows
<1>9. Ring'
  <2>1. CASE net = <<>>
    <3>1. NextWord' = 1
      BY <1>1, <1>2, <2>1 DEF NextWord
    <3>2. QED
      BY <1>1, <1>3, <3>1 DEF Rest, Ring, SlotOf
  <2>2. CASE net # <<>>
    <3>1. NextWord' = NextWord
      BY <1>1, <2>2 DEF NextWord
    <3>2. 1 \in 1..Len(net) /\ net[1].msg \in Nat
      BY <2>2, PacketType
    <3>3. arrived < sent
      BY <2>2, <3>2 DEF Rest, Wire, TypeOK
    <3>4. QED
      BY <1>1, <1>3, <3>1, <3>3 DEF Rest, Ring, SlotOf
  <2>3. QED
    BY <2>1, <2>2
<1>10. QED
  BY <1>5, <1>6, <1>7, <1>8, <1>9 DEF Rest

LEMMA TransmitStep ==
  ASSUME TypeOK, Rest, Transmit
  PROVE  Rest'
<1> USE PortAssumption
<1> DEFINE p == [slot |-> dma.slot, word |-> dma.next,
                 val |-> bufs[dma.buf][dma.next], msg |-> sent]
           n == Len(net)
<1>1. /\ dma_active /\ net' = Append(net, p)
      /\ dma' = [dma EXCEPT !.next = @ + 1]
      /\ UNCHANGED <<source, sink, recv_bufs, ack_dma, ack_net, send_recv_count>>
      /\ UNCHANGED <<sent, arrived, received, acked>>
  BY DEF Transmit
<1>2. UNCHANGED <<write_buf, bufs, send_ptr, send_count, sending,
                  recv_ptr, recv_count, acking, num_acks>>
  BY <1>1 DEF source, sink
<1>3. /\ dma.next \in 1..Flag /\ dma'.next = dma.next + 1
      /\ dma'.buf = dma.buf /\ dma'.slot = dma.slot
  BY <1>1 DEF dma_active, Flag, TypeOK
<1>4. dma_active' <=> dma.next # Flag
  BY <1>3 DEF dma_active, Flag
<1>5. p \in Packet
  <2>1. bufs[dma.buf] \in Buffer
    BY DEF TypeOK
  <2>2. QED
    BY <1>3, <2>1 DEF Packet, TypeOK, Buffer
<1>6. /\ Len(net') = n + 1 /\ n \in Nat /\ net' # <<>>
      /\ \A i \in 1..n : net'[i] = net[i]
      /\ net'[n + 1] = p
  BY <1>1, <1>5, AppendFacts, PacketType, SMTT(30) DEF TypeOK
<1>7. Counts'
  BY <1>1, <1>2 DEF Rest, Counts, SlotOf
<1>8. Window'
  BY <1>1, <1>2 DEF Rest, Window, Ahead
<1>9. Sender'
  BY <1>1, <1>2, <1>3 DEF Rest, Sender, SlotOf
<1>10. /\ p.msg = sent /\ p.word = dma.next /\ p.slot = SlotOf(sent)
       /\ p.val = IF p.word = Flag THEN FLAG_VALID ELSE sent
       /\ arrived < sent
  BY <1>1, <1>3 DEF Rest, Sender, Flag
<1>11. net'[1].msg = arrived + 1
  <2>1. CASE net = <<>>
    BY <1>1, <1>6, <1>10, <2>1 DEF Rest, Wire, TypeOK
  <2>2. CASE net # <<>>
    BY <1>6, <2>2, PacketType DEF Rest, Wire
  <2>3. QED
    BY <2>1, <2>2
<1>12. Wire'
  <2>1. \A i \in 1..n + 1 :
          /\ arrived < net'[i].msg /\ net'[i].msg <= sent
          /\ net'[i].slot = SlotOf(net'[i].msg)
          /\ net'[i].val = IF net'[i].word = Flag THEN FLAG_VALID ELSE net'[i].msg
    <3>1. TAKE i \in 1..n + 1
    <3>2. CASE i = n + 1
      BY <1>6, <1>10, <3>2 DEF TypeOK
    <3>3. CASE i \in 1..n
      BY <1>6, <3>3 DEF Rest, Wire
    <3>4. QED
      BY <1>6, <3>2, <3>3
  <2>2. \A i \in 1..n : Follows(net'[i], net'[i + 1].msg, net'[i + 1].word)
    <3>1. TAKE i \in 1..n
    <3>2. CASE i = n
      BY <1>1, <1>6, <1>10, <3>2 DEF Rest, Wire
    <3>3. CASE i # n
      BY <1>6, <3>3 DEF Rest, Wire
    <3>4. QED
      BY <3>2, <3>3
  <2>3. IF dma_active' THEN Follows(net'[n + 1], sent, dma.next + 1)
        ELSE net'[n + 1].msg = sent /\ net'[n + 1].word = Flag
    BY <1>4, <1>6, <1>10 DEF Follows
  <2>4. (n + 1) - 1 = n
    BY <1>6
  <2>6. /\ \A i \in 1..Len(net') :
             /\ arrived' < net'[i].msg /\ net'[i].msg <= sent'
             /\ net'[i].slot = SlotAt(recv_ptr', received', net'[i].msg)
             /\ net'[i].val = IF net'[i].word = Flag THEN FLAG_VALID ELSE net'[i].msg
    BY <1>1, <1>2, <1>6, <2>1 DEF SlotOf
  <2>7. \A i \in 1..Len(net') - 1 : Follows(net'[i], net'[i + 1].msg, net'[i + 1].word)
    BY <1>6, <2>2, <2>4
  <2>8. IF dma_active' THEN Follows(net'[Len(net')], sent', dma'.next)
        ELSE net'[Len(net')].msg = sent' /\ net'[Len(net')].word = Flag
    BY <1>1, <1>3, <1>6, <2>3
  <2>5. \A i, j \in 1..n + 1 : i < j /\ net'[i].word = Flag => net'[i].msg < net'[j].msg
    <3>1. SUFFICES ASSUME NEW i \in 1..n, NEW j \in 1..n + 1, i < j, net[i].word = Flag
                   PROVE  net[i].msg < net'[j].msg
      BY <1>6
    <3>2. CASE j = n + 1
      BY <1>1, <1>6, <1>10, <3>1, <3>2 DEF Rest, Wire
    <3>3. CASE j \in 1..n
      BY <1>6, <3>1, <3>3 DEF Rest, Wire
    <3>4. QED
      BY <1>6, <3>2, <3>3
  <2>9. dma_active' => \A i \in 1..n + 1 : net'[i].word = Flag => net'[i].msg < sent
    BY <1>1, <1>4, <1>6, <1>10 DEF Rest, Wire
  <2>10. QED
    BY <1>1, <1>6, <1>11, <2>5, <2>6, <2>7, <2>8, <2>9 DEF Wire, Follows, SlotOf
<1>13. Ring'
  <2>1. NextWord' = NextWord
    <3>1. CASE net = <<>>
      BY <1>1, <1>6, <1>10, <3>1 DEF NextWord
    <3>2. CASE net # <<>>
      BY <1>6, <3>2, PacketType DEF NextWord
    <3>3. QED
      BY <3>1, <3>2
  <2>2. QED
    BY <1>1, <1>2, <2>1 DEF Rest, Ring, SlotOf
<1>14. QED
  BY <1>7, <1>8, <1>9, <1>12, <1>13 DEF Rest

\* Steps that only open or close a call, or move an acknowledgement.
LEMMA CallSteps ==
  ASSUME TypeOK, Rest,
         \/ send_timeout \/ ack_timeout
         \/ \E n \in 1..NumBuf, wait \in Waits : mp_ack_n(n, wait)
         \/ UNCHANGED vars
  PROVE  Rest'
<1>1. /\ UNCHANGED <<write_buf, bufs, send_ptr, send_count, recv_ptr, recv_count>>
      /\ UNCHANGED noc /\ UNCHANGED <<sent, arrived, received, acked>>
      /\ sending' \in {sending, "no"}
      /\ acking' # "no" => num_acks' \in 1..received - acked
  BY DEF send_timeout, ack_timeout, mp_ack_n, vars, source, sink, Rest, Counts
<1>2. Counts' /\ Window' /\ Sender'
  BY <1>1 DEF Rest, Counts, Window, Sender, SlotOf, Ahead, noc, dma_active
<1>3. Wire' /\ Ring'
  BY <1>1 DEF Rest, Wire, Ring, SlotOf, NextWord, Follows, noc, dma_active
<1>4. QED
  BY <1>2, <1>3 DEF Rest

\* Messages less than a ring apart have slots of their own.
LEMMA OwnSlots ==
  ASSUME TypeOK, Rest,
         NEW j \in acked + 1..received + NumBuf, NEW k \in acked + 1..received + NumBuf,
         j < k, k < j + NumBuf
  PROVE  SlotOf(j) # SlotOf(k) /\ SlotOf(j) \in Slot /\ SlotOf(k) \in Slot
<1>1. /\ recv_ptr \in Slot /\ received \in Int /\ j \in Int /\ k \in Int
      /\ -NumBuf <= j - received - 1 /\ j - received - 1 <= NumBuf
      /\ -NumBuf <= k - received - 1 /\ k - received - 1 <= NumBuf
  BY PortAssumption DEF TypeOK, Rest, Counts
<1>2. QED
  BY <1>1, SlotFacts, SlotsDiffer DEF SlotOf

LEMMA DeliverStep ==
  ASSUME TypeOK, Rest, Deliver
  PROVE  Rest'
<1> USE PortAssumption
<1> DEFINE p == net[1]
           n == Len(net)
<1>1. /\ net # <<>> /\ net' = Tail(net)
      /\ recv_bufs' = [recv_bufs EXCEPT ![p.slot][p.word] = p.val]
      /\ arrived' = IF p.word = Flag THEN arrived + 1 ELSE arrived
      /\ UNCHANGED <<source, sink, dma, ack_dma, ack_net, send_recv_count>>
      /\ UNCHANGED <<sent, received, acked>>
  BY TailFacts DEF Deliver, TypeOK
<1>2. UNCHANGED <<write_buf, bufs, send_ptr, send_count, sending,
                  recv_ptr, recv_count, acking, num_acks, dma, dma_active>>
  BY <1>1 DEF source, sink, dma_active
<1>3. /\ n \in Nat \ {0} /\ Len(net') = n - 1
      /\ \A i \in 1..n - 1 : net'[i] = net[i + 1]
      /\ (net' = <<>>) <=> (n = 1)
  <2>1. /\ n \in Nat \ {0} /\ Len(net') = n - 1
        /\ \A i \in 1..n - 1 : net'[i] = net[i + 1]
        /\ net' \in Seq(Packet)
    BY <1>1, TailFacts DEF TypeOK
  <2>2. QED
    BY <2>1
<1>4. /\ p.msg = arrived + 1 /\ arrived < sent /\ p.slot = SlotOf(arrived + 1)
      /\ p.val = IF p.word = Flag THEN FLAG_VALID ELSE arrived + 1
      /\ p.word \in 1..Flag /\ p.slot \in Slot
  BY <1>1, <1>3, PacketType DEF Rest, Wire, TypeOK
\* The word that arrives after p.
<1>5. /\ arrived' \in Nat /\ arrived <= arrived' /\ arrived' <= sent
      /\ arrived' < sent => NextWord' = IF p.word = Flag THEN 1 ELSE p.word + 1
      /\ net' # <<>> => net'[1].msg = arrived' + 1
      /\ net' = <<>> => arrived' = IF dma_active THEN sent - 1 ELSE sent
  <2>1. CASE n = 1
    <3>1. IF dma_active THEN Follows(p, sent, dma.next)
                        ELSE p.msg = sent /\ p.word = Flag
      BY <1>1, <2>1 DEF Rest, Wire
    <3>2. net' = <<>>
      BY <1>3, <2>1
    <3>3. dma_active' = dma_active /\ dma' = dma
      BY <1>2
    <3>4. CASE dma_active
      BY <1>1, <1>4, <3>1, <3>2, <3>3, <3>4 DEF NextWord, Follows, TypeOK
    <3>5. CASE ~dma_active
      BY <1>1, <1>4, <3>1, <3>2, <3>5 DEF TypeOK
    <3>6. QED
      BY <3>4, <3>5
  <2>2. CASE n # 1
    <3>1. net'[1] = net[2] /\ net' # <<>>
      BY <1>3, <2>2
    <3>2. Follows(p, net[2].msg, net[2].word) /\ net[2].msg <= sent
      BY <1>3, <2>2 DEF Rest, Wire
    <3>3. QED
      BY <1>1, <1>4, <3>1, <3>2, SMTT(30) DEF NextWord, Follows, TypeOK
  <2>3. QED
    BY <2>1, <2>2
<1>6. Counts'
  BY <1>1, <1>2, <1>5 DEF Rest, Counts, SlotOf, TypeOK
<1>7. Window'
  BY <1>1, <1>2 DEF Rest, Window, Ahead
<1>8. Sender'
  <2>1. dma_active => arrived' < sent
    <3>1. SUFFICES ASSUME dma_active, arrived' = sent PROVE FALSE
      BY <1>5 DEF TypeOK
    <3>2. CASE net' = <<>>
      BY <1>5, <3>1, <3>2 DEF TypeOK
    <3>3. CASE net' # <<>>
      <4>1. 2 \in 1..n /\ net'[1] = net[2] /\ net[2].msg <= sent
        BY <1>3, <3>3 DEF Rest, Wire
      <4>2. QED
        BY <1>5, <3>1, <3>3, <4>1 DEF TypeOK
    <3>4. QED
      BY <3>2, <3>3
  <2>2. QED
    BY <1>1, <1>2, <2>1 DEF Rest, Sender, SlotOf
<1>9. Wire'
  <2>1. \A i \in 1..n - 1 : arrived' < net'[i].msg
    <3>1. \A i \in 1..n - 1 : i + 1 \in 1..n
      BY <1>3
    <3>2. \A i \in 1..n - 1 : net[i + 1].msg \in Nat /\ arrived < net[i + 1].msg
      BY <3>1, PacketType DEF Rest, Wire
    <3>3. CASE arrived' = arrived
      BY <1>3, <3>2, <3>3
    <3>4. CASE p.word = Flag
      <4>1. \A i \in 1..n - 1 : arrived + 1 < net[i + 1].msg
        BY <1>3, <1>4, <3>1, <3>4 DEF Rest, Wire
      <4>2. QED
        BY <1>1, <1>3, <3>2, <3>4, <4>1 DEF TypeOK
    <3>5. QED
      BY <1>1, <3>3, <3>4
  <2>2. \A i \in 1..n - 1 : i + 1 \in 1..n
    BY <1>3
  <2>3. \A i \in 1..n - 1 :
          /\ net'[i].msg <= sent
          /\ net'[i].slot = SlotOf(net'[i].msg)
          /\ net'[i].val = IF net'[i].word = Flag THEN FLAG_VALID ELSE net'[i].msg
          /\ dma_active => (net'[i].word = Flag => net'[i].msg < sent)
    <3>1. SUFFICES ASSUME NEW i \in 1..n - 1
                   PROVE  /\ net[i + 1].msg <= sent
                          /\ net[i + 1].slot = SlotOf(net[i + 1].msg)
                          /\ net[i + 1].val = IF net[i + 1].word = Flag THEN FLAG_VALID
                                             ELSE net[i + 1].msg
                          /\ dma_active => (net[i + 1].word = Flag => net[i + 1].msg < sent)
      BY <1>3
    <3>2. i + 1 \in 1..n
      BY <2>2
    <3>3. QED
      BY <3>2 DEF Rest, Wire
  <2>4. \A i \in 1..n - 2 : Follows(net'[i], net'[i + 1].msg, net'[i + 1].word)
    <3>1. \A i \in 1..n - 2 : /\ i + 1 \in 1..n - 1 /\ i \in 1..n - 1
                              /\ net'[i] = net[i + 1] /\ net'[i + 1] = net[(i + 1) + 1]
      BY <1>3
    <3>2. QED
      BY <3>1 DEF Rest, Wire
  <2>5. \A i, j \in 1..n - 1 : i < j /\ net'[i].word = Flag => net'[i].msg < net'[j].msg
    <3>1. SUFFICES ASSUME NEW i \in 1..n - 1, NEW j \in 1..n - 1, i < j, net[i + 1].word = Flag
                   PROVE  net[i + 1].msg < net[j + 1].msg
      BY <1>3
    <3>2. i + 1 \in 1..n /\ j + 1 \in 1..n /\ i + 1 < j + 1
      BY <2>2, <3>1
    <3>3. QED
      BY <3>1, <3>2 DEF Rest, Wire
  <2>6. net' # <<>> =>
          IF dma_active THEN Follows(net'[n - 1], sent, dma.next)
                        ELSE net'[n - 1].msg = sent /\ net'[n - 1].word = Flag
    <3>1. net' # <<>> => n - 1 \in 1..n - 1 /\ (n - 1) + 1 = n
      BY <1>3
    <3>2. QED
      BY <1>1, <1>3, <3>1 DEF Rest, Wire
  <2>7. (n - 1) - 1 = n - 2
    BY <1>3
  <2>8. /\ sent' = sent /\ dma' = dma /\ dma_active' = dma_active /\ Len(net') = n - 1
        /\ \A k : SlotOf(k)' = SlotOf(k)
    BY <1>1, <1>2, <1>3 DEF SlotOf
  <2>9. \A i \in 1..Len(net') :
          /\ arrived' < net'[i].msg /\ net'[i].msg <= sent'
          /\ net'[i].slot = SlotOf(net[i].msg)'
          /\ net'[i].val = IF net'[i].word = Flag THEN FLAG_VALID ELSE net'[i].msg
    <3>1. \A i \in 1..Len(net') : SlotOf(net[i].msg)' = SlotOf(net'[i].msg)
      BY <1>1, <1>2 DEF SlotOf
    <3>2. QED
      BY <2>1, <2>3, <2>8, <3>1
  <2>10. /\ \A i \in 1..Len(net') - 1 : Follows(net'[i], net'[i + 1].msg, net'[i + 1].word)
         /\ \A i, j \in 1..Len(net') : i < j /\ net'[i].word = Flag => net'[i].msg < net'[j].msg
         /\ dma_active' => \A i \in 1..Len(net') : net'[i].word = Flag => net'[i].msg < sent'
    BY <2>3, <2>4, <2>5, <2>7, <2>8
  <2>11. /\ net' # <<>> =>
              /\ net'[1].msg = arrived' + 1
              /\ IF dma_active' THEN Follows(net'[Len(net')], sent', dma'.next)
                                 ELSE net'[Len(net')].msg = sent' /\ net'[Len(net')].word = Flag
         /\ net' = <<>> => arrived' = IF dma_active' THEN sent' - 1 ELSE sent'
    BY <1>5, <2>6, <2>8
  <2>12. QED
    BY <2>9, <2>10, <2>11 DEF Wire, Follows
<1>10. Ring'
  <2>1. \A k \in Int : SlotOf(k)' = SlotOf(k)
    BY <1>1, <1>2 DEF SlotOf
  <2>2. /\ arrived + 1 \in acked + 1..received + NumBuf
        /\ arrived + 1 \in received + 1..received + NumBuf
    BY <1>4 DEF Rest, Counts, TypeOK
  \* Only the slot of message arrived + 1 changes, and only at p.word.
  <2>3. \A k \in acked + 1..received + NumBuf : \A w \in 1..Flag :
          SlotOf(k) # SlotOf(arrived + 1) \/ w # p.word
            => recv_bufs'[SlotOf(k)][w] = recv_bufs[SlotOf(k)][w]
    <3>1. SUFFICES ASSUME NEW k \in acked + 1..received + NumBuf, NEW w \in 1..Flag,
                          SlotOf(k) # SlotOf(arrived + 1) \/ w # p.word
                   PROVE  recv_bufs'[SlotOf(k)][w] = recv_bufs[SlotOf(k)][w]
      OBVIOUS
    <3>2. SlotOf(k) \in Slot
      <4>1. /\ recv_ptr \in Slot /\ received \in Int /\ k \in Int
            /\ -NumBuf <= k - received - 1 /\ k - received - 1 <= NumBuf
        BY DEF TypeOK, Rest, Counts
      <4>2. QED
        BY <4>1, SlotFacts DEF SlotOf
    <3>3. QED
      BY <1>1, <1>4, <3>1, <3>2 DEF TypeOK, Buffer
  <2>4. recv_bufs'[SlotOf(arrived + 1)][p.word] = p.val
    <3>1. p.slot = SlotOf(arrived + 1) /\ p.slot \in Slot /\ p.word \in 1..Flag
      BY <1>4
    <3>2. recv_bufs \in [Slot -> Buffer] /\ recv_bufs[p.slot] \in [1..Flag -> Nat]
      BY <3>1 DEF TypeOK, Buffer
    <3>3. recv_bufs'[p.slot] = [recv_bufs[p.slot] EXCEPT ![p.word] = p.val]
      BY <1>1, <3>1, <3>2
    <3>4. QED
      BY <3>1, <3>2, <3>3
  <2>5. \A k \in acked + 1..received + NumBuf :
          k # arrived + 1 => SlotOf(k) # SlotOf(arrived + 1)
    <3>1. SUFFICES ASSUME NEW k \in acked + 1..received + NumBuf, k # arrived + 1
                   PROVE  SlotOf(k) # SlotOf(arrived + 1)
      OBVIOUS
    <3>2. /\ arrived \in Int /\ acked \in Int /\ received \in Int /\ NumBuf \in Int
          /\ acked <= received /\ received <= arrived /\ arrived < acked + NumBuf
      BY <1>4, SMTT(30) DEF Rest, Counts, TypeOK
    <3>3. \/ arrived + 1 < k /\ k < (arrived + 1) + NumBuf
          \/ k < arrived + 1 /\ arrived + 1 < k + NumBuf
      BY <3>1, <3>2
    <3>4. QED
      BY <2>2, <3>3, OwnSlots
  <2>6. \A k \in acked + 1..arrived' : \A w \in 1..Words : recv_bufs'[SlotOf(k)][w] = k
    <3>1. SUFFICES ASSUME NEW k \in acked + 1..arrived', NEW w \in 1..Words
                   PROVE  recv_bufs'[SlotOf(k)][w] = k
      OBVIOUS
    <3>2. k \in acked + 1..received + NumBuf /\ w \in 1..Flag /\ w # Flag
      BY <1>5 DEF Rest, Counts, TypeOK, Flag
    <3>3. CASE k = arrived + 1
      <4>1. p.word = Flag /\ NextWord = p.word
        BY <1>1, <1>4, <3>3 DEF NextWord, TypeOK
      <4>2. recv_bufs[SlotOf(k)][w] = k
        BY <1>4, <3>2, <3>3, <4>1 DEF Rest, Ring, Flag
      <4>3. QED
        BY <2>3, <3>2, <4>1, <4>2
    <3>4. CASE k # arrived + 1
      <4>1. k \in acked + 1..arrived
        BY <1>1, <3>4 DEF TypeOK
      <4>2. QED
        BY <2>3, <2>5, <3>2, <3>4, <4>1 DEF Rest, Ring
    <3>5. QED
      BY <3>3, <3>4
  <2>7. \A k \in received + 1..received + NumBuf :
          recv_bufs'[SlotOf(k)][Flag] = IF k <= arrived' THEN FLAG_VALID ELSE FLAG_INVALID
    <3>1. SUFFICES ASSUME NEW k \in received + 1..received + NumBuf
                   PROVE  recv_bufs'[SlotOf(k)][Flag]
                            = IF k <= arrived' THEN FLAG_VALID ELSE FLAG_INVALID
      OBVIOUS
    <3>2. k \in acked + 1..received + NumBuf /\ Flag \in 1..Flag
      BY DEF Rest, Counts, TypeOK, Flag
    <3>3. CASE k = arrived + 1 /\ p.word = Flag
      BY <1>1, <1>4, <2>4, <3>3 DEF TypeOK
    <3>4. CASE k = arrived + 1 /\ p.word # Flag
      BY <1>1, <2>3, <3>2, <3>4 DEF Rest, Ring
    <3>5. CASE k # arrived + 1
      <4>1. (k <= arrived') <=> (k <= arrived)
        BY <1>1, <3>5 DEF TypeOK
      <4>2. QED
        BY <2>3, <2>5, <3>2, <3>5, <4>1 DEF Rest, Ring
    <3>6. QED
      BY <3>3, <3>4, <3>5
  <2>8. arrived' < sent => \A w \in 1..Words :
          w < NextWord' => recv_bufs'[SlotOf(arrived' + 1)][w] = arrived' + 1
    <3>1. SUFFICES ASSUME arrived' < sent, NEW w \in 1..Words, w < NextWord'
                   PROVE  recv_bufs'[SlotOf(arrived' + 1)][w] = arrived' + 1
      OBVIOUS
    <3>2. p.word # Flag /\ arrived' = arrived /\ w <= p.word
      BY <1>1, <1>4, <1>5, <3>1
    <3>3. w \in 1..Flag /\ arrived + 1 \in acked + 1..received + NumBuf
      BY <2>2 DEF Flag
    <3>4. CASE w = p.word
      BY <1>4, <2>4, <3>2, <3>4
    <3>5. CASE w # p.word
      <4>1. w < NextWord
        BY <1>1, <1>4, <3>2, <3>5 DEF NextWord
      <4>2. QED
        BY <1>4, <2>3, <3>2, <3>3, <3>5, <4>1 DEF Rest, Ring
    <3>6. QED
      BY <3>4, <3>5
  <2>9. UNCHANGED <<received, acked, recv_ptr, sent>>
    BY <1>1, <1>2
  <2>10. QED
    BY <2>6, <2>7, <2>8, <2>9 DEF Ring, SlotOf
<1>11. QED
  BY <1>6, <1>7, <1>8, <1>9, <1>10 DEF Rest

LEMMA TransmitAckStep ==
  ASSUME TypeOK, Rest, TransmitAck
  PROVE  Rest'
<1> DEFINE n == Len(ack_net)
<1>1. /\ UNCHANGED <<write_buf, bufs, send_ptr, send_count, sending, sink, dma, net>>
      /\ UNCHANGED <<recv_bufs, send_recv_count, sent, arrived, received, acked>>
      /\ ack_net' = Append(ack_net, recv_count)
  BY DEF TransmitAck, source
<1>2. UNCHANGED <<recv_ptr, recv_count, acking, num_acks>>
  BY <1>1 DEF sink
<1>3. Counts' /\ Sender'
  BY <1>1, <1>2 DEF Rest, Counts, Sender, SlotOf, dma_active
<1>4. Wire' /\ Ring'
  BY <1>1, <1>2 DEF Rest, Wire, Ring, SlotOf, NextWord, Follows, dma_active
<1>5. Window'
  <2>1. /\ Len(ack_net') = n + 1 /\ n \in Nat /\ ack_net'[n + 1] = recv_count
        /\ \A i \in 1..n : ack_net'[i] = ack_net[i]
    BY <1>1, AppendFacts DEF TypeOK
  <2>2. \A i \in 1..n + 1 : /\ ack_net'[i] \in Counter
                            /\ i # n + 1 => i \in 1..n
    BY <2>1 DEF TypeOK
  <2>3. \A i \in 1..n + 1 : Ahead(ack_net'[i]) \in Nat
    BY <2>2, AheadType
  <2>4. Ahead(recv_count) \in Nat /\ Ahead(send_recv_count) \in Nat
    BY AheadType DEF TypeOK
  <2>5. \A i \in 1..n + 1 : /\ Ahead(recv_count) <= Ahead(ack_net'[i])
                            /\ Ahead(ack_net'[i]) <= Ahead(send_recv_count)
    BY <2>1, <2>2, <2>4 DEF Rest, Window
  <2>6. \A i, j \in 1..n + 1 : i < j => Ahead(ack_net'[j]) <= Ahead(ack_net'[i])
    <3>1. SUFFICES ASSUME NEW i \in 1..n + 1, NEW j \in 1..n + 1, i < j
                   PROVE  Ahead(ack_net'[j]) <= Ahead(ack_net'[i])
      OBVIOUS
    <3>2. i \in 1..n
      BY <2>1, <3>1
    <3>3. CASE j = n + 1
      BY <2>1, <2>5, <3>2, <3>3
    <3>4. CASE j # n + 1
      BY <2>1, <2>2, <3>1, <3>2, <3>4 DEF Rest, Window
    <3>5. QED
      BY <3>3, <3>4
  <2>7. QED
    BY <1>1, <1>2, <2>1, <2>5, <2>6 DEF Rest, Window, Ahead
<1>6. QED
  BY <1>3, <1>4, <1>5 DEF Rest

LEMMA DeliverAckStep ==
  ASSUME TypeOK, Rest, DeliverAck
  PROVE  Rest'
<1> DEFINE n == Len(ack_net)
<1>1. /\ UNCHANGED <<write_buf, bufs, send_ptr, send_count, sending, sink, dma, net>>
      /\ UNCHANGED <<recv_bufs, sent, arrived, received, acked>>
      /\ ack_net # <<>> /\ ack_net' = Tail(ack_net) /\ send_recv_count' = ack_net[1]
  BY TailFacts DEF DeliverAck, source, TypeOK
<1>2. UNCHANGED <<recv_ptr, recv_count, acking, num_acks>>
  BY <1>1 DEF sink
<1>3. Counts' /\ Sender'
  BY <1>1, <1>2 DEF Rest, Counts, Sender, SlotOf, dma_active
<1>4. Wire' /\ Ring'
  BY <1>1, <1>2 DEF Rest, Wire, Ring, SlotOf, NextWord, Follows, dma_active
<1>5. Window'
  <2>1. /\ n \in Nat \ {0} /\ Len(ack_net') = n - 1
        /\ \A i \in 1..n - 1 : ack_net'[i] = ack_net[i + 1]
    BY <1>1, TailFacts DEF TypeOK
  <2>2. \A i \in 1..n - 1 : i + 1 \in 1..n /\ 1 < i + 1
    BY <2>1
  <2>3. 1 \in 1..n /\ ack_net[1] \in Counter /\ Ahead(ack_net[1]) \in Nat
    BY <2>1, AheadType DEF TypeOK
  <2>4. Ahead(recv_count) \in Nat /\ Ahead(send_recv_count) \in Nat
    BY AheadType DEF TypeOK
  <2>5. /\ Ahead(ack_net[1]) <= NumBuf /\ Ahead(recv_count) <= Ahead(ack_net[1])
    BY <2>3, <2>4, PortAssumption DEF Rest, Window
  <2>6. \A i \in 1..n - 1 : /\ Ahead(recv_count) <= Ahead(ack_net'[i])
                            /\ Ahead(ack_net'[i]) <= Ahead(ack_net[1])
    BY <2>1, <2>2, <2>3 DEF Rest, Window
  <2>7. \A i, j \in 1..n - 1 : i < j => Ahead(ack_net'[j]) <= Ahead(ack_net'[i])
    <3>1. \A i, j \in 1..n - 1 : i < j => i + 1 < j + 1
      BY <2>1
    <3>2. QED
      BY <2>1, <2>2, <3>1 DEF Rest, Window
  <2>8. QED
    BY <1>1, <1>2, <2>1, <2>5, <2>6, <2>7 DEF Rest, Window, Ahead
<1>6. QED
  BY <1>3, <1>4, <1>5 DEF Rest

LEMMA AckStep ==
  ASSUME TypeOK, Rest, start_ack
  PROVE  Rest'
<1>1. /\ UNCHANGED <<write_buf, bufs, send_ptr, send_count, sending, recv_ptr, dma, net>>
      /\ UNCHANGED <<recv_bufs, ack_net, send_recv_count, sent, arrived, received>>
      /\ recv_count' = Plus(recv_count, num_acks) /\ acked' = acked + num_acks
      /\ acking' = "no" /\ acking # "no"
  BY DEF start_ack, source
<1>2. num_acks \in 0..NumBuf /\ num_acks \in 1..received - acked
  BY <1>1 DEF TypeOK, Rest, Counts
<1>3. Ahead(recv_count)' = Ahead(recv_count) - num_acks
  <2>1. num_acks <= Ahead(recv_count)
    BY <1>2 DEF TypeOK, Rest, Window, Counts
  <2>2. send_count \in Counter /\ recv_count \in Counter
    BY DEF TypeOK
  <2>3. QED
    BY <1>1, <1>2, <2>1, <2>2, CounterFacts DEF Ahead
<1>4. Counts'
  BY <1>1, <1>2, PortAssumption DEF Rest, Counts, SlotOf, TypeOK
<1>5. Sender' /\ Wire'
  BY <1>1 DEF Rest, Sender, Wire, SlotOf, Follows, dma_active
<1>6. Ring'
  <2>1. \A k \in acked' + 1..arrived : k \in acked + 1..arrived
    BY <1>1, <1>2 DEF TypeOK
  <2>2. QED
    BY <1>1, <2>1 DEF Rest, Ring, SlotOf, NextWord, dma_active
<1>7. Window'
  <2>1. \A i \in 1..Len(ack_net) : ack_net[i] \in Counter
    BY DEF TypeOK
  <2>2. Ahead(recv_count) \in Nat /\ Ahead(send_recv_count) \in Nat
        /\ \A i \in 1..Len(ack_net) : Ahead(ack_net[i]) \in Nat
    BY <2>1, AheadType DEF TypeOK
  <2>3. /\ Ahead(recv_count)' = sent - acked'
        /\ Ahead(recv_count)' <= Ahead(send_recv_count)
        /\ \A i \in 1..Len(ack_net) : Ahead(recv_count)' <= Ahead(ack_net[i])
    BY <1>1, <1>2, <1>3, <2>2 DEF Rest, Window, TypeOK
  <2>4. Ahead(send_recv_count)' = Ahead(send_recv_count)
        /\ \A i \in 1..Len(ack_net) : Ahead(ack_net[i])' = Ahead(ack_net[i])
    BY <1>1 DEF Ahead
  <2>5. QED
    BY <1>1, <2>3, <2>4 DEF Rest, Window
<1>8. QED
  BY <1>4, <1>5, <1>6, <1>7 DEF Rest

LEMMA RecvStep ==
  ASSUME TypeOK, Rest, mp_nbrecv
  PROVE  Rest'
<1> USE PortAssumption
<1>1. /\ UNCHANGED <<write_buf, bufs, send_ptr, send_count, sending, recv_count>>
      /\ UNCHANGED <<acking, num_acks, dma, net, ack_net, send_recv_count>>
      /\ UNCHANGED <<sent, arrived, acked>>
      /\ recv_ptr' = Advance(recv_ptr) /\ received' = received + 1
      /\ recv_bufs' = [recv_bufs EXCEPT ![recv_ptr][Flag] = FLAG_INVALID]
      /\ acking = "no" /\ recv_bufs[recv_ptr][Flag] # FLAG_INVALID
  BY DEF mp_nbrecv, source
\* The flag belongs to message received + 1, which has arrived.
<1>2. recv_ptr = SlotOf(received + 1) /\ received < arrived
  <2>1. recv_ptr = SlotOf(received + 1)
    BY DEF SlotOf, SlotAt, Slot, TypeOK
  <2>2. received + 1 \in received + 1..received + NumBuf
    BY DEF TypeOK
  <2>3. received + 1 <= arrived
    BY <1>1, <2>1, <2>2 DEF Rest, Ring
  <2>4. QED
    BY <2>1, <2>3 DEF TypeOK
\* Every message of this ring keeps its slot.
<1>3. \A k \in acked + 1..received + NumBuf + 1 :
        k # received + 1 - NumBuf => SlotOf(k)' = SlotOf(k)
  <2>1. SUFFICES ASSUME NEW k \in acked + 1..received + NumBuf + 1, k # received + 1 - NumBuf
                 PROVE  SlotOf(k)' = SlotOf(k)
    OBVIOUS
  <2>2. /\ recv_ptr \in Slot /\ received \in Int /\ k \in Int
        /\ -NumBuf < k - received - 1 /\ k - received - 1 <= NumBuf
    BY <1>2, <2>1 DEF TypeOK, Rest, Counts
  <2>3. QED
    BY <1>1, <2>2, SlotFacts DEF SlotOf
<1>4. acked + 1 > received + 1 - NumBuf
  BY <1>2 DEF TypeOK, Rest, Counts
<1>5. \A k \in acked + 1..received + NumBuf + 1 : SlotOf(k)' = SlotOf(k)
  BY <1>3, <1>4 DEF TypeOK
<1>6. Counts'
  <2>1. sent + 1 \in acked + 1..received + NumBuf + 1
    BY <1>2 DEF TypeOK, Rest, Counts
  <2>2. SlotOf(sent + 1)' = SlotOf(sent + 1)
    <3>1. SlotAt(recv_ptr', received', sent + 1) = SlotOf(sent + 1)
      BY <1>1, <1>5, <2>1 DEF SlotOf
    <3>2. QED
      BY <1>1, <3>1 DEF SlotOf
  <2>3. QED
    BY <1>1, <1>2, <2>2 DEF Rest, Counts, TypeOK
<1>7. Window'
  BY <1>1 DEF Rest, Window, Ahead
<1>8. Sender'
  <2>1. dma_active => sent \in acked + 1..received + NumBuf + 1
    BY <1>2 DEF TypeOK, Rest, Counts, Sender
  <2>2. dma_active => SlotAt(recv_ptr', received', sent) = SlotOf(sent)
    BY <1>1, <1>5, <2>1 DEF SlotOf
  <2>3. QED
    BY <1>1, <2>2 DEF Rest, Sender, dma_active, SlotOf
<1>9. Wire'
  <2>1. \A i \in 1..Len(net) : net[i].msg \in acked + 1..received + NumBuf + 1
    <3>1. /\ acked \in Int /\ received \in Int /\ arrived \in Int /\ sent \in Int /\ NumBuf \in Int
          /\ acked <= received /\ received <= arrived /\ sent <= acked + NumBuf
      BY <1>2 DEF TypeOK, Rest, Counts
    <3>2. \A i \in 1..Len(net) : net[i].msg \in Nat /\ arrived < net[i].msg /\ net[i].msg <= sent
      BY PacketType DEF Rest, Wire
    <3>3. QED
      BY <3>1, <3>2
  <2>2. \A i \in 1..Len(net) :
          SlotAt(recv_ptr', received', net[i].msg) = SlotOf(net[i].msg)
    BY <1>1, <1>5, <2>1 DEF SlotOf
  <2>3. QED
    BY <1>1, <2>2 DEF Rest, Wire, dma_active, SlotOf, Follows
<1>10. Ring'
  \* Only the flag of message received + 1 changes.
  <2>1. \A s \in Slot : \A w \in 1..Flag : s # recv_ptr \/ w # Flag
          => recv_bufs'[s][w] = recv_bufs[s][w]
    BY <1>1 DEF TypeOK, Buffer
  <2>2. \A k \in acked + 1..received + NumBuf : SlotOf(k) \in Slot
    <3>1. \A k \in acked + 1..received + NumBuf :
            /\ recv_ptr \in Slot /\ received \in Int /\ k \in Int
            /\ -NumBuf <= k - received - 1 /\ k - received - 1 <= NumBuf
      BY DEF TypeOK, Rest, Counts
    <3>2. QED
      BY <3>1, SlotFacts DEF SlotOf
  <2>3. NextWord' = NextWord
    BY <1>1 DEF NextWord, dma_active
  <2>4. \A k \in acked + 1..arrived : \A w \in 1..Words :
          recv_bufs'[SlotAt(recv_ptr', received', k)][w] = k
    <3>1. \A w \in 1..Words : w \in 1..Flag /\ w # Flag
      BY DEF Flag
    <3>2. \A k \in acked + 1..arrived : k \in acked + 1..received + NumBuf
                                      /\ k \in acked + 1..received + NumBuf + 1
      BY <1>2 DEF TypeOK, Rest, Counts
    <3>3. QED
      BY <1>1, <1>5, <2>1, <2>2, <3>1, <3>2 DEF Rest, Ring, SlotOf
  <2>5. arrived < sent => \A w \in 1..Words :
          w < NextWord => recv_bufs'[SlotAt(recv_ptr', received', arrived + 1)][w] = arrived + 1
    <3>1. \A w \in 1..Words : w \in 1..Flag /\ w # Flag
      BY DEF Flag
    <3>2. arrived < sent => /\ arrived + 1 \in acked + 1..received + NumBuf
                            /\ arrived + 1 \in acked + 1..received + NumBuf + 1
      BY <1>2 DEF TypeOK, Rest, Counts
    <3>3. QED
      BY <1>1, <1>5, <2>1, <2>2, <3>1, <3>2 DEF Rest, Ring, SlotOf
  <2>6. \A k \in received + 2..received + 1 + NumBuf :
          recv_bufs'[SlotAt(recv_ptr', received', k)][Flag]
            = IF k <= arrived THEN FLAG_VALID ELSE FLAG_INVALID
    <3>1. SUFFICES ASSUME NEW k \in received + 2..received + 1 + NumBuf
                   PROVE  recv_bufs'[SlotOf(k)][Flag]
                            = IF k <= arrived THEN FLAG_VALID ELSE FLAG_INVALID
      <4>1. \A k \in received + 2..received + 1 + NumBuf : k \in acked + 1..received + NumBuf + 1
        BY DEF TypeOK, Rest, Counts
      <4>2. QED
        BY <1>1, <1>5, <3>1, <4>1 DEF SlotOf
    <3>2. CASE k <= received + NumBuf
      <4>1. /\ k \in acked + 1..received + NumBuf /\ k \in received + 1..received + NumBuf
            /\ received + 1 \in acked + 1..received + NumBuf
            /\ received + 1 < k /\ k < (received + 1) + NumBuf /\ Flag \in 1..Flag
        BY <3>2 DEF TypeOK, Rest, Counts, Flag
      <4>2. SlotOf(k) # recv_ptr /\ SlotOf(k) \in Slot
        BY <1>2, <4>1, OwnSlots
      <4>3. QED
        BY <2>1, <4>1, <4>2 DEF Rest, Ring
    \* The slot just emptied is the next one but a ring.
    <3>3. CASE k = received + 1 + NumBuf
      <4>1. SlotOf(k) = recv_ptr
        BY <3>3 DEF SlotOf, SlotAt, Slot, TypeOK
      <4>2. ~(k <= arrived)
        BY <3>3, <1>2 DEF TypeOK, Rest, Counts
      <4>3. recv_bufs'[recv_ptr][Flag] = FLAG_INVALID
        BY <1>1 DEF TypeOK, Buffer, Flag
      <4>4. QED
        BY <4>1, <4>2, <4>3
    <3>4. k <= received + NumBuf \/ k = received + 1 + NumBuf
      <4>1. received \in Int /\ NumBuf \in Int
        BY DEF TypeOK
      <4>2. QED
        BY <4>1
    <3>5. QED
      BY <3>2, <3>3, <3>4
  <2>7. (received + 1) + 1 = received + 2 /\ (received + 1) + NumBuf = received + 1 + NumBuf
    BY DEF TypeOK
  <2>8. QED
    BY <1>1, <2>3, <2>4, <2>5, <2>6, <2>7 DEF Ring, SlotOf
<1>11. QED
  BY <1>6, <1>7, <1>8, <1>9, <1>10 DEF Rest

LEMMA RestStep == TypeOK /\ Rest /\ [Next]_vars => Rest'
<1> SUFFICES ASSUME TypeOK, Rest, [Next]_vars PROVE Rest'
  OBVIOUS
<1>1. ASSUME NEW wait \in Waits, mp_send(wait) PROVE Rest'
  BY <1>1, SendStep
<1>2. CASE mp_nbsend
  BY <1>2, NbSendFails, NbSendStarts
<1>3. CASE Transmit
  BY <1>3, TransmitStep
<1>4. CASE Deliver
  BY <1>4, DeliverStep
<1>5. CASE TransmitAck
  BY <1>5, TransmitAckStep
<1>6. CASE DeliverAck
  BY <1>6, DeliverAckStep
<1>7. CASE mp_nbrecv
  BY <1>7, RecvStep
<1>8. CASE start_ack
  BY <1>8, AckStep
<1>9. CASE \/ send_timeout \/ ack_timeout
           \/ \E n \in 1..NumBuf, wait \in Waits : mp_ack_n(n, wait)
           \/ UNCHANGED vars
  BY <1>9, CallSteps
<1>10. QED
  BY <1>1, <1>2, <1>3, <1>4, <1>5, <1>6, <1>7, <1>8, <1>9 DEF Next

-----------------------------------------------------------------------------
(* What the port guarantees. *)

LEMMA InductiveInvariant == Spec => [](TypeOK /\ Rest)
<1>1. Init => TypeOK /\ Rest
  BY InitType, InitRest
<1>2. TypeOK /\ Rest /\ [Next]_vars => (TypeOK /\ Rest)'
  BY TypeStep, RestStep
<1>3. QED
  BY <1>1, <1>2, PTL DEF Spec

\* Every variable of both ports and of the network keeps its type, the
\* counters and ring pointers their ranges (mp_create_qport and the updates
\* in mp_nbsend, mp_nbrecv and mp_ack_n).
THEOREM PortTypes == Spec => []TypeOK
  BY InductiveInvariant, PTL

LEMMA RestHeldIntact == TypeOK /\ Rest => HeldIntact
<1> SUFFICES ASSUME TypeOK, Rest, NEW k \in acked + 1..received, NEW w \in 1..Words
             PROVE  recv_bufs[SlotOf(k)][w] = k
  BY DEF HeldIntact
<1>1. k \in acked + 1..arrived
  BY DEF TypeOK, Rest, Counts
<1>2. QED
  BY <1>1 DEF Rest, Ring

\* A message received and not acknowledged is whole and is the one that was
\* sent at that position, whatever the source sends meanwhile.
THEOREM ReceivedStaysIntact == Spec => []HeldIntact
  BY InductiveInvariant, RestHeldIntact, PTL

\* The buffer the DMA reads is never the one handed to the program.
THEOREM DmaSourceIsStable == Spec => []SourceStable
<1>1. Rest => SourceStable
  BY DEF Rest, Sender, SourceStable
<1>2. QED
  BY <1>1, InductiveInvariant, PTL

-----------------------------------------------------------------------------
(* The port implements the queue. *)

\* Messages a + 1 to b.
Run(a, b) == [i \in 1..b - a |-> a + i]

LEMMA RunFacts ==
  ASSUME NEW a \in Nat, NEW b \in Nat, a <= b
  PROVE  /\ Run(a, b) \in Seq(Nat) /\ Len(Run(a, b)) = b - a
         /\ Append(Run(a, b), b + 1) = Run(a, b + 1)
         /\ a < b => /\ Run(a, b) # <<>> /\ Head(Run(a, b)) = a + 1
                     /\ Tail(Run(a, b)) = Run(a + 1, b)
         /\ \A n \in 0..b - a : SubSeq(Run(a, b), n + 1, b - a) = Run(a + n, b)
<1>1. \A c \in Nat, d \in Nat : c <= d => Run(c, d) \in Seq(Nat) /\ Len(Run(c, d)) = d - c
  BY DEF Run
<1>2. \A c \in Nat, d \in Nat : \A i \in 1..d - c : Run(c, d)[i] = c + i
  BY DEF Run
\* A sequence with the length and the elements of a run is that run.
<1>3. ASSUME NEW s \in Seq(Nat), NEW c \in Nat, NEW d \in Nat, c <= d,
             Len(s) = d - c, \A i \in 1..d - c : s[i] = c + i
      PROVE  s = Run(c, d)
  <2>1. /\ Run(c, d) \in Seq(Nat) /\ Len(s) = Len(Run(c, d))
        /\ \A i \in 1..Len(s) : s[i] = Run(c, d)[i]
    BY <1>1, <1>2, <1>3
  <2>2. QED
    BY <2>1, <1>3, SeqEqual
<1>4. Append(Run(a, b), b + 1) = Run(a, b + 1)
  <2> DEFINE s == Append(Run(a, b), b + 1)
  <2>1. Run(a, b) \in Seq(Nat) /\ b + 1 \in Nat /\ Len(Run(a, b)) = b - a
    BY <1>1
  <2>5. /\ s \in Seq(Nat) /\ Len(s) = Len(Run(a, b)) + 1
        /\ s[Len(Run(a, b)) + 1] = b + 1
        /\ \A i \in 1..Len(Run(a, b)) : s[i] = Run(a, b)[i]
    BY <2>1, AppendFacts
  <2> HIDE DEF s
  <2>2. /\ s \in Seq(Nat) /\ Len(s) = b - a + 1 /\ s[b - a + 1] = b + 1
        /\ \A i \in 1..b - a : s[i] = a + i
    BY <1>2, <2>1, <2>5
  <2>3. Len(s) = (b + 1) - a /\ \A i \in 1..(b + 1) - a : s[i] = a + i
    <3>1. ASSUME NEW i \in 1..(b + 1) - a, i # b - a + 1 PROVE i \in 1..b - a
      BY <3>1
    <3>2. (b + 1) - a = b - a + 1 /\ a + (b - a + 1) = b + 1
      OBVIOUS
    <3>3. QED
      BY <2>2, <3>1, <3>2
  <2>4. s = Run(a, b + 1)
    BY <1>3, <2>2, <2>3
  <2>6. QED
    BY <2>4 DEF s
<1>5. ASSUME a < b
      PROVE  Run(a, b) # <<>> /\ Head(Run(a, b)) = a + 1 /\ Tail(Run(a, b)) = Run(a + 1, b)
  <2>1. Run(a, b) # <<>> /\ Head(Run(a, b)) = a + 1
    BY <1>1, <1>2, <1>5
  <2> DEFINE s == Tail(Run(a, b))
  <2>2. /\ s \in Seq(Nat) /\ Len(s) = b - a - 1
        /\ \A i \in 1..b - a - 1 : s[i] = Run(a, b)[i + 1]
    BY <1>1, <2>1, TailFacts, SMTT(30)
  <2>3. b - a - 1 = b - (a + 1) /\ \A i \in 1..b - (a + 1) : s[i] = (a + 1) + i
    BY <1>2, <1>5, <2>2
  <2> HIDE DEF s
  <2>4. s = Run(a + 1, b)
    BY <1>3, <1>5, <2>2, <2>3
  <2>5. QED
    BY <2>1, <2>4 DEF s
<1>6. ASSUME NEW n \in 0..b - a
      PROVE  SubSeq(Run(a, b), n + 1, b - a) = Run(a + n, b)
  <2> DEFINE s == SubSeq(Run(a, b), n + 1, b - a)
  <2>1. n + 1 \in Int /\ b - a \in Int /\ \A i \in n + 1..b - a : Run(a, b)[i] \in Nat
    BY <1>2
  <2>2. /\ s \in Seq(Nat)
        /\ Len(s) = IF n + 1 <= b - a THEN b - a - (n + 1) + 1 ELSE 0
        /\ \A i \in 1..b - a - (n + 1) + 1 : s[i] = Run(a, b)[(n + 1) + i - 1]
    BY <2>1, SubSeqProperties
  <2> HIDE DEF s
  <2>3. /\ Len(s) = b - (a + n) /\ a + n \in Nat /\ a + n <= b
        /\ \A i \in 1..b - (a + n) : s[i] = (a + n) + i
    BY <1>2, <2>2
  <2>4. s = Run(a + n, b)
    BY <1>3, <2>2, <2>3
  <2>5. QED
    BY <2>4 DEF s
<1>7. QED
  BY <1>1, <1>4, <1>5, <1>6

AbstractQueue == [i \in 1..sent - received |-> received + i]
AbstractHeld  == [i \in 1..received - acked |-> Content(SlotOf(acked + i))]

LEMMA AbstractIsRun ==
  TypeOK /\ Rest => /\ AbstractQueue = Run(received, sent)
                    /\ AbstractHeld = Run(acked, received)
<1> SUFFICES ASSUME TypeOK, Rest
             PROVE  \A i \in 1..received - acked : Content(SlotOf(acked + i)) = acked + i
  BY DEF AbstractQueue, AbstractHeld, Run
<1> TAKE i \in 1..received - acked
<1>1. acked + i \in acked + 1..arrived
  BY DEF TypeOK, Rest, Counts
<1>2. \A w \in 1..Words : recv_bufs[SlotOf(acked + i)][w] = acked + i
  BY <1>1 DEF Rest, Ring
<1>3. 1 \in 1..Words
  BY PortAssumption
<1>4. QED
  BY <1>2, <1>3 DEF Content

LEMMA QueueInit == Init => Queue!Init
  BY DEF Init, Queue!Init

LEMMA QueueStep ==
  TypeOK /\ Rest /\ TypeOK' /\ Rest' /\ [Next]_vars => [Queue!Next]_(Queue!vars)
<1> SUFFICES ASSUME TypeOK, Rest, TypeOK', Rest', [Next]_vars
             PROVE  [Queue!Next]_(Queue!vars)
  OBVIOUS
<1>1. /\ AbstractQueue = Run(received, sent) /\ AbstractHeld = Run(acked, received)
      /\ AbstractQueue' = Run(received', sent') /\ AbstractHeld' = Run(acked', received')
  <2>1. (AbstractQueue = Run(received, sent) /\ AbstractHeld = Run(acked, received))'
    BY AbstractIsRun, PTL
  <2>2. QED
    BY <2>1, AbstractIsRun DEF Run
<1>2. /\ acked \in Nat /\ received \in Nat /\ sent \in Nat
      /\ acked <= received /\ received <= sent
  BY DEF TypeOK, Rest, Counts
<1>3. CASE UNCHANGED <<acked, received, sent>>
  BY <1>1, <1>3 DEF Queue!vars, AbstractQueue, AbstractHeld
<1>4. CASE mp_nbsend /\ sent' # sent
  <2>1. sent' = sent + 1 /\ UNCHANGED <<acked, received>> /\ sent + 1 \in 1..MaxMsgs
    BY <1>4, PortAssumption DEF mp_nbsend, Shadow, Rest, Sender, TypeOK
  <2>2. AbstractQueue' = Append(AbstractQueue, sent + 1) /\ AbstractHeld' = AbstractHeld
    BY <1>1, <1>2, <2>1, RunFacts
  <2>3. Len(AbstractQueue) + Len(AbstractHeld) < NumBuf
    <3>1. Len(AbstractQueue) = sent - received /\ Len(AbstractHeld) = received - acked
      BY <1>1, <1>2, RunFacts
    <3>2. sent' <= acked' + NumBuf
      BY DEF Rest, Counts
    <3>3. QED
      BY <1>2, <2>1, <3>1, <3>2, PortAssumption
  <2>4. QED
    BY <2>1, <2>2, <2>3 DEF Queue!Next, Queue!Put, AbstractQueue, AbstractHeld
<1>5. CASE mp_nbrecv
  <2>1. received' = received + 1 /\ UNCHANGED <<acked, sent>>
    BY <1>5 DEF mp_nbrecv
  <2>2. received < sent
    BY <1>2, <2>1 DEF TypeOK, Rest, Counts
  <2>3. /\ AbstractQueue # <<>> /\ AbstractQueue' = Tail(AbstractQueue)
        /\ AbstractHeld' = Append(AbstractHeld, Head(AbstractQueue))
    <3>1. /\ Run(received, sent) # <<>> /\ Head(Run(received, sent)) = received + 1
          /\ Tail(Run(received, sent)) = Run(received + 1, sent)
      BY <1>2, <2>2, RunFacts
    <3>2. Append(Run(acked, received), received + 1) = Run(acked, received + 1)
      BY <1>2, RunFacts
    <3>3. QED
      BY <1>1, <2>1, <3>1, <3>2
  <2>4. Queue!Get
    BY <2>3 DEF Queue!Get, AbstractQueue, AbstractHeld
  <2>5. QED
    BY <2>4 DEF Queue!Next
<1>6. CASE start_ack
  <2>1. /\ acked' = acked + num_acks /\ UNCHANGED <<received, sent>>
        /\ num_acks \in 1..received - acked
    BY <1>6 DEF start_ack, Rest, Counts
  <2>2. Len(AbstractHeld) = received - acked
    BY <1>1, <1>2, RunFacts
  <2>3. AbstractHeld' = SubSeq(AbstractHeld, num_acks + 1, Len(AbstractHeld))
        /\ AbstractQueue' = AbstractQueue
    <3>1. num_acks \in 0..received - acked
      BY <1>2, <2>1
    <3>2. SubSeq(Run(acked, received), num_acks + 1, received - acked)
            = Run(acked + num_acks, received)
      BY <1>2, <3>1, RunFacts
    <3>3. QED
      BY <1>1, <2>1, <2>2, <3>2
  <2>4. Queue!Release(num_acks)
    BY <2>3 DEF Queue!Release, AbstractQueue, AbstractHeld
  <2>5. QED
    BY <2>1, <2>2, <2>4 DEF Queue!Next, AbstractHeld
<1>7. QED
  BY <1>3, <1>4, <1>5, <1>6
  DEF Next, vars, mp_send, mp_nbsend, send_timeout, Transmit, Deliver, TransmitAck,
      DeliverAck, mp_ack_n, ack_timeout

\* The channel of two ports implements the bounded queue of whole messages:
\* every successful mp_nbsend is a Put, every successful mp_nbrecv a Get and
\* every acknowledgement a Release.
THEOREM PortIsQueue == Spec => IsQueue
<1>1. Init => Queue!Init
  BY QueueInit
<1>2. TypeOK /\ Rest /\ (TypeOK /\ Rest)' /\ [Next]_vars => [Queue!Next]_(Queue!vars)
  BY QueueStep
<1>3. QED
  BY <1>1, <1>2, InductiveInvariant, PTL DEF Spec, IsQueue, Queue!Spec

-----------------------------------------------------------------------------
(***************************************************************************)
(* The creation of the ports, for every number of cores and every table of *)
(* channels: whoever is told that the ports are ready knows the other end  *)
(* of each, and no acknowledgement is lost to a counter that is cleared    *)
(* late.  The invariant follows each core through its channels: what it    *)
(* has published, what it has cleared, what it has connected.              *)
(***************************************************************************)
CONSTANTS Core, MaxChannel, src, dst, AllocOk

VARIABLES
  pc, chan, addr_ok, src_addr, src_id, sink_addr, sink_id, recv_addr,
  send_recv_addr, flag, count, setup_sent, setup_received

Setup == INSTANCE PortSetup WITH
  sink <- dst, sent <- setup_sent, received <- setup_received

\* Every core has a channel, and a channel leads from a core to another.
SetupAssumption ==
  /\ MaxChannel \in Nat /\ AllocOk \subseteq BOOLEAN
  /\ src \in [Setup!Chan -> Core] /\ dst \in [Setup!Chan -> Core]
  /\ \A c \in Setup!Chan : src[c] # dst[c]
  /\ \A core \in Core : Setup!Ends(core) # {}

Failed(c) == pc[src[c]] = "failed" \/ pc[dst[c]] = "failed"

SetupTyped ==
  /\ pc \in [Core -> {"create", "addr", "id", "clear", "failed", "init", "ready"}]
  /\ chan \in [Core -> Setup!Chan] /\ \A core \in Core : chan[core] \in Setup!Ends(core)
  /\ addr_ok \in [Core -> BOOLEAN]
  /\ flag \in [Setup!Chan -> BOOLEAN] /\ count \in [Setup!Chan -> 0..1]

\* The address of a port is there before its id.
AddressFirst ==
  \A c \in Setup!Chan :
    /\ c \in src_id => c \in src_addr
    /\ c \in sink_id => c \in sink_addr \/ Failed(c)
    /\ pc[src[c]] \in {"id", "clear"} /\ chan[src[c]] = c => c \in src_addr
    /\ pc[dst[c]] \in {"id", "clear"} /\ chan[dst[c]] = c => c \in sink_addr \/ ~addr_ok[dst[c]]

\* A core that has come past its channel c.
Past(core, c, loop, after) == pc[core] \in after \/ (pc[core] \in loop /\ c < chan[core])

Creating == {"create", "addr", "id", "clear", "failed"}

\* A flag that the sink has cleared is set by a message only, and messages and
\* acknowledgements come between ends that have cleared theirs.
Messages ==
  \A c \in Setup!Chan :
    /\ flag[c] /\ Past(dst[c], c, Creating, {"init", "ready"}) => c \in setup_sent
    /\ c \in setup_sent => pc[src[c]] = "ready"
    /\ c \in setup_received => c \in setup_sent /\ count[c] = 1

\* The channels a core has come past in mp_init_ports are connected.
Connected ==
  \A c \in Setup!Chan :
    /\ Past(src[c], c, {"init"}, {"ready"}) => c \in recv_addr \/ Failed(c)
    /\ Past(dst[c], c, {"init"}, {"ready"}) => c \in send_recv_addr \/ Failed(c)

SetupInv == SetupTyped /\ AddressFirst /\ Messages /\ Connected

-----------------------------------------------------------------------------
LEMMA LeastChannel ==
  ASSUME SetupAssumption, NEW S \in SUBSET Setup!Chan, S # {}
  PROVE  Setup!Min(S) \in S /\ \A d \in S : Setup!Min(S) <= d
<1> DEFINE less == OpToRel(<, Nat)
<1>1. IsWellFoundedOn(less, Nat)  BY NatLessThanWellFounded
<1>2. \A x, y \in Nat : y < x => <<y, x>> \in less  BY DEF OpToRel
<1>3. S \in SUBSET Nat  BY DEF SetupAssumption, Setup!Chan
<1> HIDE DEF less
<1>4. PICK x \in S : \A y \in S : <<y, x>> \notin less  BY <1>1, <1>3, WFMin
<1>5. \A y \in S : x <= y
  <2> TAKE y \in S
  <2>1. x \in Nat /\ y \in Nat /\ ~(y < x)  BY <1>2, <1>3, <1>4
  <2> QED  BY <2>1
<1> QED  BY <1>5 DEF Setup!Min

LEMMA EndsAre ==
  ASSUME SetupAssumption, NEW core \in Core
  PROVE  /\ Setup!Ends(core) \subseteq Setup!Chan /\ Setup!Chan \subseteq Nat
         /\ \A c \in Setup!Chan : c \in Setup!Ends(core) <=> core = src[c] \/ core = dst[c]
<1>1. Setup!Ends(core) \subseteq Setup!Chan  BY DEF Setup!Ends
<1>2. Setup!Chan \subseteq Nat  BY DEF Setup!Chan
<1>3. \A c \in Setup!Chan : c \in Setup!Ends(core) <=> core \in {src[c], dst[c]}
  BY DEF Setup!Ends
<1>4. QED  BY <1>1, <1>2, <1>3

\* A core goes on to the least of its later channels.
LEMMA Goes ==
  ASSUME SetupAssumption, SetupTyped, NEW core \in Core, NEW l, NEW last,
         Setup!Onward(core, l, last)
  PROVE  /\ \A k \in Core \ {core} : pc'[k] = pc[k] /\ chan'[k] = chan[k]
         /\ chan' \in [Core -> Setup!Chan] /\ chan'[core] \in Setup!Ends(core)
         /\ \/ pc'[core] = last /\ \A d \in Setup!Ends(core) : d <= chan[core] /\ chan'[core] <= d
            \/ pc'[core] = l /\ \A d \in Setup!Ends(core) : d < chan'[core] => d <= chan[core]
<1> DEFINE rest == Setup!After(core, chan[core])
           from == IF rest = {} THEN Setup!Ends(core) ELSE rest
<1>1. /\ rest \subseteq Setup!Ends(core) /\ Setup!Ends(core) # {} /\ Setup!Ends(core) \subseteq Setup!Chan
      /\ chan[core] \in Nat /\ Setup!Chan \subseteq Nat
      /\ \A d \in Setup!Ends(core) : d \notin rest <=> d <= chan[core]
  BY EndsAre DEF Setup!After, SetupAssumption, SetupTyped
<1>2. /\ pc' = [pc EXCEPT ![core] = IF rest = {} THEN last ELSE l]
      /\ chan' = [chan EXCEPT ![core] = Setup!Min(from)]
  BY DEF Setup!Onward, Setup!Goto
<1> HIDE DEF rest
<1>3. Setup!Min(from) \in from /\ \A d \in from : Setup!Min(from) <= d  BY <1>1, LeastChannel
<1>4. /\ pc \in [Core -> {"create", "addr", "id", "clear", "failed", "init", "ready"}]
      /\ chan \in [Core -> Setup!Chan]
  BY DEF SetupTyped
<1>5. chan'[core] = Setup!Min(from) /\ pc'[core] = IF rest = {} THEN last ELSE l  BY <1>2, <1>4
<1>6. CASE rest = {}
  BY <1>1, <1>2, <1>3, <1>4, <1>5, <1>6
<1>7. CASE rest # {}
  <2>1. \A d \in Setup!Ends(core) : d < Setup!Min(rest) => d <= chan[core]
    <3> SUFFICES ASSUME NEW d \in Setup!Ends(core), d < Setup!Min(rest), d \in rest PROVE FALSE
      BY <1>1
    <3>1. Setup!Min(rest) <= d /\ d \in Nat /\ Setup!Min(rest) \in Nat  BY <1>1, <1>3, <1>7
    <3> QED  BY <3>1
  <2> QED  BY <1>1, <1>2, <1>3, <1>4, <1>5, <1>7, <2>1
<1> QED  BY <1>6, <1>7

-----------------------------------------------------------------------------
LEMMA SetupBegins == ASSUME SetupAssumption PROVE Setup!Init => SetupInv
<1> SUFFICES ASSUME Setup!Init PROVE SetupInv  OBVIOUS
<1>1. \A core \in Core : chan[core] \in Setup!Ends(core) /\ Setup!Ends(core) \subseteq Setup!Chan
                         /\ \A d \in Setup!Ends(core) : ~(d < chan[core])
  <2> TAKE core \in Core
  <2>1. /\ Setup!Ends(core) \in SUBSET Setup!Chan /\ Setup!Ends(core) # {}
        /\ chan[core] = Setup!Min(Setup!Ends(core))
        /\ Setup!Chan \subseteq Nat
    BY EndsAre DEF Setup!Init, SetupAssumption
  <2>2. chan[core] \in Setup!Ends(core) /\ \A d \in Setup!Ends(core) : chan[core] <= d
    BY <2>1, LeastChannel
  <2>3. chan[core] \in Nat /\ \A d \in Setup!Ends(core) : d \in Nat  BY <2>1, <2>2
  <2> QED  BY <2>1, <2>2, <2>3
<1>2. SetupTyped  BY <1>1 DEF Setup!Init, SetupTyped
<1>3. AddressFirst /\ Connected
  BY DEF Setup!Init, AddressFirst, Connected, Past, SetupAssumption
<1>4. Messages
  <2> SUFFICES ASSUME NEW c \in Setup!Chan PROVE ~Past(dst[c], c, Creating, {"init", "ready"})
    BY DEF Setup!Init, Messages
  <2>1. dst[c] \in Core /\ c \in Setup!Ends(dst[c])  BY DEF SetupAssumption, Setup!Ends
  <2> QED  BY <1>1, <2>1 DEF Setup!Init, Past, Creating
<1> QED  BY <1>2, <1>3, <1>4 DEF SetupInv

-----------------------------------------------------------------------------
(* The actions, one lemma for each. *)

\* The facts about the two ends of a channel.
LEMMA TwoEnds ==
  ASSUME SetupAssumption, NEW c \in Setup!Chan
  PROVE  /\ src[c] \in Core /\ dst[c] \in Core /\ src[c] # dst[c] /\ c \in Nat
         /\ c \in Setup!Ends(src[c]) /\ c \in Setup!Ends(dst[c])
  BY SMTT(30) DEF SetupAssumption, Setup!Ends, Setup!Chan

\* A port belongs to one of the ends.
LEMMA PortOf ==
  ASSUME SetupAssumption, SetupTyped, NEW core \in Core
  PROVE  /\ chan[core] \in Setup!Chan
         /\ src[chan[core]] # core => dst[chan[core]] = core
         /\ src[chan[core]] = core => dst[chan[core]] # core
  BY EndsAre, TwoEnds DEF SetupTyped

LEMMA AllocKeeps ==
  ASSUME SetupAssumption, SetupInv, NEW core \in Core, Setup!Alloc(core)
  PROVE  SetupInv'
<1>1. /\ chan' = chan /\ \A k \in Core \ {core} : pc'[k] = pc[k] /\ addr_ok'[k] = addr_ok[k]
      /\ pc[core] = "create" /\ pc'[core] \in {"failed", "addr"}
  BY DEF Setup!Alloc, Setup!Goto, SetupInv, SetupTyped
<1>2. SetupTyped'
  <2>1. /\ pc' \in [Core -> {"create", "addr", "id", "clear", "failed", "init", "ready"}]
        /\ addr_ok' \in [Core -> BOOLEAN]
    <3>1. PICK l \in {"failed", "addr"} : pc' = [pc EXCEPT ![core] = l]
      BY DEF Setup!Alloc, Setup!Goto
    <3>2. PICK ok \in AllocOk : addr_ok' = [addr_ok EXCEPT ![core] = ok]  BY DEF Setup!Alloc
    <3> QED  BY <3>1, <3>2 DEF SetupInv, SetupTyped, SetupAssumption
  <2> QED  BY <1>1, <2>1 DEF Setup!Alloc, SetupInv, SetupTyped, Setup!Ends
<1>3. AddressFirst'
  BY <1>1, TwoEnds DEF Setup!Alloc, Setup!table, SetupInv, AddressFirst, Failed
<1>4. Messages'
  BY <1>1, TwoEnds DEF Setup!Alloc, SetupInv, Messages, Past, Creating
<1>5. Connected'
  BY <1>1, TwoEnds DEF Setup!Alloc, SetupInv, Connected, Past, Failed
<1> QED  BY <1>2, <1>3, <1>4, <1>5 DEF SetupInv

LEMMA PublishAddrKeeps ==
  ASSUME SetupAssumption, SetupInv, NEW core \in Core, Setup!PublishAddr(core)
  PROVE  SetupInv'
<1>1. /\ chan' = chan /\ \A k \in Core \ {core} : pc'[k] = pc[k]
      /\ pc[core] = "addr" /\ pc'[core] = "id" /\ addr_ok' = addr_ok
  BY DEF Setup!PublishAddr, Setup!Goto, SetupInv, SetupTyped
<1>2. SetupTyped'
  BY <1>1 DEF Setup!PublishAddr, Setup!Goto, SetupInv, SetupTyped, SetupAssumption, Setup!Ends
<1>3. AddressFirst'
  BY <1>1, TwoEnds, PortOf DEF Setup!PublishAddr, Setup!table, SetupInv, AddressFirst, Failed
<1>4. Messages'
  BY <1>1, TwoEnds DEF Setup!PublishAddr, SetupInv, Messages, Past, Creating
<1>5. Connected'
  BY <1>1, TwoEnds DEF Setup!PublishAddr, SetupInv, Connected, Past, Failed
<1> QED  BY <1>2, <1>3, <1>4, <1>5 DEF SetupInv

LEMMA PublishIdKeeps ==
  ASSUME SetupAssumption, SetupInv, NEW core \in Core, Setup!PublishId(core)
  PROVE  SetupInv'
<1>1. /\ chan' = chan /\ \A k \in Core \ {core} : pc'[k] = pc[k]
      /\ pc[core] = "id" /\ addr_ok' = addr_ok
      /\ pc'[core] = IF addr_ok[core] THEN "clear" ELSE "failed"
  BY DEF Setup!PublishId, Setup!Goto, SetupInv, SetupTyped
<1>2. SetupTyped'
  BY <1>1 DEF Setup!PublishId, Setup!Goto, SetupInv, SetupTyped, SetupAssumption, Setup!Ends
<1>3. AddressFirst'
  BY <1>1, TwoEnds, PortOf DEF Setup!PublishId, Setup!table, SetupInv, AddressFirst, Failed
<1>4. Messages'
  BY <1>1, TwoEnds DEF Setup!PublishId, SetupInv, Messages, Past, Creating
<1>5. Connected'
  BY <1>1, TwoEnds DEF Setup!PublishId, SetupInv, Connected, Past, Failed
<1> QED  BY <1>2, <1>3, <1>4, <1>5 DEF SetupInv

LEMMA ClearKeeps ==
  ASSUME SetupAssumption, SetupInv, NEW core \in Core, Setup!Clear(core)
  PROVE  SetupInv'
<1> DEFINE c == chan[core]
<1>1. /\ \A k \in Core \ {core} : pc'[k] = pc[k] /\ chan'[k] = chan[k]
      /\ chan' \in [Core -> Setup!Chan] /\ chan'[core] \in Setup!Ends(core)
      /\ \/ pc'[core] = "init" /\ \A d \in Setup!Ends(core) : d <= chan[core] /\ chan'[core] <= d
         \/ pc'[core] = "create" /\ \A d \in Setup!Ends(core) : d < chan'[core] => d <= chan[core]
  BY Goes DEF Setup!Clear, SetupInv
<1>2. pc[core] = "clear" /\ addr_ok' = addr_ok  BY DEF Setup!Clear
<1>3. SetupTyped'
  <2>1. /\ pc' \in [Core -> {"create", "addr", "id", "clear", "failed", "init", "ready"}]
    BY DEF Setup!Clear, Setup!Onward, Setup!Goto, SetupInv, SetupTyped
  <2>2. flag' \in [Setup!Chan -> BOOLEAN] /\ count' \in [Setup!Chan -> 0 .. 1]
    <3>1. 0 \in 0 .. 1 /\ FALSE \in BOOLEAN  OBVIOUS
    <3>2. flag' = flag \/ flag' = [flag EXCEPT ![c] = FALSE]  BY DEF Setup!Clear
    <3>3. count' = count \/ count' = [count EXCEPT ![c] = 0]  BY DEF Setup!Clear
    <3>4. flag \in [Setup!Chan -> BOOLEAN] /\ count \in [Setup!Chan -> 0 .. 1]
      BY DEF SetupInv, SetupTyped
    <3> HIDE DEF c
    <3>5. flag' \in [Setup!Chan -> BOOLEAN]  BY <3>2, <3>4
    <3>6. count' \in [Setup!Chan -> 0 .. 1]  BY <3>1, <3>3, <3>4
    <3> QED  BY <3>5, <3>6
  <2>3. \A k \in Core : chan'[k] \in Setup!Ends(k)'
    BY <1>1 DEF SetupInv, SetupTyped, Setup!Ends
  <2> QED  BY <1>1, <1>2, <2>1, <2>2, <2>3 DEF SetupInv, SetupTyped
<1>4. AddressFirst'
  BY <1>1, <1>2, TwoEnds DEF Setup!Clear, Setup!table, SetupInv, AddressFirst, Failed
<1>5. Messages'
  <2> SUFFICES ASSUME NEW d \in Setup!Chan
               PROVE  /\ flag'[d] /\ Past(dst[d], d, Creating, {"init", "ready"})' => d \in setup_sent'
                      /\ d \in setup_sent' => pc'[src[d]] = "ready"
                      /\ d \in setup_received' => d \in setup_sent' /\ count'[d] = 1
    BY DEF Messages
  <2>1. setup_sent' = setup_sent /\ setup_received' = setup_received  BY DEF Setup!Clear
  <2>2. d \in setup_sent => src[d] # core  BY <1>2 DEF SetupInv, Messages
  <2>3. d \in setup_sent => pc'[src[d]] = "ready"
    BY <1>1, <2>2, TwoEnds DEF SetupInv, Messages
  <2>4. d \in setup_received => count'[d] = 1
    <3>1. d \in setup_received => d \in setup_sent /\ count[d] = 1  BY DEF SetupInv, Messages
    <3> QED  BY <2>2, <3>1 DEF Setup!Clear, SetupInv, SetupTyped
  <2>5. ASSUME flag'[d], Past(dst[d], d, Creating, {"init", "ready"})' PROVE d \in setup_sent
    <3>1. flag[d] /\ (src[c] # core => d # c)
      BY <2>5 DEF Setup!Clear, SetupInv, SetupTyped
    <3>2. CASE dst[d] # core
      BY <1>1, <2>5, <3>1, <3>2, TwoEnds DEF SetupInv, Messages, Past
    <3>3. CASE dst[d] = core
      <4>1. d # c  BY <3>1, <3>3, TwoEnds
      <4>2. d \in Setup!Ends(core) /\ d \in Nat /\ c \in Nat
        BY <3>3, TwoEnds, PortOf DEF SetupInv
      <4>3. d <= c  BY <1>1, <2>5, <3>3, <4>2 DEF Past, Creating
      <4>4. d < c  BY <4>1, <4>2, <4>3
      <4> QED  BY <1>2, <3>1, <3>3, <4>4 DEF SetupInv, Messages, Past, Creating
    <3> QED  BY <3>2, <3>3
  <2> QED  BY <2>1, <2>3, <2>4, <2>5 DEF SetupInv, Messages
<1>6. Connected'
  <2>1. \A d \in Setup!Ends(core) : ~(d < chan'[core]) \/ pc'[core] = "create"
    <3>1. chan'[core] \in Nat /\ \A d \in Setup!Ends(core) : d \in Nat  BY <1>1, EndsAre
    <3> QED  BY <1>1, <3>1
  <2> QED
    BY <1>1, <1>2, <2>1, TwoEnds DEF Setup!Clear, SetupInv, Connected, Past, Failed
<1> QED  BY <1>3, <1>4, <1>5, <1>6 DEF SetupInv

LEMMA ConnectKeeps ==
  ASSUME SetupAssumption, SetupInv, NEW core \in Core, Setup!Connect(core)
  PROVE  SetupInv'
<1> DEFINE c == chan[core]
<1>1. /\ \A k \in Core \ {core} : pc'[k] = pc[k] /\ chan'[k] = chan[k]
      /\ chan' \in [Core -> Setup!Chan] /\ chan'[core] \in Setup!Ends(core)
      /\ \/ pc'[core] = "ready" /\ \A d \in Setup!Ends(core) : d <= chan[core] /\ chan'[core] <= d
         \/ pc'[core] = "init" /\ \A d \in Setup!Ends(core) : d < chan'[core] => d <= chan[core]
  BY Goes DEF Setup!Connect, SetupInv
<1>2. pc[core] = "init" /\ addr_ok' = addr_ok /\ flag' = flag /\ count' = count
  BY DEF Setup!Connect
<1>3. SetupTyped'
  <2>1. pc' \in [Core -> {"create", "addr", "id", "clear", "failed", "init", "ready"}]
    BY DEF Setup!Connect, Setup!Onward, Setup!Goto, SetupInv, SetupTyped
  <2>2. \A k \in Core : chan'[k] \in Setup!Ends(k)'
    BY <1>1 DEF SetupInv, SetupTyped, Setup!Ends
  <2> QED  BY <1>1, <1>2, <2>1, <2>2 DEF SetupInv, SetupTyped
<1>4. AddressFirst'
  BY <1>1, <1>2, TwoEnds DEF Setup!Connect, Setup!table, SetupInv, AddressFirst, Failed
<1>5. Messages'
  BY <1>1, <1>2, TwoEnds DEF Setup!Connect, SetupInv, Messages, Past, Creating
<1>6. Connected'
  <2>1. \A d \in Setup!Chan : Failed(d)' <=> Failed(d)
    BY <1>1, <1>2, TwoEnds DEF Failed
  <2>2. recv_addr \subseteq recv_addr' /\ send_recv_addr \subseteq send_recv_addr'
    BY DEF Setup!Connect
  <2>3. ASSUME NEW d \in Setup!Ends(core), Past(core, d, {"init"}, {"ready"})'
        PROVE  d = c \/ Past(core, d, {"init"}, {"ready"})
    <3>1. d \in Nat /\ c \in Nat  BY EndsAre, PortOf DEF SetupInv
    <3>2. d <= c  BY <1>1, <2>3, <3>1 DEF Past
    <3> QED  BY <1>2, <3>1, <3>2 DEF Past
  <2>4. src[c] = core => c \in recv_addr' \/ Failed(c)
    BY PortOf DEF Setup!Connect, SetupInv, AddressFirst
  <2>5. src[c] # core => c \in send_recv_addr' \/ Failed(c)
    BY PortOf DEF Setup!Connect, SetupInv, AddressFirst
  <2> SUFFICES ASSUME NEW d \in Setup!Chan
               PROVE  /\ Past(src[d], d, {"init"}, {"ready"})' => d \in recv_addr' \/ Failed(d)
                      /\ Past(dst[d], d, {"init"}, {"ready"})' => d \in send_recv_addr' \/ Failed(d)
    BY <2>1 DEF Connected
  <2>6. ASSUME Past(src[d], d, {"init"}, {"ready"})' PROVE d \in recv_addr' \/ Failed(d)
    <3>1. CASE src[d] # core
      BY <1>1, <2>2, <2>6, <3>1, TwoEnds DEF SetupInv, Connected, Past
    <3>2. CASE src[d] = core
      BY <2>2, <2>3, <2>4, <2>6, <3>2, TwoEnds DEF SetupInv, Connected
    <3> QED  BY <3>1, <3>2
  <2>7. ASSUME Past(dst[d], d, {"init"}, {"ready"})' PROVE d \in send_recv_addr' \/ Failed(d)
    <3>1. CASE dst[d] # core
      BY <1>1, <2>2, <2>7, <3>1, TwoEnds DEF SetupInv, Connected, Past
    <3>2. CASE dst[d] = core
      BY <2>2, <2>3, <2>5, <2>7, <3>2, TwoEnds DEF SetupInv, Connected
    <3> QED  BY <3>1, <3>2
  <2> QED  BY <2>6, <2>7
<1> QED  BY <1>3, <1>4, <1>5, <1>6 DEF SetupInv

LEMMA SendKeeps ==
  ASSUME SetupAssumption, SetupInv, NEW c \in Setup!Chan, Setup!Send(c)
  PROVE  SetupInv'
<1>1. SetupTyped'
  BY DEF Setup!Send, SetupInv, SetupTyped, Setup!Ends
<1>2. AddressFirst' /\ Connected'
  BY DEF Setup!Send, Setup!table, SetupInv, AddressFirst, Connected, Past, Failed
<1>3. Messages'
  BY DEF Setup!Send, SetupInv, SetupTyped, Messages, Past
<1> QED  BY <1>1, <1>2, <1>3 DEF SetupInv

LEMMA RecvKeeps ==
  ASSUME SetupAssumption, SetupInv, NEW c \in Setup!Chan, Setup!Recv(c)
  PROVE  SetupInv'
<1>1. SetupTyped'
  BY DEF Setup!Recv, SetupInv, SetupTyped, Setup!Ends
<1>2. AddressFirst' /\ Connected'
  BY DEF Setup!Recv, Setup!table, SetupInv, AddressFirst, Connected, Past, Failed
<1>3. Messages'
  BY DEF Setup!Recv, SetupInv, SetupTyped, Messages, Past
<1> QED  BY <1>1, <1>2, <1>3 DEF SetupInv

LEMMA SetupStep ==
  ASSUME SetupAssumption, SetupInv, [Setup!Next]_(Setup!vars)
  PROVE  SetupInv'
<1>1. CASE UNCHANGED Setup!vars
  BY <1>1
     DEF Setup!vars, Setup!table, Setup!Ends, SetupInv, SetupTyped, AddressFirst, Messages,
         Connected, Past, Failed
<1>2. ASSUME NEW core \in Core, Setup!CoreStep(core) PROVE SetupInv'
  BY <1>2, AllocKeeps, PublishAddrKeeps, PublishIdKeeps, ClearKeeps, ConnectKeeps DEF Setup!CoreStep
<1> QED  BY <1>1, <1>2, SendKeeps, RecvKeeps DEF Setup!Next

LEMMA SetupInvariant == ASSUME SetupAssumption PROVE Setup!Spec => []SetupInv
<1>1. Setup!Init => SetupInv  BY SetupBegins
<1>2. SetupInv /\ [Setup!Next]_(Setup!vars) => SetupInv'  BY SetupStep
<1> QED  BY <1>1, <1>2, PTL DEF Setup!Spec

\* When mp_init_ports has returned to a core, each of its ports knows the other
\* end, unless the other core failed to create a port.
THEOREM ReadyConnected == ASSUME SetupAssumption PROVE Setup!Spec => []Setup!ReadyIsConnected
<1>1. SetupInv => Setup!ReadyIsConnected
  BY TwoEnds DEF SetupInv, Connected, Past, Failed, Setup!ReadyIsConnected
<1> QED  BY <1>1, SetupInvariant, PTL

\* No acknowledgement that has arrived is overwritten by the zero that the
\* source writes into the counter after it published the port.
THEOREM AcksKept == ASSUME SetupAssumption PROVE Setup!Spec => Setup!AckKept
<1>1. ASSUME SetupInv, [Setup!Next]_(Setup!vars) 
      PROVE  \A c \in Setup!Chan : c \in setup_received => count'[c] = 1
  <2>1. SetupInv'  BY <1>1, SetupStep
  <2>2. setup_received \subseteq setup_received'
    BY <1>1 DEF Setup!Next, Setup!CoreStep, Setup!Alloc,
          Setup!PublishAddr, Setup!PublishId, Setup!Clear, Setup!Connect,
          Setup!Send, Setup!Recv, Setup!vars
  <2> QED  BY <2>1, <2>2 DEF SetupInv, Messages
<1>2. SetupInv /\ [Setup!Next]_(Setup!vars) => \A c \in Setup!Chan : c \in setup_received => count'[c] = 1
  BY <1>1
<1> QED  BY <1>2, SetupInvariant, PTL DEF Setup!Spec, Setup!AckKept

=============================================================================
