------------------------------ MODULE PortSetup ------------------------------
(***************************************************************************)
(* How the two ends of queuing channels find each other.  Every core       *)
(* creates its ports and then calls mp_init_ports, which waits, channel by *)
(* channel, until the other end has published itself in the uncached table *)
(* chan_info.  Afterwards the source of each channel sends one message.    *)
(***************************************************************************)
EXTENDS Integers, FiniteSets, FiniteSetsExt

CONSTANTS
  Core, MaxChannel,
  src, sink,        \* the source and the sink core of each channel: two cores
  AllocOk           \* may mp_alloc fail: the set of its outcomes

Chan == 0..MaxChannel

VARIABLES
  pc,               \* what a core does: see the actions
  chan,             \* and for which channel
  addr_ok,          \* did mp_alloc find room for the port being created
  src_addr, src_id, sink_addr, sink_id,    \* chan_info: what was published
  recv_addr,        \* the source's descriptor knows where to send
  send_recv_addr,   \* the sink's descriptor knows where to acknowledge
  flag,             \* the flag of the sink's first slot
  count,            \* send_recv_count in the source's scratchpad
  sent, received    \* history: channels whose message was sent, received

table == <<src_addr, src_id, sink_addr, sink_id>>
vars  == <<pc, chan, addr_ok, table, recv_addr, send_recv_addr, flag, count,
           sent, received>>

\* A mutant: a loop that leaves a channel out.
AfterNext(core, c) == {d \in Chan : core \in {src[d], sink[d]} /\ d > c + 1}

Ends(core)     == {c \in Chan : core \in {src[c], sink[c]}}
After(core, c) == {d \in Ends(core) : d > c}

\* Scratchpad memory holds anything before it is written.
Init ==
  /\ chan = [core \in Core |-> Min(Ends(core))]
  /\ pc = [core \in Core |-> "create"]
  /\ addr_ok = [core \in Core |-> TRUE]
  /\ src_addr = {} /\ src_id = {} /\ sink_addr = {} /\ sink_id = {}
  /\ recv_addr = {} /\ send_recv_addr = {}
  /\ flag \in [Chan -> BOOLEAN] /\ count \in [Chan -> 0..1]
  /\ sent = {} /\ received = {}

Goto(core, l) == pc' = [pc EXCEPT ![core] = l]

\* On to the core's next channel at l, or, after the last, to the first at last.
Onward(core, l, last) ==
  LET rest == After(core, chan[core])
  IN  /\ Goto(core, IF rest = {} THEN last ELSE l)
      /\ chan' = [chan EXCEPT ![core] = Min(IF rest = {} THEN Ends(core) ELSE rest)]

-----------------------------------------------------------------------------
(* mp_create_qport, for the port of channel chan[core]. *)

\* No room for the descriptor, or for the buffers of a source, ends the call
\* before anything is published.
Alloc(core) ==
  /\ pc[core] = "create"
  /\ \E ok \in AllocOk :
       /\ addr_ok' = [addr_ok EXCEPT ![core] = ok]
       /\ \/ ~ok /\ Goto(core, "failed")
          \/ (ok \/ sink[chan[core]] = core) /\ Goto(core, "addr")
  /\ UNCHANGED <<chan, table, recv_addr, send_recv_addr, flag, count, sent, received>>

PublishAddr(core) ==
  LET c == chan[core]
  IN  /\ pc[core] = "addr"
      /\ IF src[c] = core
         THEN src_addr' = src_addr \cup {c} /\ UNCHANGED sink_addr
         ELSE /\ sink_addr' = IF addr_ok[core] THEN sink_addr \cup {c} ELSE sink_addr
              /\ UNCHANGED src_addr
      /\ Goto(core, "id")
      /\ UNCHANGED <<chan, addr_ok, src_id, sink_id, recv_addr, send_recv_addr>>
      /\ UNCHANGED <<flag, count, sent, received>>

\* The sink looks at the result of its allocation only after this.
PublishId(core) ==
  LET c == chan[core]
  IN  /\ pc[core] = "id"
      /\ IF src[c] = core THEN src_id' = src_id \cup {c} /\ UNCHANGED sink_id
                          ELSE sink_id' = sink_id \cup {c} /\ UNCHANGED src_id
      /\ Goto(core, IF addr_ok[core] THEN "clear" ELSE "failed")
      /\ UNCHANGED <<chan, addr_ok, src_addr, sink_addr, recv_addr, send_recv_addr>>
      /\ UNCHANGED <<flag, count, sent, received>>

Clear(core) ==
  LET c == chan[core]
  IN  /\ pc[core] = "clear"
      /\ IF src[c] = core THEN count' = [count EXCEPT ![c] = 0] /\ UNCHANGED flag
                          ELSE flag' = [flag EXCEPT ![c] = FALSE] /\ UNCHANGED count
      /\ Onward(core, "create", "init")
      /\ UNCHANGED <<addr_ok, table, recv_addr, send_recv_addr, sent, received>>

-----------------------------------------------------------------------------
(* mp_init_ports, for the channels in order. *)

Connect(core) ==
  LET c == chan[core]
  IN  /\ pc[core] = "init"
      /\ IF src[c] = core
         THEN /\ c \in sink_id
              /\ recv_addr' = recv_addr \cup ({c} \cap sink_addr)
              /\ UNCHANGED send_recv_addr
         ELSE /\ c \in src_id
              /\ send_recv_addr' = send_recv_addr \cup ({c} \cap src_addr)
              /\ UNCHANGED recv_addr
      /\ Onward(core, "init", "ready")
      /\ UNCHANGED <<addr_ok, table, flag, count, sent, received>>

\* The message of a channel and its acknowledgement: mp_send and mp_recv with
\* mp_ack of QueuingPort, seen from the words they write remotely.
Send(c) ==
  /\ pc[src[c]] = "ready" /\ c \notin sent
  /\ flag' = [flag EXCEPT ![c] = TRUE]
  /\ sent' = sent \cup {c}
  /\ UNCHANGED <<pc, chan, addr_ok, table, recv_addr, send_recv_addr, count, received>>

Recv(c) ==
  /\ pc[sink[c]] = "ready" /\ flag[c]
  /\ flag' = [flag EXCEPT ![c] = FALSE] /\ count' = [count EXCEPT ![c] = 1]
  /\ received' = received \cup {c}
  /\ UNCHANGED <<pc, chan, addr_ok, table, recv_addr, send_recv_addr, sent>>

CoreStep(core) ==
  Alloc(core) \/ PublishAddr(core) \/ PublishId(core) \/ Clear(core) \/ Connect(core)

Next ==
  \/ \E core \in Core : CoreStep(core)
  \/ \E c \in Chan : Send(c) \/ Recv(c)

Spec == Init /\ [][Next]_vars

\* Every core runs its program.
FairSpec == Spec /\ \A core \in Core : WF_vars(CoreStep(core))

-----------------------------------------------------------------------------
\* When mp_init_ports has returned to a core, each of its ports knows the
\* other end: a core that sees the id of its peer also sees the address,
\* which was published before it, unless the peer's allocation failed.
ReadyIsConnected ==
  \A c \in Chan : \A core \in {src[c], sink[c]} :
    pc[core] = "ready" /\ (\A other \in {src[c], sink[c]} : pc[other] # "failed")
      => c \in IF core = src[c] THEN recv_addr ELSE send_recv_addr

\* An acknowledgement that has arrived is not overwritten by the zero the
\* source writes into send_recv_count after it published the port.
AckKept == [][\A c \in Chan : c \in received => count'[c] = 1]_vars

\* Waiting channel by channel, in the order of the table, does not deadlock:
\* every core returns from mp_init_ports, unless one of them failed.
Ended ==
  \/ \A core \in Core : pc[core] = "ready"
  \/ \E core \in Core : pc[core] = "failed"

AllReturn == <>Ended

\* A message that was sent after mp_init_ports returned 1 at the source is
\* only taken away by mp_nbrecv.
MessageKept ==
  [][\A c \in Chan : c \in sent /\ flag[c] /\ ~flag'[c] => c \in received']_vars

=============================================================================
