------------------------------ MODULE MCMulticore ------------------------------
(***************************************************************************)
(* What the cores of a multicore build share, one part in a behaviour.  Of *)
(* the message passing library: a queuing channel, the lock, a sampling    *)
(* channel in each of its builds, and the creation of the ports by three   *)
(* cores in a ring of channels with one channel back.  Of the devices: the *)
(* locking unit with three cores that take two locks, the scratchpad with  *)
(* compare-and-swap, and the transactional memory under three programs.    *)
(***************************************************************************)
EXTENDS QueuingPort, BakeryLock, SamplingPort, Hardlock, CasMemory, TransactionalMemory

VARIABLES
  part,
  pc, chan, addr_ok, src_addr, src_id, sink_addr, sink_id, recv_addr,
  send_recv_addr, flag, count, setup_sent, setup_received

Ring3Src  == <<"c0", "c1", "c2", "c0">>
Ring3Sink == <<"c1", "c2", "c0", "c2">>

Setup == INSTANCE PortSetup WITH
  Core <- {"c0", "c1", "c2"}, MaxChannel <- 3, AllocOk <- BOOLEAN,
  src <- [c \in 0..3 |-> Ring3Src[c + 1]], sink <- [c \in 0..3 |-> Ring3Sink[c + 1]],
  sent <- setup_sent, received <- setup_received

\* Programs of the transactional memory.  Both cores add to a word; each
\* reads what the other writes, one of them without an end; one writes more
\* than fits.
Get(a)    == Access("read", a, 0)
Put(a, v) == Access("write", a, v)

Programs ==
  { << {Get(0), Put(0, 1), Commit}, {Get(0), Put(0, 2), Commit} >>,
    << {Get(0), Put(1, 1), Commit}, {Get(1), Put(0, 1)} >>,
    << {Put(a, 0) : a \in Addresses} \cup {Commit}, {} >> }

MCScenarios == {[i \in Cores |-> p[i + 1]] : p \in Programs}

setupVars == <<pc, chan, addr_ok, src_addr, src_id, sink_addr, sink_id, recv_addr,
               send_recv_addr, flag, count, setup_sent, setup_received>>

mpVars     == <<vars, lockVars, setupVars, samplingVars>>
deviceVars == <<hlVars, casVars, tmVars>>
allVars    == <<part, mpVars, deviceVars>>

\* The choices a part leaves open at the start are fixed while another runs.
\* The scratchpads hold no zero but in one of the two cases of flag.
AllInit ==
  /\ part \in {"queue", "lock", "setup", "sampling", "hardlock", "cas", "transactions"}
  /\ Init /\ LockInit
  /\ flag \in {[c \in 0..3 |-> part = "setup"], [c \in 0..3 |-> FALSE]}
  /\ count = [c \in 0..3 |-> 1]
  /\ Setup!Init /\ SamplingInit
  /\ part # "sampling" => impl = "TRIPLE_NOC"
  /\ HlInit /\ CasInit /\ TmInit
  /\ part # "cas" => lockid = [c \in 0..1 |-> 0]
  /\ part # "transactions" => allowed[1] = {}

MessagePassing ==
  \/ part = "queue" /\ Next /\ UNCHANGED <<lockVars, setupVars, samplingVars>>
  \/ part = "lock" /\ LockNext /\ UNCHANGED <<vars, setupVars, samplingVars>>
  \/ part = "setup" /\ Setup!Next /\ UNCHANGED <<vars, lockVars, samplingVars>>
  \/ part = "sampling" /\ SamplingNext /\ UNCHANGED <<vars, lockVars, setupVars>>

Devices ==
  \/ part = "hardlock" /\ HlCycle /\ UNCHANGED <<casVars, tmVars>>
  \/ part = "cas" /\ CasNext /\ UNCHANGED <<hlVars, tmVars>>
  \/ part = "transactions" /\ Cycle /\ UNCHANGED <<hlVars, casVars>>

AllNext ==
  /\ UNCHANGED part
  /\ \/ MessagePassing /\ UNCHANGED deviceVars
     \/ Devices /\ UNCHANGED mpVars

\* A part that does not run is in its start state, where but for the creation
\* of ports and the devices, which are clocked, nothing is owed to anybody.
AllSpec ==
  /\ AllInit /\ [][AllNext]_allVars
  /\ Fairness /\ LockFairness /\ SamplingFairness
  /\ \A c \in {"c0", "c1", "c2"} : WF_setupVars(part = "setup" /\ Setup!CoreStep(c))
  /\ WF_hlVars(part = "hardlock" /\ HlCycle)
  /\ \A c \in 0..2 : WF_hlVars(part = "hardlock" /\ CoreLeaves(c))
  /\ WF_casVars(part = "cas" /\ CasNext)
  /\ \A c \in 0..1 : WF_casVars(part = "cas" /\ CoreGoes(c))
  /\ WF_tmVars(part = "transactions" /\ Cycle)

Connects ==
  [](part = "setup" => Setup!ReadyIsConnected) /\ Setup!AckKept /\ (part = "setup" ~> Setup!Ended)

\* Nobody waits for a lock for good: the bakery and the locking unit serve every
\* core, the words of the scratchpad one of those that ask.
Grants == Granted /\ EachGranted /\ SomeGranted

=============================================================================
