------------------------------ MODULE BakeryLock ------------------------------
(***************************************************************************)
(* The lock of the sampling ports: the bakery algorithm for two cores,     *)
(* each of which keeps a copy of the other's two words in its scratchpad.  *)
(* A core writes the other's copies by DMA; the memory barriers of the     *)
(* code wait for noc_dma_done, "the transfer has finished".                *)
(***************************************************************************)
EXTENDS Integers

CONSTANTS
  NumMod,       \* numbers are unsigned words
  MaxAcquires   \* a core calls acquire_lock no more than this

\* Numbers grow while both cores contend.  They do not come round.
ASSUME LockAssumption == NumMod \in Nat /\ MaxAcquires \in Nat /\ 2 * MaxAcquires < NumMod

Pair     == 0..1
Other(p) == 1 - p

VARIABLES
  place,           \* where a core is in acquire_lock and release_lock
  number,          \* local_number, and n
  remote_entering, \* the copies of the other core's words
  remote_number,
  wire,            \* the transfer in progress: which word, which value
  acquires         \* how often acquire_lock was called

lockVars == <<place, number, remote_entering, remote_number, wire, acquires>>

Free == [word |-> "none", val |-> 0]

LockInit ==
  /\ place = [p \in Pair |-> "idle"]
  /\ number = [p \in Pair |-> 0]
  /\ remote_entering = [p \in Pair |-> 0] /\ remote_number = [p \in Pair |-> 0]
  /\ wire = [p \in Pair |-> Free]
  /\ acquires = [p \in Pair |-> 0]

Goto(p, l) == place' = [place EXCEPT ![p] = l]

\* noc_dma_done, and noc_write, which waits for it first.
Done(p) == wire[p] = Free
Write(p, word, val) == Done(p) /\ wire' = [wire EXCEPT ![p] = [word |-> word, val |-> val]]

\* The network finishes a transfer.
Arrive(p) ==
  /\ ~Done(p)
  /\ remote_entering' = IF wire[p].word = "entering"
                        THEN [remote_entering EXCEPT ![Other(p)] = wire[p].val]
                        ELSE remote_entering
  /\ remote_number' = IF wire[p].word = "number"
                      THEN [remote_number EXCEPT ![Other(p)] = wire[p].val]
                      ELSE remote_number
  /\ wire' = [wire EXCEPT ![p] = Free]
  /\ UNCHANGED <<place, number, acquires>>

-----------------------------------------------------------------------------
(* acquire_lock *)

Enter(p) ==
  /\ place[p] = "idle" /\ acquires[p] < MaxAcquires
  /\ acquires' = [acquires EXCEPT ![p] = @ + 1]
  /\ Write(p, "entering", 1)
  /\ Goto(p, "entering")
  /\ UNCHANGED <<number, remote_entering, remote_number>>

\* Mutant: a number that is not higher than the other's.
SameNumber(m) == IF m = 0 THEN 1 ELSE m

NextNumber(m) == IF m + 1 = NumMod THEN 0 ELSE m + 1

TakeNumber(p) ==
  LET n == NextNumber(remote_number[p])
  IN  /\ place[p] = "entering"
      /\ number' = [number EXCEPT ![p] = n]
      /\ Write(p, "number", n)
      /\ Goto(p, "numbering")
      /\ UNCHANGED <<remote_entering, remote_number, acquires>>

\* This write is not waited for.
EndEntering(p) ==
  /\ place[p] = "numbering"
  /\ Write(p, "entering", 0)
  /\ Goto(p, "waiting")
  /\ UNCHANGED <<number, remote_entering, remote_number, acquires>>

\* A mutant: the other core may be about to take a number.
DoNotAwait(p) ==
  /\ place[p] = "waiting"
  /\ Goto(p, "queued")
  /\ UNCHANGED <<number, remote_entering, remote_number, wire, acquires>>

AwaitNumber(p) ==
  /\ place[p] = "waiting" /\ remote_entering[p] # 1
  /\ Goto(p, "queued")
  /\ UNCHANGED <<number, remote_entering, remote_number, wire, acquires>>

\* A mutant: both cores give way at a tie.
BehindOrEqual(p) == remote_number[p] # 0 /\ remote_number[p] <= number[p]

\* The other core's number m comes before that of this core.
Behind(p) ==
  LET m == remote_number[p]
      n == number[p]
  IN  m # 0 /\ (m < n \/ (m = n /\ Other(p) < p))

Grab(p) ==
  /\ place[p] = "queued" /\ ~Behind(p)
  /\ Goto(p, "holding")
  /\ UNCHANGED <<number, remote_entering, remote_number, wire, acquires>>

(* release_lock *)

LetGo(p) ==
  /\ place[p] = "holding"
  /\ number' = [number EXCEPT ![p] = 0]
  /\ Write(p, "number", 0)
  /\ Goto(p, "releasing")
  /\ UNCHANGED <<remote_entering, remote_number, acquires>>

Released(p) ==
  /\ place[p] = "releasing" /\ Done(p)
  /\ Goto(p, "idle")
  /\ UNCHANGED <<number, remote_entering, remote_number, wire, acquires>>

\* The steps of a call that is in progress.
Continue(p) ==
  \/ TakeNumber(p) \/ EndEntering(p) \/ AwaitNumber(p) \/ Grab(p)
  \/ LetGo(p) \/ Released(p)

LockNext == \E p \in Pair : Enter(p) \/ Continue(p) \/ Arrive(p)

LockSpec == LockInit /\ [][LockNext]_lockVars

\* Both cores run, a core that holds the lock releases it, and the network
\* delivers.
LockFairness == \A p \in Pair : WF_lockVars(Continue(p)) /\ WF_lockVars(Arrive(p))

LockFairSpec == LockSpec /\ LockFairness

-----------------------------------------------------------------------------
(* Properties. *)

Place  == {"idle", "entering", "numbering", "waiting", "queued", "holding", "releasing"}
Number == 0..NumMod - 1
Transfer == [word : {"none", "entering", "number"}, val : Number]

LockTypeOK ==
  /\ place \in [Pair -> Place]
  /\ number \in [Pair -> Number] /\ remote_number \in [Pair -> Number]
  /\ remote_entering \in [Pair -> 0..1]
  /\ wire \in [Pair -> Transfer]
  /\ acquires \in [Pair -> 0..MaxAcquires]

\* The lock is a lock: the cores never hold it both, although each decides
\* on copies that lag behind the other's words.
Bakery == INSTANCE Lock WITH Core <- Pair, holders <- {p \in Pair : place[p] = "holding"}
IsLock == Bakery!Spec

\* A number never exceeds the calls made so far, so that it comes round to
\* zero, which means "not in the queue", only after as many calls.
NumbersBounded == \A p \in Pair : number[p] <= acquires[0] + acquires[1]

\* A core that has queued is overtaken by nobody: a number the other core
\* takes from then on is the later one.
NoOvertaking ==
  [][\A p \in Pair :
       place[p] = "queued" /\ place[Other(p)] = "entering" /\ place'[Other(p)] = "numbering"
         => number'[Other(p)] > number[p]]_lockVars

\* acquire_lock returns.
Granted == \A p \in Pair : place[p] = "entering" ~> place[p] = "holding"

=============================================================================
