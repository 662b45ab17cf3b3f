------------------------------- MODULE LockProofs -------------------------------
(***************************************************************************)
(* The locks, and the sampling ports built on one.  The bakery lock is a   *)
(* lock, its numbers stay below the calls made, and nobody overtakes a     *)
(* core in the queue.  Sampling channels of every length of sample: a read *)
(* returns one whole sample, the newest when it looked, in each of the     *)
(* three builds.  The locking unit: whoever has been answered to a request *)
(* is the one core whose turn it is, and keeps the turn until it gives the *)
(* lock back.  The scratchpad with compare-and-swap: a word is 1 exactly   *)
(* while one core holds the lock that it is.                               *)
(***************************************************************************)
EXTENDS SamplingPort, BakeryLock, Hardlock, CasMemory, TLAPS

-----------------------------------------------------------------------------
(***************************************************************************)
(* The bakery lock.                                                        *)
(***************************************************************************)

\* What the other core's copies hold, at each place of a core.
Copies(p) ==
  LET q == Other(p)
      entering == wire[p].word = "entering"
      numbering == wire[p].word = "number"
  IN  /\ wire[p].word = "none" => wire[p] = Free
      /\ place[p] = "idle" =>
           Done(p) /\ number[p] = 0 /\ remote_entering[q] = 0 /\ remote_number[q] = 0
      /\ place[p] = "entering" =>
           /\ number[p] = 0 /\ remote_number[q] = 0
           /\ \/ entering /\ wire[p].val = 1
              \/ Done(p) /\ remote_entering[q] = 1
      /\ place[p] = "numbering" =>
           /\ number[p] > 0 /\ remote_entering[q] = 1
           /\ \/ numbering /\ wire[p].val = number[p]
              \/ Done(p) /\ remote_number[q] = number[p]
      /\ place[p] \in {"waiting", "queued", "holding"} =>
           /\ number[p] > 0 /\ remote_number[q] = number[p]
           /\ \/ entering /\ wire[p].val = 0
              \/ Done(p) /\ remote_entering[q] = 0
      /\ place[p] = "releasing" =>
           /\ number[p] = 0 /\ remote_entering[q] = 0
           /\ \/ numbering /\ wire[p].val = 0
              \/ Done(p) /\ remote_number[q] = 0

Before(p, q) == number[p] < number[q] \/ (number[p] = number[q] /\ p < q)

\* A core in the queue comes before one that is just taking its number, and
\* the holder before everybody with a number.
Order(p) ==
  LET q == Other(p)
  IN  /\ place[p] \in {"queued", "holding"} /\ place[q] = "numbering" => number[p] < number[q]
      /\ place[p] = "holding" /\ place[q] \in {"numbering", "waiting", "queued", "holding"}
           => Before(p, q)

\* The calls that have not taken their number yet are still to be counted.
Choosing(p) == IF place[p] = "entering" THEN 1 ELSE 0
Calls       == acquires[0] + acquires[1] - Choosing(0) - Choosing(1)
Counted     == \A p \in Pair : number[p] <= Calls /\ remote_number[p] <= Calls

LockInv == LockTypeOK /\ Counted /\ \A p \in Pair : Copies(p) /\ Order(p)

-----------------------------------------------------------------------------
(* Every step keeps the invariant. *)

LEMMA TwoCores == /\ \A p \in Pair : /\ Other(p) \in Pair /\ Other(p) # p /\ Other(Other(p)) = p
                                  /\ \A q \in Pair : q = p \/ q = Other(p)
               /\ 0 \in Pair /\ 1 \in Pair /\ Pair \subseteq Int
  BY DEF Pair, Other

LEMMA InitInv == LockInit => LockInv
<1> SUFFICES ASSUME LockInit PROVE LockInv
  OBVIOUS
<1> USE LockAssumption, TwoCores DEF LockInit
<1>1. LockTypeOK
  BY DEF LockTypeOK, Place, Number, Transfer, Free
<1>2. Counted
  BY DEF Counted, Calls, Choosing
<1>3. ASSUME NEW p \in Pair PROVE Copies(p) /\ Order(p)
  BY DEF Copies, Order, Done, Free
<1> QED
  BY <1>1, <1>2, <1>3 DEF LockInv

\* The calls so far, as numbers.
LEMMA CallsBounded ==
  ASSUME LockTypeOK
  PROVE  /\ acquires[0] \in Nat /\ acquires[1] \in Nat
         /\ acquires[0] <= MaxAcquires /\ acquires[1] <= MaxAcquires
         /\ Choosing(0) \in 0..1 /\ Choosing(1) \in 0..1
         /\ Calls \in Int /\ Calls < NumMod
  BY LockAssumption, TwoCores DEF LockTypeOK, Choosing, Calls

LEMMA EnterInv == ASSUME LockInv, NEW p \in Pair, Enter(p) PROVE LockInv'
<1> DEFINE q == Other(p)
<1> USE LockAssumption, TwoCores DEF Enter, Write, Goto
<1>1. LockTypeOK'
  BY DEF LockInv, LockTypeOK, Place, Number, Transfer
<1>2. Counted'
  <2>1. Calls' = Calls
    BY CallsBounded DEF Calls, Choosing, LockInv, LockTypeOK, Pair
  <2> QED
    BY <2>1 DEF LockInv, Counted
<1>3. Copies(p)' /\ Copies(q)'
  BY DEF LockInv, LockTypeOK, Copies, Done, Free
<1>4. Order(p)' /\ Order(q)'
  BY DEF LockInv, LockTypeOK, Order, Before
<1> QED
  BY <1>1, <1>2, <1>3, <1>4 DEF LockInv

LEMMA TakeNumberInv == ASSUME LockInv, NEW p \in Pair, TakeNumber(p) PROVE LockInv'
<1> DEFINE q == Other(p)
           n == remote_number[p] + 1
<1> USE LockAssumption, TwoCores
<1>1. Choosing(p) = 1 /\ Choosing(p)' = 0 /\ Choosing(q)' = Choosing(q)
  BY DEF TakeNumber, Goto, Choosing, LockInv, LockTypeOK
<1>2. Calls' = Calls + 1
  BY <1>1, CallsBounded DEF Calls, LockInv, TakeNumber, Pair, Choosing, Other
<1>3. remote_number[p] \in Nat /\ remote_number[p] <= Calls /\ Calls + 1 < NumMod
  <2>1. Calls + 1 <= acquires[0] + acquires[1]
    BY <1>1, CallsBounded DEF Calls, LockInv, Pair
  <2> QED
    BY <2>1, CallsBounded DEF LockInv, LockTypeOK, Number, Counted
<1>4. NextNumber(remote_number[p]) = n /\ n \in Number /\ n > 0 /\ n <= Calls'
  BY <1>2, <1>3, CallsBounded DEF NextNumber, Number, LockInv
<1>5. /\ place[p] = "entering" /\ number' = [number EXCEPT ![p] = n]
      /\ Done(p) /\ wire' = [wire EXCEPT ![p] = [word |-> "number", val |-> n]]
      /\ place' = [place EXCEPT ![p] = "numbering"]
      /\ UNCHANGED <<remote_entering, remote_number, acquires>>
  BY <1>4 DEF TakeNumber, Write, Goto
<1>6. LockTypeOK'
  BY <1>4, <1>5 DEF LockInv, LockTypeOK, Place, Transfer
<1>7. Counted'
  BY <1>2, <1>4, <1>5, CallsBounded DEF Counted, LockInv, LockTypeOK, Number
<1>8. Copies(p)' /\ Copies(q)'
  BY <1>4, <1>5 DEF LockInv, LockTypeOK, Copies, Done, Free, Number
<1>9. place[q] \in {"waiting", "queued", "holding"} => number[q] < n
  BY <1>3 DEF LockInv, Copies
<1>10. Order(p)' /\ Order(q)'
  BY <1>5, <1>9 DEF LockInv, LockTypeOK, Order, Before
<1> QED
  BY <1>6, <1>7, <1>8, <1>10 DEF LockInv

LEMMA EndEnteringInv == ASSUME LockInv, NEW p \in Pair, EndEntering(p) PROVE LockInv'
<1> DEFINE q == Other(p)
<1> USE LockAssumption, TwoCores DEF EndEntering, Write, Goto
<1>1. LockTypeOK'
  BY DEF LockInv, LockTypeOK, Place, Number, Transfer
<1>2. Counted'
  BY DEF LockInv, LockTypeOK, Counted, Calls, Choosing
<1>3. Copies(p)' /\ Copies(q)'
  BY DEF LockInv, LockTypeOK, Copies, Done, Free
<1>4. Order(p)' /\ Order(q)'
  BY DEF LockInv, LockTypeOK, Order, Before
<1> QED
  BY <1>1, <1>2, <1>3, <1>4 DEF LockInv

\* The other core is not taking a number: its copy of "entering" would be up.
LEMMA AwaitNumberInv == ASSUME LockInv, NEW p \in Pair, AwaitNumber(p) PROVE LockInv'
<1> DEFINE q == Other(p)
<1> USE LockAssumption, TwoCores DEF AwaitNumber, Goto
<1>1. LockTypeOK'
  BY DEF LockInv, LockTypeOK, Place
<1>2. Counted'
  BY DEF LockInv, LockTypeOK, Counted, Calls, Choosing
<1>3. Copies(p)' /\ Copies(q)'
  BY DEF LockInv, LockTypeOK, Copies, Done
<1>4. place[q] # "numbering"
  BY DEF LockInv, Copies
<1>5. Order(p)' /\ Order(q)'
  BY <1>4 DEF LockInv, LockTypeOK, Order, Before
<1> QED
  BY <1>1, <1>2, <1>3, <1>5 DEF LockInv

\* The other core's number, once it has arrived, is the one looked at.
LEMMA GrabInv == ASSUME LockInv, NEW p \in Pair, Grab(p) PROVE LockInv'
<1> DEFINE q == Other(p)
<1> USE LockAssumption, TwoCores DEF Grab, Goto
<1>1. LockTypeOK'
  BY DEF LockInv, LockTypeOK, Place
<1>2. Counted'
  BY DEF LockInv, LockTypeOK, Counted, Calls, Choosing
<1>3. Copies(p)' /\ Copies(q)'
  BY DEF LockInv, LockTypeOK, Copies, Done
<1>4. place[q] \in {"waiting", "queued", "holding"} => Before(p, q)
  BY DEF LockInv, LockTypeOK, Copies, Behind, Before, Number, Pair, Other
<1>5. place[q] = "numbering" => Before(p, q) /\ number[p] < number[q]
  BY DEF LockInv, Order, Before
<1>6. place[q] # "holding"
  <2> SUFFICES ASSUME place[q] = "holding" PROVE FALSE
    OBVIOUS
  <2>1. Before(p, q) /\ Before(q, p)
    BY <1>4 DEF LockInv, Order
  <2> QED
    BY <2>1 DEF Before, LockInv, LockTypeOK, Number
<1>7. Order(p)' /\ Order(q)'
  BY <1>4, <1>5, <1>6 DEF LockInv, LockTypeOK, Order, Before
<1> QED
  BY <1>1, <1>2, <1>3, <1>7 DEF LockInv

LEMMA LetGoInv == ASSUME LockInv, NEW p \in Pair, LetGo(p) PROVE LockInv'
<1> DEFINE q == Other(p)
<1> USE LockAssumption, TwoCores DEF LetGo, Write, Goto
<1>1. LockTypeOK'
  BY DEF LockInv, LockTypeOK, Place, Number, Transfer
<1>2. Counted'
  <2>1. Calls' = Calls
    BY DEF LockInv, LockTypeOK, Calls, Choosing
  <2>2. number[p] \in Nat
    BY DEF LockInv, LockTypeOK, Number
  <2> QED
    BY <2>1, <2>2, CallsBounded DEF LockInv, LockTypeOK, Counted, Number
<1>3. Copies(p)' /\ Copies(q)'
  BY DEF LockInv, LockTypeOK, Copies, Done, Free
<1>4. Order(p)' /\ Order(q)'
  BY DEF LockInv, LockTypeOK, Order, Before
<1> QED
  BY <1>1, <1>2, <1>3, <1>4 DEF LockInv

LEMMA ReleasedInv == ASSUME LockInv, NEW p \in Pair, Released(p) PROVE LockInv'
<1> DEFINE q == Other(p)
<1> USE LockAssumption, TwoCores DEF Released, Goto
<1>1. LockTypeOK'
  BY DEF LockInv, LockTypeOK, Place
<1>2. Counted'
  BY DEF LockInv, LockTypeOK, Counted, Calls, Choosing
<1>3. Copies(p)' /\ Copies(q)'
  BY DEF LockInv, LockTypeOK, Copies, Done, Free
<1>4. Order(p)' /\ Order(q)'
  BY DEF LockInv, LockTypeOK, Order, Before
<1> QED
  BY <1>1, <1>2, <1>3, <1>4 DEF LockInv

LEMMA ArriveInv == ASSUME LockInv, NEW p \in Pair, Arrive(p) PROVE LockInv'
<1> DEFINE q == Other(p)
<1> USE LockAssumption, TwoCores DEF Arrive
<1>1. wire[p] \in Transfer /\ wire[p].word \in {"entering", "number"} /\ wire[p].val \in Number
  BY DEF LockInv, LockTypeOK, Copies, Done, Transfer
<1>2. place[p] \in Place /\ place[q] \in Place
  BY DEF LockInv, LockTypeOK
<1>3. /\ wire[p].word = "entering" => wire[p].val \in 0..1
      /\ wire[p].word = "number" => wire[p].val \in {0, number[p]}
  BY <1>1, <1>2 DEF LockInv, Copies, Done, Free, Place
<1>4. LockTypeOK'
  BY <1>1, <1>3 DEF LockInv, LockTypeOK, Transfer, Free, Number
<1>5. Counted'
  <2>1. Calls' = Calls
    BY DEF Calls, Choosing
  <2>2. number[p] \in Nat /\ number[p] <= Calls /\ Calls \in Int
    BY CallsBounded DEF LockInv, LockTypeOK, Number, Counted
  <2>3. ASSUME NEW r \in Pair PROVE remote_number'[r] \in {remote_number[r], 0, number[p]}
    BY <1>3 DEF LockInv, LockTypeOK
  <2> QED
    BY <2>1, <2>2, <2>3 DEF LockInv, Counted
<1>6. Copies(p)'
  BY <1>1, <1>2, <1>3 DEF LockInv, LockTypeOK, Copies, Done, Free, Place
<1>7. Copies(q)'
  BY <1>1, <1>2 DEF LockInv, LockTypeOK, Copies, Done, Free
<1>8. Order(p)' /\ Order(q)'
  BY DEF LockInv, Order, Before
<1> QED
  BY <1>4, <1>5, <1>6, <1>7, <1>8 DEF LockInv

LEMMA StepInv == LockInv /\ [LockNext]_lockVars => LockInv'
<1> SUFFICES ASSUME LockInv, [LockNext]_lockVars PROVE LockInv'
  OBVIOUS
<1>1. CASE \E p \in Pair : Enter(p) \/ Arrive(p)
  BY <1>1, EnterInv, ArriveInv
<1>2. CASE \E p \in Pair : TakeNumber(p) \/ EndEntering(p) \/ AwaitNumber(p)
  BY <1>2, TakeNumberInv, EndEnteringInv, AwaitNumberInv
<1>3. CASE \E p \in Pair : Grab(p) \/ LetGo(p) \/ Released(p)
  BY <1>3, GrabInv, LetGoInv, ReleasedInv
<1>4. CASE UNCHANGED lockVars
  BY <1>4 DEF lockVars, LockInv, LockTypeOK, Counted, Calls, Choosing, Copies, Done, Order, Before
<1> QED
  BY <1>1, <1>2, <1>3, <1>4 DEF LockNext, Continue

\* The invariant holds in every state of the lock.
THEOREM LockInvariant == LockSpec => []LockInv
<1>1. LockInit => LockInv
  BY InitInv
<1>2. LockInv /\ [LockNext]_lockVars => LockInv'
  BY StepInv
<1> QED
  BY <1>1, <1>2, PTL DEF LockSpec

-----------------------------------------------------------------------------
(* What follows from it. *)

\* The words of the lock keep their types (lock.c).
THEOREM LockTypes == LockSpec => []LockTypeOK
<1>1. LockInv => LockTypeOK
  BY DEF LockInv
<1> QED
  BY <1>1, LockInvariant, PTL

\* A number is at most the calls of acquire_lock made so far.
THEOREM NumbersStayBounded == LockSpec => []NumbersBounded
<1>1. LockInv => NumbersBounded
  <2> SUFFICES ASSUME LockInv, NEW p \in Pair PROVE number[p] <= acquires[0] + acquires[1]
    BY DEF NumbersBounded
  <2> QED
    BY CallsBounded DEF LockInv, Counted, Calls, LockTypeOK, Number
<1> QED
  BY <1>1, LockInvariant, PTL

\* A core that takes a number while the other waits in the queue takes a
\* later one.
THEOREM QueueIsFair == LockSpec => NoOvertaking
<1>1. LockInv /\ LockInv' /\ [LockNext]_lockVars =>
        [\A p \in Pair :
           place[p] = "queued" /\ place[Other(p)] = "entering" /\ place'[Other(p)] = "numbering"
             => number'[Other(p)] > number[p]]_lockVars
  <2> SUFFICES ASSUME LockInv, LockInv', [LockNext]_lockVars, NEW p \in Pair,
                      place[p] = "queued", place[Other(p)] = "entering",
                      place'[Other(p)] = "numbering"
               PROVE  number'[Other(p)] > number[p]
    OBVIOUS
  <2>1. TakeNumber(Other(p)) /\ place'[p] = place[p]
    BY TwoCores DEF LockNext, Continue, lockVars, Enter, TakeNumber, EndEntering, AwaitNumber,
                 Grab, LetGo, Released, Arrive, Goto, LockInv, LockTypeOK
  <2>2. place'[p] = "queued" /\ Order(p)'
    BY <2>1 DEF LockInv
  <2>3. number'[p] < number'[Other(p)]
    BY <2>2 DEF Order
  <2> QED
    BY <2>1, <2>3, TwoCores, LockAssumption DEF TakeNumber, LockInv, LockTypeOK, Number
<1> QED
  BY <1>1, LockInvariant, PTL DEF NoOvertaking, LockSpec

\* The bakery lock implements the lock: the two cores never hold it both.
THEOREM BakeryIsLock == LockSpec => IsLock
<1> DEFINE holding == {p \in Pair : place[p] = "holding"}
<1>1. LockInit => Bakery!Init
  BY DEF LockInit, Bakery!Init
<1>2. LockInv /\ LockInv' /\ [LockNext]_lockVars => [Bakery!Next]_holding
  <2> SUFFICES ASSUME LockInv, LockInv', LockNext PROVE [Bakery!Next]_holding
    BY DEF lockVars
  <2> PICK p \in Pair : Enter(p) \/ Continue(p) \/ Arrive(p)
    BY DEF LockNext
  <2> USE TwoCores DEF LockInv, LockTypeOK
  <2>1. CASE Grab(p)
    <3>1. place' = [place EXCEPT ![p] = "holding"] /\ place[p] = "queued"
      BY <2>1 DEF Grab, Goto
    <3>2. place'[Other(p)] # "holding"
      BY <3>1 DEF Order, Before, Number
    <3>3. place[Other(p)] # "holding" /\ place[p] # "holding" /\ place'[p] = "holding"
      BY <3>1, <3>2
    <3>4. \A r \in Pair : r = p \/ r = Other(p)
      OBVIOUS
    <3>5. holding = {} /\ holding' = {p}
      BY ONLY <3>2, <3>3, <3>4, p \in Pair
    <3> QED
      BY <3>5 DEF Bakery!Next, Bakery!Acquire
  <2>2. CASE LetGo(p)
    <3>1. p \in holding /\ holding' = holding \ {p}
      BY <2>2 DEF LetGo, Goto
    <3> QED
      BY <3>1 DEF Bakery!Next, Bakery!Release
  <2>3. CASE Enter(p) \/ TakeNumber(p) \/ EndEntering(p) \/ AwaitNumber(p) \/ Released(p) \/ Arrive(p)
    <3>1. holding' = holding
      BY <2>3 DEF Enter, TakeNumber, EndEntering, AwaitNumber, Released, Arrive, Goto
    <3> QED
      BY <3>1
  <2> QED
    BY <2>1, <2>2, <2>3 DEF Continue
<1> QED
  BY <1>1, <1>2, LockInvariant, PTL DEF IsLock, Bakery!Spec, LockSpec


-----------------------------------------------------------------------------
(***************************************************************************)
(* The sampling ports.                                                     *)
(***************************************************************************)

\* Samples have words, the builds are the three of this model, and a reader
\* of DOUBLE_NOC_WR does not read before there is a sample.
SamplingAssumption ==
  /\ SampleWords \in Nat \ {0}
  /\ Impl \subseteq {"DOUBLE_NOC", "DOUBLE_NOC_WR", "TRIPLE_NOC"}
  /\ EarlyImpl \subseteq {"DOUBLE_NOC", "TRIPLE_NOC"}

-----------------------------------------------------------------------------
(***************************************************************************)
(* The inductive invariant.                                                *)
(***************************************************************************)

Types ==
  /\ impl \in {"DOUBLE_NOC", "DOUBLE_NOC_WR", "TRIPLE_NOC"}
  /\ holders \in SUBSET {"writer", "reader"}
  /\ wpc \in {"idle", "send", "lock", "publish", "unlock"}
  /\ rpc \in {"idle", "lock", "look", "unlock", "copy", "return"}
  /\ next \in 0..NumBufs - 1
  /\ reading \in -1..NumBufs - 1 /\ newest \in -1..NumBufs - 1 /\ chosen \in -1..NumBufs - 1
  /\ wword \in 1..SampleWords /\ rword \in 1..SampleWords
  /\ written \in Nat /\ published \in Nat /\ taken \in Nat
  /\ read_bufs \in [0..NumBufs - 1 -> [1..SampleWords -> Nat]]
  /\ sample \in [1..SampleWords -> Nat]

\* Who is where the lock is held holds it, alone.
WriterInside == wpc \in {"publish", "unlock"} \/ (UnderLock /\ wpc = "send")
ReaderInside == rpc = "look" \/ rpc = "unlock" \/ (CopiesLocked /\ rpc = "copy")

Exclusive ==
  /\ "writer" \in holders <=> WriterInside
  /\ "reader" \in holders <=> ReaderInside
  /\ ~(WriterInside /\ ReaderInside)

Full(b, n) == \A w \in 1..SampleWords : read_bufs[b][w] = n

\* The newest buffer holds the sample published last, but while
\* DOUBLE_NOC_WR overwrites it under the lock.
NewestWhole ==
  /\ newest = -1 => published = 0
  /\ newest # -1 /\ ~(UnderLock /\ wpc \in {"send", "publish"}) => Full(newest, published)

\* Where the writer writes next.
NextApart ==
  /\ wpc = "unlock" => next = newest
  /\ ~UnderLock /\ wpc # "unlock" => next # newest
  /\ impl = "TRIPLE_NOC" /\ wpc # "unlock" => next # reading
  /\ UnderLock => reading # -1
  /\ UnderLock /\ wpc \in {"send", "publish"} => next = 1 - reading

\* What the writer has sent of its sample.
Sent ==
  /\ wpc # "send" => wword = 1
  /\ wpc = "send" => \A w \in 1..wword - 1 : read_bufs[next][w] = written
  /\ wpc = "publish" \/ (wpc = "lock" /\ ~UnderLock) => Full(next, written)

\* What the reader copies, and has copied.
Copied ==
  /\ rpc \in {"unlock", "copy"} =>
       IF CopiesLocked THEN chosen = newest /\ taken = published ELSE chosen = reading
  /\ rpc = "copy" \/ (rpc = "unlock" /\ ~CopiesLocked) =>
       IF chosen = -1 THEN taken = 0 ELSE Full(chosen, taken)
  /\ rpc # "copy" => rword = 1
  /\ rpc = "copy" => \A w \in 1..rword - 1 : sample[w] = taken
  /\ rpc = "return" \/ (rpc = "unlock" /\ CopiesLocked) => \A w \in 1..SampleWords : sample[w] = taken
  /\ UnderLock /\ rpc # "idle" => newest # -1

SamplingInv == Types /\ Exclusive /\ NewestWhole /\ NextApart /\ Sent /\ Copied

-----------------------------------------------------------------------------

LEMMA BeginWriteKeeps ==
  ASSUME SamplingAssumption, SamplingInv, BeginWrite
  PROVE  SamplingInv'
<1>1. Types'
  BY DEF BeginWrite, SamplingInv, Types, NumBufs, reader, writer
<1>2. Exclusive'
  BY DEF BeginWrite, SamplingInv, Types, Exclusive, WriterInside, ReaderInside, UnderLock,
       CopiesLocked, reader, writer
<1>3. NewestWhole'
  BY DEF BeginWrite, SamplingInv, Types, NewestWhole, Full, UnderLock, reader, writer
<1>4. NextApart'
  BY DEF BeginWrite, SamplingInv, Types, NextApart, UnderLock, NumBufs, reader, writer
<1>5. Sent'
  BY DEF BeginWrite, SamplingInv, Types, Sent, Full, UnderLock, reader, writer
<1>6. Copied'
  BY DEF BeginWrite, SamplingInv, Types, Copied, Full, CopiesLocked, UnderLock, reader, writer
<1> QED BY <1>1, <1>2, <1>3, <1>4, <1>5, <1>6 DEF SamplingInv

\* One word of one buffer changes.
LEMMA WordSent ==
  ASSUME SamplingAssumption, SamplingInv, SendWord
  PROVE  /\ read_bufs' \in [0..NumBufs - 1 -> [1..SampleWords -> Nat]]
         /\ \A b \in 0..NumBufs - 1 : \A w \in 1..SampleWords :
              read_bufs'[b][w] = IF b = next /\ w = wword THEN written ELSE read_bufs[b][w]
<1>1. /\ read_bufs \in [0..NumBufs - 1 -> [1..SampleWords -> Nat]]
      /\ next \in 0..NumBufs - 1 /\ wword \in 1..SampleWords /\ written \in Nat
  BY DEF SamplingInv, Types
<1>2. read_bufs' = [read_bufs EXCEPT ![next] = [read_bufs[next] EXCEPT ![wword] = written]]
  BY DEF SendWord
<1>3. read_bufs[next] \in [1..SampleWords -> Nat]
  BY <1>1
<1>4. [read_bufs[next] EXCEPT ![wword] = written] \in [1..SampleWords -> Nat]
  BY <1>1, <1>3
<1>5. read_bufs' \in [0..NumBufs - 1 -> [1..SampleWords -> Nat]]
  BY <1>1, <1>2, <1>4
<1>6. ASSUME NEW b \in 0..NumBufs - 1, NEW w \in 1..SampleWords
      PROVE  read_bufs'[b][w] = IF b = next /\ w = wword THEN written ELSE read_bufs[b][w]
  BY <1>1, <1>2, <1>3
<1> QED BY <1>5, <1>6

LEMMA SendWordKeeps ==
  ASSUME SamplingAssumption, SamplingInv, SendWord
  PROVE  SamplingInv'
<1>1. Types'
  <2>1. wpc' \in {"idle", "send", "lock", "publish", "unlock"}
    BY DEF SendWord
  <2>2. wword' \in 1..SampleWords
    BY DEF SendWord, SamplingInv, Types, SamplingAssumption
  <2>3. read_bufs' \in [0..NumBufs' - 1 -> [1..SampleWords -> Nat]]
    BY WordSent DEF SendWord, NumBufs
  <2>4. UNCHANGED <<impl, holders, next, reading, written, published>> /\ UNCHANGED reader
    BY DEF SendWord
  <2>5. NumBufs' = NumBufs
    BY <2>4 DEF NumBufs
  <2> QED BY <2>1, <2>2, <2>3, <2>4, <2>5 DEF SamplingInv, Types, reader
<1>2. Exclusive'
  BY DEF SendWord, SamplingInv, Types, Exclusive, WriterInside, ReaderInside, UnderLock,
       CopiesLocked, reader, writer
<1>3. NewestWhole'
  BY DEF SendWord, SamplingInv, Types, NewestWhole, Full, UnderLock, reader, writer, Exclusive,
       WriterInside, ReaderInside, CopiesLocked, SamplingAssumption, NextApart
<1>4. NextApart'
  BY DEF SendWord, SamplingInv, Types, NextApart, UnderLock, NumBufs, reader, writer
<1>5. Sent'
  <2>1. wword < SampleWords =>
          /\ wpc' = "send" /\ wword' = wword + 1 /\ next' = next /\ written' = written
          /\ \A w \in 1..wword : read_bufs'[next][w] = written
    BY WordSent DEF SendWord, SamplingInv, Types, Sent
  <2>2. wword = SampleWords =>
          /\ wpc' # "send" /\ wword' = 1 /\ next' = next /\ written' = written
          /\ \A w \in 1..SampleWords : read_bufs'[next][w] = written
    <3>1. /\ next \in 0..NumBufs - 1 /\ wword \in 1..SampleWords
          /\ \A w \in 1..wword - 1 : read_bufs[next][w] = written
      BY DEF SendWord, SamplingInv, Types, Sent
    <3>2. wword = SampleWords => \A w \in 1..SampleWords : w = wword \/ w \in 1..wword - 1
      BY <3>1
    <3>3. wword = SampleWords => wpc' # "send" /\ wword' = 1 /\ next' = next /\ written' = written
      <4>1. wword = SampleWords => ~(wword < SampleWords)
        BY <3>1
      <4> QED BY <4>1 DEF SendWord
    <3> QED BY <3>1, <3>2, <3>3, WordSent
  <2>3. CASE wword < SampleWords
    BY <2>1, <2>3 DEF SamplingInv, Types, Sent
  <2>4. CASE wword = SampleWords
    BY <2>2, <2>4 DEF Sent, Full
  <2> QED BY <2>3, <2>4 DEF SamplingInv, Types, SamplingAssumption
<1>6. Copied'
  BY DEF SendWord, SamplingInv, Types, Copied, Full, CopiesLocked, UnderLock, reader, writer,
       Exclusive, WriterInside, ReaderInside, SamplingAssumption, NextApart
<1> QED BY <1>1, <1>2, <1>3, <1>4, <1>5, <1>6 DEF SamplingInv

LEMMA WriterLocksKeeps ==
  ASSUME SamplingAssumption, SamplingInv, WriterLocks
  PROVE  SamplingInv'
<1>1. Types'
  BY DEF WriterLocks, SamplingLock!Acquire, SamplingInv, Types, NumBufs, reader, writer, Exclusive,
       WriterInside, ReaderInside, UnderLock, CopiesLocked, SamplingAssumption, NextApart
<1>2. Exclusive'
  BY DEF WriterLocks, SamplingLock!Acquire, SamplingInv, Types, Exclusive, WriterInside,
       ReaderInside, UnderLock, CopiesLocked, reader, writer
<1>3. NewestWhole'
  BY DEF WriterLocks, SamplingLock!Acquire, SamplingInv, Types, NewestWhole, Full, UnderLock, reader,
       writer
<1>4. NextApart'
  BY DEF WriterLocks, SamplingLock!Acquire, SamplingInv, Types, NextApart, UnderLock, NumBufs,
       reader, writer
<1>5. Sent'
  BY DEF WriterLocks, SamplingLock!Acquire, SamplingInv, Types, Sent, Full, UnderLock, reader, writer
<1>6. Copied'
  BY DEF WriterLocks, SamplingLock!Acquire, SamplingInv, Types, Copied, Full, CopiesLocked,
       UnderLock, reader, writer
<1> QED BY <1>1, <1>2, <1>3, <1>4, <1>5, <1>6 DEF SamplingInv

LEMMA PublishKeeps ==
  ASSUME SamplingAssumption, SamplingInv, Publish
  PROVE  SamplingInv'
<1>1. Types'
  BY DEF Publish, SamplingInv, Types, NumBufs, reader, writer
<1>2. Exclusive'
  BY DEF Publish, SamplingInv, Types, Exclusive, WriterInside, ReaderInside, UnderLock,
       CopiesLocked, reader, writer
<1>3. NewestWhole'
  BY DEF Publish, SamplingAssumption, SamplingInv, Types, Exclusive, WriterInside, ReaderInside,
       NewestWhole, NextApart, Sent, Copied, Full, UnderLock, CopiesLocked, NumBufs,
       reader, writer
<1>4. NextApart'
  BY DEF Publish, SamplingInv, Types, NextApart, UnderLock, NumBufs, reader, writer
<1>5. Sent'
  BY DEF Publish, SamplingInv, Types, Sent, Full, UnderLock, reader, writer
<1>6. Copied'
  BY DEF Publish, SamplingInv, Types, Copied, Full, CopiesLocked, UnderLock, reader, writer,
       Exclusive, WriterInside, ReaderInside, SamplingAssumption, NextApart
<1> QED BY <1>1, <1>2, <1>3, <1>4, <1>5, <1>6 DEF SamplingInv

\* Three buffers: neither the newest nor the one being read.
LEMMA FreeBuffer ==
  ASSUME next \in 0..2, reading \in -1..2
  PROVE  NextFree \in 0..2 /\ NextFree # next /\ NextFree # reading
BY DEF NextFree

\* What mp_write makes of next, with the buffer it has just published in it.
LEMMA NextChosen ==
  ASSUME SamplingAssumption, SamplingInv, WriterUnlocks
  PROVE  /\ next' \in 0..NumBufs - 1
         /\ ~UnderLock => next' # newest
         /\ impl = "TRIPLE_NOC" => next' # reading
<1>1. next = newest /\ next \in 0..NumBufs - 1 /\ reading \in -1..NumBufs - 1
  BY DEF WriterUnlocks, SamplingInv, NextApart, Types
<1>2. CASE impl = "DOUBLE_NOC"
  <2>1. next' = 1 - next
    BY <1>2 DEF WriterUnlocks
  <2> QED BY <1>1, <1>2, <2>1 DEF NumBufs
<1>3. CASE impl = "DOUBLE_NOC_WR"
  <2>1. next' = next
    BY <1>3 DEF WriterUnlocks
  <2> QED BY <1>1, <1>3, <2>1 DEF NumBufs, UnderLock
<1>4. CASE impl = "TRIPLE_NOC"
  <2>1. next' = NextFree
    BY <1>4 DEF WriterUnlocks
  <2>2. next \in 0..2 /\ reading \in -1..2
    BY <1>1, <1>4 DEF NumBufs
  <2> QED BY <1>1, <1>4, <2>1, <2>2, FreeBuffer DEF NumBufs
<1> QED BY <1>2, <1>3, <1>4 DEF SamplingInv, Types

LEMMA WriterUnlocksKeeps ==
  ASSUME SamplingAssumption, SamplingInv, WriterUnlocks
  PROVE  SamplingInv'
<1>1. Types'
  BY NextChosen DEF WriterUnlocks, SamplingLock!Release, SamplingInv, Types, NumBufs, reader
<1>2. Exclusive'
  BY DEF WriterUnlocks, SamplingLock!Release, NextFree, SamplingInv, Types, Exclusive, WriterInside,
       ReaderInside, UnderLock, CopiesLocked, reader, writer
<1>3. NewestWhole'
  BY DEF WriterUnlocks, SamplingLock!Release, NextFree, SamplingInv, Types, NewestWhole, Full,
       UnderLock, reader, writer
<1>4. NextApart'
  BY NextChosen DEF WriterUnlocks, SamplingInv, NextApart, UnderLock, reader
<1>5. Sent'
  BY DEF WriterUnlocks, SamplingLock!Release, NextFree, SamplingInv, Types, Sent, Full, UnderLock,
       reader, writer
<1>6. Copied'
  BY DEF WriterUnlocks, SamplingLock!Release, NextFree, SamplingInv, Types, Copied, Full,
       CopiesLocked, UnderLock, reader, writer
<1> QED BY <1>1, <1>2, <1>3, <1>4, <1>5, <1>6 DEF SamplingInv

LEMMA BeginReadKeeps ==
  ASSUME SamplingAssumption, SamplingInv, BeginRead
  PROVE  SamplingInv'
<1>1. Types'
  BY DEF BeginRead, SamplingInv, Types, NumBufs, reader, writer
<1>2. Exclusive'
  BY DEF BeginRead, SamplingInv, Types, Exclusive, WriterInside, ReaderInside, UnderLock,
       CopiesLocked, reader, writer
<1>3. NewestWhole'
  BY DEF BeginRead, SamplingInv, Types, NewestWhole, Full, UnderLock, reader, writer
<1>4. NextApart'
  BY DEF BeginRead, SamplingInv, Types, NextApart, UnderLock, NumBufs, reader, writer
<1>5. Sent'
  BY DEF BeginRead, SamplingInv, Types, Sent, Full, UnderLock, reader, writer
<1>6. Copied'
  BY DEF BeginRead, SamplingAssumption, SamplingInv, Types, Exclusive, WriterInside,
       ReaderInside, NewestWhole, NextApart, Sent, Copied, Full, UnderLock, CopiesLocked,
       NumBufs, reader, writer
<1> QED BY <1>1, <1>2, <1>3, <1>4, <1>5, <1>6 DEF SamplingInv

LEMMA ReaderLocksKeeps ==
  ASSUME SamplingAssumption, SamplingInv, ReaderLocks
  PROVE  SamplingInv'
<1>1. Types'
  BY DEF ReaderLocks, SamplingLock!Acquire, SamplingInv, Types, NumBufs, reader, writer
<1>2. Exclusive'
  BY DEF ReaderLocks, SamplingLock!Acquire, SamplingInv, Types, Exclusive, WriterInside,
       ReaderInside, UnderLock, CopiesLocked, reader, writer
<1>3. NewestWhole'
  BY DEF ReaderLocks, SamplingLock!Acquire, SamplingInv, Types, NewestWhole, Full, UnderLock, reader,
       writer
<1>4. NextApart'
  BY DEF ReaderLocks, SamplingLock!Acquire, SamplingInv, Types, NextApart, UnderLock, NumBufs,
       reader, writer
<1>5. Sent'
  BY DEF ReaderLocks, SamplingLock!Acquire, SamplingInv, Types, Sent, Full, UnderLock, reader, writer
<1>6. Copied'
  BY DEF ReaderLocks, SamplingLock!Acquire, SamplingInv, Types, Copied, Full, CopiesLocked,
       UnderLock, reader, writer
<1> QED BY <1>1, <1>2, <1>3, <1>4, <1>5, <1>6 DEF SamplingInv

LEMMA LookKeeps ==
  ASSUME SamplingAssumption, SamplingInv, Look
  PROVE  SamplingInv'
<1>1. Types'
  BY DEF Look, SamplingInv, Types, NumBufs, reader, writer
<1>2. Exclusive'
  BY DEF Look, SamplingInv, Types, Exclusive, WriterInside, ReaderInside, UnderLock,
       CopiesLocked, reader, writer
<1>3. NewestWhole'
  BY DEF Look, SamplingInv, Types, NewestWhole, Full, UnderLock, reader, writer
<1>4. NextApart'
  BY DEF Look, SamplingAssumption, SamplingInv, Types, Exclusive, WriterInside, ReaderInside,
       NewestWhole, NextApart, Sent, Copied, Full, UnderLock, CopiesLocked, NumBufs,
       reader, writer
<1>5. Sent'
  BY DEF Look, SamplingInv, Types, Sent, Full, UnderLock, reader, writer
<1>6. Copied'
  BY DEF Look, SamplingAssumption, SamplingInv, Types, Exclusive, WriterInside, ReaderInside,
       NewestWhole, NextApart, Sent, Copied, Full, UnderLock, CopiesLocked, NumBufs,
       reader, writer
<1> QED BY <1>1, <1>2, <1>3, <1>4, <1>5, <1>6 DEF SamplingInv

LEMMA ReaderUnlocksKeeps ==
  ASSUME SamplingAssumption, SamplingInv, ReaderUnlocks
  PROVE  SamplingInv'
<1>1. Types'
  BY DEF ReaderUnlocks, SamplingLock!Release, SamplingInv, Types, NumBufs, reader, writer
<1>2. Exclusive'
  BY DEF ReaderUnlocks, SamplingLock!Release, SamplingInv, Types, Exclusive, WriterInside,
       ReaderInside, UnderLock, CopiesLocked, reader, writer
<1>3. NewestWhole'
  BY DEF ReaderUnlocks, SamplingLock!Release, SamplingInv, Types, NewestWhole, Full, UnderLock,
       reader, writer
<1>4. NextApart'
  BY DEF ReaderUnlocks, SamplingLock!Release, SamplingInv, Types, NextApart, UnderLock, NumBufs,
       reader, writer
<1>5. Sent'
  BY DEF ReaderUnlocks, SamplingLock!Release, SamplingInv, Types, Sent, Full, UnderLock, reader, writer
<1>6. Copied'
  BY DEF ReaderUnlocks, SamplingLock!Release, SamplingInv, Types, Copied, Full, CopiesLocked,
       UnderLock, reader, writer
<1> QED BY <1>1, <1>2, <1>3, <1>4, <1>5, <1>6 DEF SamplingInv

\* One word of the sample becomes that of the buffer, which is taken.
LEMMA WordCopied ==
  ASSUME SamplingAssumption, SamplingInv, CopyWord
  PROVE  /\ sample' \in [1..SampleWords -> Nat]
         /\ \A w \in 1..SampleWords : sample'[w] = IF w = rword THEN taken ELSE sample[w]
<1>1. sample \in [1..SampleWords -> Nat] /\ rword \in 1..SampleWords /\ taken \in Nat
  BY DEF SamplingInv, Types
<1>2. (IF chosen = -1 THEN 0 ELSE read_bufs[chosen][rword]) = taken
  BY <1>1 DEF CopyWord, SamplingInv, Copied, Full
<1>3. sample' = [sample EXCEPT ![rword] = taken]
  BY <1>2 DEF CopyWord
<1> QED BY <1>1, <1>3

LEMMA CopyWordKeeps ==
  ASSUME SamplingAssumption, SamplingInv, CopyWord
  PROVE  SamplingInv'
<1>1. Types'
  <2>1. rpc' \in {"idle", "lock", "look", "unlock", "copy", "return"}
    BY DEF CopyWord
  <2>2. rword' \in 1..SampleWords
    BY DEF CopyWord, SamplingInv, Types, SamplingAssumption
  <2>3. UNCHANGED <<impl, holders, newest, chosen, taken, read_bufs>> /\ UNCHANGED writer
    BY DEF CopyWord
  <2>4. NumBufs' = NumBufs
    BY <2>3 DEF NumBufs
  <2> QED BY <2>1, <2>2, <2>3, <2>4, WordCopied DEF SamplingInv, Types, writer
<1>2. Exclusive'
  BY DEF CopyWord, SamplingInv, Types, Exclusive, WriterInside, ReaderInside, UnderLock,
       CopiesLocked, reader, writer
<1>3. NewestWhole'
  BY DEF CopyWord, SamplingInv, Types, NewestWhole, Full, UnderLock, reader, writer
<1>4. NextApart'
  BY DEF CopyWord, SamplingInv, Types, NextApart, UnderLock, NumBufs, reader, writer
<1>5. Sent'
  BY DEF CopyWord, SamplingInv, Types, Sent, Full, UnderLock, reader, writer
<1>6. Copied'
  <2>1. /\ UNCHANGED <<impl, chosen, newest, published, reading, taken, read_bufs>>
        /\ rword \in 1..SampleWords /\ SampleWords \in Nat
    BY DEF CopyWord, SamplingInv, Types, SamplingAssumption, writer
  <2>2. CASE rword < SampleWords
    <3>1. rpc' = "copy" /\ rword' = rword + 1
      BY <2>1, <2>2 DEF CopyWord
    <3>2. \A w \in 1..rword : sample'[w] = taken
      BY <2>1, WordCopied DEF CopyWord, SamplingInv, Copied
    <3> QED BY <2>1, <3>1, <3>2 DEF CopyWord, SamplingInv, Copied, Full, UnderLock, CopiesLocked
  <2>3. CASE rword = SampleWords
    <3>1. rpc' = (IF CopiesLocked THEN "unlock" ELSE "return") /\ rword' = 1
      BY <2>1, <2>3 DEF CopyWord
    <3>2. \A w \in 1..SampleWords : sample'[w] = taken
      BY <2>1, <2>3, WordCopied DEF CopyWord, SamplingInv, Copied
    <3> QED BY <2>1, <3>1, <3>2 DEF CopyWord, SamplingInv, Copied, Full, UnderLock, CopiesLocked
  <2> QED BY <2>1, <2>2, <2>3
<1> QED BY <1>1, <1>2, <1>3, <1>4, <1>5, <1>6 DEF SamplingInv

LEMMA ReturnKeeps ==
  ASSUME SamplingAssumption, SamplingInv, Return
  PROVE  SamplingInv'
<1>1. Types'
  BY DEF Return, SamplingInv, Types, NumBufs, reader, writer
<1>2. Exclusive'
  BY DEF Return, SamplingInv, Types, Exclusive, WriterInside, ReaderInside, UnderLock,
       CopiesLocked, reader, writer
<1>3. NewestWhole'
  BY DEF Return, SamplingInv, Types, NewestWhole, Full, UnderLock, reader, writer
<1>4. NextApart'
  BY DEF Return, SamplingInv, Types, NextApart, UnderLock, NumBufs, reader, writer
<1>5. Sent'
  BY DEF Return, SamplingInv, Types, Sent, Full, UnderLock, reader, writer
<1>6. Copied'
  BY DEF Return, SamplingInv, Types, Copied, Full, CopiesLocked, UnderLock, reader, writer
<1> QED BY <1>1, <1>2, <1>3, <1>4, <1>5, <1>6 DEF SamplingInv

-----------------------------------------------------------------------------

LEMMA InitSamplingInv == SamplingAssumption /\ SamplingInit => SamplingInv
<1> SUFFICES ASSUME SamplingAssumption, SamplingInit PROVE SamplingInv
  OBVIOUS
<1>1. impl \in {"DOUBLE_NOC", "DOUBLE_NOC_WR", "TRIPLE_NOC"} /\ NumBufs \in {2, 3}
  BY DEF SamplingInit, SamplingAssumption, NumBufs
<1>2. Types
  BY <1>1 DEF SamplingInit, Types, SamplingAssumption
<1>3. Exclusive
  BY DEF SamplingInit, Exclusive, WriterInside, ReaderInside
<1>4. NewestWhole
  BY DEF SamplingInit, NewestWhole
<1>5. NextApart
  BY DEF SamplingInit, NextApart, UnderLock
<1>6. Sent /\ Copied
  BY DEF SamplingInit, Sent, Copied
<1> QED BY <1>2, <1>3, <1>4, <1>5, <1>6 DEF SamplingInv

LEMMA StepSamplingInv == SamplingAssumption /\ SamplingInv /\ [SamplingNext]_samplingVars => SamplingInv'
<1> SUFFICES ASSUME SamplingAssumption, SamplingInv, [SamplingNext]_samplingVars PROVE SamplingInv'
  OBVIOUS
<1>1. CASE BeginWrite
  BY <1>1, BeginWriteKeeps
<1>2. CASE SendWord
  BY <1>2, SendWordKeeps
<1>3. CASE WriterLocks
  BY <1>3, WriterLocksKeeps
<1>4. CASE Publish
  BY <1>4, PublishKeeps
<1>5. CASE WriterUnlocks
  BY <1>5, WriterUnlocksKeeps
<1>6. CASE BeginRead
  BY <1>6, BeginReadKeeps
<1>7. CASE ReaderLocks
  BY <1>7, ReaderLocksKeeps
<1>8. CASE Look
  BY <1>8, LookKeeps
<1>9. CASE ReaderUnlocks
  BY <1>9, ReaderUnlocksKeeps
<1>10. CASE CopyWord
  BY <1>10, CopyWordKeeps
<1>11. CASE Return
  BY <1>11, ReturnKeeps
<1>12. CASE UNCHANGED samplingVars
  BY <1>12 DEF samplingVars, writer, reader, SamplingInv, Types, Exclusive, WriterInside, ReaderInside,
       NewestWhole,
       NextApart, Sent, Copied, Full, UnderLock, CopiesLocked, NumBufs
<1> QED BY <1>1, <1>2, <1>3, <1>4, <1>5, <1>6, <1>7, <1>8, <1>9, <1>10, <1>11,
       <1>12 DEF SamplingNext, Sends, Receives

LEMMA SamplingInvariance == ASSUME SamplingAssumption PROVE SamplingSpec => []SamplingInv
BY InitSamplingInv, StepSamplingInv, PTL DEF SamplingSpec

-----------------------------------------------------------------------------

\* Every read returns one whole sample, the newest at the time it looked.
THEOREM ReadsWholeNewest == ASSUME SamplingAssumption PROVE SamplingSpec => []ReadsNewest
<1>1. SamplingInv => ReadsNewest
  BY DEF SamplingInv, Copied, ReadsNewest
<1> QED BY <1>1, SamplingInvariance, PTL

\* Writer and reader are never in one buffer.
THEOREM NeverInOneBuffer == ASSUME SamplingAssumption PROVE SamplingSpec => []ApartFromReader
<1>1. ASSUME SamplingInv PROVE ApartFromReader
  BY <1>1 DEF SamplingInv, Types, Exclusive, WriterInside, ReaderInside, NextApart, Copied,
       ApartFromReader,
       UnderLock, CopiesLocked, NumBufs
<1> QED BY <1>1, SamplingInvariance, PTL

-----------------------------------------------------------------------------
(***************************************************************************)
(* The locks that are devices.                                             *)
(***************************************************************************)
-----------------------------------------------------------------------------
(* The locking unit. *)
HardlockAssumption == HlCoreCnt \in Nat /\ LckCnt \in Nat

\* A core that had a lock is still in the queue and has the turn.
KeepsTurn == \A c \in Core : \A l \in held[c] : l \in Lck /\ queueReg[l][c] /\ curReg[l] = c

\* A core that asks for a lock is in the queue and did not have the lock.
InQueue ==
  \A c \in Core : reqReg[c] /\ asked[c].op = "lock" =>
    /\ asked[c].sel \in Lck \ held[c]
    /\ queueReg[asked[c].sel][c]

HlInv == KeepsTurn /\ InQueue

LEMMA CommandKinds ==
  \A k \in Commands : /\ k.op \in {"none", "lock", "unlock"}
                      /\ k.op # "none" => k.sel \in Lck
                      /\ k.op = "none" => k = NoCommand
  BY DEF Commands, NoCommand, Lock, Unlock

\* The answer comes to the core whose turn it is.
LEMMA HoldsTurn ==
  ASSUME HlInv, NEW c \in Core, NEW l \in Holds(c)
  PROVE  l \in Lck /\ queueReg[l][c] /\ curReg[l] = c
  BY DEF HlInv, KeepsTurn, InQueue, Holds, Responds, Blck

\* The encoder stays where a core in the queue has the turn.
LEMMA EncoderStays ==
  ASSUME HardlockAssumption, NEW l \in Lck, NEW c \in Core, queueReg[l][c], curReg[l] = c
  PROVE  Encoder(l) = c
<1> DEFINE hi == {d \in Core : queueReg[l][d] /\ curReg[l] <= d}
<1>1. Core \subseteq Int
  BY DEF Core, HardlockAssumption
<1>2. c \in hi /\ \A d \in hi : c <= d /\ d \in Int
  <2>1. c \in Int /\ c <= c
    BY <1>1
  <2>2. \A d \in hi : d \in Int /\ curReg[l] <= d
    BY <1>1
  <2> QED BY <2>1, <2>2
<1>3. \A d \in hi : (\A e \in hi : d <= e) => d = c
  BY <1>2, <1>1
<1>4. Least(hi) = c
  BY ONLY <1>2, <1>3 DEF Least
<1> HIDE DEF hi
<1>5. hi # {}
  BY <1>2
<1> QED
  BY <1>4, <1>5 DEF Encoder, hi

LEMMA HlInitInv == HlInit => HlInv
  BY DEF HlInit, HlInv, KeepsTurn, InQueue

-----------------------------------------------------------------------------
(* A cycle keeps the invariant. *)

\* What a core had or got, and does not give back, it goes on to have.
LEMMA TurnKept ==
  ASSUME HardlockAssumption, HlInv, NEW command \in [Core -> Commands], Issues(command)
  PROVE  KeepsTurn'
<1> SUFFICES ASSUME NEW c \in Core, NEW l \in held'[c]
             PROVE  l \in Lck /\ queueReg'[l][c] /\ curReg'[l] = c
  BY DEF KeepsTurn
<1>1. l \in Holds(c) /\ l \notin Leaves(command[c])
  BY DEF Issues
<1>2. l \in Lck /\ queueReg[l][c] /\ curReg[l] = c
  BY <1>1, HoldsTurn
<1>3. curReg'[l] = c
  BY <1>2, EncoderStays DEF Issues, Unit
<1>4. ~(command[c].op = "unlock" /\ command[c].sel = l)
  BY <1>1 DEF Leaves
<1>5. command[c].op \in {"none", "lock", "unlock"}
  BY CommandKinds
<1>6. queueReg'[l][c]
  BY <1>2, <1>4, <1>5 DEF Issues, Unit
<1> QED
  BY <1>2, <1>3, <1>6

LEMMA QueueKept ==
  ASSUME HardlockAssumption, HlInv, NEW command \in [Core -> Commands], Issues(command)
  PROVE  InQueue'
<1> SUFFICES ASSUME NEW c \in Core, reqReg'[c], asked'[c].op = "lock"
             PROVE  asked'[c].sel \in Lck \ held'[c] /\ queueReg'[asked'[c].sel][c]
  BY DEF InQueue
<1> DEFINE k == command[c]
<1>1. k \in Commands /\ k.op \in {"none", "lock", "unlock"} /\ (k.op # "none" => k.sel \in Lck)
      /\ (k.op = "none" => k = NoCommand) /\ NoCommand.op = "none"
  BY CommandKinds DEF NoCommand
<1>2. held'[c] = Holds(c) \ Leaves(k) /\ MayAsk(c, k)
      /\ asked'[c] = (IF k = NoCommand THEN asked[c] ELSE k)
      /\ (reqReg'[c] <=> k.op # "none" \/ (reqReg[c] /\ ~Responds(c)))
      /\ \A l \in Lck : queueReg'[l][c] =
           (IF k.op # "none" /\ k.sel = l THEN k.op = "lock" ELSE queueReg[l][c])
  BY DEF Issues, Unit
<1> HIDE DEF k
<1>3. CASE k = NoCommand
  <2>1. reqReg[c] /\ ~Responds(c) /\ asked'[c] = asked[c] /\ asked[c].op = "lock"
    BY <1>1, <1>2, <1>3
  <2>2. Holds(c) = held[c]
    BY <2>1 DEF Holds
  <2>3. asked[c].sel \in Lck \ held[c] /\ queueReg[asked[c].sel][c]
    BY <2>1 DEF HlInv, InQueue
  <2> QED
    BY <2>1, <2>2, <2>3, <1>1, <1>2, <1>3
<1>4. CASE k # NoCommand
  <2>1. asked'[c] = k /\ k.op = "lock" /\ k.sel \in Lck
    BY <1>1, <1>2, <1>4
  <2>2. \A l \in Holds(c) : l < k.sel
    BY <1>2, <1>4, <2>1 DEF MayAsk
  <2>3. Lck \subseteq Int
    BY DEF Lck, HardlockAssumption
  <2>4. k.sel \notin held'[c]
    BY <1>2, <2>1, <2>2, <2>3
  <2> QED
    BY <1>2, <2>1, <2>4
<1> QED
  BY <1>3, <1>4

LEMMA HlStepInv == ASSUME HardlockAssumption, HlInv, HlCycle PROVE HlInv'
<1> PICK command \in [Core -> Commands] : Issues(command)
  BY DEF HlCycle
<1> QED
  BY TurnKept, QueueKept DEF HlInv

LEMMA HlInvariant == ASSUME HardlockAssumption PROVE HlSpec => []HlInv
<1>1. HlInv /\ [HlCycle]_hlVars => HlInv'
  <2>1. CASE UNCHANGED hlVars
    BY <2>1 DEF HlInv, KeepsTurn, InQueue, hlVars
  <2> QED
    BY <2>1, HlStepInv
<1> QED
  BY <1>1, HlInitInv, PTL DEF HlSpec

-----------------------------------------------------------------------------
(* At most one core has the lock. *)

LEMMA OneHolder == HlInv => \A c, d \in Holders : c = d
  BY HoldsTurn DEF Holders

LEMMA OneHolderNext == HlInv' => \A c, d \in Holders' : c = d
<1> SUFFICES ASSUME HlInv', NEW c \in Core, HlLock \in Holds(c)' PROVE curReg'[HlLock] = c
  BY DEF Holders
<1> QED
  BY DEF HlInv, KeepsTurn, InQueue, Holds, Responds, Blck

\* A core that has the lock does not lose it to another one.
LEMMA HandedOver ==
  ASSUME HardlockAssumption, HlInv, HlCycle
  PROVE  \A c \in Holders : \A d \in Holders' : c = d
<1> SUFFICES ASSUME NEW c \in Holders, NEW d \in Holders' PROVE c = d
  OBVIOUS
<1>1. c \in Core /\ d \in Core /\ HlLock \in Holds(c) /\ HlLock \in Holds(d)'
  BY DEF Holders
<1>2. HlLock \in Lck /\ queueReg[HlLock][c] /\ curReg[HlLock] = c
  BY <1>1, HoldsTurn
<1>3. curReg'[HlLock] = c
  BY <1>2, <1>1, EncoderStays DEF HlCycle, Issues, Unit
<1>4. HlInv'
  BY HlStepInv
<1>5. curReg'[HlLock] = d
  BY <1>1, <1>4 DEF HlInv, KeepsTurn, InQueue, Holds, Responds, Blck
<1> QED
  BY <1>3, <1>5

\* The locking unit implements the plain lock, for any number of cores and
\* locks: a core is answered only when no other has the lock (Hardlock.scala,
\* blocks and curReg).
THEOREM HardlockIsLock == ASSUME HardlockAssumption PROVE HlSpec => IsUnitLock
<1>1. HlInit => Mutex!Init
  BY DEF HlInit, Mutex!Init, Holders, Holds, Responds
<1>2. HlInv /\ [HlCycle]_hlVars => [Mutex!Next]_Holders
  <2>1. CASE UNCHANGED hlVars
    BY <2>1 DEF hlVars, Holders, Holds, Responds, Blck
  <2>2. ASSUME HlInv, HlCycle PROVE [Mutex!Next]_Holders
    <3>1. \A c, d \in Holders : c = d
      BY <2>2, OneHolder
    <3>2. \A c, d \in Holders' : c = d
      BY <2>2, HlStepInv, OneHolderNext
    <3>3. \A c \in Holders : \A d \in Holders' : c = d
      BY <2>2, HandedOver
    <3>4. Holders \subseteq Core /\ Holders' \subseteq Core
      BY DEF Holders
    <3>5. CASE Holders = {} /\ Holders' # {}
      <4> PICK c \in Holders' : TRUE
        BY <3>5
      <4>1. Holders' = {c}
        BY <3>2
      <4> QED
        BY <3>4, <3>5, <4>1 DEF Mutex!Next, Mutex!Acquire
    <3>6. CASE Holders # {} /\ Holders' = {}
      <4> PICK c \in Holders : TRUE
        BY <3>6
      <4>1. Holders' = Holders \ {c}
        BY <3>1, <3>6
      <4> QED
        BY <3>4, <4>1 DEF Mutex!Next, Mutex!Release
    <3>7. CASE Holders # {} /\ Holders' # {}
      BY <3>1, <3>2, <3>3, <3>7
    <3> QED
      BY <3>5, <3>6, <3>7
  <2> QED
    BY <2>1, <2>2
<1> QED
  BY <1>1, <1>2, HlInvariant, PTL DEF HlSpec, IsUnitLock, Mutex!Spec

-----------------------------------------------------------------------------
(***************************************************************************)
(* The scratchpad with compare-and-swap.                                   *)
(***************************************************************************)
CasAssumption == CasCoreCnt \in Nat \ {0}

CasTyped ==
  /\ precnt \in 0 .. 2 /\ cnt \in CasCore
  /\ waiting \in [CasCore -> BOOLEAN] /\ respReg \in [CasCore -> BOOLEAN]
  /\ step \in [CasCore -> {"free", "lockNew", "take", "held", "unlockNew", "give"}]
  /\ lockid \in [CasCore -> LockIds] /\ addrRegs \in [CasCore -> LockIds]
  /\ spm \in [LockIds -> {0, 1}] /\ spmRdAddr \in LockIds

\* What a core has under way: nothing; a register; or a read, which waits for
\* its slot, is compared in the second cycle of it and answered in the third.
Quiet(c)     == ~waiting[c] /\ states[c] = "idle" /\ cmdRegs[c] = "RD"
Setting(c)   == /\ waiting[c] /\ respReg[c] /\ states[c] = "idle" /\ cmdRegs[c] = "RD"
                /\ step[c] \notin {"take", "give"}
Swapping(c)  == waiting[c] /\ step[c] \in {"take", "give"} /\ addrRegs[c] = lockid[c]
InSlot(c, n) == precnt = n /\ cnt = c /\ spmRdAddr = lockid[c]
Queued(c)    == Swapping(c) /\ ~respReg[c] /\ states[c] = "read" /\ cmdRegs[c] = "RD"
Compared(c)  == /\ Swapping(c) /\ ~respReg[c] /\ states[c] = "write" /\ cmdRegs[c] = "RD"
                /\ InSlot(c, 1)
Swapped(c)   == /\ Swapping(c) /\ respReg[c] /\ states[c] = "idle"
                /\ InSlot(c, 2)
                /\ cmdRegs[c] = IF Data = expvalRegs[c] THEN "WR" ELSE "RD"

Stage(c) == Quiet(c) \/ Setting(c) \/ Queued(c) \/ Compared(c) \/ Swapped(c)

\* The words left at the device belong to the step of the program.
Operands(c) ==
  /\ step[c] \in {"lockNew", "take"} \/ (step[c] = "free" /\ waiting[c]) => expvalRegs[c] = 0
  /\ step[c] = "take" \/ (step[c] = "lockNew" /\ waiting[c]) => newvalRegs[c] = 1
  /\ step[c] \in {"unlockNew", "give"} \/ (step[c] = "held" /\ waiting[c]) => expvalRegs[c] = 1
  /\ step[c] = "give" \/ (step[c] = "unlockNew" /\ waiting[c]) => newvalRegs[c] = 0

\* Who holds which lock, and what its word says.
HoldsWord(c, l) == step[c] \in {"held", "unlockNew", "give"} /\ lockid[c] = l

WordsTell ==
  \A l \in LockIds :
    /\ spm[l] = 0 => \A c \in CasCore : ~HoldsWord(c, l)
    /\ spm[l] = 1 => \E c \in CasCore : HoldsWord(c, l) /\ \A d \in CasCore : HoldsWord(d, l) => d = c

CasInv == CasTyped /\ (\A c \in CasCore : Stage(c) /\ Operands(c)) /\ WordsTell

\* The cores with a step of their own begin, and the rest goes on.
LEMMA CasCores ==
  ASSUME CasInv, NEW going \in SUBSET {c \in CasCore : MayGo(c)}, CasCycle(going),
         NEW c \in CasCore
  PROVE  /\ CasCore = CasCore /\ c \in CasCore
         /\ c \in going => Quiet(c) \/ Setting(c) \/ Swapped(c)
         /\ waiting'[c] = (c \in going \/ (waiting[c] /\ ~respReg[c]))
         /\ step'[c] = Step(c) /\ Step(c) = IF waiting[c] /\ respReg[c] THEN After(c) ELSE step[c]
         /\ (step[c] # "give" \/ step'[c] # "free") => lockid'[c] = lockid[c]
         /\ c \notin going =>
              /\ addrRegs'[c] = addrRegs[c]
              /\ expvalRegs'[c] = expvalRegs[c] /\ newvalRegs'[c] = newvalRegs[c]
              /\ respReg'[c] = (states[c] = "write")
              /\ states[c] = "idle" => states'[c] = "idle"
         /\ states[c] = "read" =>
              states'[c] = IF cnt = c /\ precnt = 0 THEN "write" ELSE "read"
         /\ states[c] = "write" => states'[c] = "idle"
         /\ cmdRegs'[c] = IF states[c] = "write" /\ Data = expvalRegs[c] THEN "WR" ELSE "RD"
<1>1. CasCore = CasCore  BY DEF CasCore, CasCore
<1>2. c \in going => Quiet(c) \/ Setting(c) \/ Swapped(c)
  BY DEF CasInv, Stage, Setting, Swapping, Queued, Compared, Swapped, MayGo
<1> QED
  BY <1>1, <1>2 DEF CasCycle, Device, Command, Step

\* What a core sends when it begins, with the step it has come to.
LEMMA CasBegins ==
  ASSUME CasInv, NEW going \in SUBSET {c \in CasCore : MayGo(c)}, CasCycle(going),
         NEW c \in going
  PROVE  Stage(c)' /\ Operands(c)'
<1> DEFINE s == Step(c)
           a == Accesses(s, lockid[c])
<1>1. /\ c \in CasCore /\ Operands(c)
      /\ Quiet(c) \/ Setting(c) \/ Swapped(c)
      /\ step[c] \in {"free", "lockNew", "take", "held", "unlockNew", "give"}
      /\ s = IF waiting[c] /\ respReg[c] THEN After(c) ELSE step[c]
  BY CasCores DEF CasInv, CasTyped
<1>2. states[c] = "idle"  BY <1>1 DEF Quiet, Setting, Swapped
<1>3. /\ waiting'[c] /\ step'[c] = s /\ cmdRegs'[c] = "RD"
      /\ (step[c] # "give" \/ s # "free") => lockid'[c] = lockid[c]
  BY <1>1, <1>2, CasCores
<1>4. /\ states'[c] = IF a.cmd = "read" THEN "read" ELSE "idle"
      /\ respReg'[c] = (a.cmd \in {"expect", "new"})
      /\ addrRegs'[c] = IF a.cmd = "read" THEN a.arg ELSE addrRegs[c]
      /\ expvalRegs'[c] = IF a.cmd = "expect" THEN a.arg ELSE expvalRegs[c]
      /\ newvalRegs'[c] = IF a.cmd = "new" THEN a.arg ELSE newvalRegs[c]
  BY <1>1, <1>2 DEF CasCycle, Device
\* The words left so far are those of the step it has come to.
<1>5. /\ s \in {"free", "lockNew", "take", "held", "unlockNew", "give"}
      /\ s \in {"lockNew", "take"} => expvalRegs[c] = 0
      /\ s = "take" => newvalRegs[c] = 1
      /\ s \in {"unlockNew", "give"} => expvalRegs[c] = 1
      /\ s = "give" => newvalRegs[c] = 0
  <2>1. CASE Quiet(c)
    BY <1>1, <2>1 DEF Quiet, Operands
  <2>2. CASE Setting(c)
    BY <1>1, <2>2 DEF Setting, Operands, After
  <2>3. CASE Swapped(c)
    BY <1>1, <2>3 DEF Swapped, Swapping, Operands, After
  <2> QED  BY <1>1, <2>1, <2>2, <2>3
<1>6. /\ s \in {"take", "give"} => a.cmd = "read" /\ a.arg = lockid[c]
      /\ s = "free" => a.cmd = "expect" /\ a.arg = 0
      /\ s = "lockNew" => a.cmd = "new" /\ a.arg = 1
      /\ s = "held" => a.cmd = "expect" /\ a.arg = 1
      /\ s = "unlockNew" => a.cmd = "new" /\ a.arg = 0
  BY DEF Accesses, Command
<1> HIDE DEF s, a
<1>7. Operands(c)'
  BY <1>3, <1>4, <1>5, <1>6 DEF Operands
<1>8. CASE s \in {"take", "give"}
  <2>1. lockid'[c] = lockid[c] /\ a.cmd = "read" /\ a.arg = lockid[c]  BY <1>3, <1>6, <1>8
  <2>2. states'[c] = "read" /\ addrRegs'[c] = lockid'[c]  BY <1>4, <2>1
  <2>3. ~(a.cmd \in {"expect", "new"})  BY <2>1
  <2>4. ~respReg'[c]  BY <1>4, <2>3
  <2>5. step'[c] \in {"take", "give"}  BY <1>3, <1>8
  <2>6. Queued(c)'  BY <1>3, <2>2, <2>4, <2>5 DEF Queued, Swapping
  <2> QED  BY <1>7, <2>6 DEF Stage
<1>9. CASE s \in {"free", "lockNew", "held", "unlockNew"}
  <2>1. a.cmd \in {"expect", "new"}  BY <1>6, <1>9
  <2>2. states'[c] = "idle"  BY <1>4, <2>1
  <2>3. respReg'[c]  BY <1>4, <2>1
  <2>4. step'[c] \notin {"take", "give"}  BY <1>3, <1>9
  <2>5. Setting(c)'  BY <1>3, <2>2, <2>3, <2>4 DEF Setting
  <2> QED  BY <1>7, <2>5 DEF Stage
<1> QED  BY <1>5, <1>7, <1>8, <1>9

\* The answer to a core that waits.
LEMMA CasGoesOn ==
  ASSUME CasInv, NEW going \in SUBSET {c \in CasCore : MayGo(c)}, CasCycle(going),
         NEW c \in CasCore, c \notin going
  PROVE  Stage(c)' /\ Operands(c)'
<1>1. /\ c \in CasCore /\ Stage(c) /\ Operands(c)
      /\ waiting'[c] = (waiting[c] /\ ~respReg[c])
      /\ step'[c] = IF waiting[c] /\ respReg[c] THEN After(c) ELSE step[c]
      /\ (step[c] # "give" \/ step'[c] # "free") => lockid'[c] = lockid[c]
      /\ addrRegs'[c] = addrRegs[c]
      /\ expvalRegs'[c] = expvalRegs[c] /\ newvalRegs'[c] = newvalRegs[c]
      /\ respReg'[c] = (states[c] = "write")
      /\ states[c] = "idle" => states'[c] = "idle"
      /\ states[c] = "read" =>
           states'[c] = IF cnt = c /\ precnt = 0 THEN "write" ELSE "read"
      /\ states[c] = "write" => states'[c] = "idle"
      /\ cmdRegs'[c] = IF states[c] = "write" /\ Data = expvalRegs[c] THEN "WR" ELSE "RD"
  BY CasCores DEF CasInv
<1>2. step[c] \in {"free", "lockNew", "take", "held", "unlockNew", "give"}
  BY DEF CasInv, CasTyped
<1>3. CASE Quiet(c)
  BY <1>1, <1>3 DEF Quiet, Stage, Operands
<1>4. CASE Setting(c)
  <2>1. step'[c] = After(c) /\ ~waiting'[c] /\ Quiet(c)'
    BY <1>1, <1>4 DEF Setting, Quiet
  <2> QED
    BY <1>1, <1>2, <1>4, <2>1 DEF After, Setting, Stage, Operands
<1>5. CASE Queued(c)
  <2>1. /\ waiting'[c] /\ step'[c] = step[c] /\ lockid'[c] = lockid[c] /\ ~respReg'[c]
        /\ cmdRegs'[c] = "RD"
    BY <1>1, <1>5 DEF Queued, Swapping
  <2>2. Operands(c)'
    BY <1>1, <1>5, <2>1 DEF Operands, Queued, Swapping
  <2>3. CASE cnt = c /\ precnt = 0
    <3>1. precnt' = 1 /\ cnt' = c /\ spmRdAddr' = lockid[c]
      BY <1>5, <2>3 DEF CasCycle, Device, TimeSlot, CntMax, Scratchpad,
         Queued, Swapping
    <3>2. Compared(c)'
      BY <1>1, <1>5, <2>1, <2>3, <3>1 DEF Compared, Queued, Swapping, InSlot
    <3> QED  BY <2>2, <3>2 DEF Stage
  <2>4. CASE ~(cnt = c /\ precnt = 0)
    <3>1. Queued(c)'
      BY <1>1, <1>5, <2>1, <2>4 DEF Queued, Swapping
    <3> QED  BY <2>2, <3>1 DEF Stage
  <2> QED  BY <2>3, <2>4
<1>6. CASE Compared(c)
  <2>1. waiting'[c] /\ step'[c] = step[c] /\ lockid'[c] = lockid[c] /\ respReg'[c]
    BY <1>1, <1>6 DEF Compared, Swapping
  <2>2. Operands(c)'
    BY <1>1, <1>6, <2>1 DEF Operands, Compared, Swapping
  <2>3. precnt' = 2 /\ cnt' = c /\ spmRdAddr' = lockid[c] /\ spm' = spm
    BY <1>6 DEF CasCycle, Device, TimeSlot, CntMax, Scratchpad,
       Compared, Swapping, InSlot
  <2>4. Data' = Data
    BY <1>6, <2>3 DEF Data, Compared, InSlot
  <2>5. Swapped(c)'
    BY <1>1, <1>6, <2>1, <2>3, <2>4 DEF Swapped, Compared, Swapping, InSlot
  <2> QED  BY <2>2, <2>5 DEF Stage
<1>7. CASE Swapped(c)
  <2>1. step'[c] = After(c) /\ ~waiting'[c] /\ Quiet(c)'
    BY <1>1, <1>7 DEF Swapped, Swapping, Quiet
  <2> QED
    BY <1>1, <1>7, <2>1 DEF After, Swapped, Swapping, Stage, Operands
<1> QED  BY <1>1, <1>3, <1>4, <1>5, <1>6, <1>7 DEF Stage

\* A core becomes or ceases to be a holder only as its word is written.
Writes(c) == Swapped(c) /\ cmdRegs[c] = "WR"

LEMMA HoldersStay ==
  ASSUME CasInv, NEW going \in SUBSET {c \in CasCore : MayGo(c)}, CasCycle(going),
         NEW c \in CasCore, ~Writes(c), NEW l
  PROVE  HoldsWord(c, l)' <=> HoldsWord(c, l)
<1>1. /\ Stage(c) /\ Operands(c)
      /\ step'[c] = IF waiting[c] /\ respReg[c] THEN After(c) ELSE step[c]
      /\ (step[c] # "give" \/ step'[c] # "free") => lockid'[c] = lockid[c]
  BY CasCores DEF CasInv
<1>2. step[c] \in {"free", "lockNew", "take", "held", "unlockNew", "give"}
  BY DEF CasInv, CasTyped
<1>3. CASE Swapped(c)
  <2>1. Data # expvalRegs[c]
    BY <1>3 DEF Writes, Swapped
  <2>2. step'[c] = step[c]
    BY <1>1, <1>3, <2>1 DEF After, Swapped, Swapping, Operands
  <2> QED  BY <1>1, <1>3, <2>2 DEF HoldsWord, Swapped, Swapping
<1>4. CASE Setting(c)
  BY <1>1, <1>2, <1>4 DEF After, Setting, HoldsWord
<1>5. CASE Quiet(c) \/ Queued(c) \/ Compared(c)
  BY <1>1, <1>2, <1>5 DEF Quiet, Queued, Compared, HoldsWord
<1> QED  BY <1>1, <1>3, <1>4, <1>5 DEF Stage

\* A core whose word is written takes a lock nobody has, or gives its own back.
LEMMA WritesSwap ==
  ASSUME CasInv, NEW going \in SUBSET {c \in CasCore : MayGo(c)}, CasCycle(going),
         NEW c \in CasCore, Writes(c), NEW l, l = lockid[c]
  PROVE  /\ l \in LockIds /\ c = cnt
         /\ \/ /\ spm[l] = 0 /\ spm' = [spm EXCEPT ![l] = 1]
               /\ step[c] = "take" /\ step'[c] = "held" /\ lockid'[c] = l
            \/ /\ spm[l] = 1 /\ spm' = [spm EXCEPT ![l] = 0]
               /\ step[c] = "give" /\ step'[c] = "free"
<1>1. /\ Stage(c) /\ Operands(c)
      /\ step'[c] = IF waiting[c] /\ respReg[c] THEN After(c) ELSE step[c]
      /\ (step[c] # "give" \/ step'[c] # "free") => lockid'[c] = lockid[c]
  BY CasCores DEF CasInv
<1>2. /\ cnt = c /\ spmRdAddr = l /\ addrRegs[c] = l /\ waiting[c] /\ respReg[c]
      /\ Data = expvalRegs[c] /\ step[c] \in {"take", "give"} /\ l \in LockIds
  BY DEF Writes, Swapped, Swapping, InSlot, CasInv, CasTyped
<1>3. spm' = [spm EXCEPT ![l] = newvalRegs[c]]
  BY <1>2 DEF CasCycle, Device, Scratchpad, Writes
<1>4. spm[l] = expvalRegs[c]
  BY <1>2 DEF Data
<1> QED
  BY <1>1, <1>2, <1>3, <1>4 DEF After, Operands

LEMMA CasTypedStays ==
  ASSUME CasAssumption, CasInv, NEW going \in SUBSET {c \in CasCore : MayGo(c)},
         CasCycle(going)
  PROVE  CasTyped'
<1>1. CasCore = CasCore  BY DEF CasCore, CasCore
<1> USE DEF CasCycle, Device
<1>2. precnt' \in 0 .. 2 /\ cnt' \in CasCore
  BY <1>1 DEF CasInv, CasTyped, TimeSlot, CntMax, CasCore, CasAssumption
<1>3. waiting' \in [CasCore -> BOOLEAN] /\ respReg' \in [CasCore -> BOOLEAN]
  BY <1>1 DEF CasInv, CasTyped
<1>4. step' \in [CasCore -> {"free", "lockNew", "take", "held", "unlockNew", "give"}]
  <2>1. \A c \in CasCore : step'[c] \in {"free", "lockNew", "take", "held", "unlockNew", "give"}
    BY <1>1 DEF CasInv, CasTyped, After, Step
  <2> QED  BY <1>1, <2>1
<1>5. lockid' \in [CasCore -> LockIds] /\ spmRdAddr' \in LockIds
  BY <1>1 DEF CasInv, CasTyped, Scratchpad
<1>6. addrRegs' \in [CasCore -> LockIds]
  <2>1. ASSUME NEW c \in CasCore, Accesses(Step(c), lockid[c]).cmd = "read"
        PROVE  Accesses(Step(c), lockid[c]).arg \in LockIds
    <3>1. lockid[c] \in LockIds  BY DEF CasInv, CasTyped
    <3>2. step'[c] = Step(c)
          /\ step'[c] \in {"free", "lockNew", "take", "held", "unlockNew", "give"}
      BY <1>4
    <3> HIDE DEF CasCycle, Device
    <3>3. Accesses(Step(c), lockid[c]).arg = lockid[c]
      BY <2>1, <3>2 DEF Accesses, Command
    <3> QED BY <3>1, <3>3
  <2> QED  BY <1>1, <2>1 DEF CasInv, CasTyped, Command
<1>7. spm' \in [LockIds -> {0, 1}]
  <2>1. cnt \in CasCore  BY DEF CasInv, CasTyped
  <2>2. CASE Writes(cnt)
    <3>1. /\ lockid[cnt] \in LockIds
          /\ \/ spm' = [spm EXCEPT ![lockid[cnt]] = 1]
             \/ spm' = [spm EXCEPT ![lockid[cnt]] = 0]
      BY <2>1, <2>2, WritesSwap
    <3>2. spm \in [LockIds -> {0, 1}]
      BY DEF CasInv, CasTyped
    <3> QED BY <3>1, <3>2
  <2>3. CASE ~Writes(cnt)
    <3>1. cmdRegs[cnt] = "RD"
      BY <2>1, <2>3 DEF CasInv, Stage, Quiet, Setting, Queued, Compared, Writes, Swapped
    <3> QED  BY <3>1 DEF Scratchpad, CasInv, CasTyped
  <2> QED  BY <2>2, <2>3
<1> QED  BY <1>2, <1>3, <1>4, <1>5, <1>6, <1>7 DEF CasTyped

\* The word says who holds the lock after the cycle as it did before.
LEMMA WordsStay ==
  ASSUME CasInv, NEW going \in SUBSET {c \in CasCore : MayGo(c)}, CasCycle(going)
  PROVE  WordsTell'
<1>0. cnt \in CasCore /\ spm \in [LockIds -> {0, 1}]  BY DEF CasInv, CasTyped
<1>1. \A c \in CasCore : Writes(c) => c = cnt
  BY DEF Writes, Swapped, InSlot
<1>2. CASE ~Writes(cnt)
  <2>1. spm' = spm
    <3>1. cmdRegs[cnt] = "RD"
      BY <1>0, <1>2 DEF CasInv, Stage, Quiet, Setting, Queued, Compared, Writes, Swapped
    <3> QED  BY <3>1 DEF CasCycle, Device, Scratchpad
  <2>2. \A c \in CasCore : \A l \in LockIds : HoldsWord(c, l)' <=> HoldsWord(c, l)
    BY <1>1, <1>2, HoldersStay
  <2> QED  BY <2>1, <2>2 DEF CasInv, WordsTell
<1>3. CASE Writes(cnt)
  <2> PICK w \in CasCore : w = cnt  BY <1>0
  <2> PICK k : k = lockid[w]  OBVIOUS
  <2>0. w \in CasCore /\ Writes(w) /\ w = cnt  BY <1>3
  <2>1. /\ k \in LockIds
        /\ \/ /\ spm[k] = 0 /\ spm' = [spm EXCEPT ![k] = 1]
              /\ step[w] = "take" /\ step'[w] = "held" /\ lockid'[w] = k
           \/ /\ spm[k] = 1 /\ spm' = [spm EXCEPT ![k] = 0]
              /\ step[w] = "give" /\ step'[w] = "free"
    BY <2>0, WritesSwap
  <2>2. \A c \in CasCore \ {w} : \A l \in LockIds : HoldsWord(c, l)' <=> HoldsWord(c, l)
    BY <1>1, <2>0, HoldersStay
  <2>3. k = lockid[w]  OBVIOUS
  <2>4. WordsTell  BY DEF CasInv
  <2> SUFFICES ASSUME NEW l \in LockIds
               PROVE  /\ spm'[l] = 0 => \A c \in CasCore : ~HoldsWord(c, l)'
                      /\ spm'[l] = 1 => \E c \in CasCore : /\ HoldsWord(c, l)'
                                                        /\ \A d \in CasCore : HoldsWord(d, l)' => d = c
    BY DEF WordsTell
  <2>5. CASE spm[k] = 0
    <3>1. \A x \in LockIds : HoldsWord(w, x)' <=> x = k
      BY <2>0, <2>1, <2>5 DEF HoldsWord
    <3>2. \A x \in LockIds : ~HoldsWord(w, x)
      BY <2>0, <2>1, <2>5 DEF HoldsWord
    <3>3. CASE l = k
      <4>1. \A c \in CasCore : HoldsWord(c, k)' <=> c = w
        BY <2>0, <2>1, <2>2, <2>4, <2>5, <3>1 DEF WordsTell
      <4>2. spm'[k] = 1  BY <1>0, <2>1, <2>5
      <4> QED  BY <2>0, <3>3, <4>1, <4>2
    <3>4. CASE l # k
      <4>1. spm'[l] = spm[l]  BY <1>0, <2>1, <3>4
      <4>2. \A c \in CasCore : HoldsWord(c, l)' <=> HoldsWord(c, l)
        BY <2>2, <3>1, <3>2, <3>4
      <4> QED  BY <2>4, <4>1, <4>2 DEF WordsTell
    <3> QED  BY <3>3, <3>4
  <2>6. CASE spm[k] = 1
    <3>1. \A x \in LockIds : HoldsWord(w, x) <=> x = k
      BY <2>0, <2>1, <2>3, <2>6 DEF HoldsWord
    <3>2. \A x \in LockIds : ~HoldsWord(w, x)'
      BY <2>0, <2>1, <2>6 DEF HoldsWord
    <3>3. CASE l = k
      <4>1. \A c \in CasCore : ~HoldsWord(c, k)'
        BY <2>0, <2>1, <2>2, <2>4, <2>6, <3>1, <3>2 DEF WordsTell
      <4>2. spm'[k] = 0  BY <1>0, <2>1, <2>6
      <4> QED  BY <3>3, <4>1, <4>2
    <3>4. CASE l # k
      <4>1. spm'[l] = spm[l]  BY <1>0, <2>1, <3>4
      <4>2. \A c \in CasCore : HoldsWord(c, l)' <=> HoldsWord(c, l)
        BY <2>2, <3>1, <3>2, <3>4
      <4> QED  BY <2>4, <4>1, <4>2 DEF WordsTell
    <3> QED  BY <3>3, <3>4
  <2> QED  BY <1>0, <2>1, <2>5, <2>6
<1> QED  BY <1>2, <1>3

LEMMA CasInvariant == ASSUME CasAssumption PROVE CasSpec => []CasInv
<1>0. CasCore = CasCore  BY DEF CasCore, CasCore
<1>1. CasInit => CasInv
  <2> SUFFICES ASSUME CasInit PROVE CasInv  OBVIOUS
  <2> USE DEF CasInit
  <2>1. 0 \in CasCore  BY DEF CasCore, CasAssumption
  <2>2. lockid[0] \in LockIds  BY <1>0, <2>1
  <2>3. (CHOOSE l \in LockIds : TRUE) \in LockIds  BY <2>2
  <2>4. CasTyped  BY <1>0, <2>1, <2>3 DEF CasTyped
  <2>5. \A c \in CasCore : Stage(c) /\ Operands(c)
    BY <1>0 DEF Stage, Quiet, Operands
  <2>6. WordsTell  BY <1>0 DEF WordsTell, HoldsWord
  <2> QED  BY <2>4, <2>5, <2>6 DEF CasInv
<1>2. CasInv /\ [CasNext]_(casVars) => CasInv'
  <2> SUFFICES ASSUME CasInv, [CasNext]_(casVars) PROVE CasInv'  OBVIOUS
  <2>1. CASE CasNext
    <3>1. PICK going \in SUBSET {c \in CasCore : MayGo(c)} : CasCycle(going)
      BY <1>0, <2>1 DEF CasNext
    <3>2. ASSUME NEW c \in CasCore PROVE Stage(c)' /\ Operands(c)'
      BY <3>1, CasBegins, CasGoesOn
    <3> QED  BY <3>1, <3>2, CasTypedStays, WordsStay DEF CasInv
  <2>2. CASE UNCHANGED casVars
    BY <2>2 DEF casVars, CasInv, CasTyped, Stage, Quiet, Setting, Swapping, InSlot, Queued,
       Compared, Swapped, Operands, WordsTell, HoldsWord, Data
  <2> QED  BY <2>1, <2>2
<1> QED  BY <1>1, <1>2, PTL DEF CasSpec

\* A word of the scratchpad is a lock, for any number of cores and locks: the
\* slot of a core lasts until its word is written, so that no other core
\* compares the word in between (CASPM.scala; lock and unlock of caspm.h).
THEOREM CasIsLock == ASSUME CasAssumption, TheLock \in LockIds PROVE CasSpec => IsCasLock
<1>0. CasCore = CasCore  BY DEF CasCore, CasCore
<1>1. CasInit => WordMutex!Init
  BY <1>0 DEF CasInit, WordMutex!Init, WordHolders
<1>2. CasInv /\ [CasNext]_(casVars) => [WordMutex!Next]_(WordHolders)
  <2> SUFFICES ASSUME CasInv, [CasNext]_(casVars), WordHolders' # WordHolders
               PROVE  WordMutex!Next
    OBVIOUS
  <2>1. WordHolders = {c \in CasCore : HoldsWord(c, TheLock)}
    BY <1>0 DEF WordHolders, HoldsWord
  <2>2. WordHolders' = {c \in CasCore : HoldsWord(c, TheLock)'}
    BY <1>0 DEF WordHolders, HoldsWord
  <2>3. CasNext
    BY DEF casVars, WordHolders
  <2>4. PICK going \in SUBSET {c \in CasCore : MayGo(c)} : CasCycle(going)
    BY <1>0, <2>3 DEF CasNext
  <2>5. \A c \in CasCore : ~Writes(c) => (HoldsWord(c, TheLock)' <=> HoldsWord(c, TheLock))
    BY <2>4, HoldersStay
  <2>6. PICK w \in CasCore : Writes(w) /\ ~(HoldsWord(w, TheLock)' <=> HoldsWord(w, TheLock))
    BY <2>1, <2>2, <2>5
  <2>7. \A c \in CasCore : Writes(c) => c = w
    BY <2>6 DEF Writes, Swapped, InSlot
  <2>8. PICK k : k = lockid[w]  OBVIOUS
  <2>9. /\ \/ /\ spm[k] = 0
              /\ step[w] = "take" /\ step'[w] = "held" /\ lockid'[w] = k
           \/ /\ spm[k] = 1
              /\ step[w] = "give" /\ step'[w] = "free"
    BY <2>4, <2>6, <2>8, WritesSwap
  <2>10. k = TheLock
    BY <2>6, <2>8, <2>9 DEF HoldsWord
  <2>11. WordsTell  BY DEF CasInv
  <2>12. CASE spm[k] = 0
    <3>1. WordHolders = {}  BY <2>1, <2>10, <2>11, <2>12 DEF WordsTell
    <3>2. HoldsWord(w, TheLock)'  BY <2>6, <3>1, <2>1
    <3>3. WordHolders' = {w}  BY <2>1, <2>2, <2>5, <2>7, <3>1, <3>2
    <3> QED  BY <1>0, <3>1, <3>3 DEF WordMutex!Next, WordMutex!Acquire
  <2>13. CASE spm[k] = 1
    <3>1. HoldsWord(w, TheLock) /\ ~HoldsWord(w, TheLock)'
      BY <2>6, <2>9, <2>13 DEF HoldsWord
    <3>2. w \in WordHolders /\ WordHolders' = WordHolders \ {w}
      BY <2>1, <2>2, <2>5, <2>7, <3>1
    <3> QED  BY <1>0, <3>2 DEF WordMutex!Next, WordMutex!Release
  <2> QED  BY <2>9, <2>12, <2>13
<1> QED  BY <1>1, <1>2, CasInvariant, PTL DEF CasSpec, IsCasLock, WordMutex!Spec

=============================================================================
