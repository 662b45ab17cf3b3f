------------------------------ MODULE StackCache ------------------------------
(***************************************************************************)
(* The stack cache of stackcache/StackCache.scala.  It keeps the words at  *)
(*                                                                         *)
(*      stackTopReg .. memTopReg - 1        in memoryBlock                 *)
(*      memTopReg   ..                      in the external memory         *)
(*                                                                         *)
(* A reservation that leaves no room, or the instruction sspill, spills    *)
(* words to memory; sens fills them back.  Transfers are bursts of aligned *)
(* words, the ends of which may lie outside the range.                     *)
(*                                                                         *)
(* Addresses count words; loads and stores are of whole words.  The        *)
(* processor waits while stateReg is not idle, and withholds operations    *)
(* while another part of it stalls (ena_in); such cycles, and those in     *)
(* which the bus takes or answers nothing, change nothing but memTopReg in *)
(* waitSpill: they are stuttering steps.  In idle and while filling, the   *)
(* read port follows the processor's address and nobody looks at it.       *)
(***************************************************************************)
EXTENDS Integers

CONSTANTS
  Size,       \* words of the cache (512)
  Burst,      \* words of a burst (4)
  Words,      \* number of word addresses (2^30)
  Base,       \* the stack of the program is below this address ...
  Floor,      \* ... and not below this one
  MemWords,   \* words of the external memory in view
  Vals,       \* contents of a word
  BusErrors   \* what the bus may say of a transfer: refused or not

Align(a)    == a - (a % Burst)
Minus(a, b) == (a - b) % Words     \* a difference of two registers

Index(a)    == a % Size            \* the word of memoryBlock for an address

ASSUME StackAssumption ==
  /\ Burst \in Nat \ {0, 1}
  /\ Size \in Nat \ {0}
  /\ Floor \in Nat /\ Base \in Nat /\ Floor <= Base
  /\ MemWords \in Nat /\ Base <= MemWords
  /\ Words \in Nat /\ Base + 2 * Size + 2 * Burst < Words
  /\ BusErrors \subseteq BOOLEAN /\ FALSE \in BusErrors

Addr == 0 .. (Words - 1)

VARIABLES
  stateReg,
  isReserveReg,      \* the spill is that of a reservation
  stackTopReg,
  memTopReg,
  transferAddrReg,
  newMemTopReg,
  memoryBlock,
  rdAddrReg,         \* address registered in the read port of memoryBlock
  mem,               \* the external memory
  answer,            \* data of the last load
  configured,        \* which of s5, s6 the program has set
  refused,           \* the bus will answer the transfer under way with ERR
  lost               \* a burst of a spill has been refused

tops  == <<stackTopReg, memTopReg>>
ports == <<isReserveReg, transferAddrReg, newMemTopReg, rdAddrReg>>
data  == <<memoryBlock, mem, answer>>
env   == <<configured, refused, lost>>
vars  == <<stateReg, tops, ports, data, env>>

States == {"idle", "fill", "waitFill", "spill", "holdSpill", "waitSpill", "error"}

TypeOK ==
  /\ stateReg \in States
  /\ isReserveReg \in BOOLEAN
  /\ stackTopReg \in Addr /\ memTopReg \in Addr
  /\ transferAddrReg \in Addr /\ newMemTopReg \in Addr
  /\ memoryBlock \in [0 .. (Size - 1) -> Vals]
  /\ rdAddrReg \in 0 .. (Size - 1)
  /\ mem \in [0 .. (MemWords - 1) -> Vals]
  /\ answer \in Vals
  /\ configured \subseteq {"s5", "s6"}
  /\ refused \in BOOLEAN /\ lost \in BOOLEAN

\* The registers without a reset value hold anything at power-up; the
\* contents of the memories and of the ports, which are written before they
\* are used, are those of one arbitrary word.
Init ==
  /\ stateReg = "idle"
  /\ isReserveReg \in BOOLEAN
  /\ stackTopReg \in 0 .. Base /\ memTopReg \in 0 .. Base
  /\ transferAddrReg = 0 /\ newMemTopReg = 0 /\ rdAddrReg = 0
  /\ \E v \in Vals : /\ memoryBlock = [i \in 0 .. (Size - 1) |-> v]
                     /\ mem = [a \in 0 .. (MemWords - 1) |-> v]
                     /\ answer = v
  /\ configured = {} /\ refused = FALSE /\ lost = FALSE

-----------------------------------------------------------------------------
(* Stack control.  The program sets both tops to the base of its stack     *)
(* before anything else, and stays inside its stack.                       *)

Running == stateReg = "idle" /\ configured = {"s5", "s6"}

SetStackTop ==
  /\ stateReg = "idle" /\ configured # {"s5", "s6"}
  /\ stackTopReg' = Base
  /\ configured' = configured \union {"s6"}
  /\ UNCHANGED <<stateReg, memTopReg, ports, data, refused, lost>>

SetMemTop ==
  /\ stateReg = "idle" /\ configured # {"s5", "s6"}
  /\ memTopReg' = Base
  /\ configured' = configured \union {"s5"}
  /\ UNCHANGED <<stateReg, stackTopReg, ports, data, refused, lost>>

StackAboveMem(n) == Minus(memTopReg, stackTopReg) < n

Ensure(n) ==
  /\ Running /\ stackTopReg + n <= Base
  /\ transferAddrReg' = Align(memTopReg)
  /\ newMemTopReg' = stackTopReg + n
  /\ stateReg' = IF StackAboveMem(n) THEN "fill" ELSE "idle"
  /\ UNCHANGED <<tops, isReserveReg, rdAddrReg, data, env>>

Free(n) ==
  /\ Running /\ stackTopReg + n <= Base
  /\ stackTopReg' = stackTopReg + n
  /\ memTopReg' = IF StackAboveMem(n) THEN stackTopReg + n ELSE memTopReg
  /\ UNCHANGED <<stateReg, ports, data, env>>

\* The read address is sent ahead, so that the data is there with the command.
StartAt(a) == transferAddrReg' = Align(a) /\ rdAddrReg' = Index(Align(a))

\* Mutant: looks at the top before the reservation.
NeedsSpillBefore(next) == Minus(memTopReg, stackTopReg) > Size

NeedsSpill(next) == Minus(memTopReg, next) > Size

Reserve(n) ==
  /\ Running /\ Floor <= stackTopReg - n
  /\ isReserveReg' = TRUE
  /\ stackTopReg' = stackTopReg - n
  /\ StartAt(stackTopReg - n + Size)
  /\ stateReg' = IF NeedsSpill(stackTopReg - n) THEN "holdSpill" ELSE "idle"
  /\ UNCHANGED <<memTopReg, newMemTopReg, data, env>>

\* The program spills what is cached only.
Spill(n) ==
  /\ Running /\ n <= memTopReg - stackTopReg
  /\ isReserveReg' = FALSE
  /\ StartAt(memTopReg - n)
  /\ newMemTopReg' = memTopReg - n
  /\ stateReg' = "holdSpill"
  /\ UNCHANGED <<tops, data, env>>

-----------------------------------------------------------------------------
(* Spilling.  The bus takes the command with the first word of a burst,    *)
(* then a word per cycle, and answers at the end.                          *)

Last == transferAddrReg % Burst = Burst - 1     \* the last word of a burst

\* Where a spill is to take memTopReg.
Target == IF isReserveReg THEN stackTopReg + Size ELSE newMemTopReg

\* Mutant: the words in front of the range are not masked.
WritesFront == transferAddrReg < memTopReg

\* The words a burst has to write; the others are masked.
WriteEnable == Target <= transferAddrReg /\ transferAddrReg < memTopReg

\* Mutant: the memory is not read ahead.
SendWordLate ==
  /\ transferAddrReg' = transferAddrReg + 1
  /\ rdAddrReg' = Index(transferAddrReg)
  /\ mem' = IF WriteEnable /\ ~refused'
            THEN [mem EXCEPT ![transferAddrReg] = memoryBlock[rdAddrReg]] ELSE mem
  /\ UNCHANGED <<memoryBlock, answer>>

\* The word on the bus reaches the memory unless masked, and the next one is
\* addressed.
SendWord ==
  /\ transferAddrReg' = transferAddrReg + 1
  /\ rdAddrReg' = Index(transferAddrReg + 1)
  /\ mem' = IF WriteEnable /\ ~refused'
            THEN [mem EXCEPT ![transferAddrReg] = memoryBlock[rdAddrReg]] ELSE mem
  /\ UNCHANGED <<memoryBlock, answer>>

\* A command is accepted; the bus knows whether it will refuse the burst.
Accept == refused' \in BusErrors

HoldSpill ==
  /\ stateReg = "holdSpill"
  /\ Accept /\ lost' = (lost \/ refused')
  /\ SendWord
  /\ stateReg' = "spill"
  /\ UNCHANGED <<tops, isReserveReg, newMemTopReg, configured>>

SpillWord ==
  /\ stateReg = "spill"
  /\ UNCHANGED env
  /\ SendWord
  /\ stateReg' = IF Last THEN "waitSpill" ELSE "spill"
  /\ UNCHANGED <<tops, isReserveReg, newMemTopReg>>

SpillingDone == memTopReg <= transferAddrReg

\* One cycle of waiting, with or without the answer to the burst.
WaitSpill(answered) ==
  /\ stateReg = "waitSpill"
  /\ memTopReg' = IF SpillingDone THEN Target ELSE memTopReg
  /\ stateReg' = IF ~answered THEN "waitSpill"
                 ELSE IF SpillingDone \/ refused THEN "idle" ELSE "holdSpill"
  /\ refused' = (refused /\ ~answered)
  /\ UNCHANGED <<stackTopReg, ports, data, configured, lost>>

-----------------------------------------------------------------------------
(* Filling.  The bus takes a command and answers with the words of the burst. *)

Fill ==
  /\ stateReg = "fill"
  /\ Accept
  /\ stateReg' = "waitFill"
  /\ UNCHANGED <<tops, ports, data, configured, lost>>

FillingDone == newMemTopReg <= transferAddrReg

\* A word arrives; those outside of the range are dropped.
FillWord ==
  /\ stateReg = "waitFill" /\ ~refused
  /\ memoryBlock' = IF ~FillingDone /\ memTopReg <= transferAddrReg
                    THEN [memoryBlock EXCEPT ![Index(transferAddrReg)] = mem[transferAddrReg]]
                    ELSE memoryBlock
  /\ transferAddrReg' = transferAddrReg + 1
  /\ stateReg' = IF ~Last THEN "waitFill" ELSE IF FillingDone THEN "idle" ELSE "fill"
  /\ memTopReg' = IF FillingDone THEN newMemTopReg ELSE memTopReg
  /\ UNCHANGED <<stackTopReg, isReserveReg, newMemTopReg, rdAddrReg, mem, answer, env>>

\* The error answer comes with every word of the burst, one per cycle.
FillError ==
  /\ stateReg = "waitFill" /\ refused
  /\ transferAddrReg' = transferAddrReg + 1
  /\ stateReg' = "error"
  /\ UNCHANGED <<tops, isReserveReg, newMemTopReg, rdAddrReg, data, env>>

ErrorDone == Last

\* Mutant: the answers of the rest of the burst are not counted.
AwaitEndUncounted ==
  /\ stateReg = "error"
  /\ stateReg' = IF ErrorDone THEN "idle" ELSE "error"
  /\ refused' = ~ErrorDone
  /\ UNCHANGED <<tops, ports, data, configured, lost>>

AwaitEnd ==
  /\ stateReg = "error"
  /\ transferAddrReg' = transferAddrReg + 1
  /\ stateReg' = IF ErrorDone THEN "idle" ELSE "error"
  /\ refused' = ~ErrorDone
  /\ UNCHANGED <<tops, isReserveReg, newMemTopReg, rdAddrReg, data, configured, lost>>

-----------------------------------------------------------------------------
(* Loads and stores of words the program has made sure are in the cache.   *)
(* The data of a load is on the port one cycle later; no write falls in    *)
(* between.                                                                *)

Cached(off) == stackTopReg + off < memTopReg
RelAddr(off) == Index(stackTopReg + off)

Load(off) ==
  /\ Running /\ Cached(off)
  /\ rdAddrReg' = RelAddr(off)
  /\ answer' = memoryBlock[RelAddr(off)]
  /\ UNCHANGED <<stateReg, tops, isReserveReg, transferAddrReg, newMemTopReg,
                 memoryBlock, mem, env>>

Store(off, v) ==
  /\ Running /\ Cached(off)
  /\ rdAddrReg' = RelAddr(off)
  /\ memoryBlock' = [memoryBlock EXCEPT ![RelAddr(off)] = v]
  /\ UNCHANGED <<stateReg, tops, isReserveReg, transferAddrReg, newMemTopReg,
                 mem, answer, env>>

-----------------------------------------------------------------------------
Program ==
  \/ SetStackTop \/ SetMemTop
  \/ \E n \in 0 .. Size : Ensure(n) \/ Reserve(n) \/ Spill(n)
  \/ \E n \in 0 .. Base : Free(n)
  \/ \E off \in 0 .. (Size - 1) : Load(off) \/ \E v \in Vals : Store(off, v)

\* What the cache does by itself, as the bus goes on.
Transfer ==
  \/ HoldSpill \/ SpillWord \/ WaitSpill(TRUE)
  \/ Fill \/ FillWord \/ FillError \/ AwaitEnd

Next == Program \/ Transfer \/ WaitSpill(FALSE)

Spec == Init /\ [][Next]_vars

\* The bus takes every command and answers every burst in the end.
FairSpec == Spec /\ WF_vars(Transfer)

-----------------------------------------------------------------------------
(* Properties *)

\* Between operations of a running program the cache holds the top of the
\* stack, not more than fits into it, and its two ends are in order, unless
\* the bus has refused a spill.
TopsOrdered ==
  Running /\ ~lost => /\ stackTopReg <= memTopReg
                       /\ memTopReg <= stackTopReg + Size
                       /\ memTopReg <= Base

\* A spill writes words between the tops only: neither the memory above the
\* stack nor what is below its top changes, although bursts are aligned and
\* the stack is not.
OwnWordsOnly ==
  [][\A a \in 0 .. (MemWords - 1) :
        mem'[a] # mem[a] => stackTopReg <= a /\ a < memTopReg]_vars

\* The processor never waits for ever: every operation ends, with a bus that
\* answers and whatever it answers.
Resumes == stateReg # "idle" ~> stateReg = "idle"

\* The contents of the stack: cached below memTopReg, in memory above it.
Contents == [a \in stackTopReg .. (Base - 1) |->
               IF a < memTopReg THEN memoryBlock[Index(a)] ELSE mem[a]]

Ready == configured = {"s5", "s6"}

Plain == INSTANCE Stack WITH
  top    <- IF Ready THEN stackTopReg ELSE Base,
  words  <- IF Ready THEN Contents ELSE [a \in Base .. (Base - 1) |-> 0]

\* The cache is a stack: no spill, fill, masked word or shared place in the
\* cache ever changes what the program finds in it.
IsStack == Plain!Spec
=============================================================================
