----------------------------- MODULE SamplingPort -----------------------------
(***************************************************************************)
(* One sampling channel between two cores: the writer copies samples into  *)
(* buffers in the reader's scratchpad, the reader takes the newest, as     *)
(* often as it likes.  Three of the builds of sampling.c: DOUBLE_NOC (two  *)
(* buffers, the reader copies under the lock), DOUBLE_NOC_WR (two, the     *)
(* writer writes under the lock) and TRIPLE_NOC (three, the lock covers    *)
(* the two indices only).  The lock is the one BakeryLock implements.      *)
(*                                                                         *)
(* A sample is its number, and so is each of its words.                    *)
(***************************************************************************)
EXTENDS Integers

CONSTANTS
  Impl,         \* the builds considered
  SampleWords,  \* the words of a sample
  MaxSamples,   \* the writer writes no more than this
  EarlyImpl     \* builds whose readers may read before the first sample

VARIABLES
  impl,
  holders,      \* of the lock
  wpc, next, reading, wword,      \* the writer's: the word to be sent next
  rpc, newest, chosen, rword,     \* the reader's: chosen is its local newest
  read_bufs,    \* the buffers
  sample,       \* where the reader copies to
  written, published, taken       \* history: samples begun, published, looked at

writer == <<wpc, next, reading, wword, written, published>>
reader == <<rpc, newest, chosen, rword, sample, taken>>
samplingVars == <<impl, holders, writer, reader, read_bufs>>

NumBufs == IF impl = "TRIPLE_NOC" THEN 3 ELSE 2
UnderLock == impl = "DOUBLE_NOC_WR"        \* the writer sends the words
CopiesLocked == impl = "DOUBLE_NOC"        \* the reader copies them

SamplingLock == INSTANCE Lock WITH Core <- {"writer", "reader"}

\* No sample yet: newest is -1, the buffers hold anything (0).
SamplingInit ==
  /\ impl \in Impl
  /\ holders = {}
  /\ wpc = "idle" /\ next = 0 /\ wword = 1
  /\ reading = IF impl = "DOUBLE_NOC_WR" THEN 1 ELSE -1
  /\ rpc = "idle" /\ newest = -1 /\ chosen = 0 /\ rword = 1
  /\ read_bufs = [b \in 0..NumBufs - 1 |-> [w \in 1..SampleWords |-> 0]]
  /\ sample = [w \in 1..SampleWords |-> 0]
  /\ written = 0 /\ published = 0 /\ taken = 0

-----------------------------------------------------------------------------
(* mp_write *)

BeginWrite ==
  /\ wpc = "idle" /\ written < MaxSamples
  /\ wpc' = IF UnderLock THEN "lock" ELSE "send"
  /\ written' = written + 1
  /\ UNCHANGED <<impl, holders, next, reading, wword, published, reader, read_bufs>>

\* The writer waits for the transfer of the sample, word by word.
SendWord ==
  /\ wpc = "send"
  /\ read_bufs' = [read_bufs EXCEPT ![next][wword] = written]
  /\ wword' = IF wword = SampleWords THEN 1 ELSE wword + 1
  /\ wpc' = IF wword < SampleWords THEN "send" ELSE IF UnderLock THEN "publish" ELSE "lock"
  /\ UNCHANGED <<impl, holders, next, reading, written, published, reader>>

\* A mutant: DOUBLE_NOC_WR goes on with the buffer it has.
WriterLocksSame ==
  /\ wpc = "lock"
  /\ SamplingLock!Acquire("writer")
  /\ wpc' = IF UnderLock THEN "send" ELSE "publish"
  /\ UNCHANGED <<impl, next, reading, wword, written, published, reader, read_bufs>>

\* The lock; DOUBLE_NOC_WR chooses its buffer under it.
WriterLocks ==
  /\ wpc = "lock"
  /\ SamplingLock!Acquire("writer")
  /\ wpc' = IF UnderLock THEN "send" ELSE "publish"
  /\ next' = IF UnderLock THEN 1 - reading ELSE next
  /\ UNCHANGED <<impl, reading, wword, written, published, reader, read_bufs>>

\* newest of the reader is overwritten.
Publish ==
  /\ wpc = "publish"
  /\ newest' = next /\ published' = written
  /\ wpc' = "unlock"
  /\ UNCHANGED <<impl, holders, next, reading, wword, written>>
  /\ UNCHANGED <<rpc, chosen, rword, sample, taken, read_bufs>>

\* A mutant: the buffer may be in use.
NextAnyway == IF next + 1 >= 3 THEN 0 ELSE next + 1

\* The buffer after this one that is not being read.
NextFree ==
  LET after(b) == IF b + 1 >= 3 THEN 0 ELSE b + 1
  IN  IF after(next) = reading THEN after(after(next)) ELSE after(next)

\* A mutant: the lock is not released.
WriterKeepsLock ==
  /\ wpc = "unlock"
  /\ next' = IF impl = "TRIPLE_NOC" THEN NextFree ELSE IF UnderLock THEN next ELSE 1 - next
  /\ wpc' = "idle"
  /\ UNCHANGED <<impl, holders, reading, wword, written, published, reader, read_bufs>>

\* reading was looked at under the lock, just before.
WriterUnlocks ==
  /\ wpc = "unlock"
  /\ SamplingLock!Release("writer")
  /\ next' = CASE impl = "DOUBLE_NOC"    -> 1 - next
               [] impl = "DOUBLE_NOC_WR" -> next
               [] impl = "TRIPLE_NOC"    -> NextFree
  /\ wpc' = "idle"
  /\ UNCHANGED <<impl, reading, wword, written, published, reader, read_bufs>>

-----------------------------------------------------------------------------
(* mp_read *)

BeginRead ==
  /\ rpc = "idle" /\ (published > 0 \/ impl \in EarlyImpl)
  /\ rpc' = "lock"
  /\ UNCHANGED <<impl, holders, writer, newest, chosen, rword, sample, taken, read_bufs>>

ReaderLocks ==
  /\ rpc = "lock"
  /\ SamplingLock!Acquire("reader")
  /\ rpc' = "look"
  /\ UNCHANGED <<impl, writer, newest, chosen, rword, sample, taken, read_bufs>>

\* newest is read, and, but in DOUBLE_NOC, sent to the writer.
Look ==
  /\ rpc = "look"
  /\ chosen' = newest /\ taken' = published
  /\ reading' = IF CopiesLocked THEN reading ELSE newest
  /\ rpc' = IF CopiesLocked THEN "copy" ELSE "unlock"
  /\ UNCHANGED <<impl, holders, wpc, next, wword, written, published>>
  /\ UNCHANGED <<newest, rword, sample, read_bufs>>

ReaderUnlocks ==
  /\ rpc = "unlock"
  /\ SamplingLock!Release("reader")
  /\ rpc' = IF CopiesLocked THEN "return" ELSE "copy"
  /\ UNCHANGED <<impl, writer, newest, chosen, rword, sample, taken, read_bufs>>

\* Before the first sample the words lie outside of the buffers.
CopyWord ==
  /\ rpc = "copy"
  /\ sample' = [sample EXCEPT ![rword] = IF chosen = -1 THEN 0 ELSE read_bufs[chosen][rword]]
  /\ rword' = IF rword = SampleWords THEN 1 ELSE rword + 1
  /\ rpc' = IF rword < SampleWords THEN "copy" ELSE IF CopiesLocked THEN "unlock" ELSE "return"
  /\ UNCHANGED <<impl, holders, writer, newest, chosen, taken, read_bufs>>

Return ==
  /\ rpc = "return"
  /\ rpc' = "idle"
  /\ UNCHANGED <<impl, holders, writer, newest, chosen, rword, sample, taken, read_bufs>>

Sends == SendWord \/ WriterLocks \/ Publish \/ WriterUnlocks
Receives == ReaderLocks \/ Look \/ ReaderUnlocks \/ CopyWord \/ Return

SamplingNext == BeginWrite \/ Sends \/ BeginRead \/ Receives

SamplingSpec == SamplingInit /\ [][SamplingNext]_samplingVars

\* Both cores run, and acquire_lock returns (Granted of BakeryLock).
SamplingFairness ==
  /\ WF_samplingVars(Sends) /\ WF_samplingVars(Receives)
  /\ SF_samplingVars(WriterLocks) /\ SF_samplingVars(ReaderLocks)

FairSamplingSpec == SamplingSpec /\ SamplingFairness

-----------------------------------------------------------------------------
(* Properties. *)

\* A read returns one whole sample, and the newest that had been published
\* when it looked: the words neither come from two samples nor from an older
\* one, although the writer goes on while the reader copies.
ReadsNewest == rpc = "return" => \A w \in 1..SampleWords : sample[w] = taken

\* The writer leaves the buffer alone that the reader is copying.
ApartFromReader == wpc = "send" /\ rpc = "copy" => next # chosen

\* Calls return: the writer does not have to wait for reads, nor the reader
\* for writes, beyond their turn at the lock.
CallsReturn == (wpc # "idle" ~> wpc = "idle") /\ (rpc # "idle" ~> rpc = "idle")

=============================================================================
