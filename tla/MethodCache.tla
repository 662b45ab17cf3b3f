----------------------------- MODULE MethodCache -----------------------------
(***************************************************************************)
(* The method cache: its controller, which loads whole methods in bursts,  *)
(* and its replacement, a ring of methods of various sizes in a ring of    *)
(* words.  One operator per cycle, over the wires that reach it; the       *)
(* memory takes every command in the cycle it is given.  A word of code is *)
(* its address; the word in front of a method is its size.                 *)
(***************************************************************************)
EXTENDS Integers

CONSTANTS
  CacheWords,    \* MCACHE_WORD_SIZE
  MethodCount,   \* METHOD_COUNT
  Burst          \* BURST_LENGTH

VARIABLES
  methods,                                  \* the sizes of the methods, by their addresses
  tags, nextIndex, nextTag, nextPos, freeSpace,
  base, posReg, wrPos, hitReg,              \* the method called last
  icState, burstCnt, fetchCnt, transferSize,
  slaveReg,                                 \* ocpSlaveReg: an answer, a cycle late
  block, rdIdx, instrReg                    \* the memory, its read port, the word held in a stall

replacement == <<tags, nextIndex, nextTag, nextPos, freeSpace>>
method      == <<base, posReg, wrPos, hitReg>>
control     == <<icState, burstCnt, fetchCnt, transferSize, slaveReg>>
instruction == <<block, rdIdx, instrReg>>
icVars      == <<methods, replacement, method, control, instruction>>

Align(a)    == a - (a % Burst)
NoAnswer    == [dva |-> FALSE, data |-> 0]
EmptyTag    == [addr |-> 0, size |-> 0, valid |-> FALSE, pos |-> 0]
NextTag(i)  == (i + 1) % MethodCount

\* Of one bit more than a position, read as a signed number.
Signed(size) == IF size < CacheWords THEN size ELSE size - 2 * CacheWords

IcInit ==
  /\ tags = [i \in 0..MethodCount - 1 |-> EmptyTag]
  /\ nextIndex = 0 /\ nextTag = 0 /\ nextPos = 0 /\ freeSpace = CacheWords
  /\ base = 0 /\ posReg = 0 /\ wrPos = 0 /\ hitReg = TRUE
  /\ icState = "idle" /\ burstCnt = 0 /\ fetchCnt = 0 /\ transferSize = 0 /\ slaveReg = NoAnswer
  /\ block = [i \in 0..CacheWords - 1 |-> 0] /\ rdIdx = 0 /\ instrReg = 0

-----------------------------------------------------------------------------
(* Wires. *)

Missing == icState = "idle" /\ ~hitReg

\* The size of the method has arrived.
SizeRead == icState = "size" /\ slaveReg.dva /\ burstCnt = (base - 1) % Burst
Size     == methods[slaveReg.data + 1]

\* A word of the method has arrived; the rest of a last burst is skipped.
WordRead == icState = "transfer" /\ fetchCnt <= transferSize /\ slaveReg.dva
BurstEnd == burstCnt = Burst - 1

Done ==
  /\ icState = "transfer" /\ BurstEnd
  /\ fetchCnt > transferSize \/ (slaveReg.dva /\ fetchCnt = transferSize)

\* The burst it asks for in this cycle, if any.
IcReads ==
  IF Missing THEN {Align(base - 1)}
  ELSE IF SizeRead /\ BurstEnd THEN {base}
  ELSE IF WordRead /\ fetchCnt < transferSize /\ BurstEnd THEN {base + fetchCnt + 1}
  ELSE {}

IcEna == (icState = "idle" \/ Done) /\ hitReg

Instr == IF icState = "idle" THEN block[rdIdx] ELSE instrReg

-----------------------------------------------------------------------------
(* The cycle. *)

Controller(answer) ==
  /\ slaveReg' = answer
  /\ icState' = IF Missing THEN "size" ELSE IF SizeRead THEN "transfer"
                ELSE IF Done THEN "idle" ELSE icState
  /\ burstCnt' = IF Missing THEN 0
                 ELSE IF icState # "idle" /\ slaveReg.dva THEN (burstCnt + 1) % Burst ELSE burstCnt
  /\ transferSize' = IF SizeRead THEN (Size - 1) % CacheWords ELSE transferSize
  /\ fetchCnt' = IF SizeRead THEN 0
                 ELSE IF WordRead THEN (fetchCnt + 1) % CacheWords ELSE fetchCnt

\* A mutant: a method may end in the middle of a double word.
NotRounded(size) == size

Rounded(size) == size + (size % 2)

Hits(callee) == {i \in DOMAIN tags : tags[i].valid /\ tags[i].addr = callee}

\* What the cycle makes of a call, which counts when the memory stage moves.
Lookup(calls, memEna) ==
  LET callee == CHOOSE c \in calls : TRUE
  IN  IF calls # {} /\ memEna
      THEN /\ base' = callee
           /\ hitReg' = (Hits(callee) # {} \/ SizeRead)
           /\ posReg' = IF Hits(callee) = {} THEN nextPos
                        ELSE tags[CHOOSE i \in Hits(callee) : TRUE].pos
      ELSE /\ hitReg' = (hitReg \/ SizeRead)
           /\ UNCHANGED <<base, posReg>>

\* A new method takes the next tag; then methods give way one by one, a
\* cycle each, as long as space is owed.
Inserted ==
  IF ~SizeRead THEN tags
  ELSE [tags EXCEPT ![nextIndex] =
         [addr |-> base, size |-> Rounded(Size), valid |-> TRUE, pos |-> nextPos]]

Replace(invalidate) ==
  /\ LET left == IF freeSpace < 0
                 THEN [Inserted EXCEPT ![nextTag].size = 0, ![nextTag].valid = FALSE]
                 ELSE Inserted
     IN  tags' = IF invalidate THEN [i \in DOMAIN left |-> [left[i] EXCEPT !.valid = FALSE]] ELSE left
  /\ freeSpace' = IF freeSpace < 0 THEN freeSpace + Signed(tags[nextTag].size)
                  ELSE IF SizeRead
                  THEN freeSpace - Signed(Rounded(Size)) + Signed(tags[nextIndex].size)
                  ELSE freeSpace
  /\ nextTag' = IF freeSpace < 0 \/ (SizeRead /\ nextTag = nextIndex) THEN NextTag(nextTag) ELSE nextTag
  /\ nextIndex' = IF SizeRead THEN NextTag(nextIndex) ELSE nextIndex
  /\ nextPos' = IF SizeRead THEN (nextPos + Rounded(Size)) % CacheWords ELSE nextPos
  /\ wrPos' = IF SizeRead THEN posReg ELSE wrPos

\* Two banks: the offset says which, the sum where.
WriteIdx == 2 * (((wrPos + fetchCnt) % CacheWords) \div 2) + (fetchCnt % 2)

\* The read port follows the fetch stage, at next, while there is no miss.
Memory(next) ==
  /\ block' = IF WordRead THEN [block EXCEPT ![WriteIdx] = slaveReg.data] ELSE block
  /\ rdIdx' = IF (icState = "idle" /\ hitReg) \/ Done THEN next ELSE rdIdx
  /\ instrReg' = Instr

IcCycle(calls, memEna, answer, invalidate, next) ==
  /\ Controller(answer)
  /\ Lookup(calls, memEna)
  /\ Replace(invalidate)
  /\ Memory(next)
  /\ UNCHANGED methods

=============================================================================
