---------------------------- MODULE CoreMemoryProofs ----------------------------
(***************************************************************************)
(* Theorems about the memory below a core, for every length of the bursts, *)
(* every number of lines, every set of words of data and every program:    *)
(* what the pipeline sees is the plain memory of ProgramMemory.            *)
(*                                                                         *)
(* The invariant says in which phase the access under way is - at rest,    *)
(* loading a method, asked, filling, answering, storing, committing,       *)
(* stored -, for each phase where the controllers stand, and what the      *)
(* lines of the cache, the register of a load and the memory hold.         *)
(*                                                                         *)
(* The last part is about the method cache: the methods it holds lie one   *)
(* behind the other in a ring of words, so that the tag, the position and  *)
(* the word of a fetch belong together (CodeFetched).                      *)
(***************************************************************************)
EXTENDS CoreMemory, TLAPS

-----------------------------------------------------------------------------
(* The inductive invariant. *)

Index == 0 .. Burst - 1
Acc   == DataOps \cup Invalidations

\* Nothing of the method cache is under way.
IcQuiet == icState = "idle" /\ hitReg

\* The memory takes a command.
RamReady == ramState = "ready" /\ wordCount = 0

\* The program: its methods and their sizes lie outside the data.
ProgramTyped ==
  /\ accesses \subseteq Acc /\ shared \subseteq DataWords
  /\ methods \in [DOMAIN methods -> Nat \ {0}]
  /\ \A b \in DOMAIN methods : b \in Nat \ {0} /\ b - 1 \notin DataWords

\* The registers of the method cache.
CodeTyped ==
  /\ base \in DOMAIN methods \cup {0} /\ icState \in {"idle", "size", "transfer"}
  /\ burstCnt \in Index /\ fetchCnt \in Int /\ transferSize \in Int

\* The other registers, as far as the data side goes.
Typed ==
  /\ ProgramTyped /\ CodeTyped
  /\ pending \in Acc \cup {Nothing}
  /\ request.op \in Acc \cup {Nothing}
  /\ request = [op |-> request.op, new |-> request.new, hit |-> request.hit]
  /\ execute \in Acc \cup {Nothing} \/ (execute.kind = "call" /\ execute.addr \in DOMAIN methods)
  /\ execute.kind = "call" => callSlots > 0
  /\ callSlots \in Nat
  /\ dmTag \in [0 .. Lines - 1 -> [valid : BOOLEAN, addr : Int]]
  /\ dmLine \in [0 .. Lines - 1 -> [Index -> Vals]]
  /\ wordCount \in Index
  /\ wrBuffer = [w \in Index |-> wrBuffer[w]]
  /\ words \in [DataWords -> Vals]
  /\ recent \in [DataWords -> SUBSET Vals]

Word == pending.addr % Burst

\* The data side is idle.
Calm == readState = "idle" /\ readCnt = 0 /\ wcState = "idle" /\ wcCnt = 0 /\ ~request.new

\* A burst of the method cache: the answers are counted a cycle late.
BurstUnderWay ==
  /\ ~selRightReg
  /\ icState = "size" =>
       /\ burstCnt <= (base - 1) % Burst /\ ramAddr = Align(base - 1)
       /\ slaveReg.dva /\ burstCnt = (base - 1) % Burst => slaveReg.data = base - 1
  /\ \/ ramState = "readExe" /\ wordCount = 0 /\ burstCnt = 0 /\ ~slaveReg.dva
     \/ ramState = "readRet" /\ wordCount = 0 /\ burstCnt = 0 /\ ~slaveReg.dva
     \/ ramState = "readRet" /\ wordCount = burstCnt + 1 /\ slaveReg.dva
     \/ RamReady /\ burstCnt = Burst - 1 /\ slaveReg.dva

Rest     == pending = Nothing /\ Calm /\ IcQuiet /\ RamReady
Fetching == /\ pending = Nothing /\ Calm /\ ~IcQuiet /\ execute.kind # "call"
            /\ base \in DOMAIN methods
            /\ IF icState = "idle" THEN RamReady ELSE BurstUnderWay

\* An access has been accepted: the caches answer in this cycle, or the bus is asked.
Asked == /\ pending \in Acc /\ request.new /\ IcQuiet /\ RamReady
         /\ readState = "idle" /\ readCnt = 0 /\ wcCnt = 0
         /\ wcState = IF pending.kind = "store" THEN "write" ELSE "idle"

Waiting == /\ pending \in DataOps /\ ~request.new /\ IcQuiet
           /\ selRightReg /\ ramAddr = Align(pending.addr)

\* A load.
Filling == /\ Waiting /\ pending.kind = "load" /\ wcState = "idle" /\ wcCnt = 0
           /\ readState = IF pending.space = "cached" THEN "fill" ELSE "read"
           /\ readCnt = wordCount
           /\ ramState = "readRet" \/ (ramState = "readExe" /\ wordCount = 0)
Answering == /\ pending \in DataOps /\ ~request.new /\ IcQuiet /\ RamReady
             /\ pending.kind = "load" /\ wcState = "idle" /\ wcCnt = 0 /\ readCnt = 0
             /\ readState = IF pending.space = "cached" THEN "respond" ELSE "readResp"

\* A store.
Sent(w) == (wrBuffer[w].en <=> w = Word) /\ (w = Word => wrBuffer[w].data = pending.data)
Storing    == /\ Waiting /\ pending.kind = "store" /\ readState = "idle" /\ readCnt = 0
              /\ wcState = "write" /\ wcCnt = wordCount /\ wordCount > 0 /\ ramState = "writeRec"
              /\ \A w \in 0 .. wordCount - 1 : Sent(w)
Committing == /\ Waiting /\ pending.kind = "store" /\ readState = "idle" /\ readCnt = 0
              /\ wcState = "resp" /\ wcCnt = 0 /\ ramState = "writeExe" /\ wordCount = 0
              /\ \A w \in Index : Sent(w)
Stored     == /\ Waiting /\ pending.kind = "store" /\ readState = "idle" /\ readCnt = 0
              /\ wcState = "resp" /\ wcCnt = 0 /\ ramState = "writeRet" /\ wordCount = 0

Phase == Rest \/ Fetching \/ Asked \/ Filling \/ Answering \/ Storing \/ Committing \/ Stored

\* Requests and the access under way agree.
Accepted == pending # Nothing => request.op = pending

-----------------------------------------------------------------------------
CellOf(a) == dmLine[Line(a)][a % Burst]

\* What memory and the cache hold.
Current == \A a \in DataWords : words[a] \in recent[a]

\* A line being filled holds the words that have come; a word being stored is
\* in the cache before it is in memory.
LineKept ==
  \A a \in DataWords :
    Cached(a) =>
      IF pending.kind = "store" /\ pending.addr = a /\ (Storing \/ Committing)
      THEN CellOf(a) = pending.data
      ELSE \/ readState = "fill" /\ Line(a) = Line(pending.addr) /\ a % Burst >= readCnt
           \/ CellOf(a) \in recent[a]

\* The cache was looked up when the access was accepted; only an invalidation
\* right before it can have emptied the line since.
LookedUp ==
  Asked =>
    /\ request.hit /\ pending.kind = "store" =>
         (Cached(pending.addr) \/ ~dmTag[Line(pending.addr)].valid)
    /\ ~request.hit /\ pending.kind = "store" => ~Cached(pending.addr)
    /\ request.hit /\ pending.kind = "load" /\ pending.space = "cached" =>
         CellOf(pending.addr) \in recent[pending.addr]

Observed ==
  pending.kind = "load" =>
    /\ pending.space = "uncached" => words[pending.addr] \in since
    /\ Answering \/ (Filling /\ readCnt > Word) =>
         readReg \in IF pending.space = "cached" THEN recent[pending.addr] ELSE since

\* A load is filled into the line of its own tag.
FillTag == readState = "fill" => Cached(pending.addr)

MemInv == Typed /\ Phase /\ Accepted /\ Current /\ LineKept /\ LookedUp /\ Observed /\ FillTag

-----------------------------------------------------------------------------
LEMMA Operations ==
  /\ Nothing.kind = "none" /\ Nothing \notin Acc
  /\ \A o \in Acc : /\ o # Nothing
                    /\ Accessing(o) /\ o.kind # "call" /\ o.addr \in Nat /\ o.data \in Vals
                    /\ o.kind \in {"load", "store", "inval"}
                    /\ o.kind \in {"load", "store"} <=> o \in DataOps
  /\ \A o \in DataOps : /\ o.kind \in {"load", "store"} /\ o.space \in {"cached", "uncached"}
                        /\ o.addr \in DataWords /\ o.data \in Vals
  /\ \A o \in Invalidations : o.kind = "inval" /\ o.space \in {"cached", "code"} /\ o.addr = 0
<1>1. \A o \in DataOps : /\ o.kind \in {"load", "store"} /\ o.space \in {"cached", "uncached"}
                         /\ o.addr \in DataWords /\ o.data \in Vals
  BY DEF DataOps
<1>2. \A o \in Invalidations : /\ o.kind = "inval" /\ o.space \in {"cached", "code"}
                               /\ o.addr = 0 /\ o.data = 0
  BY DEF Invalidations
<1>3. Nothing.kind = "none"  BY DEF Nothing, Op
<1>4. \A o \in Acc : o \in DataOps \/ o \in Invalidations  BY DEF Acc
<1>5. DataOps \subseteq Acc  BY DEF Acc
<1>6. ASSUME NEW o \in Acc
      PROVE  /\ o.kind \in {"load", "store", "inval"} /\ o.addr \in Nat /\ o.data \in Vals
             /\ o.kind \in {"load", "store"} <=> o \in DataOps
  <2>1. CASE o \in DataOps  BY <1>1, <2>1, MemoryAssumption
  <2>2. CASE o \in Invalidations  BY <1>1, <1>2, <2>2, MemoryAssumption
  <2> QED  BY <1>4, <2>1, <2>2
<1>7. ASSUME NEW o \in Acc PROVE o # Nothing /\ Accessing(o) /\ o.kind # "call"
  BY <1>3, <1>6 DEF Accessing
<1>8. Nothing \notin Acc  BY <1>7
<1> HIDE DEF Acc, DataOps, Invalidations, Nothing
<1> QED  BY <1>1, <1>2, <1>3, <1>6, <1>7, <1>8

LEMMA Cells ==
  /\ Burst \in Nat /\ Burst > 1 /\ 0 \in Index
  /\ \A a \in DataWords : /\ a \in Nat /\ a % Burst \in Index /\ Align(a) \in Int
                          /\ a = Align(a) + (a % Burst)
                          /\ \A w \in Index : Align(a) + w \in DataWords
  /\ \A a \in Nat : Line(a) \in 0 .. Lines - 1
<1>1. Burst \in Nat /\ Burst > 1 /\ 0 \in Index  BY MemoryAssumption DEF Index
<1>2. ASSUME NEW a \in DataWords
      PROVE  /\ a \in Nat /\ a % Burst \in Index /\ Align(a) \in Int
             /\ a = Align(a) + (a % Burst)
             /\ \A w \in Index : Align(a) + w \in DataWords
  <2>1. a \in Nat  BY MemoryAssumption
  <2>2. a % Burst \in Index  BY <1>1, <2>1 DEF Index
  <2>3. Align(a) = a - (a % Burst) /\ a % Burst \in Int  BY <2>2 DEF Align, Index
  <2>4. Align(a) \in Int /\ a = Align(a) + (a % Burst)
    <3> DEFINE r == a % Burst
               A == Align(a)
    <3>1. r \in Int /\ A = a - r  BY <2>3
    <3> HIDE DEF r, A
    <3>2. A \in Int /\ a = A + r  BY <2>1, <3>1
    <3> QED  BY <3>2 DEF r, A
  <2>5. ASSUME NEW w \in Index PROVE Align(a) + w \in DataWords
    <3>1. Align(a) .. Align(a) + Burst - 1 \subseteq DataWords  BY MemoryAssumption
    <3>2. Align(a) + w \in Align(a) .. Align(a) + Burst - 1  BY <1>1, <2>4 DEF Index
    <3> QED  BY <3>1, <3>2
  <2> QED  BY <2>1, <2>2, <2>4, <2>5
<1>3. ASSUME NEW a \in Nat PROVE Line(a) \in 0 .. Lines - 1
  <2> DEFINE q == a \div Burst
  <2>1. q \in Nat  BY <1>1
  <2> HIDE DEF q
  <2>2. q % Lines \in 0 .. Lines - 1  BY <2>1, MemoryAssumption
  <2> QED  BY <2>2 DEF Line, q
<1> QED  BY <1>1, <1>2, <1>3

\* The method cache at rest asks for nothing and stays so, unless it is called.
LEMMA QuietCache ==
  ASSUME Typed, IcQuiet, MemoryCycle
  PROVE  /\ IcReads = {} /\ IcEna
         /\ icState' = "idle" /\ CodeTyped' /\ methods' = methods
         /\ hitReg' \/ (execute.kind = "call" /\ MemEna /\ base' = execute.addr)
<1>1. ~Missing /\ ~SizeRead /\ ~WordRead /\ ~Done
  BY DEF IcQuiet, Missing, SizeRead, WordRead, Done
<1>2. Controller(IcAnswer) /\ Lookup(CalledBase, MemEna) /\ methods' = methods
  BY DEF MemoryCycle, IcCycle
<1>3. IcReads = {} /\ IcEna  BY <1>1 DEF IcReads, IcEna, IcQuiet
<1>4. icState' = "idle" /\ burstCnt' = burstCnt /\ fetchCnt' = fetchCnt /\ transferSize' = transferSize
  BY <1>1, <1>2 DEF Controller, IcQuiet
<1>5. CASE CalledBase # {} /\ MemEna
  <2>1. execute.kind = "call" /\ CalledBase = {execute.addr}  BY <1>5 DEF CalledBase
  <2>2. execute.addr \in DOMAIN methods  BY <2>1, Operations DEF Typed
  <2>3. base' = execute.addr  BY <1>2, <1>5, <2>1 DEF Lookup
  <2> QED  BY <1>2, <1>3, <1>4, <1>5, <2>1, <2>2, <2>3 DEF Typed, CodeTyped
<1>6. CASE ~(CalledBase # {} /\ MemEna)
  <2>1. base' = base /\ hitReg' = (hitReg \/ SizeRead)  BY <1>2, <1>6 DEF Lookup
  <2> QED  BY <1>2, <1>3, <1>4, <2>1 DEF IcQuiet, Typed, CodeTyped
<1> QED  BY <1>5, <1>6

\* The bus while the method cache asks for nothing.
LEMMA BusOfData ==
  ASSUME IcReads = {}
  PROVE  /\ Bus.cmds = DataBus.cmds
         /\ SelRight <=> DataBus.cmds # {} \/ selRightReg
         /\ SelRight => Bus = DataBus
         /\ ~SelRight => Bus = NoBus
<1>1. IcBus = NoBus  BY DEF IcBus
<1>2. NoBus.cmds = {} /\ NoBus = [NoBus EXCEPT !.cmds = {}]  BY DEF NoBus
<1>3. SelRight <=> DataBus.cmds # {} \/ selRightReg  BY DEF SelRight
<1>4. DataBus = [DataBus EXCEPT !.cmds = DataBus.cmds]  BY DEF DataBus, NoBus, Read
<1>5. DOMAIN DataBus = {"cmds", "addr", "valid", "en", "data"}  BY DEF DataBus, NoBus, Read
<1>6. CASE SelRight
  <2>1. Bus = [DataBus EXCEPT !.cmds = DataBus.cmds]  BY <1>1, <1>2, <1>6 DEF Bus
  <2> QED  BY <1>3, <1>4, <1>6, <2>1
<1>7. CASE ~SelRight
  <2>1. DataBus.cmds = {}  BY <1>3, <1>7
  <2>2. Bus = [NoBus EXCEPT !.cmds = {}]  BY <1>1, <1>2, <1>7, <2>1 DEF Bus
  <2> QED  BY <1>2, <1>3, <1>7, <2>1, <2>2
<1> QED  BY <1>6, <1>7

LEMMA NextWord ==
  ASSUME NEW k \in Index
  PROVE  /\ k = Burst - 1 => (k + 1) % Burst = 0
         /\ k # Burst - 1 => (k + 1) % Burst = k + 1 /\ k + 1 \in Index
<1>1. Burst \in Nat /\ Burst > 1 /\ k \in Nat  BY Cells DEF Index
<1>2. CASE k = Burst - 1
  <2>1. Burst % Burst = 0  BY <1>1
  <2>2. k + 1 = Burst  BY <1>1, <1>2
  <2> QED  BY <1>2, <2>1, <2>2
<1>3. CASE k # Burst - 1
  <2>1. k + 1 \in 0 .. Burst - 1  BY <1>1, <1>3 DEF Index
  <2>2. (k + 1) % Burst = k + 1  BY <1>1, <2>1
  <2> QED  BY <1>3, <2>1, <2>2 DEF Index
<1> QED  BY <1>2, <1>3

-----------------------------------------------------------------------------
(* What a cycle does in which the pipeline moves, and in which it waits for *)
(* an access.                                                              *)

MayRead == IF pending.space = "cached" THEN recent[pending.addr] ELSE since

Cleared == [l \in DOMAIN dmTag |-> [dmTag[l] EXCEPT !.valid = FALSE]]

Proceeds ==
  /\ Enable
  /\ icState' = "idle" /\ CodeTyped' /\ methods' = methods
  /\ hitReg' \/ (execute.kind = "call" /\ base' = execute.addr)
  /\ readState' = "idle" /\ readCnt' = 0 /\ wcCnt' = 0
  /\ wcState' = IF Command.kind = "store" THEN "write" ELSE "idle"
  /\ RamReady' /\ wrBuffer' = [w \in Index |-> wrBuffer'[w]]
  /\ words' = words /\ dmLine' = dmLine
  /\ Invalidates("cached") <=> pending.kind = "inval" /\ pending.space = "cached"
  /\ dmTag' = IF Invalidates("cached") THEN Cleared ELSE dmTag
  /\ readState # "fill" /\ ramState # "writeExe"
  /\ pending.kind = "store" <=> ramState = "writeRet"
  /\ pending.kind = "load" => DataRead \in MayRead

Waits ==
  /\ ~Enable
  /\ UNCHANGED <<accesses, shared, methods, execute, callSlots, pending, loaded, since>>
  /\ request' = [request EXCEPT !.new = FALSE]
  /\ IcQuiet' /\ CodeTyped'
  /\ Command = Nothing

LEMMA RequestOld ==
  ASSUME Typed, Waits
  PROVE  /\ ~request'.new /\ request'.op = request.op
         /\ request' = [op |-> request'.op, new |-> request'.new, hit |-> request'.hit]
<1> DEFINE o == request.op
           n == request.new
           h == request.hit
<1>1. request = [op |-> o, new |-> n, hit |-> h] /\ request' = [request EXCEPT !.new = FALSE]
  BY DEF Typed, Waits
<1> HIDE DEF o, n, h
<1>2. request' = [op |-> o, new |-> FALSE, hit |-> h]  BY <1>1
<1> QED  BY <1>1, <1>2

LEMMA QuietWaits ==
  ASSUME Typed, IcQuiet, MemoryCycle, ~MemEna
  PROVE  Waits
<1>1. ~Enable /\ IcEna  BY QuietCache DEF Enable
<1>2. Stall  BY <1>1 DEF MemoryCycle, Go
<1>3. Command = Nothing  BY <1>1 DEF Command
<1>4. request' = [request EXCEPT !.new = FALSE]  BY <1>3 DEF MemoryCycle, Request
<1>5. since' = since  BY <1>1 DEF MemoryCycle, Remember
<1>6. UNCHANGED methods  BY DEF MemoryCycle, IcCycle
<1>7. pending' = pending /\ loaded' = loaded  BY <1>1, <1>2 DEF Stall
<1>8. UNCHANGED <<accesses, shared, execute, callSlots>>  BY <1>2 DEF Stall
<1>9. IcQuiet' /\ CodeTyped'  BY QuietCache DEF IcQuiet
<1> QED  BY <1>1, <1>3, <1>4, <1>5, <1>6, <1>7, <1>8, <1>9 DEF Waits

\* The memory, when it is not asked.
LEMMA RamAlone ==
  ASSUME MemoryCycle, IcReads = {}, DataBus = NoBus, Typed
  PROVE  /\ ramState = "ready" => ramState' = "ready" /\ wordCount' = wordCount
         /\ ramState = "readExe" => ramState' = "readRet" /\ wordCount' = wordCount
         /\ ramState = "readRet" =>
              /\ ramState' = IF wordCount = Burst - 1 THEN "ready" ELSE "readRet"
              /\ wordCount' = (wordCount + 1) % Burst
         /\ ramState = "writeExe" => ramState' = "writeRet" /\ wordCount' = wordCount
         /\ ramState = "writeRet" => ramState' = "ready" /\ wordCount' = wordCount
         /\ ramAddr' = ramAddr /\ (selRightReg' <=> selRightReg)
         /\ wrBuffer' = [w \in Index |-> wrBuffer'[w]]
         /\ ramState # "ready" /\ ramState # "writeRec" => wrBuffer' = wrBuffer
<1>1. NoBus.cmds = {} /\ NoBus.valid = FALSE  BY DEF NoBus
<1>2. Bus.cmds = {} /\ (selRightReg' <=> selRightReg)
  BY <1>1, BusOfData DEF MemoryCycle
<1>3. Ram(Bus)  BY DEF MemoryCycle
<1>4. {} # {"RD"} /\ {} # {"WR"}  OBVIOUS
<1>5. wrBuffer' = [w \in Index |-> wrBuffer'[w]]
  <2> DEFINE cell == [en |-> Bus.en, data |-> Bus.data]
  <2>1. wrBuffer' = wrBuffer \/ \E k : wrBuffer' = [wrBuffer EXCEPT ![k] = cell]
    BY <1>3 DEF Ram
  <2>2. wrBuffer = [w \in Index |-> wrBuffer[w]]  BY DEF Typed
  <2> HIDE DEF cell
  <2> QED  BY <2>1, <2>2
<1> QED  BY <1>2, <1>3, <1>4, <1>5 DEF Ram

LEMMA RestCycle == ASSUME Typed, Rest, MemoryCycle PROVE Proceeds
<1>1. ~request.new /\ readState = "idle" /\ wcState = "idle" /\ readCnt = 0 /\ wcCnt = 0
  BY DEF Rest, Calm
<1>2. ~DmMiss /\ ~Bypass /\ ~Invalidates("cached") /\ DataBus = NoBus
  BY <1>1 DEF DmMiss, Bypass, Invalidates, DataBus
<1>3. IcReads = {} /\ IcEna  BY QuietCache DEF Rest
<1>4. Enable  BY <1>3 DEF Enable, MemEna, Rest
<1>5. readState' = "idle" /\ readCnt' = 0  BY <1>1, <1>2 DEF MemoryCycle, Reads
<1>6. wcState' = (IF Command.kind = "store" THEN "write" ELSE "idle") /\ wcCnt' = 0
  BY <1>1 DEF MemoryCycle, Writes
<1>7. RamReady' /\ wrBuffer' = [w \in Index |-> wrBuffer'[w]]  BY <1>2, <1>3, RamAlone DEF RamReady, Rest
<1>8. words' = words  BY DEF MemoryCycle, WordsWritten, Rest, RamReady
<1>9. dmLine' = dmLine /\ dmTag' = dmTag  BY <1>1, <1>2 DEF MemoryCycle, DataCache
<1>10. pending.kind = "none"  BY Operations DEF Rest
<1>11. ramState = "ready"  BY DEF Rest, RamReady
<1>12. /\ icState' = "idle" /\ CodeTyped' /\ methods' = methods
       /\ hitReg' \/ (execute.kind = "call" /\ base' = execute.addr)
  BY QuietCache DEF Rest
<1> QED  BY <1>1, <1>2, <1>4, <1>5, <1>6, <1>7, <1>8, <1>9, <1>10, <1>11, <1>12 DEF Proceeds

\* An access that the caches answer at once, or an invalidation.
AnsweredAtOnce == pending.kind = "inval" \/ (pending.kind = "load" /\ pending.space = "cached" /\ request.hit)

LEMMA AskedKinds ==
  ASSUME Typed, Asked, Accepted
  PROVE  /\ request.op = pending /\ pending \in Acc /\ pending # Nothing
         /\ pending.kind \in {"load", "store", "inval"}
         /\ readState = "idle" /\ readCnt = 0 /\ wcCnt = 0
         /\ DmMiss <=> pending.kind = "load" /\ pending.space = "cached" /\ ~request.hit
         /\ Bypass <=> pending.kind = "load" /\ pending.space = "uncached"
         /\ Invalidates("cached") <=> pending.kind = "inval" /\ pending.space = "cached"
         /\ DataDva <=> AnsweredAtOnce
<1>1. request.op = pending /\ pending \in Acc /\ request.new
  BY Operations DEF Asked, Accepted
<1>2. pending.kind \in {"load", "store", "inval"} /\ pending # Nothing  BY <1>1, Operations
<1>3. readState = "idle" /\ readCnt = 0 /\ wcCnt = 0 /\ wcState # "resp"  BY DEF Asked
<1>4. DmMiss <=> pending.kind = "load" /\ pending.space = "cached" /\ ~request.hit
  BY <1>1 DEF DmMiss, DmHit
<1>5. Bypass <=> pending.kind = "load" /\ pending.space = "uncached"  BY <1>1 DEF Bypass
<1>6. \A w : Invalidates(w) <=> pending.kind = "inval" /\ pending.space = w
  BY <1>1 DEF Invalidates
<1>7. pending.kind = "inval" => pending.space \in {"cached", "code"}
  BY <1>1, Operations DEF Acc
<1>8. DataDva <=> AnsweredAtOnce
  BY <1>1, <1>3, <1>6, <1>7 DEF DataDva, AnsweredAtOnce, DmHit
<1> QED  BY <1>1, <1>2, <1>3, <1>4, <1>5, <1>6, <1>8

LEMMA AnsweredCycle ==
  ASSUME Typed, Asked, Accepted, LookedUp, AnsweredAtOnce, MemoryCycle
  PROVE  Proceeds
<1>1. /\ ~DmMiss /\ ~Bypass /\ request.op = pending /\ pending.kind # "store"
      /\ Invalidates("cached") <=> pending.kind = "inval" /\ pending.space = "cached"
      /\ readState = "idle" /\ readCnt = 0 /\ wcCnt = 0 /\ wcState = "idle"
  BY AskedKinds DEF AnsweredAtOnce, Asked
<1>2. DataBus = NoBus  BY <1>1 DEF DataBus
<1>3. IcReads = {} /\ IcEna  BY QuietCache DEF Asked
<1>4. Enable  BY <1>3, AskedKinds DEF Enable, MemEna
<1>5. readState' = "idle" /\ readCnt' = 0  BY <1>1 DEF MemoryCycle, Reads
<1>6. wcState' = (IF Command.kind = "store" THEN "write" ELSE "idle") /\ wcCnt' = 0
  BY <1>1 DEF MemoryCycle, Writes
<1>7. RamReady' /\ wrBuffer' = [w \in Index |-> wrBuffer'[w]]  BY <1>2, <1>3, RamAlone DEF RamReady, Asked
<1>8. words' = words  BY DEF MemoryCycle, WordsWritten, Asked, RamReady
<1>9. dmLine' = dmLine /\ dmTag' = IF Invalidates("cached") THEN Cleared ELSE dmTag
  BY <1>1 DEF MemoryCycle, DataCache, Cleared
<1>10. pending.kind = "load" => DataRead \in MayRead
  BY <1>1 DEF DataRead, MayRead, LookedUp, AnsweredAtOnce, CellOf
<1>11. ramState = "ready"  BY DEF Asked, RamReady
<1>12. /\ icState' = "idle" /\ CodeTyped' /\ methods' = methods
       /\ hitReg' \/ (execute.kind = "call" /\ base' = execute.addr)
  BY QuietCache DEF Asked
<1> QED  BY <1>1, <1>4, <1>5, <1>6, <1>7, <1>8, <1>9, <1>10, <1>11, <1>12 DEF Proceeds

\* The word of a load has been kept.
LEMMA AnsweringCycle ==
  ASSUME Typed, Answering, Accepted, Observed, MemoryCycle
  PROVE  Proceeds
<1>1. /\ ~request.new /\ readCnt = 0 /\ wcCnt = 0 /\ wcState = "idle" /\ pending.kind = "load"
      /\ readState \in {"respond", "readResp"} /\ pending.space \in {"cached", "uncached"}
  BY Operations DEF Answering
<1>2. ~DmMiss /\ ~Bypass /\ ~Invalidates("cached") /\ DataBus = NoBus /\ DataDva
  BY <1>1 DEF DmMiss, Bypass, Invalidates, DataBus, DataDva
<1>3. IcReads = {} /\ IcEna  BY QuietCache DEF Answering
<1>4. Enable  BY <1>2, <1>3 DEF Enable, MemEna
<1>5. readState' = "idle" /\ readCnt' = 0  BY <1>1, <1>2 DEF MemoryCycle, Reads
<1>6. wcState' = (IF Command.kind = "store" THEN "write" ELSE "idle") /\ wcCnt' = 0
  BY <1>1 DEF MemoryCycle, Writes
<1>7. RamReady' /\ wrBuffer' = [w \in Index |-> wrBuffer'[w]]  BY <1>2, <1>3, RamAlone DEF RamReady, Answering
<1>8. words' = words  BY DEF MemoryCycle, WordsWritten, Answering, RamReady
<1>9. dmLine' = dmLine /\ dmTag' = dmTag  BY <1>1, <1>2 DEF MemoryCycle, DataCache
<1>10. DataRead \in MayRead
  BY <1>1 DEF DataRead, MayRead, Observed
<1>11. ramState = "ready"  BY DEF Answering, RamReady
<1>12. /\ icState' = "idle" /\ CodeTyped' /\ methods' = methods
       /\ hitReg' \/ (execute.kind = "call" /\ base' = execute.addr)
  BY QuietCache DEF Answering
<1> QED  BY <1>1, <1>2, <1>4, <1>5, <1>6, <1>7, <1>8, <1>9, <1>10, <1>11, <1>12 DEF Proceeds

LEMMA StoredCycle == ASSUME Typed, Stored, Accepted, MemoryCycle PROVE Proceeds
<1>1. /\ ~request.new /\ readCnt = 0 /\ wcCnt = 0 /\ wcState = "resp" /\ readState = "idle"
      /\ pending.kind = "store" /\ ramState = "writeRet" /\ wordCount = 0 /\ selRightReg /\ IcQuiet
  BY DEF Stored, Waiting
<1>2. ~DmMiss /\ ~Bypass /\ ~Invalidates("cached") /\ DataBus = NoBus /\ Answers /\ DataDva
  BY <1>1 DEF DmMiss, Bypass, Invalidates, DataBus, DataDva, Answers, RamDva
<1>3. IcReads = {} /\ IcEna  BY <1>1, QuietCache
<1>4. Enable  BY <1>2, <1>3 DEF Enable, MemEna
<1>5. readState' = "idle" /\ readCnt' = 0  BY <1>1, <1>2 DEF MemoryCycle, Reads
<1>6. wcState' = (IF Command.kind = "store" THEN "write" ELSE "idle") /\ wcCnt' = 0
  BY <1>1, <1>2 DEF MemoryCycle, Writes
<1>7. RamReady' /\ wrBuffer' = [w \in Index |-> wrBuffer'[w]]  BY <1>1, <1>2, <1>3, RamAlone DEF RamReady
<1>8. words' = words  BY <1>1 DEF MemoryCycle, WordsWritten
<1>9. dmLine' = dmLine /\ dmTag' = dmTag  BY <1>1, <1>2 DEF MemoryCycle, DataCache
<1>12. /\ icState' = "idle" /\ CodeTyped' /\ methods' = methods
       /\ hitReg' \/ (execute.kind = "call" /\ base' = execute.addr)
  BY <1>1, QuietCache
<1> QED  BY <1>1, <1>2, <1>4, <1>5, <1>6, <1>7, <1>8, <1>9, <1>12 DEF Proceeds

\* A load from memory: the bus is asked.
LEMMA AskedLoad ==
  ASSUME Typed, Asked, Accepted, pending.kind = "load", ~AnsweredAtOnce, MemoryCycle
  PROVE  /\ Waits /\ Filling'
         /\ words' = words /\ recent' = recent /\ dmLine' = dmLine
         /\ dmTag' = IF pending.space = "cached"
                     THEN [dmTag EXCEPT ![Line(pending.addr)] =
                             [valid |-> TRUE, addr |-> Align(pending.addr)]]
                     ELSE dmTag
         /\ readCnt' = 0
<1>1. /\ request.op = pending /\ readState = "idle" /\ readCnt = 0 /\ wcCnt = 0 /\ wcState = "idle"
      /\ ~DataDva /\ pending # Nothing /\ pending \in Acc /\ (DmMiss \/ Bypass)
      /\ DmMiss <=> pending.space = "cached"
      /\ Bypass <=> pending.space # "cached"
      /\ ~Invalidates("cached")
  <2>1. pending \in DataOps /\ pending.space \in {"cached", "uncached"}
    BY Operations, AskedKinds
  <2>2. wcState = "idle"  BY DEF Asked
  <2>3. /\ ~DataDva /\ (DmMiss \/ Bypass) /\ ~Invalidates("cached")
        /\ DmMiss <=> pending.space = "cached"
        /\ Bypass <=> pending.space # "cached"
    BY <2>1, AskedKinds DEF AnsweredAtOnce
  <2> QED  BY <2>2, <2>3, AskedKinds
<1>2. ~MemEna  BY <1>1 DEF MemEna
<1>3. Waits  BY <1>2, QuietWaits DEF Asked
<1>4. DataBus = Read(Align(pending.addr))  BY <1>1 DEF DataBus
<1>5. DataBus.cmds = {"RD"} /\ DataBus.addr = Align(pending.addr)  BY <1>4 DEF Read, NoBus
<1>6. IcReads = {}  BY QuietCache DEF Asked
<1>7. Bus.cmds = {"RD"} /\ Bus.addr = Align(pending.addr) /\ SelRight
  BY <1>5, <1>6, BusOfData
<1>8. ramState = "ready" /\ wordCount = 0  BY DEF Asked, RamReady
<1>9. ramState' = "readExe" /\ ramAddr' = Align(pending.addr) /\ wordCount' = 0
  <2>1. {"RD"} # {} /\ {"RD"} # {"WR"} /\ Ram(Bus)  BY DEF MemoryCycle
  <2> QED  BY <1>7, <1>8, <2>1 DEF Ram
<1>10. selRightReg'  BY <1>7 DEF MemoryCycle
<1>11. readState' = (IF pending.space = "cached" THEN "fill" ELSE "read") /\ readCnt' = 0
  BY <1>1 DEF MemoryCycle, Reads
<1>12. wcState' = "idle" /\ wcCnt' = 0
  <2>1. Command.kind = "none"  BY <1>3, Operations DEF Waits
  <2> QED  BY <1>1, <2>1 DEF MemoryCycle, Writes
<1>13. words' = words  BY <1>8 DEF MemoryCycle, WordsWritten
<1>14. dmLine' = dmLine
  BY <1>1 DEF MemoryCycle, DataCache
<1>15. dmTag' = IF pending.space = "cached"
                THEN [dmTag EXCEPT ![Line(pending.addr)] =
                        [valid |-> TRUE, addr |-> Align(pending.addr)]]
                ELSE dmTag
  BY <1>1 DEF MemoryCycle, DataCache
<1>16. recent' = recent
  <2>1. ~Enable  BY <1>3 DEF Waits
  <2>2. recent' = [a \in DataWords |-> recent[a]]  BY <1>8, <2>1 DEF MemoryCycle, Remember
  <2> QED  BY <2>2 DEF Typed
<1>17. Filling'
  <2>1. pending' = pending /\ ~request'.new /\ IcQuiet'  BY <1>3, RequestOld DEF Waits
  <2>2. pending \in DataOps  BY <1>1, Operations
  <2> QED  BY <1>9, <1>10, <1>11, <1>12, <2>1, <2>2 DEF Filling, Waiting
<1> QED  BY <1>3, <1>11, <1>13, <1>14, <1>15, <1>16, <1>17

\* The burst of a load arrives word by word.
LEMMA FillingCycle ==
  ASSUME Typed, Filling, Accepted, MemoryCycle
  PROVE  /\ Waits
         /\ words' = words /\ recent' = recent /\ dmTag' = dmTag
         /\ IF ramState = "readRet"
            THEN /\ dmLine' = IF pending.space = "cached"
                              THEN [dmLine EXCEPT ![Line(pending.addr)][wordCount] = RamData]
                              ELSE dmLine
                 /\ readReg' = IF wordCount = Word THEN RamData ELSE readReg
                 /\ IF wordCount = Burst - 1 THEN Answering'
                    ELSE Filling' /\ readCnt' = readCnt + 1
            ELSE dmLine' = dmLine /\ Filling' /\ readCnt' = 0
         /\ RamData = words[Align(pending.addr) + wordCount]
         /\ Align(pending.addr) + wordCount \in DataWords
<1>1. /\ ~request.new /\ wcState = "idle" /\ wcCnt = 0 /\ readCnt = wordCount /\ selRightReg
      /\ readState = IF pending.space = "cached" THEN "fill" ELSE "read"
      /\ ramState \in {"readExe", "readRet"} /\ (ramState = "readExe" => wordCount = 0)
      /\ ramAddr = Align(pending.addr) /\ pending \in DataOps /\ IcQuiet /\ request.op = pending
      /\ pending # Nothing /\ pending.kind = "load"
  BY Operations DEF Filling, Waiting, Accepted, Acc
<1>2. ~DmMiss /\ ~Bypass /\ ~Invalidates("cached") /\ ~Invalidates("code") /\ DataBus = NoBus
  BY <1>1 DEF DmMiss, Bypass, Invalidates, DataBus
<1>3. ~DataDva
  BY <1>1, <1>2 DEF DataDva
<1>4. ~MemEna  BY <1>1, <1>3 DEF MemEna
<1>5. Waits  BY <1>1, <1>4, QuietWaits
<1>6. IcReads = {}  BY <1>1, QuietCache
<1>7. Answers <=> ramState = "readRet"  BY <1>1 DEF Answers, RamDva
<1>8. /\ ramState = "readExe" => ramState' = "readRet" /\ wordCount' = wordCount
      /\ ramState = "readRet" => /\ ramState' = IF wordCount = Burst - 1 THEN "ready" ELSE "readRet"
                                 /\ wordCount' = (wordCount + 1) % Burst
      /\ ramAddr' = ramAddr /\ selRightReg'
  BY <1>1, <1>2, <1>6, RamAlone
<1>9. /\ readCnt' = IF ramState = "readRet" THEN (readCnt + 1) % Burst ELSE readCnt
      /\ readReg' = IF ramState = "readRet" /\ readCnt = Word THEN RamData ELSE readReg
      /\ readState' = IF ramState = "readRet" /\ readCnt = Burst - 1
                      THEN IF pending.space = "cached" THEN "respond" ELSE "readResp"
                      ELSE readState
  <2>1. readState \in {"fill", "read"} /\ (readState = "fill" <=> pending.space = "cached")
    BY <1>1
  <2>2. Reads  BY DEF MemoryCycle
  <2> QED  BY <1>1, <1>2, <1>7, <2>1, <2>2 DEF Reads, Word
<1>10. wcState' = "idle" /\ wcCnt' = 0
  <2>1. Command.kind = "none"  BY <1>5, Operations DEF Waits
  <2> QED  BY <1>1, <2>1 DEF MemoryCycle, Writes
<1>11. words' = words  BY <1>1 DEF MemoryCycle, WordsWritten
<1>12. dmTag' = dmTag /\ dmLine' = IF readState = "fill" /\ ramState = "readRet"
                                   THEN [dmLine EXCEPT ![Line(pending.addr)][readCnt] = RamData]
                                   ELSE dmLine
  BY <1>1, <1>2, <1>7 DEF MemoryCycle, DataCache
<1>13. recent' = recent
  <2>1. ~Enable  BY <1>5 DEF Waits
  <2>2. recent' = [a \in DataWords |-> recent[a]]  BY <1>1, <2>1 DEF MemoryCycle, Remember
  <2> QED  BY <2>2 DEF Typed
<1>14. pending' = pending /\ ~request'.new /\ IcQuiet'  BY <1>5, RequestOld DEF Waits
<1>15. Align(pending.addr) + wordCount \in DataWords /\ RamData = words[Align(pending.addr) + wordCount]
  <2>1. pending.addr \in DataWords /\ wordCount \in Index  BY <1>1, Operations DEF Typed
  <2>2. Align(pending.addr) + wordCount \in DataWords  BY <2>1, Cells
  <2> QED  BY <1>1, <2>2 DEF RamData
<1>16. wordCount \in Index  BY DEF Typed
<1>17. CASE ramState = "readExe"
  <2>1. Filling' /\ readCnt' = 0
    BY <1>1, <1>8, <1>9, <1>10, <1>14, <1>17 DEF Filling, Waiting
  <2> QED  BY <1>5, <1>11, <1>12, <1>13, <1>15, <1>17, <2>1
<1>18. CASE ramState = "readRet" /\ wordCount = Burst - 1
  <2>1. wordCount' = 0 /\ readCnt' = 0  BY <1>1, <1>8, <1>9, <1>16, <1>18, NextWord
  <2>2. Answering'
    BY <1>1, <1>8, <1>9, <1>10, <1>14, <1>18, <2>1 DEF Answering, RamReady
  <2> QED  BY <1>1, <1>5, <1>9, <1>11, <1>12, <1>13, <1>15, <1>18, <2>2
<1>19. CASE ramState = "readRet" /\ wordCount # Burst - 1
  <2>1. wordCount' = wordCount + 1 /\ readCnt' = readCnt + 1  BY <1>1, <1>8, <1>9, <1>16, <1>19, NextWord
  <2>2. Filling'
    BY <1>1, <1>8, <1>9, <1>10, <1>14, <1>19, <2>1 DEF Filling, Waiting
  <2> QED  BY <1>1, <1>5, <1>9, <1>11, <1>12, <1>13, <1>15, <1>19, <2>1, <2>2
<1> QED  BY <1>1, <1>17, <1>18, <1>19

\* A store: the cache takes the word when it holds the line, and the burst starts.
LEMMA AskedStore ==
  ASSUME Typed, Asked, Accepted, pending.kind = "store", MemoryCycle
  PROVE  /\ Waits /\ Storing'
         /\ words' = words /\ recent' = recent /\ dmTag' = dmTag
         /\ dmLine' = IF request.hit
                      THEN [dmLine EXCEPT ![Line(pending.addr)][Word] = pending.data]
                      ELSE dmLine
<1>1. /\ request.op = pending /\ request.new /\ readState = "idle" /\ readCnt = 0 /\ wcCnt = 0
      /\ wcState = "write" /\ IcQuiet /\ pending # Nothing /\ pending \in DataOps
      /\ ramState = "ready" /\ wordCount = 0
      /\ ~DataDva /\ ~DmMiss /\ ~Bypass /\ ~Invalidates("cached")
  <2>1. wcState = "write" /\ request.new /\ IcQuiet /\ ramState = "ready" /\ wordCount = 0
    BY DEF Asked, RamReady
  <2>2. ~DataDva /\ ~DmMiss /\ ~Bypass /\ ~Invalidates("cached")
    BY AskedKinds DEF AnsweredAtOnce
  <2> QED  BY <2>1, <2>2, AskedKinds, Operations
<1>2. ~MemEna  BY <1>1 DEF MemEna
<1>3. Waits  BY <1>1, <1>2, QuietWaits
<1>4. /\ DataBus.cmds = {"WR"} /\ DataBus.addr = Align(pending.addr)
      /\ DataBus.en = (0 = Word) /\ DataBus.data = pending.data
  BY <1>1 DEF DataBus, Word
<1>5. IcReads = {}  BY <1>1, QuietCache
<1>6. Bus = DataBus /\ SelRight /\ Bus.cmds = {"WR"}  BY <1>4, <1>5, BusOfData
<1>7. /\ ramState' = "writeRec" /\ ramAddr' = Align(pending.addr) /\ wordCount' = 1
      /\ wrBuffer' = [wrBuffer EXCEPT ![0] = [en |-> DataBus.en, data |-> DataBus.data]]
  <2>1. {"WR"} # {} /\ {"WR"} # {"RD"}  OBVIOUS
  <2>2. Ram(DataBus)  BY <1>6 DEF MemoryCycle
  <2>3. ramState' = "writeRec" /\ ramAddr' = Align(pending.addr) /\ wordCount' = 1
    BY <1>1, <1>4, <2>1, <2>2 DEF Ram
  <2>4. wrBuffer' = [wrBuffer EXCEPT ![0] = [en |-> DataBus.en, data |-> DataBus.data]]
    BY <1>1, <2>2 DEF Ram
  <2> QED  BY <2>3, <2>4
<1>8. selRightReg'  BY <1>6 DEF MemoryCycle
<1>9. readState' = "idle" /\ readCnt' = 0  BY <1>1 DEF MemoryCycle, Reads
<1>10. Burst > 1 /\ Burst \in Nat /\ 0 \in Index  BY Cells
<1>11. wcState' = "write" /\ wcCnt' = 1
  <2>1. Command.kind = "none"  BY <1>3, Operations DEF Waits
  <2>2. (0 + 1) % Burst = 1  BY <1>10, NextWord
  <2>3. Burst - 1 # 0  BY <1>10
  <2> QED  BY <1>1, <2>1, <2>2, <2>3 DEF MemoryCycle, Writes
<1>12. words' = words  BY <1>1 DEF MemoryCycle, WordsWritten
<1>13. dmTag' = dmTag /\ dmLine' = IF request.hit
                                   THEN [dmLine EXCEPT ![Line(pending.addr)][Word] = pending.data]
                                   ELSE dmLine
  BY <1>1 DEF MemoryCycle, DataCache, DmHit, Word
<1>14. recent' = recent
  <2>1. ~Enable  BY <1>3 DEF Waits
  <2>2. recent' = [a \in DataWords |-> recent[a]]  BY <1>1, <2>1 DEF MemoryCycle, Remember
  <2> QED  BY <2>2 DEF Typed
<1>15. pending' = pending /\ ~request'.new /\ IcQuiet'  BY <1>3, RequestOld DEF Waits
<1>16. Sent(0)'
  <2>1. wrBuffer'[0] = [en |-> DataBus.en, data |-> DataBus.data]
    BY <1>7, <1>10 DEF Typed
  <2>2. wrBuffer'[0].en = DataBus.en /\ wrBuffer'[0].data = DataBus.data  BY <2>1
  <2>3. Word' = Word  BY <1>15 DEF Word
  <2> QED  BY <1>4, <1>15, <2>2, <2>3 DEF Sent
<1>17. \A w \in 0 .. wordCount' - 1 : Sent(w)'
  <2>1. 0 .. wordCount' - 1 = {0}  BY <1>7
  <2> QED  BY <1>16, <2>1
<1>18. Storing'
  BY <1>1, <1>7, <1>8, <1>9, <1>11, <1>15, <1>17 DEF Storing, Waiting
<1> QED  BY <1>3, <1>12, <1>13, <1>14, <1>18

LEMMA StoringCycle ==
  ASSUME Typed, Storing, Accepted, MemoryCycle
  PROVE  /\ Waits /\ (Storing' \/ Committing')
         /\ words' = words /\ recent' = recent /\ dmTag' = dmTag /\ dmLine' = dmLine
<1>1. /\ ~request.new /\ request.op = pending /\ readState = "idle" /\ readCnt = 0
      /\ wcState = "write" /\ wcCnt = wordCount /\ wordCount > 0 /\ ramState = "writeRec"
      /\ IcQuiet /\ selRightReg /\ pending # Nothing /\ pending \in DataOps
      /\ ramAddr = Align(pending.addr) /\ pending.kind = "store"
      /\ \A w \in 0 .. wordCount - 1 : Sent(w)
  BY Operations DEF Storing, Waiting, Accepted, Acc
<1>2. ~DmMiss /\ ~Bypass /\ ~Invalidates("cached") /\ ~Invalidates("code")
  BY <1>1 DEF DmMiss, Bypass, Invalidates
<1>3. ~DataDva  BY <1>1, <1>2 DEF DataDva
<1>4. ~MemEna  BY <1>1, <1>3 DEF MemEna
<1>5. Waits  BY <1>1, <1>4, QuietWaits
<1>6. wordCount \in Index /\ wordCount # 0  BY <1>1 DEF Typed
<1>7. /\ DataBus.cmds = {} /\ DataBus.valid
      /\ DataBus.en = (wordCount = Word) /\ DataBus.data = pending.data
  BY <1>1, <1>2, <1>6 DEF DataBus, Word
<1>8. IcReads = {}  BY <1>1, QuietCache
<1>9. Bus = DataBus /\ SelRight  BY <1>1, <1>8, BusOfData
<1>10. /\ ramState' = IF wordCount = Burst - 1 THEN "writeExe" ELSE "writeRec"
       /\ ramAddr' = ramAddr /\ wordCount' = (wordCount + 1) % Burst
       /\ wrBuffer' = [wrBuffer EXCEPT ![wordCount] = [en |-> DataBus.en, data |-> DataBus.data]]
  <2>1. Ram(DataBus)  BY <1>9 DEF MemoryCycle
  <2> QED  BY <1>1, <1>7, <2>1 DEF Ram
<1>11. selRightReg'  BY <1>9 DEF MemoryCycle
<1>12. readState' = "idle" /\ readCnt' = 0  BY <1>1, <1>2 DEF MemoryCycle, Reads
<1>13. /\ wcState' = IF wordCount = Burst - 1 THEN "resp" ELSE "write"
       /\ wcCnt' = (wordCount + 1) % Burst
  <2>1. Command.kind = "none"  BY <1>5, Operations DEF Waits
  <2> QED  BY <1>1, <2>1 DEF MemoryCycle, Writes
<1>14. words' = words  BY <1>1 DEF MemoryCycle, WordsWritten
<1>15. dmTag' = dmTag /\ dmLine' = dmLine
  BY <1>1, <1>2 DEF MemoryCycle, DataCache
<1>16. recent' = recent
  <2>1. ~Enable  BY <1>5 DEF Waits
  <2>2. recent' = [a \in DataWords |-> recent[a]]  BY <1>1, <2>1 DEF MemoryCycle, Remember
  <2> QED  BY <2>2 DEF Typed
<1>17. pending' = pending /\ ~request'.new /\ IcQuiet' /\ Word' = Word
  BY <1>5, RequestOld DEF Waits, Word
<1>18. ASSUME NEW w \in 0 .. wordCount PROVE Sent(w)'
  <2>1. w \in Index  BY <1>6, Cells DEF Index
  <2>2. CASE w = wordCount
    <3>1. wrBuffer'[w] = [en |-> DataBus.en, data |-> DataBus.data]
      BY <1>10, <2>1, <2>2 DEF Typed
    <3>2. wrBuffer'[w].en = DataBus.en /\ wrBuffer'[w].data = DataBus.data  BY <3>1
    <3> QED  BY <1>7, <1>17, <2>2, <3>2 DEF Sent
  <2>3. CASE w # wordCount
    <3>1. wrBuffer'[w] = wrBuffer[w]  BY <1>10, <2>1, <2>3 DEF Typed
    <3>2. w \in 0 .. wordCount - 1  BY <1>6, <2>3 DEF Index
    <3> QED  BY <1>1, <1>17, <3>1, <3>2 DEF Sent
  <2> QED  BY <2>2, <2>3
<1>19. CASE wordCount = Burst - 1
  <2>1. wordCount' = 0 /\ wcCnt' = 0  BY <1>6, <1>10, <1>13, <1>19, NextWord
  <2>2. \A w \in Index : Sent(w)'  BY <1>18, <1>19 DEF Index
  <2>3. Committing'
    BY <1>1, <1>10, <1>11, <1>12, <1>13, <1>17, <1>19, <2>1, <2>2 DEF Committing, Waiting
  <2> QED  BY <1>5, <1>14, <1>15, <1>16, <2>3
<1>20. CASE wordCount # Burst - 1
  <2>1. wordCount' = wordCount + 1 /\ wcCnt' = wordCount + 1  BY <1>6, <1>10, <1>13, <1>20, NextWord
  <2>2. wordCount' > 0 /\ wordCount' - 1 = wordCount  BY <1>6, <2>1 DEF Index
  <2>3. Storing'
    BY <1>1, <1>10, <1>11, <1>12, <1>13, <1>17, <1>18, <1>20, <2>1, <2>2 DEF Storing, Waiting
  <2> QED  BY <1>5, <1>14, <1>15, <1>16, <2>3
<1> QED  BY <1>19, <1>20

LEMMA CommittingCycle ==
  ASSUME Typed, Committing, Accepted, MemoryCycle
  PROVE  /\ Waits /\ Stored'
         /\ words' = [words EXCEPT ![pending.addr] = pending.data]
         /\ recent' = [recent EXCEPT ![pending.addr] = {pending.data}]
         /\ dmTag' = dmTag /\ dmLine' = dmLine
<1>1. /\ ~request.new /\ request.op = pending /\ readState = "idle" /\ readCnt = 0
      /\ wcState = "resp" /\ wcCnt = 0 /\ wordCount = 0 /\ ramState = "writeExe"
      /\ IcQuiet /\ selRightReg /\ pending # Nothing /\ pending \in DataOps
      /\ ramAddr = Align(pending.addr) /\ pending.kind = "store"
      /\ \A w \in Index : Sent(w)
  BY Operations DEF Committing, Waiting, Accepted, Acc
<1>2. ~DmMiss /\ ~Bypass /\ ~Invalidates("cached") /\ ~Invalidates("code") /\ DataBus = NoBus
      /\ ~Answers
  BY <1>1 DEF DmMiss, Bypass, Invalidates, DataBus, Answers, RamDva
<1>3. ~DataDva  BY <1>1, <1>2 DEF DataDva
<1>4. ~MemEna  BY <1>1, <1>3 DEF MemEna
<1>5. Waits  BY <1>1, <1>4, QuietWaits
<1>6. IcReads = {}  BY <1>1, QuietCache
<1>7. ramState' = "writeRet" /\ wordCount' = 0 /\ ramAddr' = ramAddr /\ selRightReg'
  BY <1>1, <1>2, <1>6, RamAlone
<1>8. readState' = "idle" /\ readCnt' = 0  BY <1>1, <1>2 DEF MemoryCycle, Reads
<1>9. wcState' = "resp" /\ wcCnt' = 0
  <2>1. Command.kind = "none"  BY <1>5, Operations DEF Waits
  <2> QED  BY <1>1, <1>2, <2>1 DEF MemoryCycle, Writes
<1>10. dmTag' = dmTag /\ dmLine' = dmLine
  BY <1>1, <1>2 DEF MemoryCycle, DataCache
<1>11. pending.addr \in DataWords  BY <1>1, Operations
<1>12. recent' = [recent EXCEPT ![pending.addr] = {pending.data}]
  <2>1. ~Enable  BY <1>5 DEF Waits
  <2>2. recent' = [a \in DataWords |-> IF pending.addr = a THEN {pending.data} ELSE recent[a]]
    BY <1>1, <2>1 DEF MemoryCycle, Remember
  <2> QED  BY <1>11, <2>2 DEF Typed
<1>13. ASSUME NEW a \in DataWords
       PROVE  (IF Align(a) = ramAddr /\ wrBuffer[a % Burst].en THEN wrBuffer[a % Burst].data ELSE words[a])
                = IF a = pending.addr THEN pending.data ELSE words[a]
  <2>1. a % Burst \in Index /\ Sent(a % Burst)  BY <1>1, Cells
  <2>2. a = Align(a) + (a % Burst) /\ pending.addr = Align(pending.addr) + Word
    BY <1>11, Cells DEF Word
  <2>3. Align(a) = ramAddr /\ wrBuffer[a % Burst].en <=> a = pending.addr
    BY <1>1, <2>1, <2>2 DEF Sent, Word
  <2> QED  BY <2>1, <2>3 DEF Sent, Word
<1>14. words' = [words EXCEPT ![pending.addr] = pending.data]
  <2>1. words' = [a \in DataWords |-> IF a = pending.addr THEN pending.data ELSE words[a]]
    BY <1>1, <1>13 DEF MemoryCycle, WordsWritten
  <2> QED  BY <1>11, <2>1 DEF Typed
<1>15. pending' = pending /\ ~request'.new /\ IcQuiet'  BY <1>5, RequestOld DEF Waits
<1>16. Stored'
  BY <1>1, <1>7, <1>8, <1>9, <1>15 DEF Stored, Waiting
<1> QED  BY <1>5, <1>10, <1>12, <1>14, <1>16

\* The bus while the method cache asks for a burst.
LEMMA BusOfCode ==
  ASSUME NEW a, IcReads = {a}, DataBus = NoBus
  PROVE  Bus.cmds = {"RD"} /\ Bus.addr = a /\ ~SelRight
<1>1. IcReads # {} /\ (CHOOSE b \in IcReads : TRUE) = a  OBVIOUS
<1>2. IcBus = Read(a)  BY <1>1 DEF IcBus
<1>3. ~SelRight  BY <1>1 DEF SelRight
<1>4. NoBus.cmds = {}  BY DEF NoBus
<1>5. Read(a).cmds = {"RD"} /\ Read(a).addr = a /\ "cmds" \in DOMAIN Read(a)  BY DEF Read, NoBus
<1>6. Bus = [Read(a) EXCEPT !.cmds = {"RD"} \cup {}]  BY <1>2, <1>3, <1>4, <1>5 DEF Bus
<1>7. Bus.addr = a /\ Bus.cmds = {"RD"} \cup {}  BY <1>5, <1>6 DEF Read, NoBus
<1> QED  BY <1>3, <1>7

\* What the data side does while a method is loaded.
LEMMA FetchingSide ==
  ASSUME Typed, Fetching, MemoryCycle
  PROVE  /\ MemEna /\ (Enable <=> IcEna) /\ DataBus = NoBus
         /\ ~Invalidates("cached") /\ pending.kind = "none"
         /\ readState' = "idle" /\ readCnt' = 0 /\ wcCnt' = 0
         /\ wcState' = IF Command.kind = "store" THEN "write" ELSE "idle"
         /\ words' = words /\ dmLine' = dmLine /\ dmTag' = dmTag
         /\ base' = base /\ (hitReg' <=> hitReg \/ SizeRead) /\ methods' = methods
         /\ slaveReg' = IcAnswer /\ Controller(IcAnswer)
         /\ ramState # "writeExe" /\ ramState # "writeRet"
         /\ ~Enable => Stall /\ ~DataDva
<1>1. ~request.new /\ readState = "idle" /\ wcState = "idle" /\ readCnt = 0 /\ wcCnt = 0
      /\ pending = Nothing /\ execute.kind # "call"
  BY DEF Fetching, Calm
<1>2. ~DmMiss /\ ~Bypass /\ ~Invalidates("cached") /\ ~Invalidates("code") /\ DataBus = NoBus
  BY <1>1 DEF DmMiss, Bypass, Invalidates, DataBus
<1>3. ~DataDva  BY <1>1, <1>2 DEF DataDva
<1>4. MemEna /\ (Enable <=> IcEna)  BY <1>1 DEF MemEna, Enable
<1>5. readState' = "idle" /\ readCnt' = 0  BY <1>1, <1>2 DEF MemoryCycle, Reads
<1>6. wcState' = (IF Command.kind = "store" THEN "write" ELSE "idle") /\ wcCnt' = 0
  BY <1>1 DEF MemoryCycle, Writes
<1>7. ramState # "writeExe" /\ ramState # "writeRet"  BY DEF Fetching, BurstUnderWay, RamReady
<1>8. words' = words  BY <1>7 DEF MemoryCycle, WordsWritten
<1>9. dmLine' = dmLine /\ dmTag' = dmTag  BY <1>1, <1>2 DEF MemoryCycle, DataCache
<1>10. pending.kind = "none"  BY <1>1, Operations
<1>11. CalledBase = {}  BY <1>1 DEF CalledBase
<1>12. Controller(IcAnswer) /\ Lookup(CalledBase, MemEna) /\ methods' = methods
  BY DEF MemoryCycle, IcCycle
<1>13. base' = base /\ (hitReg' <=> hitReg \/ SizeRead)  BY <1>11, <1>12 DEF Lookup
<1>14. slaveReg' = IcAnswer  BY <1>12 DEF Controller
<1>15. ~Enable => Stall  BY DEF MemoryCycle, Go
<1> QED  BY <1>2, <1>3, <1>4, <1>5, <1>6, <1>7, <1>8, <1>9, <1>10, <1>12, <1>13, <1>14, <1>15

\* The size of a method arrives as a number.
LEMMA FetchingTyped ==
  ASSUME Typed, Fetching, MemoryCycle
  PROVE  CodeTyped'
<1>1. Controller(IcAnswer) /\ base' = base /\ methods' = methods  BY FetchingSide
<1>2. icState' \in {"idle", "size", "transfer"}  BY <1>1 DEF Controller, Typed, CodeTyped
<1>3. burstCnt' \in Index
  <2>1. burstCnt' \in {0, (burstCnt + 1) % Burst, burstCnt}  BY <1>1 DEF Controller
  <2>2. burstCnt \in Index /\ 0 \in Index  BY Cells DEF Typed, CodeTyped
  <2>3. (burstCnt + 1) % Burst \in Index  BY <2>2, NextWord
  <2> QED  BY <2>1, <2>2, <2>3
<1>4. CacheWords \in Nat \ {0}  BY MemoryAssumption
<1>5. fetchCnt' \in Int
  <2>1. fetchCnt' \in {0, (fetchCnt + 1) % CacheWords, fetchCnt}  BY <1>1 DEF Controller
  <2>2. fetchCnt \in Int  BY DEF Typed, CodeTyped
  <2> QED  BY <1>4, <2>1, <2>2
<1>6. transferSize' \in Int
  <2>1. CASE SizeRead
    <3>1. icState = "size" /\ slaveReg.dva /\ burstCnt = (base - 1) % Burst  BY <2>1 DEF SizeRead
    <3>2. slaveReg.data = base - 1 /\ base \in DOMAIN methods
      BY <3>1 DEF Fetching, BurstUnderWay
    <3>3. base \in Nat /\ methods \in [DOMAIN methods -> Nat \ {0}]
      BY <3>2 DEF Typed, ProgramTyped
    <3>4. Size = methods[base]  BY <3>2, <3>3 DEF Size
    <3>5. Size \in Nat \ {0}  BY <3>2, <3>3, <3>4
    <3>6. transferSize' = (Size - 1) % CacheWords  BY <1>1, <2>1 DEF Controller
    <3> HIDE DEF Size
    <3> QED  BY <1>4, <3>5, <3>6
  <2>2. CASE ~SizeRead
    BY <1>1, <2>2 DEF Controller, Typed, CodeTyped
  <2> QED  BY <2>1, <2>2
<1> QED  BY <1>1, <1>2, <1>3, <1>5, <1>6 DEF Typed, CodeTyped

\* The pipeline waits for a method.
Loads ==
  /\ ~Enable
  /\ UNCHANGED <<accesses, shared, methods, execute, callSlots, pending, loaded, since>>
  /\ UNCHANGED <<words, recent, dmTag, dmLine>>
  /\ request' = [request EXCEPT !.new = FALSE]
  /\ Fetching' /\ CodeTyped'

LEMMA RamTyped ==
  ASSUME Typed, MemoryCycle
  PROVE  wordCount' \in Index /\ wrBuffer' = [w \in Index |-> wrBuffer'[w]]
<1>1. Ram(Bus)  BY DEF MemoryCycle
<1>2. wordCount' \in Index
  <2>1. wordCount' \in {1, (wordCount + 1) % Burst, wordCount}  BY <1>1 DEF Ram
  <2>2. wordCount \in Index  BY DEF Typed
  <2>3. (wordCount + 1) % Burst \in Index /\ 1 \in Index  BY <2>2, NextWord, Cells DEF Index
  <2> QED  BY <2>1, <2>2, <2>3
<1>3. wrBuffer' = [w \in Index |-> wrBuffer'[w]]
  <2> DEFINE cell == [en |-> Bus.en, data |-> Bus.data]
  <2>1. wrBuffer' = wrBuffer \/ \E k : wrBuffer' = [wrBuffer EXCEPT ![k] = cell]
    BY <1>1 DEF Ram
  <2>2. wrBuffer = [w \in Index |-> wrBuffer[w]]  BY DEF Typed
  <2> HIDE DEF cell
  <2> QED  BY <2>1, <2>2
<1> QED  BY <1>2, <1>3

\* A burst of the method cache begins.
LEMMA BurstBegins ==
  ASSUME Typed, Fetching, MemoryCycle, RamReady, NEW a, IcReads = {a},
         burstCnt' = 0, icState' # "idle", ~slaveReg'.dva,
         icState' = "size" => a = Align(base - 1) /\ 0 <= (base - 1) % Burst
  PROVE  BurstUnderWay'
<1>1. Bus.cmds = {"RD"} /\ Bus.addr = a /\ ~SelRight  BY BusOfCode, FetchingSide
<1>2. ramState' = "readExe" /\ ramAddr' = a /\ wordCount' = 0
  <2>1. {"RD"} # {} /\ {"RD"} # {"WR"} /\ Ram(Bus)  BY DEF MemoryCycle
  <2> QED  BY <1>1, <2>1 DEF Ram, RamReady
<1>3. ~selRightReg'  BY <1>1 DEF MemoryCycle
<1>4. base' = base  BY FetchingSide
<1> QED  BY <1>2, <1>3, <1>4 DEF BurstUnderWay

LEMMA FetchingCycle ==
  ASSUME Typed, Fetching, MemoryCycle
  PROVE  Proceeds \/ Loads
<1>1. /\ pending = Nothing /\ Calm /\ execute.kind # "call" /\ base \in DOMAIN methods
      /\ ~IcQuiet
  BY DEF Fetching
<1>2. /\ base \in Nat /\ base # 0 /\ base - 1 \in Nat /\ base - 1 \notin DataWords
      /\ (base - 1) % Burst \in Index /\ Align(base - 1) = (base - 1) - ((base - 1) % Burst)
  <2>1. base \in Nat \ {0} /\ base - 1 \notin DataWords  BY <1>1 DEF Typed, ProgramTyped
  <2>2. base - 1 \in Nat  BY <2>1
  <2>3. (base - 1) % Burst \in Index  BY <2>2, Cells DEF Index
  <2> QED  BY <2>1, <2>2, <2>3 DEF Align
<1>3. ASSUME ~Enable,
             icState' = "idle" => ~hitReg' /\ RamReady',
             icState' # "idle" => BurstUnderWay'
      PROVE  Loads
  <2>1. Stall /\ ~DataDva  BY <1>3, FetchingSide
  <2>2. UNCHANGED <<accesses, shared, execute, callSlots, pending, loaded>>  BY <2>1 DEF Stall
  <2>3. Command = Nothing  BY <1>3 DEF Command
  <2>4. request' = [request EXCEPT !.new = FALSE]  BY <2>3 DEF MemoryCycle, Request
  <2>5. since' = since  BY <1>3 DEF MemoryCycle, Remember
  <2>6. recent' = recent
    <3>1. recent' = [a \in DataWords |-> recent[a]]
      BY <1>3, FetchingSide DEF MemoryCycle, Remember
    <3> QED  BY <3>1 DEF Typed
  <2>7. UNCHANGED <<words, dmTag, dmLine, base, methods>>  BY FetchingSide
  <2>8. ~request'.new  BY <2>4, RequestOld DEF Typed
  <2>9. Calm'
    <3>1. Command.kind = "none"  BY <2>3, Operations
    <3> QED  BY <2>8, <3>1, FetchingSide DEF Calm
  <2>10. ~IcQuiet'  BY <1>3 DEF IcQuiet
  <2>11. Fetching'  BY <1>1, <1>3, <2>2, <2>7, <2>9, <2>10 DEF Fetching
  <2> QED  BY <1>3, <2>2, <2>4, <2>5, <2>6, <2>7, <2>11, FetchingTyped DEF Loads
<1>4. Burst \in Nat /\ Burst > 1 /\ 0 \in Index  BY Cells
<1>5. burstCnt \in Index /\ wordCount \in Index  BY DEF Typed, CodeTyped
<1>6. /\ icState' = IF Missing THEN "size" ELSE IF SizeRead THEN "transfer"
                    ELSE IF Done THEN "idle" ELSE icState
      /\ burstCnt' = IF Missing THEN 0
                     ELSE IF icState # "idle" /\ slaveReg.dva THEN (burstCnt + 1) % Burst ELSE burstCnt
  BY FetchingSide DEF Controller
<1>7. slaveReg'.dva = (RamDva /\ ~selRightReg) /\ slaveReg'.data = RamData
  <2>1. slaveReg' = IcAnswer  BY FetchingSide
  <2> QED  BY <2>1 DEF IcAnswer
<1>8. CASE icState = "idle"
  <2>1. RamReady /\ ~hitReg  BY <1>1, <1>8 DEF Fetching, IcQuiet
  <2>2. Missing /\ ~Done  BY <1>8, <2>1 DEF Missing, Done
  <2>3. ~Enable  BY <2>1, <2>2, FetchingSide DEF IcEna
  <2>4. IcReads = {Align(base - 1)}  BY <2>2 DEF IcReads
  <2>5. icState' = "size" /\ burstCnt' = 0  BY <1>6, <2>2
  <2>6. ~slaveReg'.dva  BY <1>7, <2>1 DEF RamDva, RamReady
  <2>7. 0 <= (base - 1) % Burst  BY <1>2 DEF Index
  <2>8. BurstUnderWay'  BY <2>1, <2>4, <2>5, <2>6, <2>7, BurstBegins
  <2> QED  BY <1>3, <2>3, <2>5, <2>8
<1>9. CASE icState # "idle"
  <2>1. BurstUnderWay /\ ~selRightReg /\ ~Missing  BY <1>9 DEF Fetching, BurstUnderWay, Missing
  <2> DEFINE Last == RamReady /\ burstCnt = Burst - 1 /\ slaveReg.dva
  <2>2. CASE ~Last
    <3>1. \/ ramState = "readExe" /\ wordCount = 0 /\ burstCnt = 0 /\ ~slaveReg.dva
          \/ ramState = "readRet" /\ wordCount = 0 /\ burstCnt = 0 /\ ~slaveReg.dva
          \/ ramState = "readRet" /\ wordCount = burstCnt + 1 /\ slaveReg.dva
      BY <2>1, <2>2 DEF BurstUnderWay
    <3>2. ~BurstEnd  BY <1>4, <1>5, <3>1 DEF BurstEnd, Index
    <3>3. IcReads = {} /\ ~Done  BY <2>1, <3>2 DEF IcReads, Done
    <3>4. ~Enable  BY <1>9, <3>3, FetchingSide DEF IcEna
    <3>5. /\ ramState = "readExe" => ramState' = "readRet" /\ wordCount' = wordCount
          /\ ramState = "readRet" =>
               /\ ramState' = IF wordCount = Burst - 1 THEN "ready" ELSE "readRet"
               /\ wordCount' = (wordCount + 1) % Burst
          /\ ramAddr' = ramAddr /\ ~selRightReg'
      BY <2>1, <3>3, RamAlone, FetchingSide
    <3>6. icState' # "idle" /\ (icState' = "size" => icState = "size" /\ ~SizeRead)
      BY <1>6, <1>9, <2>1, <3>3
    <3>7. burstCnt' = IF slaveReg.dva THEN burstCnt + 1 ELSE burstCnt
      <4>1. burstCnt # Burst - 1  BY <3>2 DEF BurstEnd
      <4>2. (burstCnt + 1) % Burst = burstCnt + 1  BY <1>5, <4>1, NextWord
      <4> QED  BY <1>6, <1>9, <2>1, <4>2
    <3>8. slaveReg'.dva <=> ramState = "readRet"  BY <1>7, <2>1, <3>1 DEF RamDva
    <3>9. slaveReg'.dva => burstCnt' = wordCount  BY <3>1, <3>7, <3>8
    <3>10. \/ ramState' = "readExe" /\ wordCount' = 0 /\ burstCnt' = 0 /\ ~slaveReg'.dva
           \/ ramState' = "readRet" /\ wordCount' = 0 /\ burstCnt' = 0 /\ ~slaveReg'.dva
           \/ ramState' = "readRet" /\ wordCount' = burstCnt' + 1 /\ slaveReg'.dva
           \/ RamReady' /\ burstCnt' = Burst - 1 /\ slaveReg'.dva
      <4>1. CASE ramState = "readExe"
        <5>1. wordCount = 0 /\ burstCnt = 0 /\ ~slaveReg.dva  BY <3>1, <4>1
        <5> QED  BY <3>5, <3>7, <3>8, <4>1, <5>1
      <4>2. CASE ramState = "readRet" /\ wordCount = Burst - 1
        <5>1. wordCount' = 0 /\ ramState' = "ready"  BY <1>5, <3>5, <4>2, NextWord
        <5> QED  BY <3>8, <3>9, <4>2, <5>1 DEF RamReady
      <4>3. CASE ramState = "readRet" /\ wordCount # Burst - 1
        <5>1. wordCount' = wordCount + 1 /\ ramState' = "readRet"  BY <1>5, <3>5, <4>3, NextWord
        <5> QED  BY <3>8, <3>9, <4>3, <5>1
      <4> QED  BY <3>1, <4>1, <4>2, <4>3
    <3>11. ASSUME icState' = "size"
           PROVE  /\ burstCnt' <= (base' - 1) % Burst /\ ramAddr' = Align(base' - 1)
                  /\ slaveReg'.dva /\ burstCnt' = (base' - 1) % Burst => slaveReg'.data = base' - 1
      <4>1. icState = "size" /\ ~SizeRead  BY <3>6, <3>11
      <4>2. burstCnt <= (base - 1) % Burst /\ ramAddr = Align(base - 1)
        BY <2>1, <4>1 DEF BurstUnderWay
      <4>3. base' = base  BY FetchingSide
      <4>4. burstCnt' <= (base - 1) % Burst
        <5>1. slaveReg.dva => burstCnt # (base - 1) % Burst  BY <4>1 DEF SizeRead
        <5> QED  BY <1>2, <1>5, <3>7, <4>2, <5>1 DEF Index
      <4>5. ASSUME slaveReg'.dva, burstCnt' = (base - 1) % Burst PROVE slaveReg'.data = base - 1
        <5>1. ramAddr + wordCount = base - 1  BY <1>2, <3>9, <4>2, <4>5 DEF Index
        <5>2. RamData = base - 1  BY <1>2, <5>1 DEF RamData
        <5> QED  BY <1>7, <5>2
      <4> QED  BY <3>5, <4>2, <4>3, <4>4, <4>5
    <3>12. BurstUnderWay'  BY <3>5, <3>10, <3>11 DEF BurstUnderWay
    <3> QED  BY <1>3, <3>4, <3>6, <3>12
  <2>3. CASE Last
    <3>1. BurstEnd /\ slaveReg.dva /\ RamReady  BY <2>3 DEF BurstEnd
    <3>2. burstCnt' = 0  BY <1>5, <1>6, <1>9, <2>1, <2>3, NextWord
    <3>3. ~slaveReg'.dva  BY <1>7, <3>1 DEF RamDva, RamReady
    <3>4. CASE icState = "size"
      <4>1. burstCnt = (base - 1) % Burst
        BY <1>2, <1>5, <2>1, <2>3, <3>4 DEF BurstUnderWay, Index
      <4>2. SizeRead /\ ~Done  BY <3>1, <3>4, <4>1 DEF SizeRead, Done
      <4>3. IcReads = {base}  BY <2>1, <3>1, <4>2 DEF IcReads
      <4>4. ~Enable  BY <3>4, <4>2, FetchingSide DEF IcEna
      <4>5. icState' = "transfer"  BY <1>6, <2>1, <4>2
      <4>6. BurstUnderWay'  BY <3>1, <3>2, <3>3, <4>3, <4>5, BurstBegins
      <4> QED  BY <1>3, <4>4, <4>5, <4>6
    <3>5. CASE icState = "transfer" /\ ~Done
      <4>1. ~SizeRead  BY <3>5 DEF SizeRead
      <4>2. fetchCnt < transferSize
        BY <3>1, <3>5 DEF Done, Typed, CodeTyped
      <4>3. WordRead  BY <3>1, <3>5, <4>2 DEF WordRead, Typed, CodeTyped
      <4>4. IcReads = {base + fetchCnt + 1}  BY <2>1, <3>1, <4>1, <4>2, <4>3 DEF IcReads
      <4>5. ~Enable  BY <3>5, FetchingSide DEF IcEna
      <4>6. icState' = "transfer"  BY <1>6, <2>1, <3>5, <4>1
      <4>7. BurstUnderWay'  BY <3>1, <3>2, <3>3, <4>4, <4>6, BurstBegins
      <4> QED  BY <1>3, <4>5, <4>6, <4>7
    <3>6. CASE icState = "transfer" /\ Done
      <4>1. ~SizeRead  BY <3>6 DEF SizeRead
      <4>2. icState' = "idle"  BY <1>6, <2>1, <3>6, <4>1
      <4>3. ~(fetchCnt < transferSize)  BY <3>6 DEF Done, Typed, CodeTyped
      <4>4. IcReads = {}  BY <2>1, <4>1, <4>3 DEF IcReads
      <4>5. RamReady' /\ wrBuffer' = [w \in Index |-> wrBuffer'[w]]
        BY <3>1, <4>4, RamAlone, FetchingSide DEF RamReady
      <4>6. hitReg' <=> hitReg  BY <4>1, FetchingSide
      <4>7. Enable <=> hitReg  BY <3>6, FetchingSide DEF IcEna
      <4>8. CASE ~hitReg  BY <1>3, <4>2, <4>5, <4>6, <4>7, <4>8
      <4>9. CASE hitReg
        BY <1>1, <4>2, <4>5, <4>6, <4>7, <4>9, FetchingSide, FetchingTyped DEF Proceeds, Calm
      <4> QED  BY <4>8, <4>9
    <3> QED  BY <1>9, <3>4, <3>5, <3>6 DEF Typed, CodeTyped
  <2> QED  BY <2>2, <2>3
<1> QED  BY <1>8, <1>9

-----------------------------------------------------------------------------
(* The pipeline moves: the invariant holds again, and the access has been  *)
(* one step of the plain memory.                                           *)

\* What the memory stage takes over.
LEMMA Taken ==
  ASSUME Typed, Proceeds, MemoryCycle
  PROVE  /\ Go /\ Command = pending' /\ pending' \in Acc \cup {Nothing}
         /\ pending' = Nothing => ~request'.new /\ request'.op = request.op
         /\ pending' # Nothing => /\ request' = [op |-> pending', new |-> TRUE, hit |-> Cached(pending'.addr)]
                                  /\ execute.kind # "call"
         /\ request' = [op |-> request'.op, new |-> request'.new, hit |-> request'.hit]
<1>1. Enable  BY DEF Proceeds
<1>2. Go  BY <1>1 DEF MemoryCycle, Stall
<1>3. pending' = (IF Accessing(execute) THEN execute ELSE Nothing) /\ Command = pending'
  BY <1>1, <1>2 DEF Go, Command
<1>4. Accessing(execute) => execute \in Acc /\ execute.kind # "call"
  BY Operations DEF Typed, Accessing
<1>5. pending' \in Acc \cup {Nothing} /\ (pending' # Nothing => execute.kind # "call")
  BY <1>3, <1>4
<1>6. CASE pending' = Nothing
  <2> DEFINE o == request.op
             n == request.new
             h == request.hit
  <2>1. request = [op |-> o, new |-> n, hit |-> h]  BY DEF Typed
  <2>2. request' = [request EXCEPT !.new = FALSE]  BY <1>3, <1>6 DEF MemoryCycle, Request
  <2> HIDE DEF o, n, h
  <2>3. request' = [op |-> o, new |-> FALSE, hit |-> h]  BY <2>1, <2>2
  <2>4. request'.op = o /\ ~request'.new /\ request'.hit = h  BY <2>3
  <2> QED  BY <1>2, <1>3, <1>5, <1>6, <2>3, <2>4 DEF o
<1>7. CASE pending' # Nothing
  <2>1. request' = [op |-> pending', new |-> TRUE, hit |-> Cached(pending'.addr)]
    BY <1>3, <1>7 DEF MemoryCycle, Request
  <2> QED  BY <1>2, <1>3, <1>5, <1>7, <2>1
<1> QED  BY <1>6, <1>7

LEMMA GoTyped ==
  ASSUME Typed, Proceeds, MemoryCycle
  PROVE  Typed'
<1>1. Go /\ accesses' = accesses /\ shared' = shared /\ methods' = methods
  BY Taken DEF Go, Proceeds
<1>2. ProgramTyped'  BY <1>1 DEF Typed, ProgramTyped
<1>3. CodeTyped' /\ words' = words /\ dmLine' = dmLine  BY DEF Proceeds
<1>4. pending' \in Acc \cup {Nothing} /\ request'.op \in Acc \cup {Nothing}
  <2>1. pending' # Nothing => request'.op = pending'  BY Taken
  <2> QED  BY <2>1, Taken DEF Typed
<1>5. execute' \in NextOps /\ accesses \subseteq Acc  BY <1>1 DEF Go, Typed, ProgramTyped
<1>6. \/ execute' \in Acc \cup {Nothing}
      \/ execute'.kind = "call" /\ execute'.addr \in DOMAIN methods'
  <2>1. ASSUME NEW b \in DOMAIN methods, NEW c \in CallsTo(b)
        PROVE  c.kind = "call" /\ c.addr = b
    BY DEF CallsTo, Op
  <2> QED  BY <1>1, <1>5, <2>1 DEF NextOps
<1>7. callSlots' \in Nat /\ (execute'.kind = "call" => callSlots' > 0)
  <2>1. callSlots' = IF execute'.kind = "call" THEN 3 ELSE IF callSlots = 0 THEN 0 ELSE callSlots - 1
    BY <1>1 DEF Go
  <2>2. callSlots \in Nat  BY DEF Typed
  <2> QED  BY <2>1, <2>2
<1>8. dmTag' \in [0 .. Lines - 1 -> [valid : BOOLEAN, addr : Int]]
  <2>1. dmTag \in [0 .. Lines - 1 -> [valid : BOOLEAN, addr : Int]]  BY DEF Typed
  <2>2. dmTag' = dmTag \/ dmTag' = [l \in DOMAIN dmTag |-> [dmTag[l] EXCEPT !.valid = FALSE]]
    BY DEF Proceeds, Cleared
  <2> QED  BY <2>1, <2>2
<1>9. recent' \in [DataWords -> SUBSET Vals]
  <2>1. \A a \in DataWords : words[a] \in Vals /\ recent[a] \subseteq Vals  BY DEF Typed
  <2>2. recent' = [a \in DataWords |->
          IF Enable /\ Invalidates("cached") /\ ~(Command.kind = "load" /\ Command.addr = a)
          THEN {words[a]} ELSE recent[a]]
    BY DEF MemoryCycle, Remember, Proceeds
  <2> QED  BY <2>1, <2>2
<1> QED
  BY <1>2, <1>3, <1>4, <1>6, <1>7, <1>8, <1>9, Taken, RamTyped DEF Typed

LEMMA GoPhase ==
  ASSUME Typed, Proceeds, MemoryCycle
  PROVE  (Rest \/ Fetching \/ Asked)' /\ Accepted'
<1>1. /\ RamReady' /\ readState' = "idle" /\ readCnt' = 0 /\ wcCnt' = 0 /\ icState' = "idle"
      /\ hitReg' \/ (execute.kind = "call" /\ base' = execute.addr)
      /\ wcState' = (IF Command.kind = "store" THEN "write" ELSE "idle") /\ methods' = methods
  BY DEF Proceeds
<1>2. CASE pending' = Nothing
  <2>1. ~request'.new  BY <1>2, Taken
  <2>2. Command.kind = "none"  BY <1>2, Taken, Operations
  <2>3. Calm'  BY <1>1, <2>1, <2>2 DEF Calm
  <2>4. CASE hitReg'
    BY <1>1, <1>2, <2>3, <2>4 DEF Rest, IcQuiet, Accepted
  <2>5. CASE ~hitReg'
    <3>1. execute.kind = "call" /\ base' = execute.addr  BY <1>1, <2>5
    <3>2. execute.addr \in DOMAIN methods /\ callSlots > 0  BY <3>1, Operations DEF Typed
    <3>3. execute' \in {Nothing} \cup accesses  BY <3>2, Taken DEF Go, NextOps
    <3>4. execute'.kind # "call"  BY <3>3, Operations DEF Typed, ProgramTyped
    <3> QED  BY <1>1, <1>2, <2>3, <2>5, <3>1, <3>2, <3>4 DEF Fetching, IcQuiet, Accepted
  <2> QED  BY <2>4, <2>5
<1>3. CASE pending' # Nothing
  <2>1. request'.op = pending' /\ request'.new /\ pending' \in Acc /\ execute.kind # "call"
    BY <1>3, Taken
  <2>2. IcQuiet'  BY <1>1, <2>1 DEF IcQuiet
  <2> QED  BY <1>1, <2>1, <2>2, Taken DEF Asked, Accepted
<1> QED  BY <1>2, <1>3

\* What loads may get is remembered as it ends.
LEMMA GoHistory ==
  ASSUME Typed, Proceeds, MemoryCycle
  PROVE  /\ since' = IF pending'.kind = "load" /\ pending'.space = "uncached"
                     THEN {words[pending'.addr]} ELSE {}
         /\ Invalidates("cached") => recent' = [a \in DataWords |->
              IF pending'.kind = "load" /\ pending'.addr = a THEN recent[a] ELSE {words[a]}]
         /\ ~Invalidates("cached") => recent' = recent
<1>1. Enable /\ ramState # "writeExe" /\ Command = pending'  BY Taken DEF Proceeds
<1>2. recent' = [a \in DataWords |->
          IF Invalidates("cached") /\ ~(pending'.kind = "load" /\ pending'.addr = a)
          THEN {words[a]} ELSE recent[a]]
  BY <1>1 DEF MemoryCycle, Remember
<1>3. recent = [a \in DataWords |-> recent[a]]  BY DEF Typed
<1>4. ~Invalidates("cached") => recent' = recent  BY <1>2, <1>3
<1> QED  BY <1>1, <1>2, <1>4 DEF MemoryCycle, Remember

\* No line is being filled or written when the pipeline moves.
LEMMA GoLines ==
  ASSUME Typed, Proceeds, LineKept, NEW a \in DataWords, Cached(a)
  PROVE  CellOf(a) \in recent[a]
<1>1. ~Storing /\ ~Committing /\ readState # "fill"
  BY DEF Proceeds, Storing, Committing
<1> QED  BY <1>1 DEF LineKept

LEMMA GoKeeps ==
  ASSUME MemInv, Proceeds, MemoryCycle
  PROVE  MemInv'
<1> USE DEF MemInv
<1>1. Typed' /\ (Rest \/ Fetching \/ Asked)' /\ Accepted'  BY GoTyped, GoPhase
<1>2. words' = words /\ dmLine' = dmLine /\ readState' = "idle" /\ ramState' = "ready"
      /\ dmTag' = (IF Invalidates("cached") THEN Cleared ELSE dmTag)
  BY DEF Proceeds, RamReady
<1>3. Current'  BY <1>2, GoHistory DEF Current
<1>4. \A a \in Nat : dmTag'[Line(a)].valid /\ dmTag'[Line(a)].addr = Align(a)
                     <=> ~Invalidates("cached") /\ Cached(a)
  <2>1. dmTag \in [0 .. Lines - 1 -> [valid : BOOLEAN, addr : Int]]  BY DEF Typed
  <2>2. ASSUME NEW a \in Nat
        PROVE  dmTag'[Line(a)].valid /\ dmTag'[Line(a)].addr = Align(a)
                 <=> ~Invalidates("cached") /\ Cached(a)
    <3>1. Line(a) \in 0 .. Lines - 1  BY Cells
    <3>2. Invalidates("cached") => ~dmTag'[Line(a)].valid  BY <1>2, <2>1, <3>1 DEF Cleared
    <3> QED  BY <1>2, <3>2 DEF Cached
  <2> QED  BY <2>2
<1>5. LineKept'
  <2>1. ~(Storing \/ Committing)'  BY <1>2 DEF Storing, Committing
  <2>2. ASSUME NEW a \in DataWords, Cached(a)' PROVE CellOf(a)' \in recent'[a]
    <3>1. Cached(a) /\ ~Invalidates("cached")  BY <1>4, <2>2, Cells DEF Cached
    <3> QED  BY <1>2, <3>1, GoLines, GoHistory DEF CellOf
  <2> QED  BY <2>1, <2>2 DEF LineKept
<1>6. LookedUp'
  <2> SUFFICES ASSUME Asked' PROVE LookedUp'
    BY DEF LookedUp
  <2>1. pending' \in Acc /\ pending' # Nothing /\ pending'.addr \in Nat
    BY Operations DEF Asked
  <2>2. request'.hit = Cached(pending'.addr)  BY <2>1, Taken
  <2>3. CASE pending'.kind = "store"
    <3>1. Invalidates("cached") => ~dmTag'[Line(pending'.addr)].valid
      <4>1. Line(pending'.addr) \in 0 .. Lines - 1  BY <2>1, Cells
      <4> QED  BY <1>2, <4>1 DEF Cleared, Typed
    <3>2. Cached(pending.addr)' <=> ~Invalidates("cached") /\ Cached(pending'.addr)
      BY <1>4, <2>1 DEF Cached
    <3> QED  BY <2>2, <2>3, <3>1, <3>2 DEF LookedUp
  <2>4. CASE pending'.kind = "load"
    <3>1. pending'.addr \in DataWords  BY <2>1, <2>4, Operations
    <3>2. recent'[pending'.addr] = recent[pending'.addr]  BY <2>4, <3>1, GoHistory
    <3>3. request'.hit => CellOf(pending'.addr) \in recent[pending'.addr]
      BY <2>2, <3>1, GoLines
    <3>4. request'.hit => CellOf(pending.addr)' \in recent'[pending'.addr]
      BY <1>2, <3>2, <3>3 DEF CellOf
    <3> QED  BY <2>4, <3>4 DEF LookedUp
  <2>5. CASE pending'.kind \notin {"load", "store"}
    BY <2>5 DEF LookedUp
  <2> QED  BY <2>3, <2>4, <2>5
<1>7. Observed'
  <2>1. ~Answering' /\ ~Filling'  BY <1>2 DEF Answering, Filling
  <2>2. pending'.kind = "load" /\ pending'.space = "uncached" => words'[pending'.addr] \in since'
    BY <1>2, GoHistory
  <2> QED  BY <2>1, <2>2 DEF Observed
<1>8. FillTag'  BY <1>2 DEF FillTag
<1> QED  BY <1>1, <1>3, <1>5, <1>6, <1>7, <1>8 DEF Phase

LEMMA GoFinishes ==
  ASSUME MemInv, Proceeds, MemoryCycle
  PROVE  Flat!Finish
<1> USE DEF MemInv
<1> DEFINE op == IF DataOp(pending) THEN pending ELSE Nothing
           next == IF DataOp(pending') THEN pending' ELSE Nothing
<1>1. pending \in Acc \cup {Nothing} /\ pending' \in Acc \cup {Nothing} /\ Nothing.kind = "none"
  BY Taken, Operations DEF Typed
<1>2. \A k \in {"load", "store"} : (op.kind = k <=> pending.kind = k) /\ (next.kind = k <=> pending'.kind = k)
  BY <1>1 DEF DataOp
<1>3. /\ op.kind \in {"load", "store"} => op = pending
      /\ next.kind \in {"load", "store"} => next = pending'
  BY <1>2 DEF DataOp
<1>4. op.kind = "inval" <=> Invalidates("cached")
  <2>1. Invalidates("cached") <=> pending.kind = "inval" /\ pending.space = "cached"
    BY DEF Proceeds
  <2> QED  BY <1>1, <2>1 DEF DataOp
<1>5. IF op.kind = "load" THEN loaded' \in MayRead ELSE loaded' = loaded
  <2>1. loaded' = IF pending.kind = "load" THEN DataRead ELSE loaded  BY Taken DEF Go
  <2>2. pending.kind = "load" => DataRead \in MayRead  BY DEF Proceeds
  <2> QED  BY <1>2, <2>1, <2>2
<1>6. op.kind = "store" => ramState = "writeRet"  BY <1>2 DEF Proceeds
<1>7. next \in [kind : {"load", "store", "inval"}, space : {"cached", "uncached"},
                addr : DataWords \cup {0}, data : Vals] \cup {Nothing}
  <2>1. \A o \in DataOps : o \in [kind : {"load", "store", "inval"}, space : {"cached", "uncached"},
                                  addr : DataWords \cup {0}, data : Vals]
    BY DEF DataOps
  <2>2. \A o \in Invalidations : o.space = "cached" =>
          o \in [kind : {"load", "store", "inval"}, space : {"cached", "uncached"},
                 addr : DataWords \cup {0}, data : Vals]
    BY MemoryAssumption DEF Invalidations
  <2>3. pending' \in DataOps \/ pending' \in Invalidations \/ pending' = Nothing  BY <1>1 DEF Acc
  <2>4. pending' \in Invalidations => pending'.kind = "inval"  BY Operations
  <2> QED  BY <2>1, <2>2, <2>3, <2>4 DEF DataOp
<1>8. ramState' # "writeRet" /\ words' = words  BY DEF Proceeds, RamReady
<1>9. since' = IF next.kind = "load" /\ next.space = "uncached" THEN {words[next.addr]} ELSE {}
  <2>1. since' = IF pending'.kind = "load" /\ pending'.space = "uncached"
                 THEN {words[pending'.addr]} ELSE {}
    BY GoHistory
  <2>2. next.kind = "load" <=> pending'.kind = "load"  BY <1>2
  <2>3. next.kind = "load" => next = pending'  BY <1>3
  <2> HIDE DEF next
  <2> QED  BY <2>1, <2>2, <2>3
<1>10. recent' = IF op.kind # "inval" THEN recent
                 ELSE [a \in DOMAIN words |->
                        IF next.kind = "load" /\ next.addr = a THEN recent[a] ELSE {words[a]}]
  <2>1. CASE Invalidates("cached")
    <3>1. recent' = [a \in DataWords |->
             IF pending'.kind = "load" /\ pending'.addr = a THEN recent[a] ELSE {words[a]}]
      BY <2>1, GoHistory
    <3>2. DOMAIN words = DataWords  BY DEF Typed
    <3>3. next.kind = "load" <=> pending'.kind = "load"  BY <1>2
    <3>4. next.kind = "load" => next = pending'  BY <1>3
    <3> HIDE DEF op, next
    <3> QED  BY <1>4, <2>1, <3>1, <3>2, <3>3, <3>4
  <2>2. CASE ~Invalidates("cached")
    BY <1>4, <2>2, GoHistory
  <2> QED  BY <2>1, <2>2
<1>11. op.kind = "load" => MayRead = IF op.space = "cached" THEN recent[op.addr] ELSE since
  BY <1>3 DEF MayRead
<1>12. (IF DataOp(pending) THEN pending ELSE Nothing)' = next
  BY DEF DataOp
<1> HIDE DEF next, MemInv
<1> QED
  BY <1>5, <1>6, <1>7, <1>8, <1>9, <1>10, <1>11, <1>12 DEF Flat!Finish, Flat!MayGet

-----------------------------------------------------------------------------
(* The pipeline waits: the invariant holds again, and the plain memory     *)
(* stutters, or stores.                                                    *)

LEMMA WaitTyped ==
  ASSUME MemInv, Waits, MemoryCycle,
         words' \in [DataWords -> Vals], recent' \in [DataWords -> SUBSET Vals],
         dmTag' \in [0 .. Lines - 1 -> [valid : BOOLEAN, addr : Int]],
         dmLine' \in [0 .. Lines - 1 -> [Index -> Vals]]
  PROVE  Typed' /\ Accepted' /\ ~Asked'
<1>1. UNCHANGED <<accesses, shared, methods, execute, callSlots, pending>> /\ CodeTyped'
  BY DEF Waits
<1>2. /\ ~request'.new /\ request'.op = request.op
      /\ request' = [op |-> request'.op, new |-> request'.new, hit |-> request'.hit]
  BY RequestOld DEF MemInv
<1>3. Typed'  BY <1>1, <1>2, RamTyped DEF MemInv, Typed, ProgramTyped
<1>4. Accepted'  BY <1>1, <1>2 DEF MemInv, Accepted
<1> QED  BY <1>2, <1>3, <1>4 DEF Asked

LEMMA AskedLoadKeeps ==
  ASSUME MemInv, Asked, pending.kind = "load", ~AnsweredAtOnce, MemoryCycle
  PROVE  MemInv' /\ Waits /\ words' = words /\ recent' = recent
         /\ ramState # "writeRet" /\ ramState' # "writeRet"
<1> USE DEF MemInv
<1>1. /\ Waits /\ Filling' /\ words' = words /\ recent' = recent /\ dmLine' = dmLine /\ readCnt' = 0
      /\ dmTag' = IF pending.space = "cached"
                  THEN [dmTag EXCEPT ![Line(pending.addr)] =
                          [valid |-> TRUE, addr |-> Align(pending.addr)]]
                  ELSE dmTag
  BY AskedLoad
<1>2. pending' = pending /\ since' = since /\ readState = "idle"  BY <1>1 DEF Waits, Asked
<1>3. pending \in DataOps /\ pending.addr \in DataWords /\ pending.addr \in Nat
  BY AskedKinds, Operations, Cells
<1>4. Line(pending.addr) \in 0 .. Lines - 1 /\ Align(pending.addr) \in Int /\ Word \in Index
  BY <1>3, Cells DEF Word
<1>5. dmTag' \in [0 .. Lines - 1 -> [valid : BOOLEAN, addr : Int]]
  BY <1>1, <1>4 DEF Typed
<1>6. Typed' /\ Accepted' /\ ~Asked'
  BY <1>1, <1>5, WaitTyped DEF Typed
<1>7. Current'  BY <1>1 DEF Current
<1>8. readState' = IF pending.space = "cached" THEN "fill" ELSE "read"  BY <1>1, <1>2 DEF Filling
<1>9. LineKept'
  <2>1. ~(pending'.kind = "store")  BY <1>2
  <2>2. ASSUME NEW a \in DataWords, Cached(a)'
        PROVE  \/ readState' = "fill" /\ Line(a) = Line(pending'.addr) /\ a % Burst >= readCnt'
               \/ CellOf(a)' \in recent'[a]
    <3>1. a \in Nat /\ a % Burst \in Index /\ Line(a) \in 0 .. Lines - 1  BY Cells
    <3>2. CASE pending.space = "cached" /\ Line(a) = Line(pending.addr)
      BY <1>1, <1>2, <1>8, <3>1, <3>2 DEF Index
    <3>3. CASE ~(pending.space = "cached" /\ Line(a) = Line(pending.addr))
      <4>1. dmTag'[Line(a)] = dmTag[Line(a)]  BY <1>1, <3>1, <3>3 DEF Typed
      <4>2. Cached(a)  BY <2>2, <4>1 DEF Cached
      <4>3. CellOf(a) \in recent[a]  BY <1>2, <4>2 DEF LineKept
      <4> QED  BY <1>1, <4>3 DEF CellOf
    <3> QED  BY <3>2, <3>3
  <2> QED  BY <2>1, <2>2 DEF LineKept
<1>10. Observed'
  <2>1. ~Answering'  BY <1>8 DEF Answering
  <2>2. Word' = Word /\ ~(readCnt' > Word)  BY <1>1, <1>2, <1>4 DEF Word, Index
  <2> QED  BY <1>1, <1>2, <2>1, <2>2 DEF Observed
<1>11. FillTag'
  BY <1>1, <1>2, <1>4, <1>8 DEF FillTag, Cached, Typed
<1> QED
  BY <1>1, <1>6, <1>7, <1>9, <1>10, <1>11 DEF Phase, LookedUp, Filling, Asked, RamReady

LEMMA FillingKeeps ==
  ASSUME MemInv, Filling, MemoryCycle
  PROVE  MemInv' /\ Waits /\ words' = words /\ recent' = recent
         /\ ramState # "writeRet" /\ ramState' # "writeRet"
<1> USE DEF MemInv
<1> DEFINE w == wordCount
           l == Line(pending.addr)
<1>1. /\ Waits /\ words' = words /\ recent' = recent /\ dmTag' = dmTag
      /\ IF ramState = "readRet"
         THEN /\ dmLine' = IF pending.space = "cached"
                           THEN [dmLine EXCEPT ![l][w] = RamData] ELSE dmLine
              /\ readReg' = IF w = Word THEN RamData ELSE readReg
              /\ IF w = Burst - 1 THEN Answering' ELSE Filling' /\ readCnt' = readCnt + 1
         ELSE dmLine' = dmLine /\ Filling' /\ readCnt' = 0
      /\ RamData = words[Align(pending.addr) + w]
      /\ Align(pending.addr) + w \in DataWords
  BY FillingCycle
<1>2. /\ pending' = pending /\ since' = since /\ readCnt = w /\ pending.kind = "load"
      /\ pending.space \in {"cached", "uncached"}
      /\ ramState = "readRet" \/ (ramState = "readExe" /\ w = 0)
      /\ readState = IF pending.space = "cached" THEN "fill" ELSE "read"
  BY <1>1, Operations DEF Waits, Filling, Waiting
<1>3. pending.addr \in DataWords /\ pending.addr \in Nat /\ w \in Index
  BY Operations, Cells DEF Filling, Waiting, Typed
<1>4. l \in 0 .. Lines - 1 /\ Align(pending.addr) \in Int /\ Word \in Index
      /\ pending.addr = Align(pending.addr) + Word
  BY <1>3, Cells DEF Word
<1>5. RamData \in Vals  BY <1>1 DEF Typed
<1>6. dmLine' \in [0 .. Lines - 1 -> [Index -> Vals]]
  <2>1. dmLine \in [0 .. Lines - 1 -> [Index -> Vals]]  BY DEF Typed
  <2>2. dmLine' = dmLine \/ dmLine' = [dmLine EXCEPT ![l][w] = RamData]  BY <1>1
  <2> QED  BY <1>3, <1>4, <1>5, <2>1, <2>2
<1>7. Typed' /\ Accepted' /\ ~Asked'
  BY <1>1, <1>6, WaitTyped DEF Typed
<1>8. Current'  BY <1>1 DEF Current
<1>9. Filling' => readState' = readState  BY <1>2 DEF Filling
<1>10. FillTag'
  BY <1>1, <1>2, <1>9 DEF FillTag, Cached, Answering
<1>11. LineKept'
  <2>1. ~(pending'.kind = "store")  BY <1>2
  <2>2. ASSUME NEW a \in DataWords, Cached(a)'
        PROVE  \/ readState' = "fill" /\ Line(a) = Line(pending'.addr) /\ a % Burst >= readCnt'
               \/ CellOf(a)' \in recent'[a]
    <3>1. a \in Nat /\ a % Burst \in Index /\ Line(a) \in 0 .. Lines - 1
          /\ a = Align(a) + (a % Burst)
      BY Cells
    <3>2. Cached(a)  BY <1>1, <2>2 DEF Cached
    <3>3. \/ readState = "fill" /\ Line(a) = l /\ a % Burst >= readCnt
          \/ CellOf(a) \in recent[a]
      BY <1>2, <3>2 DEF LineKept
    <3>4. CASE ramState = "readRet" /\ pending.space = "cached"
      <4>1. dmLine' = [dmLine EXCEPT ![l][w] = RamData]  BY <1>1, <3>4
      <4>2. CASE Line(a) # l \/ a % Burst # w
        <5>1. CellOf(a)' = CellOf(a)  BY <1>3, <1>4, <3>1, <4>1, <4>2 DEF CellOf, Typed
        <5>2. CASE CellOf(a) \in recent[a]  BY <1>1, <5>1, <5>2
        <5>3. CASE Line(a) = l /\ a % Burst >= readCnt
          <6>1. a % Burst >= readCnt + 1 /\ w # Burst - 1
            BY <1>2, <1>3, <3>1, <4>2, <5>3 DEF Index
          <6> QED  BY <1>1, <1>2, <1>9, <3>4, <5>3, <6>1
        <5> QED  BY <3>3, <5>2, <5>3
      <4>3. CASE Line(a) = l /\ a % Burst = w
        <5>1. CellOf(a)' = RamData  BY <1>3, <1>4, <4>1, <4>3 DEF CellOf, Typed
        <5>2. Align(a) = Align(pending.addr)
          BY <1>2, <3>2, <3>4, <4>3 DEF FillTag, Cached
        <5>3. RamData = words[a]  BY <1>1, <3>1, <4>3, <5>2
        <5> QED  BY <1>1, <5>1, <5>3 DEF Current
      <4> QED  BY <4>2, <4>3
    <3>5. CASE ~(ramState = "readRet" /\ pending.space = "cached")
      <4>1. dmLine' = dmLine  BY <1>1, <3>5
      <4>2. CASE CellOf(a) \in recent[a]  BY <1>1, <4>1, <4>2 DEF CellOf
      <4>3. CASE readState = "fill" /\ Line(a) = l /\ a % Burst >= readCnt
        <5>1. ramState # "readRet"  BY <1>2, <3>5, <4>3
        <5> QED  BY <1>1, <1>2, <1>9, <4>3, <5>1
      <4> QED  BY <3>3, <4>2, <4>3
    <3> QED  BY <3>4, <3>5
  <2> QED  BY <2>1, <2>2 DEF LineKept
<1>12. Observed'
  <2>1. pending.space = "uncached" => words'[pending'.addr] \in since'
    BY <1>1, <1>2 DEF Observed
  <2>2. ASSUME Answering' \/ (Filling' /\ readCnt' > Word')
        PROVE  readReg' \in IF pending.space = "cached" THEN recent[pending.addr] ELSE since
    <3>1. Word' = Word  BY <1>2 DEF Word
    <3>6. ~Answering' \/ ~Filling'  BY <1>2, <1>9 DEF Answering
    <3>2. ramState = "readRet"
      <4>1. ~(0 > Word)  BY <1>4 DEF Index
      <4> QED  BY <1>1, <2>2, <3>1, <3>6, <4>1
    <3>3. w >= Word
      <4>1. w = Burst - 1 \/ w + 1 > Word  BY <1>1, <1>2, <2>2, <3>1, <3>2, <3>6
      <4> QED  BY <1>3, <1>4, <4>1 DEF Index
    <3>4. CASE w = Word
      <4>1. readReg' = words[pending.addr]  BY <1>1, <1>4, <3>2, <3>4
      <4> QED  BY <1>2, <1>3, <4>1 DEF Current, Observed
    <3>5. CASE w > Word
      <4>1. readReg' = readReg  BY <1>1, <1>3, <1>4, <3>2, <3>5 DEF Index
      <4> QED  BY <1>2, <3>5, <4>1 DEF Observed
    <3> QED  BY <1>3, <1>4, <3>3, <3>4, <3>5 DEF Index
  <2> QED  BY <1>1, <1>2, <2>1, <2>2 DEF Observed
<1>13. ramState # "writeRet" /\ ramState' # "writeRet"
  BY <1>1, <1>2 DEF Filling, Answering, RamReady
<1> QED
  BY <1>1, <1>7, <1>8, <1>10, <1>11, <1>12, <1>13 DEF Phase, LookedUp

LEMMA AskedStoreKeeps ==
  ASSUME MemInv, Asked, pending.kind = "store", MemoryCycle
  PROVE  MemInv' /\ Waits /\ words' = words /\ recent' = recent
         /\ ramState # "writeRet" /\ ramState' # "writeRet"
<1> USE DEF MemInv
<1> DEFINE l == Line(pending.addr)
<1>1. /\ Waits /\ Storing' /\ words' = words /\ recent' = recent /\ dmTag' = dmTag
      /\ dmLine' = IF request.hit THEN [dmLine EXCEPT ![l][Word] = pending.data] ELSE dmLine
  BY AskedStore
<1>2. pending' = pending /\ readState = "idle" /\ readState' = "idle"
  BY <1>1 DEF Waits, Asked, Storing
<1>3. pending.addr \in DataWords /\ pending.addr \in Nat /\ pending.data \in Vals
  BY AskedKinds, Operations, Cells
<1>4. l \in 0 .. Lines - 1 /\ Word \in Index /\ pending.addr = Align(pending.addr) + Word
  BY <1>3, Cells DEF Word
<1>5. dmLine' \in [0 .. Lines - 1 -> [Index -> Vals]]
  <2>1. dmLine \in [0 .. Lines - 1 -> [Index -> Vals]]  BY DEF Typed
  <2>2. dmLine' = dmLine \/ dmLine' = [dmLine EXCEPT ![l][Word] = pending.data]  BY <1>1
  <2> QED  BY <1>3, <1>4, <2>1, <2>2
<1>6. Typed' /\ Accepted' /\ ~Asked'  BY <1>1, <1>5, WaitTyped DEF Typed
<1>7. Current'  BY <1>1 DEF Current
<1>8. LineKept'
  <2>1. ASSUME NEW a \in DataWords, Cached(a)'
        PROVE  IF a = pending.addr THEN CellOf(a)' = pending.data ELSE CellOf(a)' \in recent[a]
    <3>1. a \in Nat /\ a % Burst \in Index /\ Line(a) \in 0 .. Lines - 1
          /\ a = Align(a) + (a % Burst)
      BY Cells
    <3>2. Cached(a)  BY <1>1, <2>1 DEF Cached
    <3>3. CellOf(a) \in recent[a]
      <4>1. ~Storing /\ ~Committing  BY DEF Asked, RamReady, Storing, Committing
      <4> QED  BY <1>2, <3>2, <4>1 DEF LineKept
    <3>4. CASE a = pending.addr
      <4>1. request.hit  BY <3>2, <3>4 DEF LookedUp
      <4>2. dmLine' = [dmLine EXCEPT ![l][Word] = pending.data]  BY <1>1, <4>1
      <4> QED  BY <1>4, <3>4, <4>2 DEF CellOf, Typed, Word
    <3>5. CASE a # pending.addr /\ request.hit /\ Line(a) = l
      <4>1. dmTag[l].valid /\ dmTag[l].addr = Align(a)  BY <3>2, <3>5 DEF Cached
      <4>2. Cached(pending.addr)  BY <3>5, <4>1 DEF LookedUp
      <4>3. Align(a) = Align(pending.addr)  BY <4>1, <4>2 DEF Cached
      <4>4. a % Burst # Word  BY <1>4, <3>1, <3>5, <4>3
      <4>5. CellOf(a)' = CellOf(a)  BY <1>1, <1>4, <3>1, <3>5, <4>4 DEF CellOf, Typed
      <4> QED  BY <3>3, <3>5, <4>5
    <3>6. CASE a # pending.addr /\ ~(request.hit /\ Line(a) = l)
      <4>1. CellOf(a)' = CellOf(a)  BY <1>1, <1>4, <3>1, <3>6 DEF CellOf, Typed
      <4> QED  BY <3>3, <3>6, <4>1
    <3> QED  BY <3>4, <3>5, <3>6
  <2> QED  BY <1>1, <1>2, <2>1 DEF LineKept
<1>9. Observed' /\ FillTag'  BY <1>2 DEF Observed, FillTag
<1>10. ramState # "writeRet" /\ ramState' # "writeRet"
  BY <1>1 DEF Asked, RamReady, Storing
<1> QED  BY <1>1, <1>6, <1>7, <1>8, <1>9, <1>10 DEF Phase, LookedUp

LEMMA StoringKeeps ==
  ASSUME MemInv, Storing, MemoryCycle
  PROVE  MemInv' /\ Waits /\ words' = words /\ recent' = recent
         /\ ramState # "writeRet" /\ ramState' # "writeRet"
<1> USE DEF MemInv
<1>1. /\ Waits /\ (Storing' \/ Committing')
      /\ words' = words /\ recent' = recent /\ dmTag' = dmTag /\ dmLine' = dmLine
  BY StoringCycle
<1>2. pending' = pending /\ readState = "idle" /\ readState' = "idle" /\ pending.kind = "store"
  BY <1>1 DEF Waits, Storing, Committing
<1>3. Typed' /\ Accepted' /\ ~Asked'  BY <1>1, WaitTyped DEF Typed
<1>4. Current'  BY <1>1 DEF Current
<1>5. LineKept'
  <2>1. ASSUME NEW a \in DataWords
        PROVE  (Cached(a)' <=> Cached(a)) /\ CellOf(a)' = CellOf(a)
    BY <1>1 DEF Cached, CellOf
  <2> QED  BY <1>1, <1>2, <2>1 DEF LineKept
<1>6. Observed' /\ FillTag'  BY <1>2 DEF Observed, FillTag
<1>7. ramState # "writeRet" /\ ramState' # "writeRet"  BY <1>1 DEF Storing, Committing
<1> QED  BY <1>1, <1>3, <1>4, <1>5, <1>6, <1>7 DEF Phase, LookedUp

LEMMA CommittingKeeps ==
  ASSUME MemInv, Committing, MemoryCycle
  PROVE  MemInv' /\ Flat!Store
<1> USE DEF MemInv
<1>1. /\ Waits /\ Stored' /\ dmTag' = dmTag /\ dmLine' = dmLine
      /\ words' = [words EXCEPT ![pending.addr] = pending.data]
      /\ recent' = [recent EXCEPT ![pending.addr] = {pending.data}]
  BY CommittingCycle
<1>2. /\ pending' = pending /\ readState = "idle" /\ readState' = "idle" /\ pending.kind = "store"
      /\ ramState = "writeExe" /\ ramState' = "writeRet" /\ loaded' = loaded /\ since' = since
  BY <1>1 DEF Waits, Stored, Committing
<1>3. pending.addr \in DataWords /\ pending.data \in Vals
  BY Operations DEF Committing, Waiting
<1>4. words' \in [DataWords -> Vals] /\ recent' \in [DataWords -> SUBSET Vals]
  BY <1>1, <1>3 DEF Typed
<1>5. Typed' /\ Accepted' /\ ~Asked'  BY <1>1, <1>4, WaitTyped DEF Typed
<1>6. Current'  BY <1>1, <1>3 DEF Current, Typed
<1>7. LineKept'
  <2>1. ASSUME NEW a \in DataWords, Cached(a)' PROVE CellOf(a)' \in recent'[a]
    <3>1. Cached(a) /\ CellOf(a)' = CellOf(a)  BY <1>1, <2>1 DEF Cached, CellOf
    <3>2. IF a = pending.addr THEN CellOf(a) = pending.data ELSE CellOf(a) \in recent[a]
      BY <1>2, <3>1 DEF LineKept
    <3> QED  BY <1>1, <1>3, <3>1, <3>2 DEF Typed
  <2>2. ~(Storing \/ Committing)'  BY <1>2 DEF Storing, Committing
  <2> QED  BY <2>1, <2>2 DEF LineKept
<1>8. Observed' /\ FillTag'  BY <1>2 DEF Observed, FillTag
<1>9. Flat!Store
  BY <1>1, <1>2 DEF Flat!Store, DataOp
<1> QED  BY <1>1, <1>5, <1>6, <1>7, <1>8, <1>9 DEF Phase, LookedUp

LEMMA LoadsKeeps ==
  ASSUME MemInv, Fetching, Loads, MemoryCycle
  PROVE  MemInv' /\ ramState # "writeRet" /\ ramState' # "writeRet"
<1> USE DEF MemInv
<1> DEFINE o == request.op
           n == request.new
           h == request.hit
<1>1. UNCHANGED <<accesses, shared, methods, execute, callSlots, pending, loaded, since,
                  words, recent, dmTag, dmLine>> /\ Fetching' /\ CodeTyped'
      /\ request' = [request EXCEPT !.new = FALSE]
  BY DEF Loads
<1>2. request = [op |-> o, new |-> n, hit |-> h]  BY DEF Typed
<1>3. request' = [op |-> request'.op, new |-> request'.new, hit |-> request'.hit] /\ request'.op = o
  <2> HIDE DEF o, n, h
  <2>1. request' = [op |-> o, new |-> FALSE, hit |-> h]  BY <1>1, <1>2
  <2> QED  BY <2>1
<1>4. Typed'  BY <1>1, <1>3, RamTyped DEF Typed, ProgramTyped
<1>5. /\ pending' = Nothing /\ pending'.kind = "none" /\ readState' = "idle"
      /\ pending = Nothing /\ pending.kind = "none" /\ readState = "idle"
  BY <1>1, Operations DEF Fetching, Calm
<1>6. Accepted' /\ Observed' /\ FillTag' /\ LookedUp'
  BY <1>1, <1>5, Operations DEF Accepted, Observed, FillTag, LookedUp, Asked
<1>7. Current'  BY <1>1 DEF Current
<1>8. LineKept'
  <2>1. ASSUME NEW a \in DataWords
        PROVE  (Cached(a)' <=> Cached(a)) /\ CellOf(a)' = CellOf(a)
    BY <1>1 DEF Cached, CellOf
  <2> QED  BY <1>1, <1>5, <2>1 DEF LineKept
<1>9. ramState # "writeRet" /\ ramState' # "writeRet"
  BY <1>1 DEF Fetching, BurstUnderWay, RamReady
<1> QED  BY <1>1, <1>4, <1>6, <1>7, <1>8, <1>9 DEF Phase

-----------------------------------------------------------------------------
(* Every step. *)

LEMMA PlainStutters ==
  ASSUME UNCHANGED <<words, pending, loaded, recent, since>>,
         ramState # "writeRet", ramState' # "writeRet"
  PROVE  UNCHANGED Flat!vars
BY DEF Flat!vars, DataOp

LEMMA CycleStep ==
  ASSUME MemInv, MemoryCycle
  PROVE  MemInv' /\ [Flat!Next]_Flat!vars
<1> USE DEF MemInv
<1>1. ASSUME Proceeds PROVE MemInv' /\ [Flat!Next]_Flat!vars
  BY <1>1, GoKeeps, GoFinishes DEF Flat!Next
<1>2. ASSUME MemInv', Waits, words' = words, recent' = recent,
             ramState # "writeRet", ramState' # "writeRet"
      PROVE  MemInv' /\ [Flat!Next]_Flat!vars
  BY <1>2, PlainStutters DEF Waits
<1>3. CASE Rest  BY <1>1, <1>3, RestCycle
<1>4. CASE Fetching
  <2>1. CASE Loads
    BY <1>4, <2>1, LoadsKeeps, PlainStutters DEF Loads
  <2> QED  BY <1>1, <1>4, <2>1, FetchingCycle
<1>5. CASE Asked
  <2>1. CASE AnsweredAtOnce  BY <1>1, <1>5, <2>1, AnsweredCycle
  <2>2. CASE pending.kind = "load" /\ ~AnsweredAtOnce  BY <1>2, <1>5, <2>2, AskedLoadKeeps
  <2>3. CASE pending.kind = "store"  BY <1>2, <1>5, <2>3, AskedStoreKeeps
  <2> QED  BY <1>5, <2>1, <2>2, <2>3, AskedKinds DEF AnsweredAtOnce
<1>6. CASE Filling  BY <1>2, <1>6, FillingKeeps
<1>7. CASE Answering  BY <1>1, <1>7, AnsweringCycle
<1>8. CASE Storing  BY <1>2, <1>8, StoringKeeps
<1>9. CASE Committing  BY <1>9, CommittingKeeps DEF Flat!Next
<1>10. CASE Stored  BY <1>1, <1>10, StoredCycle
<1> QED  BY <1>3, <1>4, <1>5, <1>6, <1>7, <1>8, <1>9, <1>10 DEF Phase

LEMMA OtherStep ==
  ASSUME MemInv, NEW a \in DataWords, NEW v \in Vals, OtherStore(a, v)
  PROVE  MemInv' /\ Flat!Next
<1> USE DEF MemInv
<1>1. /\ ramState = "ready" /\ a \in shared
      /\ words' = [words EXCEPT ![a] = v] /\ recent' = [recent EXCEPT ![a] = @ \cup {v}]
      /\ since' = IF pending.kind = "load" /\ pending.space = "uncached" /\ pending.addr = a
                  THEN since \cup {v} ELSE since
  BY DEF OtherStore
<1>2. /\ UNCHANGED <<methods, base, hitReg, icState, burstCnt, fetchCnt, transferSize, slaveReg>>
      /\ UNCHANGED <<accesses, shared, execute, pending, callSlots, loaded, request, dmTag, dmLine>>
      /\ UNCHANGED <<readState, readCnt, readReg, wcState, wcCnt>>
      /\ UNCHANGED <<selRightReg, ramState, ramAddr, wordCount, wrBuffer>>
  BY DEF OtherStore, icVars, method, control, core, cache
<1>3. words' \in [DataWords -> Vals] /\ recent' \in [DataWords -> SUBSET Vals]
  BY <1>1 DEF Typed
<1>4. Typed'  BY <1>2, <1>3 DEF Typed, ProgramTyped, CodeTyped
<1>5. Phase'
  BY <1>2 DEF Phase, Rest, Fetching, Asked, Filling, Answering, Storing, Committing, Stored,
              Waiting, Sent, Word, Calm, IcQuiet, RamReady, BurstUnderWay
<1>6. \A b \in DataWords :
        /\ recent[b] \subseteq recent'[b]
        /\ words'[b] = IF b = a THEN v ELSE words[b]
        /\ v \in recent'[a]
  BY <1>1 DEF Typed
<1>7. Accepted' /\ FillTag'  BY <1>2 DEF Accepted, FillTag, Cached
<1>8. Current'  BY <1>6 DEF Current
<1>9. LineKept'
  <2>1. ~(Storing \/ Committing) /\ ~(Storing \/ Committing)'
    BY <1>1, <1>2 DEF Storing, Committing
  <2>2. \A b \in DataWords : (Cached(b)' <=> Cached(b)) /\ CellOf(b)' = CellOf(b)
    BY <1>2 DEF Cached, CellOf
  <2>3. ASSUME NEW b \in DataWords, Cached(b)'
        PROVE  \/ readState' = "fill" /\ Line(b) = Line(pending'.addr) /\ b % Burst >= readCnt'
               \/ CellOf(b)' \in recent'[b]
    <3>1. Cached(b) /\ CellOf(b)' = CellOf(b)  BY <2>2, <2>3
    <3>2. \/ readState = "fill" /\ Line(b) = Line(pending.addr) /\ b % Burst >= readCnt
          \/ CellOf(b) \in recent[b]
      BY <2>1, <3>1 DEF LineKept
    <3> QED  BY <1>2, <1>6, <3>1, <3>2
  <2> QED  BY <2>1, <2>3 DEF LineKept
<1>10. LookedUp'
  <2> SUFFICES ASSUME Asked' PROVE LookedUp'
    BY DEF LookedUp
  <2>1. Asked
    BY <1>2 DEF Asked, IcQuiet, RamReady
  <2>2. Cached(pending.addr)' = Cached(pending.addr) /\ CellOf(pending.addr)' = CellOf(pending.addr)
    BY <1>2 DEF Cached, CellOf
  <2>3. pending.kind = "load" => pending.addr \in DataWords
    BY <2>1, Operations DEF Asked
  <2> QED  BY <1>2, <1>6, <2>1, <2>2, <2>3 DEF LookedUp
<1>11. Observed'
  <2> SUFFICES ASSUME pending.kind = "load" PROVE Observed'
    BY <1>2 DEF Observed
  <2>1. pending.addr \in DataWords  BY Operations DEF Typed
  <2>2. Answering' = Answering /\ Filling' = Filling /\ Word' = Word
    BY <1>2 DEF Answering, Filling, Waiting, IcQuiet, RamReady, Word
  <2>3. pending.space = "uncached" => words'[pending.addr] \in since'
    BY <1>1, <1>6, <2>1 DEF Observed
  <2>4. since \subseteq since' /\ recent[pending.addr] \subseteq recent'[pending.addr]
    BY <1>1, <1>6, <2>1
  <2>5. Answering \/ (Filling /\ readCnt > Word) =>
          readReg \in IF pending.space = "cached" THEN recent'[pending.addr] ELSE since'
    BY <2>4 DEF Observed
  <2> QED  BY <1>2, <2>2, <2>3, <2>5 DEF Observed
<1>12. Flat!Next
  <2> DEFINE op == IF DataOp(pending) THEN pending ELSE Nothing
             Ops == [kind : {"load", "store", "inval"}, space : {"cached", "uncached"},
                     addr : DataWords \cup {0}, data : Vals]
  <2>1. a \in DOMAIN words  BY DEF Typed
  <2>2. v \in {o.data : o \in Ops}
    <3>1. Op("load", "cached", a, v) \in Ops /\ Op("load", "cached", a, v).data = v  BY DEF Op
    <3> QED  BY <3>1
  <2>3. op' = op  BY <1>2 DEF DataOp
  <2>4. op.kind = "load" /\ op.space = "uncached" /\ op.addr = a
          <=> pending.kind = "load" /\ pending.space = "uncached" /\ pending.addr = a
    <3>1. Nothing.kind # "load"  BY Operations
    <3> QED  BY <3>1 DEF DataOp
  <2>5. Flat!Other(a, v)
    <3>1. op' = op /\ loaded' = loaded /\ (ramState' = "writeRet") = (ramState = "writeRet")
      BY <1>2, <2>3
    <3>2. since' = IF op.kind = "load" /\ op.space = "uncached" /\ op.addr = a
                   THEN since \cup {v} ELSE since
      BY <1>1, <2>4
    <3> QED  BY <1>1, <3>1, <3>2 DEF Flat!Other
  <2> QED  BY <2>1, <2>2, <2>5 DEF Flat!Next
<1> QED  BY <1>4, <1>5, <1>7, <1>8, <1>9, <1>10, <1>11, <1>12

LEMMA StutterStep ==
  ASSUME MemInv, UNCHANGED memVars
  PROVE  MemInv' /\ UNCHANGED Flat!vars
<1>1. /\ UNCHANGED <<methods, base, hitReg, icState, burstCnt, fetchCnt, transferSize, slaveReg>>
      /\ UNCHANGED <<accesses, shared, execute, pending, callSlots, loaded, request, dmTag, dmLine>>
      /\ UNCHANGED <<readState, readCnt, readReg, wcState, wcCnt>>
      /\ UNCHANGED <<selRightReg, ramState, ramAddr, wordCount, wrBuffer, words, recent, since>>
  BY DEF memVars, icVars, method, control, core, cache, ram
<1>2. Typed' /\ Accepted' /\ Current' /\ LookedUp' /\ FillTag'
  BY <1>1 DEF MemInv, Typed, ProgramTyped, CodeTyped, Accepted, Current, LookedUp, FillTag, Cached,
              CellOf, Asked, IcQuiet, RamReady
<1>3. Phase'
  BY <1>1 DEF MemInv, Phase, Rest, Fetching, Asked, Filling, Answering, Storing, Committing, Stored,
              Waiting, Sent, Word, Calm, IcQuiet, RamReady, BurstUnderWay, CellOf
<1>4. LineKept' /\ Observed'
  <2>1. /\ Storing' <=> Storing
        /\ Committing' <=> Committing
        /\ Filling' <=> Filling
        /\ Answering' <=> Answering
    BY <1>1 DEF Storing, Committing, Filling, Answering, Asked, Waiting, Sent, Word, Calm, IcQuiet,
                RamReady, BurstUnderWay, CellOf
  <2>2. LineKept'
    BY <1>1, <2>1 DEF MemInv, LineKept, Cached, CellOf
  <2>3. Observed'
    BY <1>1, <2>1 DEF MemInv, Observed, Word
  <2> QED  BY <2>2, <2>3
<1>5. UNCHANGED Flat!vars  BY <1>1 DEF Flat!vars, DataOp
<1> QED  BY <1>2, <1>3, <1>4, <1>5 DEF MemInv

LEMMA Beginning == ASSUME MemoryInit PROVE MemInv /\ Flat!Init
<1>1. PICK p \in MemoryPrograms : methods = p.methods /\ accesses = p.accesses /\ shared = p.shared
  BY DEF MemoryInit
<1>2. ProgramTyped
  <2>1. /\ p.accesses \subseteq Acc /\ p.shared \subseteq DataWords
        /\ p.methods \in [DOMAIN p.methods -> Nat \ {0}]
    BY MemoryAssumption DEF Acc
  <2>2. ASSUME NEW b \in DOMAIN methods PROVE b \in Nat \ {0} /\ b - 1 \notin DataWords
    <3>1. b \in Nat \ {0} /\ methods[b] \in Nat \ {0}  BY <1>1, <2>1, <2>2, MemoryAssumption
    <3>2. (b - 1 .. b + methods[b] - 1) \cap DataWords = {}  BY <1>1, <2>2, MemoryAssumption
    <3>3. b - 1 \in b - 1 .. b + methods[b] - 1  BY <3>1
    <3> QED  BY <3>1, <3>2, <3>3
  <2> QED  BY <1>1, <2>1, <2>2 DEF ProgramTyped
<1>3. 0 \in Index /\ 0 \in Vals  BY Cells, MemoryAssumption
<1>4. /\ execute = Nothing /\ pending = Nothing /\ callSlots = 0 /\ request = NoRequest
      /\ dmTag = [l \in 0 .. Lines - 1 |-> [valid |-> FALSE, addr |-> 0]]
      /\ dmLine = [l \in 0 .. Lines - 1 |-> [w \in Index |-> 0]]
      /\ readState = "idle" /\ readCnt = 0 /\ wcState = "idle" /\ wcCnt = 0
      /\ ramState = "ready" /\ wordCount = 0
      /\ wrBuffer = [w \in Index |-> [en |-> FALSE, data |-> 0]]
      /\ words = [a \in DataWords |-> 0] /\ recent = [a \in DataWords |-> {0}] /\ since = {}
  BY DEF MemoryInit, Index
<1>5. base = 0 /\ hitReg = TRUE /\ icState = "idle" /\ burstCnt = 0 /\ fetchCnt = 0 /\ transferSize = 0
  BY DEF MemoryInit, IcInit
<1>6. request.op = Nothing /\ request.new = FALSE
      /\ request = [op |-> request.op, new |-> request.new, hit |-> request.hit]
  BY <1>4 DEF NoRequest
<1>7. Nothing.kind = "none"  BY Operations
<1>8. Typed
  <2>1. CodeTyped  BY <1>3, <1>5 DEF CodeTyped
  <2>2. wrBuffer = [w \in Index |-> wrBuffer[w]]  BY <1>4
  <2>3. /\ dmTag \in [0 .. Lines - 1 -> [valid : BOOLEAN, addr : Int]]
        /\ dmLine \in [0 .. Lines - 1 -> [Index -> Vals]]
    BY <1>3, <1>4
  <2>4. words \in [DataWords -> Vals] /\ recent \in [DataWords -> SUBSET Vals]
    BY <1>3, <1>4
  <2> HIDE DEF Nothing
  <2> QED  BY <1>2, <1>3, <1>4, <1>6, <1>7, <2>1, <2>2, <2>3, <2>4 DEF Typed
<1>9. Phase  BY <1>4, <1>5, <1>6 DEF Phase, Rest, Calm, IcQuiet, RamReady
<1>10. \A a \in DataWords : ~Cached(a)
  <2>1. \A a \in DataWords : Line(a) \in 0 .. Lines - 1  BY Cells
  <2> QED  BY <1>4, <2>1 DEF Cached
<1>11. Current /\ LineKept  BY <1>4, <1>10 DEF Current, LineKept
<1>12. ~Asked /\ Accepted /\ Observed /\ FillTag
  BY <1>4, <1>6, <1>7 DEF Asked, Accepted, Observed, FillTag
<1>13. Flat!Init
  <2>1. ramState # "writeRet"  BY <1>4
  <2>2. (IF DataOp(pending) THEN pending ELSE Nothing) = Nothing  BY <1>4
  <2>3. recent = [a \in DOMAIN words |-> {words[a]}]  BY <1>4
  <2> QED  BY <1>4, <2>1, <2>2, <2>3 DEF Flat!Init
<1> QED  BY <1>8, <1>9, <1>11, <1>12, <1>13 DEF MemInv, LookedUp

LEMMA MemoryStep ==
  ASSUME MemInv, [MemoryNext]_memVars
  PROVE  MemInv' /\ [Flat!Next]_Flat!vars
BY CycleStep, OtherStep, StutterStep DEF MemoryNext

\* In every state the access of the memory stage, the controllers of both
\* caches, of the write path and of the memory, and the join agree on the
\* phase they are in, and every valid line holds what loads may still get.
THEOREM MemoryKept == MemorySpec => []MemInv
<1>1. MemoryInit => MemInv  BY Beginning
<1>2. MemInv /\ [MemoryNext]_memVars => MemInv'  BY MemoryStep
<1> QED  BY <1>1, <1>2, PTL DEF MemorySpec

\* Whatever the caches, the write path, the join and other cores do, loads and
\* stores of a program are those of one memory: DirectMappedCache, the bridge
\* of NoCache and WriteNoBuffer implement the plain memory.
THEOREM MemoryIsPlain == MemorySpec => IsMemory
<1>1. MemoryInit => Flat!Init  BY Beginning
<1>2. MemInv /\ [MemoryNext]_memVars => [Flat!Next]_Flat!vars  BY MemoryStep
<1> QED  BY <1>1, <1>2, MemoryKept, PTL DEF MemorySpec, IsMemory, Flat!Spec

-----------------------------------------------------------------------------
(***************************************************************************)
(* Fetching.  The methods in the cache lie one behind the other in a row   *)
(* of words without an end, of which the cache holds the last CacheWords:  *)
(* start is where the method of a tag begins in that row, and end where    *)
(* the next one will.                                                      *)
(***************************************************************************)
Slots  == 0 .. MethodCount - 1
Places == 0 .. CacheWords - 1

TagRecords == [addr : Nat, size : Places, valid : BOOLEAN, pos : Places]

\* How many tags were written since a tag was.
Age(s) == IF s < nextIndex THEN nextIndex - 1 - s ELSE nextIndex + MethodCount - 1 - s
Oldest == Age(nextTag)

\* A method has its words and more of them than tags may have to be walked over.
Fits(b) ==
  /\ Rounded(methods[b]) < CacheWords /\ MethodCount <= methods[b] + 3
  /\ (b - 1 .. b + methods[b] - 1) \cap DataWords = {}
  /\ \A c \in DOMAIN methods : b < c => b + methods[b] <= c

\* Calls and their targets; a call waits for its method with two slots left.
Calling ==
  /\ execute.kind = "call" => /\ execute.addr \in DOMAIN methods /\ callSlots = 3
                              /\ execute.data \in 0 .. methods[execute.addr] - 1
  /\ callee # NoCall => /\ callee.base = base /\ base \in DOMAIN methods
                        /\ callee.off \in 0 .. methods[base] - 1
  /\ ~IcQuiet => callSlots = 2 /\ callee # NoCall

\* Where the fetch is.
AtPlace ==
  /\ posReg \in Places /\ fetchPc \in Places /\ rdIdx = fetchPc
  /\ callee = NoCall /\ at # 0 =>
       /\ base \in DOMAIN methods /\ at \in base .. base + methods[base] - 1
       /\ fetchPc = (posReg + (at - base)) % CacheWords

\* The instruction of the address is shown, in a stall by the register.
Shown == at # 0 => IF icState = "idle" THEN block[rdIdx] = at ELSE instrReg = at

\* The words i < n of a method from a position on.
Holds(pos, b, n) == \A i \in 0 .. n - 1 : block[(pos + i) % CacheWords] = b + i

Whole == IcQuiet /\ base # 0 => Holds(posReg, base, methods[base])

\* A method on its way.
Loading ==
  /\ nextPos \in Places /\ nextPos % 2 = 0
  /\ icState = "size" => ~hitReg
  /\ icState \in {"idle", "size"} /\ ~hitReg => posReg = nextPos /\ freeSpace >= 0
  /\ icState = "transfer" =>
       /\ hitReg /\ wrPos = posReg /\ wrPos % 2 = 0 /\ transferSize = methods[base] - 1
       /\ fetchCnt \in 0 .. methods[base]
       /\ fetchCnt <= transferSize => ramAddr = base + fetchCnt - burstCnt
       /\ Holds(wrPos, base, fetchCnt)
  /\ slaveReg.dva /\ ramAddr + burstCnt \notin DataWords => slaveReg.data = ramAddr + burstCnt

\* As long as space is owed no call is looked up, and the walk over the tags
\* ends before one can come.
Timed ==
  freeSpace < 0 =>
    /\ hitReg /\ execute.kind # "call"
    /\ Oldest <= IF icState = "transfer" THEN methods[base] - fetchCnt + 2 ELSE callSlots + 1

\* The ring of tags, from the oldest to the newest.
Ring(start, end) ==
  /\ start \in [Slots -> Nat] /\ end \in Nat /\ nextPos = end % CacheWords
  /\ end - start[nextTag] = CacheWords - freeSpace
  /\ \A s \in Slots :
       /\ Age(s) > Oldest => tags[s].size = 0 /\ ~tags[s].valid
       /\ Age(s) = 0 => start[s] + tags[s].size = end
       /\ Age(s) # 0 /\ Age(s) <= Oldest => start[NextTag(s)] = start[s] + tags[s].size
       /\ \A t \in Slots : Age(t) < Age(s) /\ Age(s) <= Oldest => start[s] + tags[s].size <= start[t]

\* A valid tag tells where a method begins, and those of its words that no
\* later method has been written over are there.
Tagged(start, end) ==
  \A s \in Slots :
    /\ icState = "transfer" /\ Age(s) = 0 =>
         /\ tags[s].size = Rounded(methods[base]) /\ wrPos = start[s] % CacheWords
         /\ tags[s].addr = base /\ tags[s].pos = wrPos
    /\ tags[s].valid =>
         LET b == tags[s].addr
         IN  /\ b \in DOMAIN methods /\ tags[s].size = Rounded(methods[b])
             /\ tags[s].pos = start[s] % CacheWords
             /\ icState # "transfer" \/ Age(s) # 0 =>
                  \A i \in 0 .. methods[b] - 1 :
                    start[s] + i >= end - CacheWords => block[(tags[s].pos + i) % CacheWords] = b + i

CacheTyped ==
  /\ nextIndex \in Slots /\ nextTag \in Slots /\ freeSpace \in Int
  /\ block \in [Places -> Nat]
  /\ tags \in [Slots -> TagRecords]
  /\ \A b \in DOMAIN methods : Fits(b)

FetchInv ==
  /\ CacheTyped /\ Calling /\ AtPlace /\ Shown /\ Whole /\ Loading /\ Timed
  /\ \E start, end : Ring(start, end) /\ Tagged(start, end)

-----------------------------------------------------------------------------
(* Remainders. *)

LEMMA Division ==
  ASSUME NEW m \in Nat \ {0}, NEW x \in Int
  PROVE  /\ x \div m \in Int /\ x % m \in 0 .. m - 1
         /\ x = m * (x \div m) + (x % m)
  OBVIOUS

LEMMA Multiples ==
  ASSUME NEW m \in Nat \ {0}, NEW p \in Int, NEW q \in Int, p < q
  PROVE  m * p + m <= m * q
<1>1. m * (p + 1) = m * p + m /\ m * (p + 1) <= m * q  OBVIOUS
<1> QED  BY <1>1

\* A remainder is unique.
LEMMA Remainder ==
  ASSUME NEW m \in Nat \ {0}, NEW q \in Int, NEW r \in 0 .. m - 1,
         NEW x \in Int, x = m * q + r
  PROVE  x % m = r
<1> DEFINE p == x \div m
<1>1. p \in Int /\ x % m \in 0 .. m - 1 /\ x = m * p + (x % m)  BY Division
<1> HIDE DEF p
<1>2. m * p \in Int /\ m * q \in Int  BY <1>1
<1>3. p < q => m * p + m <= m * q  BY <1>1, Multiples
<1>4. q < p => m * q + m <= m * p  BY <1>1, Multiples
<1>5. p = q => m * p = m * q  OBVIOUS
<1> QED  BY <1>1, <1>2, <1>3, <1>4, <1>5

LEMMA Small == ASSUME NEW m \in Nat \ {0}, NEW x \in 0 .. m - 1 PROVE x % m = x
<1>1. x = m * 0 + x  OBVIOUS
<1> QED  BY <1>1, Remainder

LEMMA Offset ==
  ASSUME NEW b \in Nat, NEW m \in Nat, NEW a \in b .. b + m - 1
  PROVE  a - b \in 0 .. m - 1 /\ b + (a - b) = a
OBVIOUS

LEMMA Sums ==
  ASSUME NEW m \in Nat \ {0}, NEW x \in Nat, NEW y \in Int
  PROVE  ((x % m) + y) % m = (x + y) % m
<1> DEFINE p == x \div m
           z == (x % m) + y
           q == z \div m
           k == p + q
           t == x + y
           r == z % m
<1>1. p \in Int /\ x % m \in 0 .. m - 1 /\ x = m * p + (x % m)  BY Division
<1>2. z \in Int  BY <1>1
<1>3. q \in Int /\ r \in 0 .. m - 1 /\ z = m * q + r
  <2> HIDE DEF z
  <2> QED  BY <1>2, Division
<1>4. k \in Int /\ t \in Int /\ m * k = m * p + m * q /\ m * p \in Int /\ m * q \in Int
  <2> HIDE DEF p, q
  <2> QED  BY <1>1, <1>3
<1>5. t = m * k + r
  <2> HIDE DEF p, q, k, r
  <2> QED  BY <1>1, <1>3, <1>4
<1>6. t % m = r
  <2>1. k \in Int /\ t \in Int /\ r \in 0 .. m - 1  BY <1>3, <1>4
  <2> HIDE DEF t, k, r
  <2> QED  BY <1>5, <2>1, Remainder
<1> QED  BY <1>6

\* Numbers less than the modulus apart have places of their own.
LEMMA OwnPlace ==
  ASSUME NEW m \in Nat \ {0}, NEW x \in Nat, NEW y \in Nat, x < y, y - x < m
  PROVE  x % m # y % m
<1> DEFINE p == x \div m
           q == y \div m
<1>1. p \in Int /\ x % m \in 0 .. m - 1 /\ x = m * p + (x % m)  BY Division
<1>2. q \in Int /\ y % m \in 0 .. m - 1 /\ y = m * q + (y % m)  BY Division
<1> HIDE DEF p, q
<1>3. m * p \in Int /\ m * q \in Int  BY <1>1, <1>2
<1>4. p < q => m * p + m <= m * q  BY <1>1, <1>2, Multiples
<1>5. q < p => m * q + m <= m * p  BY <1>1, <1>2, Multiples
<1>6. p = q => m * p = m * q  OBVIOUS
<1> QED  BY <1>1, <1>2, <1>3, <1>4, <1>5, <1>6

\* With an even number of words an even position and an offset are of one bank.
LEMMA Banks ==
  ASSUME NEW w \in Nat, w % 2 = 0, NEW f \in Nat
  PROVE  2 * (((w + f) % CacheWords) \div 2) + (f % 2) = (w + f) % CacheWords
<1> DEFINE h == CacheWords \div 2
           x == w + f
           y == x % CacheWords
           q == x \div CacheWords
           k == h * q
<1>1. CacheWords \in Nat \ {0} /\ CacheWords % 2 = 0  BY MemoryAssumption
<1>2. h \in Nat /\ CacheWords = 2 * h /\ x \in Nat  BY <1>1
<1>3. q \in Nat /\ y \in Nat /\ x = CacheWords * q + y
  <2> HIDE DEF x
  <2> QED  BY <1>1, <1>2, Division
<1>4. k \in Nat /\ CacheWords * q = 2 * k
  <2> HIDE DEF h, q
  <2>1. (2 * h) * q = 2 * (h * q) /\ h * q \in Nat  BY <1>2, <1>3
  <2> QED  BY <1>2, <2>1
<1>5. w + f = 2 * k + y
  <2> HIDE DEF k, q, y
  <2> QED  BY <1>3, <1>4
<1>6. y % 2 = f % 2 /\ y = 2 * (y \div 2) + (y % 2)
  <2> HIDE DEF k, y
  <2> QED  BY <1>3, <1>4, <1>5
<1> QED  BY <1>6

\* Sizes in the tags, and positions behind them, are even.
LEMMA Roundings ==
  ASSUME NEW n \in Nat
  PROVE  Rounded(n) \in Nat /\ Rounded(n) % 2 = 0 /\ n <= Rounded(n) /\ Rounded(n) <= n + 1
BY DEF Rounded

LEMMA EvenSum ==
  ASSUME NEW x \in Nat, x % 2 = 0, NEW y \in Nat, y % 2 = 0
  PROVE  ((x + y) % CacheWords) % 2 = 0
<1>1. 0 \in Nat /\ 2 * (((x + y) % CacheWords) \div 2) + (y % 2) = (x + y) % CacheWords
  BY Banks
<1>2. (x + y) % CacheWords \in Nat  BY MemoryAssumption
<1> DEFINE z == (x + y) % CacheWords
<1>3. z \in Nat /\ 2 * (z \div 2) = z  BY <1>1, <1>2
<1>4. z % 2 = 0
  <2> HIDE DEF z
  <2> QED  BY <1>3
<1> QED  BY <1>4

-----------------------------------------------------------------------------
(* The ring of tags. *)

LEMMA Following ==
  ASSUME NEW s \in Slots
  PROVE  NextTag(s) = IF s = MethodCount - 1 THEN 0 ELSE s + 1
<1>1. MethodCount \in Nat \ {0} /\ s \in Nat  BY MemoryAssumption DEF Slots
<1>2. MethodCount % MethodCount = 0
  <2>1. MethodCount = MethodCount * 1 + 0  BY <1>1
  <2> QED  BY <1>1, <2>1, Remainder
<1>3. s # MethodCount - 1 => s + 1 \in 0 .. MethodCount - 1  BY <1>1 DEF Slots
<1>4. s # MethodCount - 1 => (s + 1) % MethodCount = s + 1  BY <1>1, <1>3, Small
<1>5. s = MethodCount - 1 => s + 1 = MethodCount  BY <1>1
<1> QED  BY <1>2, <1>4, <1>5 DEF NextTag

LEMMA Ages ==
  ASSUME nextIndex \in Slots
  PROVE  /\ Age(nextIndex) = MethodCount - 1
         /\ \A s \in Slots :
              /\ Age(s) \in Slots /\ NextTag(s) \in Slots
              /\ Age(s) # 0 => Age(NextTag(s)) = Age(s) - 1
              /\ \A t \in Slots : Age(s) = Age(t) => s = t
         /\ \E s \in Slots : Age(s) = 0
<1>1. MethodCount \in Nat \ {0}  BY MemoryAssumption
<1>2. Age(nextIndex) = MethodCount - 1  BY <1>1 DEF Age, Slots
<1>3. ASSUME NEW s \in Slots
      PROVE  /\ Age(s) \in Slots /\ NextTag(s) \in Slots
             /\ Age(s) # 0 => Age(NextTag(s)) = Age(s) - 1
             /\ \A t \in Slots : Age(s) = Age(t) => s = t
  <2>1. Age(s) \in Slots  BY <1>1 DEF Age, Slots
  <2>2. NextTag(s) = IF s = MethodCount - 1 THEN 0 ELSE s + 1  BY Following
  <2>3. NextTag(s) \in Slots  BY <1>1, <2>2 DEF Slots
  <2>4. ASSUME NEW t \in Slots, Age(s) = Age(t) PROVE s = t  BY <1>1, <2>4 DEF Age, Slots
  <2>5. ASSUME Age(s) # 0 PROVE Age(NextTag(s)) = Age(s) - 1
    <3> DEFINE t == NextTag(s)
    <3>1. t = IF s = MethodCount - 1 THEN 0 ELSE s + 1  BY <2>2
    <3> HIDE DEF t
    <3>2. Age(t) = Age(s) - 1  BY <1>1, <2>5, <3>1 DEF Age, Slots
    <3> QED  BY <3>2 DEF t
  <2> QED  BY <2>1, <2>3, <2>4, <2>5
<1>4. \E s \in Slots : Age(s) = 0
  <2> DEFINE z == IF nextIndex = 0 THEN MethodCount - 1 ELSE nextIndex - 1
  <2>1. z \in Slots /\ Age(z) = 0  BY <1>1 DEF Age, Slots
  <2> QED  BY <2>1
<1> QED  BY <1>2, <1>3, <1>4

\* A tag is written: it is the newest, and the others are older by one.
LEMMA AgesWritten ==
  ASSUME nextIndex \in Slots, nextIndex' = NextTag(nextIndex), NEW s \in Slots
  PROVE  Age(s)' = IF s = nextIndex THEN 0 ELSE Age(s) + 1
<1>1. MethodCount \in Nat \ {0}  BY MemoryAssumption
<1>2. nextIndex' = IF nextIndex = MethodCount - 1 THEN 0 ELSE nextIndex + 1  BY Following
<1> QED  BY <1>1, <1>2 DEF Age, Slots

LEMMA AgesKept ==
  ASSUME nextIndex' = nextIndex, NEW s \in Slots
  PROVE  Age(s)' = Age(s)
BY DEF Age

-----------------------------------------------------------------------------
(* What a cycle makes of the tags. *)

\* Without a new method: as long as space is owed the oldest gives way.
Walks ==
  /\ UNCHANGED <<nextIndex, nextPos, wrPos>>
  /\ tags' \in [Slots -> TagRecords]
  /\ \A s \in Slots :
       /\ tags'[s].addr = tags[s].addr /\ tags'[s].pos = tags[s].pos
       /\ tags'[s].valid => tags[s].valid
       /\ IF freeSpace < 0 /\ s = nextTag THEN tags'[s].size = 0 /\ ~tags'[s].valid
          ELSE tags'[s].size = tags[s].size
  /\ IF freeSpace < 0
     THEN freeSpace' = freeSpace + tags[nextTag].size /\ nextTag' = NextTag(nextTag)
     ELSE UNCHANGED <<freeSpace, nextTag>>

\* The new method takes the next tag.
Enters ==
  /\ nextIndex' = NextTag(nextIndex) /\ wrPos' = posReg
  /\ nextPos' = (nextPos + Rounded(methods[base])) % CacheWords
  /\ tags' \in [Slots -> TagRecords]
  /\ \A s \in Slots :
       IF s = nextIndex
       THEN /\ tags'[s].addr = base /\ tags'[s].size = Rounded(methods[base])
            /\ tags'[s].pos = nextPos
       ELSE /\ tags'[s].addr = tags[s].addr /\ tags'[s].pos = tags[s].pos
            /\ tags'[s].size = tags[s].size
            /\ tags'[s].valid => tags[s].valid
  /\ freeSpace' = freeSpace - Rounded(methods[base]) + tags[nextIndex].size
  /\ nextTag' = IF nextTag = nextIndex THEN NextTag(nextTag) ELSE nextTag

\* An invalidation makes all of them invalid as well.
Sieve(left, invalidate) ==
  IF invalidate THEN [i \in DOMAIN left |-> [left[i] EXCEPT !.valid = FALSE]] ELSE left

LEMMA Sieved ==
  ASSUME NEW left \in [Slots -> TagRecords], NEW invalidate
  PROVE  /\ Sieve(left, invalidate) \in [Slots -> TagRecords]
         /\ \A s \in Slots :
              LET after == Sieve(left, invalidate)[s]
              IN  /\ after.addr = left[s].addr /\ after.pos = left[s].pos
                  /\ after.size = left[s].size /\ (after.valid => left[s].valid)
<1> DEFINE after == Sieve(left, invalidate)
<1>1. CASE ~invalidate  BY <1>1 DEF Sieve
<1>2. CASE invalidate
  <2>1. after = [i \in Slots |-> [left[i] EXCEPT !.valid = FALSE]]  BY <1>2 DEF Sieve
  <2> HIDE DEF after
  <2>2. ASSUME NEW s \in Slots
        PROVE  /\ after[s] \in TagRecords
               /\ after[s].addr = left[s].addr /\ after[s].pos = left[s].pos
               /\ after[s].size = left[s].size /\ ~after[s].valid
    <3>1. left[s] \in TagRecords /\ after[s] = [left[s] EXCEPT !.valid = FALSE]  BY <2>1
    <3> QED  BY <3>1 DEF TagRecords
  <2>3. after \in [Slots -> TagRecords]
    <3> HIDE DEF TagRecords
    <3> QED  BY <2>1, <2>2
  <2> QED  BY <2>2, <2>3 DEF after
<1> QED  BY <1>1, <1>2

LEMMA Walked ==
  ASSUME CacheTyped, ~SizeRead, NEW invalidate, Replace(invalidate)
  PROVE  Walks
<1>1. nextTag \in Slots /\ tags \in [Slots -> TagRecords] /\ 0 \in Places
  BY MemoryAssumption DEF CacheTyped, TagRecords, Places
<1> DEFINE left == IF freeSpace < 0
                   THEN [tags EXCEPT ![nextTag].size = 0, ![nextTag].valid = FALSE]
                   ELSE tags
<1>2. Inserted = tags  BY DEF Inserted
<1>3. tags' = Sieve(left, invalidate)  BY <1>2 DEF Replace, Sieve
<1>4. /\ left \in [Slots -> TagRecords]
      /\ \A s \in Slots :
           /\ left[s].addr = tags[s].addr /\ left[s].pos = tags[s].pos
           /\ left[s].valid => tags[s].valid
           /\ IF freeSpace < 0 /\ s = nextTag THEN left[s].size = 0 /\ ~left[s].valid
              ELSE left[s].size = tags[s].size
  <2>1. CASE ~(freeSpace < 0)  BY <1>1, <2>1
  <2>2. CASE freeSpace < 0
    <3> DEFINE row == [tags[nextTag] EXCEPT !.size = 0, !.valid = FALSE]
    <3>1. left = [tags EXCEPT ![nextTag] = row]  BY <1>1, <2>2
    <3>2. row \in TagRecords /\ row.size = 0 /\ ~row.valid /\ row.addr = tags[nextTag].addr
          /\ row.pos = tags[nextTag].pos
      BY <1>1 DEF TagRecords
    <3> HIDE DEF row, left
    <3>3. left \in [Slots -> TagRecords]  BY <1>1, <3>1, <3>2
    <3>4. \A s \in Slots : left[s] = IF s = nextTag THEN row ELSE tags[s]  BY <1>1, <3>1
    <3> QED  BY <2>2, <3>2, <3>3, <3>4
  <2> QED  BY <2>1, <2>2
<1> HIDE DEF left
<1>5. /\ tags' \in [Slots -> TagRecords]
      /\ \A s \in Slots :
           /\ tags'[s].addr = left[s].addr /\ tags'[s].pos = left[s].pos
           /\ tags'[s].size = left[s].size /\ (tags'[s].valid => left[s].valid)
  BY <1>3, <1>4, Sieved
<1>6. /\ freeSpace' = IF freeSpace < 0 THEN freeSpace + Signed(tags[nextTag].size) ELSE freeSpace
      /\ nextTag' = IF freeSpace < 0 THEN NextTag(nextTag) ELSE nextTag
      /\ UNCHANGED <<nextIndex, nextPos, wrPos>>
  BY DEF Replace
<1>7. Signed(tags[nextTag].size) = tags[nextTag].size
  <2>1. tags[nextTag].size \in Places  BY <1>1 DEF TagRecords
  <2>2. tags[nextTag].size < CacheWords  BY <2>1, MemoryAssumption DEF Places
  <2> QED  BY <2>2 DEF Signed
<1> QED  BY <1>4, <1>5, <1>6, <1>7 DEF Walks

LEMMA Entered ==
  ASSUME CacheTyped, SizeRead, Size = methods[base], base \in DOMAIN methods, base \in Nat,
         methods[base] \in Nat, freeSpace >= 0, nextPos \in Places,
         NEW invalidate, Replace(invalidate)
  PROVE  Enters
<1> DEFINE n == methods[base]
           row == [addr |-> base, size |-> Rounded(n), valid |-> TRUE, pos |-> nextPos]
           left == [tags EXCEPT ![nextIndex] = row]
<1>1. nextIndex \in Slots /\ tags \in [Slots -> TagRecords] /\ freeSpace \in Int
  BY DEF CacheTyped, TagRecords
<1>2. Rounded(n) \in Places /\ Rounded(n) < CacheWords
  <2>1. Rounded(n) \in Nat /\ Rounded(n) < CacheWords  BY Roundings DEF CacheTyped, Fits
  <2> QED  BY <2>1, MemoryAssumption DEF Places
<1>3. row \in TagRecords  BY <1>2 DEF TagRecords
<1>4. Inserted = left  BY DEF Inserted
<1>5. ~(freeSpace < 0)  BY <1>1
<1>6. tags' = Sieve(left, invalidate)  BY <1>4, <1>5 DEF Replace, Sieve
<1>7. left \in [Slots -> TagRecords] /\ \A s \in Slots : left[s] = IF s = nextIndex THEN row ELSE tags[s]
  <2> HIDE DEF row
  <2> QED  BY <1>1, <1>3
<1> HIDE DEF left
<1>8. /\ tags' \in [Slots -> TagRecords]
      /\ \A s \in Slots :
           /\ tags'[s].addr = left[s].addr /\ tags'[s].pos = left[s].pos
           /\ tags'[s].size = left[s].size /\ (tags'[s].valid => left[s].valid)
  BY <1>6, <1>7, Sieved
<1>9. /\ freeSpace' = freeSpace - Signed(Rounded(n)) + Signed(tags[nextIndex].size)
      /\ nextTag' = IF nextTag = nextIndex THEN NextTag(nextTag) ELSE nextTag
      /\ nextIndex' = NextTag(nextIndex) /\ nextPos' = (nextPos + Rounded(n)) % CacheWords
      /\ wrPos' = posReg
  BY <1>5 DEF Replace
<1>10. Signed(tags[nextIndex].size) = tags[nextIndex].size
  <2>1. tags[nextIndex].size \in Places  BY <1>1 DEF TagRecords
  <2>2. tags[nextIndex].size < CacheWords  BY <2>1, MemoryAssumption DEF Places
  <2> QED  BY <2>2 DEF Signed
<1>11. Signed(Rounded(n)) = Rounded(n)  BY <1>2 DEF Signed
<1>12. row.addr = base /\ row.size = Rounded(n) /\ row.pos = nextPos  OBVIOUS
<1> HIDE DEF row
<1>13. \A s \in Slots :
       IF s = nextIndex
       THEN /\ tags'[s].addr = base /\ tags'[s].size = Rounded(methods[base])
            /\ tags'[s].pos = nextPos
       ELSE /\ tags'[s].addr = tags[s].addr /\ tags'[s].pos = tags[s].pos
            /\ tags'[s].size = tags[s].size
            /\ tags'[s].valid => tags[s].valid
  BY <1>7, <1>8, <1>12
<1>14. freeSpace' = freeSpace - Rounded(methods[base]) + tags[nextIndex].size
  BY <1>9, <1>10, <1>11
<1> QED  BY <1>8, <1>9, <1>13, <1>14 DEF Enters


-----------------------------------------------------------------------------
(* The ring over a cycle. *)

LEMMA Sizes ==
  ASSUME CacheTyped
  PROVE  /\ nextIndex \in Slots /\ nextTag \in Slots /\ freeSpace \in Int
         /\ CacheWords \in Nat \ {0} /\ MethodCount \in Nat \ {0} /\ Slots \subseteq Nat
         /\ \A s \in Slots :
              /\ Age(s) \in Nat /\ Age(s) <= MethodCount - 1
              /\ tags[s].size \in Nat /\ tags[s].size < CacheWords /\ tags[s].pos \in Nat
<1>1. nextIndex \in Slots /\ nextTag \in Slots /\ freeSpace \in Int  BY DEF CacheTyped
<1>2. CacheWords \in Nat \ {0} /\ MethodCount \in Nat \ {0}  BY MemoryAssumption
<1>3. ASSUME NEW s \in Slots
      PROVE  /\ Age(s) \in Nat /\ Age(s) <= MethodCount - 1
             /\ tags[s].size \in Nat /\ tags[s].size < CacheWords /\ tags[s].pos \in Nat
  <2>1. tags \in [Slots -> TagRecords]  BY DEF CacheTyped, TagRecords
  <2>2. tags[s].size \in Places /\ tags[s].pos \in Places  BY <2>1 DEF TagRecords
  <2>3. Age(s) \in Slots  BY <1>1, Ages
  <2>4. Age(s) \in Nat /\ Age(s) <= MethodCount - 1
    <3> DEFINE k == Age(s)
    <3>1. k \in Slots  BY <2>3
    <3> HIDE DEF k
    <3>2. k \in Nat /\ k <= MethodCount - 1  BY <1>2, <3>1 DEF Slots
    <3> QED  BY <3>2 DEF k
  <2>5. tags[s].size \in Nat /\ tags[s].size < CacheWords /\ tags[s].pos \in Nat
    BY <1>2, <2>2 DEF Places
  <2> QED  BY <2>4, <2>5
<1>4. Slots \subseteq Nat  BY <1>2 DEF Slots
<1> QED  BY <1>1, <1>2, <1>3, <1>4

\* From the oldest tag to the newest the methods lie one behind the other.
LEMMA RingOrder ==
  ASSUME CacheTyped, NEW start, NEW end, Ring(start, end)
  PROVE  /\ Oldest \in Slots
         /\ \A s \in Slots :
              /\ start[s] \in Nat
              /\ Age(s) <= Oldest =>
                   start[nextTag] <= start[s] /\ start[s] + tags[s].size <= end
         /\ freeSpace < 0 => Oldest # 0
<1>1. nextIndex \in Slots /\ nextTag \in Slots /\ freeSpace \in Int  BY DEF CacheTyped
<1>2. start \in [Slots -> Nat] /\ end \in Nat  BY DEF Ring
<1>3. Oldest \in Slots  BY <1>1, Ages DEF Oldest
<1>4. \A s \in Slots : Age(s) \in Nat /\ start[s] \in Nat /\ tags[s].size \in Nat
  BY <1>2, Sizes
<1>5. PICK z \in Slots : Age(z) = 0  BY <1>1, Ages
<1>6. start[z] + tags[z].size = end  BY <1>5 DEF Ring
<1>7. ASSUME NEW s \in Slots, Age(s) <= Oldest
      PROVE  start[nextTag] <= start[s] /\ start[s] + tags[s].size <= end
  <2>1. start[nextTag] <= start[s]
    <3>1. CASE Age(s) = Age(nextTag)
      <4>1. s = nextTag  BY <1>1, <3>1, Ages
      <4> QED  BY <1>4, <4>1
    <3>2. CASE Age(s) < Age(nextTag)
      <4>1. start[nextTag] + tags[nextTag].size <= start[s]
        BY <1>1, <1>4, <3>2 DEF Ring, Oldest
      <4> QED  BY <1>1, <1>4, <4>1
    <3> QED  BY <1>1, <1>4, <1>7, <3>1, <3>2 DEF Oldest
  <2>2. start[s] + tags[s].size <= end
    <3>1. CASE Age(s) = 0  BY <1>2, <1>4, <3>1 DEF Ring
    <3>2. CASE Age(s) # 0
      <4>1. Age(z) < Age(s)  BY <1>4, <1>5, <3>2
      <4>2. start[s] + tags[s].size <= start[z]  BY <1>7, <4>1 DEF Ring
      <4> QED  BY <1>2, <1>4, <1>6, <4>2
    <3> QED  BY <3>1, <3>2
  <2> QED  BY <2>1, <2>2
<1>8. ASSUME freeSpace < 0, Oldest = 0 PROVE FALSE
  <2>1. start[nextTag] + tags[nextTag].size = end  BY <1>1, <1>8 DEF Ring, Oldest
  <2>2. end - start[nextTag] = CacheWords - freeSpace  BY DEF Ring
  <2>3. tags[nextTag].size < CacheWords  BY <1>1, Sizes
  <2> QED  BY <1>1, <1>2, <1>4, <1>8, <2>1, <2>2, <2>3, Sizes
<1> QED  BY <1>3, <1>4, <1>7, <1>8

\* A cycle of the walk over the tags.
LEMMA RingWalked ==
  ASSUME CacheTyped, CacheTyped', NEW start, NEW end, Ring(start, end), Walks
  PROVE  /\ Ring(start, end)'
         /\ Oldest' = IF freeSpace < 0 THEN Oldest - 1 ELSE Oldest
<1>1. nextIndex \in Slots /\ nextTag \in Slots /\ freeSpace \in Int /\ nextTag' \in Slots
  BY DEF CacheTyped
<1>2. start \in [Slots -> Nat] /\ end \in Nat /\ nextPos' = end % CacheWords
  BY DEF Ring, Walks
<1>3. \A s \in Slots : Age(s)' = Age(s) /\ Age(s) \in Nat /\ start[s] \in Nat /\ tags[s].size \in Nat
  BY <1>2, Sizes, AgesKept DEF Walks
<1>4. Oldest' = IF freeSpace < 0 THEN Oldest - 1 ELSE Oldest
  <2>1. Oldest' = Age(nextTag')
    BY DEF Oldest, Age, Walks
  <2>2. CASE freeSpace < 0
    <3>1. nextTag' = NextTag(nextTag) /\ Age(nextTag) # 0
      BY <2>2, RingOrder DEF Walks, Oldest
    <3> QED  BY <1>1, <2>1, <2>2, <3>1, Ages DEF Oldest
  <2>3. CASE ~(freeSpace < 0)  BY <2>1, <2>3 DEF Walks, Oldest
  <2> QED  BY <2>2, <2>3
<1>5. end - start[nextTag'] = CacheWords - freeSpace'
  <2>1. end - start[nextTag] = CacheWords - freeSpace  BY DEF Ring
  <2>2. CASE freeSpace < 0
    <3>1. nextTag' = NextTag(nextTag) /\ Age(nextTag) # 0 /\ freeSpace' = freeSpace + tags[nextTag].size
      BY <2>2, RingOrder DEF Walks, Oldest
    <3>2. start[nextTag'] = start[nextTag] + tags[nextTag].size
      BY <1>1, <1>3, <3>1 DEF Ring, Oldest
    <3>3. start[nextTag] \in Nat /\ tags[nextTag].size \in Nat  BY <1>1, <1>3
    <3> QED  BY <1>1, <1>2, <2>1, <3>1, <3>2, <3>3, Sizes
  <2>3. CASE ~(freeSpace < 0)  BY <2>1, <2>3 DEF Walks
  <2> QED  BY <2>2, <2>3
<1>6. ASSUME NEW s \in Slots
      PROVE  /\ Age(s) > Oldest' => tags'[s].size = 0 /\ ~tags'[s].valid
             /\ Age(s) = 0 => start[s] + tags'[s].size = end
             /\ Age(s) # 0 /\ Age(s) <= Oldest' => start[NextTag(s)] = start[s] + tags'[s].size
             /\ \A t \in Slots : Age(t) < Age(s) /\ Age(s) <= Oldest' =>
                                    start[s] + tags'[s].size <= start[t]
  <2>1. Oldest \in Nat /\ (freeSpace < 0 => Oldest # 0)
        /\ (Age(s) = Oldest <=> s = nextTag)
    BY <1>1, RingOrder, Ages DEF Slots, Oldest
  <2>2. CASE freeSpace < 0 /\ s = nextTag
    <3>1. tags'[s].size = 0 /\ ~tags'[s].valid  BY <2>2 DEF Walks
    <3>2. Age(s) # 0 /\ Age(s) > Oldest'  BY <1>4, <2>1, <2>2
    <3>3. ~(Age(s) <= Oldest')  BY <1>3, <1>4, <2>1, <2>2
    <3> QED  BY <3>1, <3>2, <3>3
  <2>3. CASE ~(freeSpace < 0 /\ s = nextTag)
    <3>1. tags'[s].size = tags[s].size /\ (tags'[s].valid => tags[s].valid)
      BY <2>3 DEF Walks
    <3>2. Age(s) > Oldest' => Age(s) > Oldest  BY <1>3, <1>4, <2>1, <2>3
    <3>3. Age(s) <= Oldest' => Age(s) <= Oldest  BY <1>3, <1>4, <2>1
    <3> QED  BY <3>1, <3>2, <3>3 DEF Ring
  <2> QED  BY <2>2, <2>3
<1>7. Ring(start, end)'
  <2>1. \A s \in Slots : NextTag(s)' = NextTag(s)  BY DEF NextTag
  <2> HIDE DEF Oldest, Age
  <2> QED  BY <1>2, <1>3, <1>5, <1>6, <2>1 DEF Ring, Walks
<1> QED  BY <1>4, <1>7


\* Behind the newest tag is the next to be written.
LEMMA NewestTag ==
  ASSUME CacheTyped, NEW s \in Slots
  PROVE  Age(s) = 0 <=> NextTag(s) = nextIndex
<1>1. NextTag(s) = IF s = MethodCount - 1 THEN 0 ELSE s + 1  BY Following
<1>2. nextIndex \in Slots /\ MethodCount \in Nat \ {0}  BY Sizes
<1> QED  BY <1>1, <1>2 DEF Age, Slots

\* The tags and their ages when a method enters.
LEMMA EnteredAges ==
  ASSUME CacheTyped, CacheTyped', Enters
  PROVE  /\ \A s \in Slots : Age(s)' = IF s = nextIndex THEN 0 ELSE Age(s) + 1
         /\ Oldest' = IF nextTag = nextIndex THEN MethodCount - 1 ELSE Oldest + 1
         /\ nextTag = nextIndex => Oldest = MethodCount - 1
         /\ \A s \in Slots : s # nextIndex => Age(s) < MethodCount - 1
         /\ nextTag' = nextIndex => MethodCount = 1
<1>1. nextIndex \in Slots /\ nextTag \in Slots /\ nextTag' \in Slots /\ MethodCount \in Nat \ {0}
      /\ \A s \in Slots : Age(s) \in Nat /\ Age(s) <= MethodCount - 1
  BY Sizes DEF CacheTyped
<1>2. ASSUME NEW s \in Slots PROVE Age(s)' = IF s = nextIndex THEN 0 ELSE Age(s) + 1
  BY <1>1, AgesWritten DEF Enters
<1>3. Age(nextIndex) = MethodCount - 1  BY <1>1, Ages
<1>4. ASSUME NEW s \in Slots, s # nextIndex PROVE Age(s) < MethodCount - 1
  <2>1. Age(s) # Age(nextIndex)  BY <1>1, <1>4, Ages
  <2> QED  BY <1>1, <1>3, <2>1
<1>5. nextTag' = IF nextTag = nextIndex THEN NextTag(nextTag) ELSE nextTag  BY DEF Enters
<1>6. nextTag' = nextIndex => MethodCount = 1
  <2>1. ASSUME nextTag = nextIndex, NextTag(nextTag) = nextIndex PROVE MethodCount = 1
    <3>1. Age(nextIndex) = 0  BY <1>1, <2>1, NewestTag
    <3> QED  BY <1>1, <1>3, <3>1
  <2> QED  BY <1>5, <2>1
<1>7. \A s \in Slots : s = nextTag' => Oldest' = IF s = nextIndex THEN 0 ELSE Age(s) + 1
  <2>1. ASSUME NEW s \in Slots, s = nextTag' PROVE Age(s)' = Oldest'
    BY <2>1 DEF Oldest, Age
  <2> QED  BY <1>2, <2>1
<1>8. Oldest' = IF nextTag = nextIndex THEN MethodCount - 1 ELSE Oldest + 1
  <2>1. CASE nextTag # nextIndex
    <3>1. nextTag' = nextTag  BY <1>5, <2>1
    <3> QED  BY <1>1, <1>7, <2>1, <3>1 DEF Oldest
  <2>2. CASE nextTag = nextIndex /\ MethodCount = 1
    <3>1. nextTag' \in 0 .. 0 /\ nextIndex \in 0 .. 0  BY <1>1, <2>2 DEF Slots
    <3>2. nextTag' = nextIndex  BY <3>1
    <3> QED  BY <1>1, <1>7, <2>2, <3>2
  <2>3. CASE nextTag = nextIndex /\ MethodCount # 1
    <3>1. nextTag' = NextTag(nextIndex) /\ nextTag' # nextIndex  BY <1>5, <1>6, <2>3
    <3>2. Age(nextIndex) # 0  BY <1>1, <1>3, <2>3
    <3>3. Age(NextTag(nextIndex)) = Age(nextIndex) - 1  BY <1>1, <3>2, Ages
    <3>4. Oldest' = Age(NextTag(nextIndex)) + 1
      <4>1. NextTag(nextIndex) \in Slots  BY <1>1, Ages
      <4> QED  BY <1>7, <3>1, <4>1
    <3> QED  BY <1>1, <1>3, <2>3, <3>3, <3>4
  <2> QED  BY <2>1, <2>2, <2>3
<1> QED  BY <1>2, <1>3, <1>4, <1>6, <1>8 DEF Oldest

\* The ring with a new method.
LEMMA RingEntered ==
  ASSUME CacheTyped, CacheTyped', NEW start, NEW end, Ring(start, end), Enters,
         NEW n \in Nat, n = Rounded(methods[base]),
         NEW later, later = [start EXCEPT ![nextIndex] = end]
  PROVE  Ring(later, end + n)'
<1>1. /\ nextIndex \in Slots /\ nextTag \in Slots /\ nextTag' \in Slots
      /\ freeSpace \in Int /\ CacheWords \in Nat \ {0} /\ MethodCount \in Nat \ {0}
      /\ \A s \in Slots : Age(s) \in Nat /\ tags[s].size \in Nat
  BY Sizes DEF CacheTyped
<1>2. start \in [Slots -> Nat] /\ end \in Nat  BY DEF Ring
<1>3. later \in [Slots -> Nat] /\ \A s \in Slots : later[s] = IF s = nextIndex THEN end ELSE start[s]
  BY <1>1, <1>2
<1>4. nextPos' = (end + n) % CacheWords
  <2>1. nextPos = end % CacheWords /\ nextPos' = (nextPos + n) % CacheWords  BY DEF Ring, Enters
  <2>2. CacheWords \in Nat \ {0} /\ end \in Nat /\ n \in Int  BY <1>1, <1>2
  <2>3. ((end % CacheWords) + n) % CacheWords = (end + n) % CacheWords  BY <2>2, Sums
  <2> QED  BY <2>1, <2>3
<1>5. \A s \in Slots : Age(s)' = IF s = nextIndex THEN 0 ELSE Age(s) + 1  BY EnteredAges
<1>6. end - start[nextTag] = CacheWords - freeSpace  BY DEF Ring
<1>7. freeSpace' = freeSpace - n + tags[nextIndex].size  BY DEF Enters
<1>8. (end + n) - later[nextTag'] = CacheWords - freeSpace'
  <2>1. CASE nextTag # nextIndex
    <3>1. Age(nextIndex) > Oldest
      <4>1. Age(nextIndex) = MethodCount - 1 /\ Oldest < MethodCount - 1
        BY <1>1, <2>1, Ages, EnteredAges DEF Oldest
      <4> QED  BY <1>1, <4>1 DEF Oldest
    <3>2. tags[nextIndex].size = 0  BY <1>1, <3>1 DEF Ring
    <3>3. nextTag' = nextTag /\ later[nextTag] = start[nextTag]  BY <1>1, <1>3, <2>1 DEF Enters
    <3> QED  BY <1>1, <1>2, <1>6, <1>7, <3>2, <3>3
  <2>2. CASE nextTag = nextIndex /\ MethodCount = 1
    <3>1. nextTag' \in 0 .. 0 /\ nextIndex \in 0 .. 0  BY <1>1, <2>2 DEF Slots
    <3>2. nextTag' = nextIndex /\ later[nextTag'] = end  BY <1>1, <1>3, <3>1
    <3>3. Age(nextIndex) = 0  BY <1>1, <2>2, Ages
    <3>4. start[nextIndex] + tags[nextIndex].size = end  BY <1>1, <3>3 DEF Ring
    <3>5. start[nextIndex] \in Nat /\ tags[nextIndex].size \in Nat  BY <1>1, <1>2
    <3> QED  BY <1>1, <1>2, <1>6, <1>7, <2>2, <3>2, <3>4, <3>5
  <2>3. CASE nextTag = nextIndex /\ MethodCount # 1
    <3>1. nextTag' = NextTag(nextIndex) /\ nextTag' # nextIndex
      BY <2>3, EnteredAges DEF Enters
    <3>2. Age(nextIndex) # 0 /\ Age(nextIndex) <= Oldest
      BY <1>1, <2>3, Ages DEF Oldest
    <3>3. start[NextTag(nextIndex)] = start[nextIndex] + tags[nextIndex].size
      BY <1>1, <3>2 DEF Ring
    <3>4. later[nextTag'] = start[nextIndex] + tags[nextIndex].size
      BY <1>1, <1>3, <3>1, <3>3
    <3>5. start[nextIndex] \in Nat /\ tags[nextIndex].size \in Nat  BY <1>1, <1>2
    <3> QED  BY <1>1, <1>2, <1>6, <1>7, <2>3, <3>4, <3>5
  <2> QED  BY <2>1, <2>2, <2>3
<1>9. ASSUME NEW s \in Slots, s # nextIndex
      PROVE  /\ Age(s) + 1 > Oldest' => Age(s) > Oldest
             /\ Age(s) + 1 <= Oldest' => Age(s) <= Oldest
             /\ tags'[s].size = tags[s].size /\ (tags'[s].valid => tags[s].valid)
             /\ later[s] = start[s]
  <2>1. CASE nextTag # nextIndex
    <3>1. Oldest' = Oldest + 1 /\ Oldest \in Nat  BY <1>1, <2>1, EnteredAges DEF Oldest
    <3> QED  BY <1>1, <1>3, <1>9, <3>1 DEF Enters
  <2>2. CASE nextTag = nextIndex
    <3>1. Oldest' = MethodCount - 1 /\ Oldest = MethodCount - 1 /\ Age(s) < MethodCount - 1
      BY <1>9, <2>2, EnteredAges
    <3> QED  BY <1>1, <1>3, <1>9, <3>1 DEF Enters
  <2> QED  BY <2>1, <2>2
<1>10. ASSUME NEW s \in Slots, s # nextIndex, Age(s) + 1 <= Oldest'
       PROVE  /\ later[NextTag(s)] = later[s] + tags'[s].size
              /\ \A t \in Slots : t = nextIndex \/ Age(t) < Age(s) =>
                    later[s] + tags'[s].size <= later[t]
  <2>1. Age(s) <= Oldest /\ tags'[s].size = tags[s].size /\ later[s] = start[s]
    BY <1>9, <1>10
  <2>2. start[s] + tags[s].size <= end  BY <2>1, RingOrder
  <2>3. later[NextTag(s)] = start[s] + tags[s].size
    <3>1. CASE Age(s) = 0
      <4>1. NextTag(s) = nextIndex /\ start[s] + tags[s].size = end
        BY <3>1, NewestTag DEF Ring
      <4> QED  BY <1>1, <1>3, <4>1
    <3>2. CASE Age(s) # 0
      <4>1. start[NextTag(s)] = start[s] + tags[s].size  BY <2>1, <3>2 DEF Ring
      <4>2. NextTag(s) \in Slots /\ NextTag(s) # nextIndex  BY <1>1, <3>2, Ages, NewestTag
      <4> QED  BY <1>3, <4>1, <4>2
    <3> QED  BY <3>1, <3>2
  <2>4. ASSUME NEW t \in Slots, t = nextIndex \/ Age(t) < Age(s)
        PROVE  start[s] + tags[s].size <= later[t]
    <3>1. CASE t = nextIndex  BY <1>3, <2>2, <3>1
    <3>2. CASE t # nextIndex
      <4>1. start[s] + tags[s].size <= start[t]  BY <2>1, <2>4, <3>2 DEF Ring
      <4> QED  BY <1>3, <3>2, <4>1
    <3> QED  BY <3>1, <3>2
  <2> QED  BY <2>1, <2>3, <2>4
<1>11. ASSUME NEW s \in Slots
       PROVE  /\ Age(s)' > Oldest' => tags'[s].size = 0 /\ ~tags'[s].valid
              /\ Age(s)' = 0 => later[s] + tags'[s].size = end + n
              /\ Age(s)' # 0 /\ Age(s)' <= Oldest' => later[NextTag(s)] = later[s] + tags'[s].size
              /\ \A t \in Slots : Age(t)' < Age(s)' /\ Age(s)' <= Oldest' =>
                                     later[s] + tags'[s].size <= later[t]
  <2>1. CASE s = nextIndex
    <3>1. Age(s)' = 0 /\ later[s] = end /\ tags'[s].size = n  BY <1>3, <1>5, <2>1 DEF Enters
    <3>2. Oldest' \in Nat /\ ~(0 > Oldest')
      <4>1. Oldest \in Nat  BY <1>1 DEF Oldest
      <4> QED  BY <1>1, <4>1, EnteredAges
    <3>3. \A t \in Slots : ~(Age(t)' < 0)
      <4>1. \A t \in Slots : Age(t)' = 0 \/ Age(t)' = Age(t) + 1  BY <1>5
      <4> QED  BY <1>1, <4>1
    <3> QED  BY <3>1, <3>2, <3>3
  <2>2. CASE s # nextIndex
    <3>1. Age(s)' = Age(s) + 1 /\ Age(s) \in Nat  BY <1>1, <1>5, <2>2
    <3>2. Age(s) + 1 > Oldest' => tags'[s].size = 0 /\ ~tags'[s].valid
      BY <1>9, <2>2 DEF Ring
    <3>3. ASSUME NEW t \in Slots, Age(t)' < Age(s) + 1 PROVE t = nextIndex \/ Age(t) < Age(s)
      <4>1. t # nextIndex => Age(t)' = Age(t) + 1  BY <1>5
      <4> QED  BY <1>1, <3>1, <3>3, <4>1
    <3> QED  BY <1>10, <2>2, <3>1, <3>2, <3>3
  <2> QED  BY <2>1, <2>2
<1>12. \A s \in Slots : NextTag(s)' = NextTag(s)  BY DEF NextTag
<1>13. end + n \in Nat  BY <1>2
<1> HIDE DEF Oldest, Age
<1> QED  BY <1>3, <1>4, <1>8, <1>11, <1>12, <1>13 DEF Ring


-----------------------------------------------------------------------------
(* What the tags say over a cycle. *)

LEMMA MethodSizes ==
  ASSUME Typed, CacheTyped, NEW b \in DOMAIN methods
  PROVE  /\ b \in Nat \ {0} /\ methods[b] \in Nat \ {0}
         /\ Rounded(methods[b]) \in Nat /\ Rounded(methods[b]) < CacheWords
         /\ methods[b] <= Rounded(methods[b]) /\ methods[b] < CacheWords
         /\ MethodCount <= methods[b] + 3
<1>1. b \in Nat \ {0} /\ methods[b] \in Nat \ {0}  BY DEF Typed, ProgramTyped
<1>2. Rounded(methods[b]) < CacheWords /\ MethodCount <= methods[b] + 3  BY DEF CacheTyped, Fits
<1>3. Rounded(methods[b]) \in Nat /\ methods[b] <= Rounded(methods[b])  BY <1>1, Roundings
<1>4. CacheWords \in Nat  BY Sizes
<1> HIDE DEF Rounded
<1> QED  BY <1>1, <1>2, <1>3, <1>4

\* A word of the method being loaded is not written over another that counts.
LEMMA OtherPlaces ==
  ASSUME Typed, CacheTyped, NEW start, NEW end, Ring(start, end), Tagged(start, end),
         icState = "transfer", base \in DOMAIN methods, NEW f \in 0 .. methods[base] - 1,
         NEW s \in Slots, tags[s].valid, Age(s) # 0,
         NEW i \in 0 .. methods[tags[s].addr] - 1, start[s] + i >= end - CacheWords
  PROVE  (tags[s].pos + i) % CacheWords # (wrPos + f) % CacheWords
<1> DEFINE b == tags[s].addr
<1>1. PICK z \in Slots : Age(z) = 0  BY Ages DEF CacheTyped
<1>2. start \in [Slots -> Nat] /\ end \in Nat  BY DEF Ring
<1>3. tags[z].size = Rounded(methods[base]) /\ wrPos = start[z] % CacheWords
  BY <1>1 DEF Tagged
<1>4. b \in DOMAIN methods /\ tags[s].size = Rounded(methods[b]) /\ tags[s].pos = start[s] % CacheWords
  BY DEF Tagged
<1>5. CacheWords \in Nat \ {0} /\ Age(s) \in Nat /\ Oldest \in Nat /\ tags[z].size \in Nat
      /\ tags[s].size \in Nat
  BY <1>1, Sizes DEF Oldest
<1>6. methods[base] \in Nat /\ methods[b] \in Nat /\ methods[base] <= tags[z].size
      /\ methods[b] <= tags[s].size
  BY <1>3, <1>4, MethodSizes
<1>7. start[z] + tags[z].size = end  BY <1>1 DEF Ring
<1>8. start[s] + tags[s].size <= start[z]
  <2>1. Age(s) <= Oldest  BY <1>5 DEF Ring
  <2> QED  BY <1>1, <1>5, <2>1 DEF Ring
<1> DEFINE x == start[z] + f
           y == start[s] + i
<1>9. f \in Nat /\ i \in Nat /\ f < methods[base] /\ i < methods[b]  BY <1>6
<1>10. start[z] \in Nat /\ start[s] \in Nat  BY <1>1, <1>2
<1>11. x \in Nat /\ y \in Nat /\ y < x /\ x - y < CacheWords
  <2> HIDE DEF b
  <2> QED  BY <1>2, <1>5, <1>6, <1>7, <1>8, <1>9, <1>10
<1>12. y % CacheWords # x % CacheWords
  <2> HIDE DEF x, y
  <2> QED  BY <1>5, <1>11, OwnPlace
<1>13. (tags[s].pos + i) % CacheWords = y % CacheWords
  <2>1. tags[s].pos = start[s] % CacheWords  BY <1>4
  <2>2. CacheWords \in Nat \ {0} /\ start[s] \in Nat /\ i \in Int  BY <1>5, <1>9, <1>10
  <2>3. ((start[s] % CacheWords) + i) % CacheWords = (start[s] + i) % CacheWords  BY <2>2, Sums
  <2> QED  BY <2>1, <2>3
<1>14. (wrPos + f) % CacheWords = x % CacheWords
  <2>1. wrPos = start[z] % CacheWords  BY <1>3
  <2>2. CacheWords \in Nat \ {0} /\ start[z] \in Nat /\ f \in Int  BY <1>5, <1>9, <1>10
  <2>3. ((start[z] % CacheWords) + f) % CacheWords = (start[z] + f) % CacheWords  BY <2>2, Sums
  <2> QED  BY <2>1, <2>3
<1> QED  BY <1>12, <1>13, <1>14

LEMMA TaggedWalked ==
  ASSUME Typed, CacheTyped, NEW start, NEW end, Ring(start, end), Tagged(start, end), Walks,
         methods' = methods,
         icState' = "transfer" => icState = "transfer" /\ base' = base,
         icState # "transfer" => block' = block,
         icState = "transfer" =>
           /\ base \in DOMAIN methods
           /\ \E f \in 0 .. methods[base] - 1 :
                \A p \in Places : p # (wrPos + f) % CacheWords => block'[p] = block[p],
         icState = "transfer" /\ icState' # "transfer" =>
           \A i \in 0 .. methods[base] - 1 : block'[(wrPos + i) % CacheWords] = base + i
  PROVE  Tagged(start, end)'
<1>1. SUFFICES
        ASSUME NEW s \in Slots
        PROVE  /\ icState' = "transfer" /\ Age(s)' = 0 =>
                    /\ tags'[s].size = Rounded(methods'[base']) /\ wrPos' = start[s] % CacheWords
                    /\ tags'[s].addr = base' /\ tags'[s].pos = wrPos'
               /\ tags'[s].valid =>
                    LET b == tags'[s].addr
                    IN  /\ b \in DOMAIN methods' /\ tags'[s].size = Rounded(methods'[b])
                        /\ tags'[s].pos = start[s] % CacheWords
                        /\ icState' # "transfer" \/ Age(s)' # 0 =>
                             \A i \in 0 .. methods'[b] - 1 :
                               start[s] + i >= end - CacheWords =>
                                 block'[(tags'[s].pos + i) % CacheWords] = b + i
  BY DEF Tagged, Rounded
<1>2. Age(s)' = Age(s) /\ wrPos' = wrPos  BY AgesKept DEF Walks
<1>3. nextTag \in Slots /\ CacheWords \in Nat \ {0}  BY Sizes
<1>4. tags'[s].addr = tags[s].addr /\ tags'[s].pos = tags[s].pos  BY DEF Walks
<1>5. ASSUME icState' = "transfer", Age(s)' = 0
      PROVE  /\ tags'[s].size = Rounded(methods'[base']) /\ wrPos' = start[s] % CacheWords
             /\ tags'[s].addr = base' /\ tags'[s].pos = wrPos'
  <2>1. ~(freeSpace < 0 /\ s = nextTag)  BY <1>2, <1>5, RingOrder DEF Oldest
  <2>2. tags'[s].size = tags[s].size  BY <2>1 DEF Walks
  <2> QED  BY <1>2, <1>4, <1>5, <2>2 DEF Tagged
<1>6. ASSUME tags'[s].valid
      PROVE  LET b == tags'[s].addr
             IN  /\ b \in DOMAIN methods' /\ tags'[s].size = Rounded(methods'[b])
                 /\ tags'[s].pos = start[s] % CacheWords
                 /\ icState' # "transfer" \/ Age(s)' # 0 =>
                      \A i \in 0 .. methods'[b] - 1 :
                        start[s] + i >= end - CacheWords =>
                          block'[(tags'[s].pos + i) % CacheWords] = b + i
  <2> DEFINE b == tags[s].addr
  <2>1. tags[s].valid /\ tags'[s].size = tags[s].size  BY <1>6 DEF Walks
  <2>2. b \in DOMAIN methods /\ tags[s].size = Rounded(methods[b]) /\ tags[s].pos = start[s] % CacheWords
    BY <2>1 DEF Tagged
  <2>3. ASSUME icState' # "transfer" \/ Age(s) # 0, NEW i \in 0 .. methods[b] - 1,
               start[s] + i >= end - CacheWords
        PROVE  block'[(tags[s].pos + i) % CacheWords] = b + i
    <3>1. CASE icState # "transfer" \/ Age(s) # 0
      <4>1. block[(tags[s].pos + i) % CacheWords] = b + i  BY <2>1, <2>3, <3>1 DEF Tagged
      <4>2. CASE icState # "transfer"  BY <4>1, <4>2
      <4>3. CASE icState = "transfer"
        <5>1. base \in DOMAIN methods  BY <4>3
        <5>2. PICK f \in 0 .. methods[base] - 1 :
                \A p \in Places : p # (wrPos + f) % CacheWords => block'[p] = block[p]
          BY <4>3
        <5>3. (tags[s].pos + i) % CacheWords # (wrPos + f) % CacheWords
          BY <2>1, <2>3, <3>1, <4>3, <5>1, OtherPlaces
        <5>4. (tags[s].pos + i) % CacheWords \in Places
          <6>1. i \in Nat /\ tags[s].pos \in Nat
            <7>1. methods[b] \in Nat  BY <2>2, MethodSizes
            <7> QED  BY <7>1, Sizes
          <6> DEFINE x == tags[s].pos + i
          <6>2. x \in Nat  BY <6>1
          <6> HIDE DEF x
          <6>3. x % CacheWords \in Places  BY <1>3, <6>2 DEF Places
          <6> QED  BY <6>3 DEF x
        <5> QED  BY <4>1, <5>2, <5>3, <5>4
      <4> QED  BY <4>2, <4>3
    <3>2. CASE icState = "transfer" /\ Age(s) = 0
      <4>1. b = base /\ tags[s].pos = wrPos  BY <3>2 DEF Tagged
      <4>2. icState' # "transfer"  BY <2>3, <3>2
      <4> QED  BY <2>3, <3>2, <4>1, <4>2
    <3> QED  BY <3>1, <3>2
  <2> QED  BY <1>2, <1>4, <2>1, <2>2, <2>3
<1> QED  BY <1>5, <1>6

LEMMA TaggedEntered ==
  ASSUME Typed, CacheTyped, CacheTyped', NEW start, NEW end, Ring(start, end), Tagged(start, end),
         Enters, methods' = methods, base' = base, base \in DOMAIN methods, posReg = nextPos,
         block' = block, icState = "size", icState' = "transfer",
         NEW n \in Nat, n = Rounded(methods[base]),
         NEW later, later = [start EXCEPT ![nextIndex] = end],
         NEW last, last = end + n
  PROVE  Tagged(later, last)'
<1>1. SUFFICES
        ASSUME NEW s \in Slots
        PROVE  /\ icState' = "transfer" /\ Age(s)' = 0 =>
                    /\ tags'[s].size = Rounded(methods'[base']) /\ wrPos' = later[s] % CacheWords
                    /\ tags'[s].addr = base' /\ tags'[s].pos = wrPos'
               /\ tags'[s].valid =>
                    LET b == tags'[s].addr
                    IN  /\ b \in DOMAIN methods' /\ tags'[s].size = Rounded(methods'[b])
                        /\ tags'[s].pos = later[s] % CacheWords
                        /\ icState' # "transfer" \/ Age(s)' # 0 =>
                             \A i \in 0 .. methods'[b] - 1 :
                               later[s] + i >= last - CacheWords =>
                                 block'[(tags'[s].pos + i) % CacheWords] = b + i
  BY DEF Tagged, Rounded
<1>2. nextIndex \in Slots /\ CacheWords \in Nat \ {0}  BY Sizes
<1>3. start \in [Slots -> Nat] /\ end \in Nat /\ nextPos = end % CacheWords  BY DEF Ring
<1>4. later[s] = IF s = nextIndex THEN end ELSE start[s]  BY <1>2, <1>3
<1>5. Age(s)' = IF s = nextIndex THEN 0 ELSE Age(s) + 1  BY EnteredAges
<1>6. wrPos' = nextPos  BY DEF Enters
<1>7. CASE s = nextIndex
  <2>1. tags'[s].addr = base /\ tags'[s].size = Rounded(methods[base]) /\ tags'[s].pos = nextPos
    BY <1>7 DEF Enters
  <2> QED  BY <1>3, <1>4, <1>5, <1>6, <1>7, <2>1
<1>8. CASE s # nextIndex
  <2>1. Age(s)' # 0
    <3>1. Age(s) \in Nat  BY Sizes
    <3> QED  BY <1>5, <1>8, <3>1
  <2> DEFINE b == tags[s].addr
  <2>2. tags'[s].addr = b /\ tags'[s].size = tags[s].size
        /\ tags'[s].pos = tags[s].pos /\ later[s] = start[s]
    BY <1>4, <1>8 DEF Enters
  <2>3. ASSUME tags'[s].valid
        PROVE  /\ b \in DOMAIN methods /\ tags[s].size = Rounded(methods[b])
               /\ tags[s].pos = start[s] % CacheWords
               /\ \A i \in 0 .. methods[b] - 1 :
                    start[s] + i >= last - CacheWords => block[(tags[s].pos + i) % CacheWords] = b + i
    <3>1. tags[s].valid  BY <1>8, <2>3 DEF Enters
    <3>2. b \in DOMAIN methods /\ tags[s].size = Rounded(methods[b])
          /\ tags[s].pos = start[s] % CacheWords
      BY <3>1 DEF Tagged
    <3>3. ASSUME NEW i \in 0 .. methods[b] - 1, start[s] + i >= last - CacheWords
          PROVE  block[(tags[s].pos + i) % CacheWords] = b + i
      <4>1. methods[b] \in Nat  BY <3>2, MethodSizes
      <4>2. i \in Nat /\ start[s] \in Nat  BY <1>3, <4>1
      <4>3. start[s] + i >= end - CacheWords  BY <1>2, <1>3, <3>3, <4>2
      <4>4. icState # "transfer"  OBVIOUS
      <4> QED  BY <3>1, <4>3, <4>4 DEF Tagged
    <3> QED  BY <3>2, <3>3
  <2> HIDE DEF b
  <2> QED  BY <2>1, <2>2, <2>3
<1> QED  BY <1>7, <1>8


-----------------------------------------------------------------------------
(* A cycle of the burst under way. *)

LEMMA QuietAnswers ==
  ASSUME Phase, IcQuiet, MemoryCycle
  PROVE  ~slaveReg'.dva
<1>1. slaveReg' = IcAnswer  BY DEF MemoryCycle, IcCycle, Controller
<1>2. selRightReg \/ ramState = "ready"
  BY DEF Phase, Rest, Fetching, Asked, Filling, Answering, Storing, Committing, Stored, Waiting, RamReady
<1>3. ~(RamDva /\ ~selRightReg)  BY <1>2 DEF RamDva
<1> QED  BY <1>1, <1>3 DEF IcAnswer

LEMMA LoadingPhase == ASSUME Phase, ~IcQuiet PROVE Fetching
BY DEF Phase, Rest, Fetching, Asked, Filling, Answering, Storing, Committing, Stored, Waiting

\* The answer of a word, a cycle late, and the next burst.
LEMMA BurstCycle ==
  ASSUME Typed, Fetching, MemoryCycle, icState # "idle"
  PROVE  /\ BurstEnd => /\ slaveReg.dva /\ burstCnt' = 0 /\ ~slaveReg'.dva
                        /\ \A a : IcReads = {a} => ramAddr' = a
         /\ ~BurstEnd => /\ IcReads = {} /\ ramAddr' = ramAddr
                         /\ burstCnt' = IF slaveReg.dva THEN burstCnt + 1 ELSE burstCnt
         /\ slaveReg'.dva /\ ramAddr' + burstCnt' \notin DataWords =>
              slaveReg'.data = ramAddr' + burstCnt'
<1>1. BurstUnderWay /\ ~selRightReg /\ ~Missing  BY DEF Fetching, BurstUnderWay, Missing
<1>2. Burst \in Nat /\ Burst > 1 /\ burstCnt \in Index /\ wordCount \in Index
  BY Cells DEF Typed, CodeTyped
<1>3. burstCnt' = IF slaveReg.dva THEN (burstCnt + 1) % Burst ELSE burstCnt
  BY <1>1, FetchingSide DEF Controller
<1>4. slaveReg'.dva = (RamDva /\ ~selRightReg) /\ slaveReg'.data = RamData
  <2>1. slaveReg' = IcAnswer  BY FetchingSide
  <2> QED  BY <2>1 DEF IcAnswer
<1>5. CASE RamReady /\ burstCnt = Burst - 1 /\ slaveReg.dva
  <2>1. BurstEnd /\ RamReady  BY <1>5 DEF BurstEnd
  <2>2. burstCnt' = 0  BY <1>2, <1>3, <1>5, NextWord
  <2>3. ~slaveReg'.dva  BY <1>4, <2>1 DEF RamDva, RamReady
  <2>4. ASSUME NEW a, IcReads = {a} PROVE ramAddr' = a
    <3>1. Bus.cmds = {"RD"} /\ Bus.addr = a  BY <2>4, BusOfCode, FetchingSide
    <3>2. {"RD"} # {} /\ Ram(Bus)  BY DEF MemoryCycle
    <3> QED  BY <2>1, <3>1, <3>2 DEF Ram, RamReady
  <2> QED  BY <1>5, <2>1, <2>2, <2>3, <2>4
<1>6. CASE ~(RamReady /\ burstCnt = Burst - 1 /\ slaveReg.dva)
  <2>1. \/ ramState = "readExe" /\ wordCount = 0 /\ burstCnt = 0 /\ ~slaveReg.dva
        \/ ramState = "readRet" /\ wordCount = 0 /\ burstCnt = 0 /\ ~slaveReg.dva
        \/ ramState = "readRet" /\ wordCount = burstCnt + 1 /\ slaveReg.dva
    BY <1>1, <1>6 DEF BurstUnderWay
  <2>2. ~BurstEnd  BY <1>2, <2>1 DEF BurstEnd, Index
  <2>3. IcReads = {}  BY <1>1, <2>2 DEF IcReads
  <2>4. ramAddr' = ramAddr  BY <2>3, RamAlone, FetchingSide
  <2>5. burstCnt' = IF slaveReg.dva THEN burstCnt + 1 ELSE burstCnt
    <3>1. burstCnt # Burst - 1  BY <2>2 DEF BurstEnd
    <3>2. (burstCnt + 1) % Burst = burstCnt + 1  BY <1>2, <3>1, NextWord
    <3> QED  BY <1>3, <3>2
  <2>6. slaveReg'.dva => burstCnt' = wordCount  BY <1>4, <2>1, <2>5 DEF RamDva
  <2>7. slaveReg'.dva /\ ramAddr' + burstCnt' \notin DataWords => slaveReg'.data = ramAddr' + burstCnt'
    BY <1>4, <2>4, <2>6 DEF RamData
  <2> QED  BY <2>2, <2>3, <2>4, <2>5, <2>7
<1> QED  BY <1>5, <1>6

\* The size that has arrived is that of the method called.
LEMMA SizeArrives ==
  ASSUME Typed, Fetching, SizeRead
  PROVE  /\ base \in DOMAIN methods /\ Size = methods[base]
         /\ BurstUnderWay /\ burstCnt = (base - 1) % Burst /\ ramAddr = Align(base - 1)
<1>1. icState = "size" /\ slaveReg.dva /\ burstCnt = (base - 1) % Burst  BY DEF SizeRead
<1>2. slaveReg.data = base - 1 /\ base \in DOMAIN methods /\ BurstUnderWay /\ ramAddr = Align(base - 1)
  BY <1>1 DEF Fetching, BurstUnderWay
<1>3. base \in Nat  BY <1>2 DEF Typed, ProgramTyped
<1> QED  BY <1>1, <1>2, <1>3 DEF Size


-----------------------------------------------------------------------------
(* The pipeline moves. *)

\* A call begins, or the delay slots of one pass.
LEMMA GoCalls ==
  ASSUME Typed, Go
  PROVE  /\ execute'.kind = "call" =>
              /\ execute'.addr \in DOMAIN methods /\ execute'.data \in 0 .. methods[execute'.addr] - 1
              /\ callSlots = 0 /\ callSlots' = 3
         /\ execute'.kind # "call" => callSlots' = IF callSlots = 0 THEN 0 ELSE callSlots - 1
         /\ callee' = IF execute.kind = "call" THEN Call(execute.addr, execute.data) ELSE NoCall
<1>1. callSlots \in Nat /\ accesses \subseteq Acc  BY DEF Typed, ProgramTyped
<1>2. execute' \in NextOps  BY DEF Go
<1>3. ASSUME execute'.kind = "call"
      PROVE  callSlots = 0 /\ \E b \in DOMAIN methods : execute' \in CallsTo(b)
  <2>1. execute' \notin accesses /\ execute' # Nothing  BY <1>1, <1>3, Operations
  <2>2. execute' \in IF callSlots > 0 THEN {} ELSE UNION {CallsTo(b) : b \in DOMAIN methods}
    BY <1>2, <2>1 DEF NextOps
  <2> QED  BY <1>1, <2>2
<1>4. ASSUME execute'.kind = "call"
      PROVE  execute'.addr \in DOMAIN methods /\ execute'.data \in 0 .. methods[execute'.addr] - 1
  <2>1. PICK b \in DOMAIN methods : execute' \in CallsTo(b)  BY <1>3, <1>4
  <2>2. PICK o \in Offsets \cap 0 .. methods[b] - 1 : execute' = Op("call", "none", b, o)
    BY <2>1 DEF CallsTo
  <2>3. execute'.addr = b /\ execute'.data = o  BY <2>2 DEF Op
  <2> QED  BY <2>3
<1> QED  BY <1>3, <1>4 DEF Go

\* Methods do not overlap.
LEMMA OneMethod ==
  ASSUME Typed, CacheTyped, NEW b \in DOMAIN methods, NEW c \in DOMAIN methods,
         NEW a \in b .. b + methods[b] - 1, a \in c .. c + methods[c] - 1
  PROVE  b = c
<1>1. /\ b \in Nat /\ c \in Nat /\ methods[b] \in Nat /\ methods[c] \in Nat
  BY MethodSizes
<1>2. b < c => b + methods[b] <= c  BY DEF CacheTyped, Fits
<1>3. c < b => c + methods[c] <= b  BY DEF CacheTyped, Fits
<1> QED  BY <1>1, <1>2, <1>3

\* Where the fetch goes.
LEMMA GoPlace ==
  ASSUME Typed, CacheTyped, Calling, AtPlace, Go
  PROVE  /\ fetchPc' \in Places
         /\ at' # 0 => /\ base \in DOMAIN methods /\ at' \in base .. base + methods[base] - 1
                       /\ fetchPc' = (posReg + (at' - base)) % CacheWords
<1>1. CacheWords \in Nat \ {0}  BY Sizes
<1>2. posReg \in Nat /\ fetchPc \in Nat  BY <1>1 DEF AtPlace, Places
<1>3. at' \in NextAt
      /\ fetchPc' = (IF callee # NoCall THEN callee.off + posReg ELSE fetchPc + at' - at) % CacheWords
  BY DEF Go
<1>4. \A x \in Int : x % CacheWords \in Places
  <2>1. \A x \in Int : x % CacheWords \in 0 .. CacheWords - 1  BY <1>1, Division
  <2> QED  BY <2>1 DEF Places
<1>5. CASE callee # NoCall
  <2>1. callee.base = base /\ base \in DOMAIN methods /\ callee.off \in 0 .. methods[base] - 1
    BY <1>5 DEF Calling
  <2>2. base \in Nat /\ methods[base] \in Nat  BY <2>1, MethodSizes
  <2>3. at' = base + callee.off  BY <1>3, <1>5, <2>1 DEF NextAt
  <2> DEFINE o == callee.off
  <2>4. o \in Nat /\ o <= methods[base] - 1 /\ at' = base + o  BY <2>1, <2>2, <2>3
  <2>5. fetchPc' = (o + posReg) % CacheWords  BY <1>3, <1>5
  <2> HIDE DEF o
  <2>6. at' - base = o /\ o + posReg = posReg + o /\ o + posReg \in Int  BY <1>2, <2>2, <2>4
  <2> QED  BY <1>4, <2>1, <2>2, <2>4, <2>5, <2>6
<1>6. CASE callee = NoCall /\ at = 0
  <2>1. at' = 0  BY <1>3, <1>6 DEF NextAt
  <2>2. fetchPc' = (fetchPc + 0 - 0) % CacheWords  BY <1>3, <1>6, <2>1
  <2>3. fetchPc + 0 - 0 \in Int  BY <1>2
  <2> QED  BY <1>4, <2>1, <2>2, <2>3
<1>7. CASE callee = NoCall /\ at # 0
  <2>1. base \in DOMAIN methods /\ at \in base .. base + methods[base] - 1
        /\ fetchPc = (posReg + (at - base)) % CacheWords
    BY <1>7 DEF AtPlace
  <2>2. base \in Nat /\ methods[base] \in Nat  BY <2>1, MethodSizes
  <2> DEFINE b == CHOOSE c \in DOMAIN methods : at \in c .. c + methods[c] - 1
  <2>3. b \in DOMAIN methods /\ at \in b .. b + methods[b] - 1  BY <2>1
  <2>4. b = base
    <3> HIDE DEF b
    <3> QED  BY <2>1, <2>3, OneMethod
  <2>5. at' \in base .. base + methods[base] - 1
    <3>1. at' \in b .. b + methods[b] - 1  BY <1>3, <1>7 DEF NextAt
    <3> QED  BY <2>4, <3>1
  <2>6. fetchPc' = (fetchPc + at' - at) % CacheWords  BY <1>3, <1>7
  <2> DEFINE x == posReg + (at - base)
             y == at' - at
  <2>7. at \in Nat /\ at' \in Nat /\ at - base \in Nat  BY <2>1, <2>2, <2>5
  <2>8. x \in Nat /\ y \in Int /\ x + y = posReg + (at' - base)  BY <1>2, <2>2, <2>7
  <2>9. fetchPc + at' - at = fetchPc + y  BY <1>2, <2>7
  <2>10. fetchPc' = ((x % CacheWords) + y) % CacheWords  BY <2>1, <2>6, <2>9
  <2>11. fetchPc' = (x + y) % CacheWords
    <3> HIDE DEF x, y
    <3> QED  BY <1>1, <2>8, <2>10, Sums
  <2>12. x + y \in Int  BY <2>8
  <2>13. fetchPc' \in Places
    <3> HIDE DEF x, y
    <3> QED  BY <1>4, <2>11, <2>12
  <2>14. fetchPc' = (posReg + (at' - base)) % CacheWords
    <3> HIDE DEF x, y
    <3> QED  BY <2>8, <2>11
  <2> QED  BY <2>1, <2>5, <2>13, <2>14
<1> QED  BY <1>5, <1>6, <1>7


-----------------------------------------------------------------------------
(* Parts of the invariant that every cycle keeps in the same way. *)

\* Space that is owed after a cycle was owed before, and the walk went on.
LEMMA Owing ==
  ASSUME CacheTyped, CacheTyped', NEW start, NEW end, Ring(start, end), Walks, freeSpace' < 0
  PROVE  /\ freeSpace < 0 /\ Oldest \in Nat /\ Oldest' = Oldest - 1 /\ Oldest' # 0
<1>1. /\ nextTag \in Slots /\ nextTag' \in Slots /\ freeSpace \in Int /\ freeSpace' \in Int
      /\ CacheWords \in Nat /\ Oldest \in Nat /\ tags[nextTag].size \in Nat
  BY Sizes DEF CacheTyped, Oldest
<1>2. freeSpace < 0  BY <1>1 DEF Walks
<1>3. Oldest' = Oldest - 1 /\ Ring(start, end)'  BY <1>2, RingWalked
<1>4. ASSUME Oldest' = 0 PROVE FALSE
  <2> DEFINE s == nextTag'
             n == tags'[s].size
  <2>1. start[s] \in Nat /\ end \in Nat  BY <1>1 DEF Ring
  <2>2. n \in Places
    <3>1. tags' \in [Slots -> TagRecords]  BY DEF Walks
    <3> QED  BY <1>1, <3>1 DEF TagRecords
  <2>3. n \in Nat /\ n < CacheWords  BY <1>1, <2>2 DEF Places
  <2>4. end - start[s] = CacheWords - freeSpace'  BY <1>3 DEF Ring
  <2>5. start[s] + n = end
    <3>1. \A t \in Slots : Age(t)' = 0 => start[t] + tags'[t].size = end  BY <1>3 DEF Ring
    <3>2. \A t \in Slots : t = nextTag' => Age(t)' = Oldest'  BY DEF Age, Oldest
    <3> QED  BY <1>1, <1>4, <3>1, <3>2
  <2> HIDE DEF s, n
  <2> QED  BY <1>1, <2>1, <2>3, <2>4, <2>5
<1> QED  BY <1>1, <1>2, <1>3, <1>4

LEMMA CacheTypedKept ==
  ASSUME Typed, CacheTyped, methods' = methods, block' \in [Places -> Nat],
         Walks \/ (Enters /\ base \in DOMAIN methods)
  PROVE  CacheTyped'
<1>1. nextIndex \in Slots /\ nextTag \in Slots /\ freeSpace \in Int
      /\ tags[nextTag].size \in Nat /\ tags[nextIndex].size \in Nat
  BY Sizes
<1>2. NextTag(nextIndex) \in Slots /\ NextTag(nextTag) \in Slots  BY <1>1, Ages
<1>3. tags' \in [Slots -> TagRecords]  BY DEF Walks, Enters
<1>4. \A b \in DOMAIN methods' : Fits(b)'
  BY DEF CacheTyped, Fits, Rounded
<1>5. CASE Walks
  BY <1>1, <1>2, <1>3, <1>4, <1>5 DEF CacheTyped, Walks
<1>6. CASE Enters /\ base \in DOMAIN methods
  <2>1. Rounded(methods[base]) \in Nat  BY <1>6, MethodSizes
  <2>2. freeSpace' \in Int
    <3> DEFINE n == Rounded(methods[base])
    <3>1. freeSpace' = freeSpace - n + tags[nextIndex].size /\ n \in Nat  BY <1>6, <2>1 DEF Enters
    <3> HIDE DEF n
    <3> QED  BY <1>1, <3>1
  <2> QED  BY <1>1, <1>2, <1>3, <1>4, <1>6, <2>2 DEF CacheTyped, Enters
<1> QED  BY <1>5, <1>6

\* The method cache at rest, in a cycle.
LEMMA QuietCycle ==
  ASSUME Typed, Phase, CacheTyped, IcQuiet, MemoryCycle
  PROVE  /\ Walks /\ methods' = methods /\ block' = block /\ CacheTyped'
         /\ icState' = "idle" /\ rdIdx' = fetchPc' /\ ~slaveReg'.dva /\ (Enable <=> MemEna)
         /\ IF execute.kind = "call" /\ MemEna
            THEN /\ base' = execute.addr
                 /\ \/ ~hitReg' /\ posReg' = nextPos
                    \/ hitReg' /\ \E s \in Slots : tags[s].valid /\ tags[s].addr = base'
                                                   /\ posReg' = tags[s].pos
            ELSE base' = base /\ posReg' = posReg /\ hitReg'
<1>1. ~Missing /\ ~SizeRead /\ ~WordRead /\ ~Done /\ icState = "idle" /\ hitReg
  BY DEF IcQuiet, Missing, SizeRead, WordRead, Done
<1>2. /\ Lookup(CalledBase, MemEna) /\ Replace(Invalidates("code")) /\ Memory(fetchPc')
  BY DEF MemoryCycle, IcCycle
<1>3. icState' = "idle" /\ methods' = methods /\ (Enable <=> MemEna)  BY QuietCache DEF Enable
<1>4. block' = block /\ rdIdx' = fetchPc'  BY <1>1, <1>2 DEF Memory
<1>5. Walks
  <2> HIDE DEF Replace
  <2> QED  BY <1>1, <1>2, Walked
<1>6. CacheTyped'
  <2>1. block' \in [Places -> Nat]  BY <1>4 DEF CacheTyped
  <2> QED  BY <1>3, <1>5, <2>1, CacheTypedKept
<1>7. CASE execute.kind = "call" /\ MemEna
  <2>1. CalledBase = {execute.addr}  BY <1>7 DEF CalledBase
  <2>2. CalledBase # {} /\ (CHOOSE c \in CalledBase : TRUE) = execute.addr  BY <2>1
  <2>3. /\ base' = execute.addr
        /\ hitReg' = (Hits(execute.addr) # {} \/ SizeRead)
        /\ posReg' = IF Hits(execute.addr) = {} THEN nextPos
                     ELSE tags[CHOOSE i \in Hits(execute.addr) : TRUE].pos
    BY <1>2, <1>7, <2>2 DEF Lookup
  <2>4. CASE Hits(execute.addr) = {}
    BY <1>1, <1>3, <1>4, <1>5, <1>6, <1>7, <2>3, <2>4, QuietAnswers
  <2>5. CASE Hits(execute.addr) # {}
    <3> DEFINE s == CHOOSE i \in Hits(execute.addr) : TRUE
    <3>1. s \in Hits(execute.addr)  BY <2>5
    <3>2. DOMAIN tags = Slots  BY DEF CacheTyped
    <3>3. s \in Slots /\ tags[s].valid /\ tags[s].addr = execute.addr  BY <3>1, <3>2 DEF Hits
    <3>4. posReg' = tags[s].pos  BY <2>3, <2>5
    <3> HIDE DEF s
    <3> QED  BY <1>3, <1>4, <1>5, <1>6, <1>7, <2>3, <2>5, <3>3, <3>4, QuietAnswers
  <2> QED  BY <2>4, <2>5
<1>8. CASE ~(execute.kind = "call" /\ MemEna)
  <2>1. base' = base /\ posReg' = posReg /\ hitReg' = (hitReg \/ SizeRead)
    BY <1>2, <1>8 DEF Lookup, CalledBase
  <2> QED  BY <1>1, <1>3, <1>4, <1>5, <1>6, <1>8, <2>1, QuietAnswers
<1> QED  BY <1>7, <1>8


\* A method that is in the cache and not in the way is there as a whole.
LEMMA HitWhole ==
  ASSUME Typed, CacheTyped, NEW start, NEW end, Ring(start, end), Tagged(start, end),
         icState # "transfer", freeSpace >= 0, NEW s \in Slots, tags[s].valid
  PROVE  Holds(tags[s].pos, tags[s].addr, methods[tags[s].addr])
<1> DEFINE b == tags[s].addr
<1>1. start \in [Slots -> Nat] /\ end \in Nat /\ end - start[nextTag] = CacheWords - freeSpace
  BY DEF Ring
<1>2. nextTag \in Slots /\ freeSpace \in Int /\ CacheWords \in Nat /\ Age(s) \in Nat /\ Oldest \in Nat
  BY Sizes DEF Oldest
<1>3. Age(s) <= Oldest  BY <1>2 DEF Ring
<1>4. start[nextTag] <= start[s]  BY <1>3, RingOrder
<1>5. b \in DOMAIN methods  BY DEF Tagged
<1>6. ASSUME NEW i \in 0 .. methods[b] - 1 PROVE block[(tags[s].pos + i) % CacheWords] = b + i
  <2>1. i \in Nat
    <3>1. methods[b] \in Nat  BY <1>5, MethodSizes
    <3> QED  BY <3>1
  <2>2. start[nextTag] \in Nat /\ start[s] \in Nat  BY <1>1, <1>2
  <2>3. start[s] + i >= end - CacheWords  BY <1>1, <1>2, <1>4, <2>1, <2>2
  <2> QED  BY <2>3 DEF Tagged
<1> QED  BY <1>6 DEF Holds

LEMMA QuietKeeps ==
  ASSUME Typed, Phase, IcQuiet, MemoryCycle, FetchInv
  PROVE  FetchInv'
<1>1. CacheTyped /\ Calling /\ AtPlace /\ Shown /\ Whole /\ Loading /\ Timed  BY DEF FetchInv
<1>2. PICK start, end : Ring(start, end) /\ Tagged(start, end)  BY DEF FetchInv
<1>3. /\ Walks /\ methods' = methods /\ block' = block /\ CacheTyped'
      /\ icState' = "idle" /\ rdIdx' = fetchPc' /\ ~slaveReg'.dva /\ (Enable <=> MemEna)
  BY <1>1, QuietCycle
<1>4. icState = "idle" /\ hitReg  BY DEF IcQuiet
<1>5. Ring(start, end)' /\ Tagged(start, end)'
  BY <1>1, <1>2, <1>3, <1>4, RingWalked, TaggedWalked
<1>6. CacheWords \in Nat \ {0} /\ callSlots \in Nat /\ Oldest \in Nat
  BY <1>1, Sizes DEF Typed, Oldest
<1> DEFINE Called == execute.kind = "call" /\ MemEna
<1>7. Called \/ (base' = base /\ posReg' = posReg /\ hitReg')  BY <1>1, QuietCycle
<1>8. ASSUME Called
      PROVE  /\ base' = execute.addr /\ base' \in DOMAIN methods /\ freeSpace >= 0
             /\ posReg' \in Places
             /\ ~hitReg' => posReg' = nextPos
             /\ hitReg' => Holds(posReg', base', methods[base'])
  <2>1. execute.addr \in DOMAIN methods  BY <1>1, <1>8 DEF Calling
  <2>2. base' = execute.addr
        /\ \/ ~hitReg' /\ posReg' = nextPos
           \/ hitReg' /\ \E s \in Slots : tags[s].valid /\ tags[s].addr = base' /\ posReg' = tags[s].pos
    BY <1>1, <1>8, QuietCycle
  <2>3. freeSpace >= 0
    <3>1. ~(freeSpace < 0) /\ freeSpace \in Int  BY <1>1, <1>8 DEF Timed, CacheTyped
    <3> QED  BY <3>1
  <2>4. CASE ~hitReg' /\ posReg' = nextPos
    BY <1>1, <2>1, <2>2, <2>3, <2>4 DEF Loading
  <2>5. CASE hitReg'
    <3>1. PICK s \in Slots : tags[s].valid /\ tags[s].addr = base' /\ posReg' = tags[s].pos
      BY <2>2, <2>5
    <3>2. icState # "transfer"  BY <1>4
    <3>3. Holds(tags[s].pos, tags[s].addr, methods[tags[s].addr])
      BY <1>1, <1>2, <2>3, <3>1, <3>2, HitWhole
    <3>4. tags[s].pos \in Places
      <4>1. tags \in [Slots -> TagRecords]  BY <1>1 DEF CacheTyped, TagRecords
      <4> QED  BY <4>1 DEF TagRecords
    <3>5. Holds(posReg', base', methods[base'])  BY <3>1, <3>3 DEF Holds
    <3> QED  BY <2>1, <2>2, <2>3, <2>5, <3>1, <3>4, <3>5
  <2> QED  BY <2>2, <2>4, <2>5
<1>9. Whole'
  <2>1. CASE Called  BY <1>3, <1>8, <2>1 DEF Whole, Holds, IcQuiet
  <2>2. CASE ~Called
    <3>1. base' = base /\ posReg' = posReg /\ hitReg'  BY <1>7, <2>2
    <3> QED  BY <1>1, <1>3, <1>4, <3>1 DEF Whole, Holds, IcQuiet
  <2> QED  BY <2>1, <2>2
<1>10. Loading'
  <2>1. nextPos' = nextPos  BY <1>3 DEF Walks
  <2>2. ASSUME ~hitReg' PROVE posReg' = nextPos' /\ freeSpace' >= 0
    <3>1. Called  BY <1>7, <2>2
    <3>2. freeSpace \in Int /\ freeSpace >= 0  BY <1>1, <1>8, <3>1 DEF CacheTyped
    <3>3. freeSpace' = freeSpace  BY <1>3, <3>2 DEF Walks
    <3> QED  BY <1>8, <2>1, <2>2, <3>1, <3>2, <3>3
  <2> QED  BY <1>1, <1>3, <2>1, <2>2 DEF Loading
<1>11. CASE ~MemEna
  <2>1. ~Enable /\ ~Called /\ base' = base /\ posReg' = posReg /\ hitReg'  BY <1>3, <1>7, <1>11
  <2>2. UNCHANGED <<execute, callee, callSlots, fetchPc, at>>
    BY <2>1 DEF MemoryCycle, Go, Stall
  <2>3. Calling'  BY <1>1, <1>3, <2>1, <2>2 DEF Calling, IcQuiet
  <2>4. AtPlace'  BY <1>1, <1>3, <2>1, <2>2 DEF AtPlace
  <2>5. Shown'
    <3>1. rdIdx' = rdIdx  BY <1>1, <1>3, <2>2 DEF AtPlace
    <3> QED  BY <1>1, <1>3, <1>4, <2>2, <3>1 DEF Shown
  <2>6. Timed'
    <3>1. ASSUME freeSpace' < 0
          PROVE  execute'.kind # "call" /\ Oldest' <= callSlots' + 1
      <4>1. freeSpace < 0 /\ Oldest' = Oldest - 1  BY <1>1, <1>2, <1>3, <3>1, Owing
      <4>2. execute.kind # "call" /\ Oldest <= callSlots + 1  BY <1>1, <1>4, <4>1 DEF Timed
      <4> QED  BY <1>6, <2>2, <4>1, <4>2
    <3> QED  BY <1>3, <2>1, <3>1 DEF Timed
  <2> QED  BY <1>3, <1>5, <1>9, <1>10, <2>3, <2>4, <2>5, <2>6 DEF FetchInv
<1>12. CASE MemEna
  <2>1. Go  BY <1>3, <1>12 DEF MemoryCycle, Stall
  <2>2. /\ fetchPc' \in Places
        /\ at' # 0 => /\ base \in DOMAIN methods /\ at' \in base .. base + methods[base] - 1
                      /\ fetchPc' = (posReg + (at' - base)) % CacheWords
    BY <1>1, <2>1, GoPlace
  <2>3. Calling'
    <3>1. CASE execute.kind = "call"
      <4>1. Called  BY <1>12, <3>1
      <4>2. /\ execute.addr \in DOMAIN methods /\ callSlots = 3
            /\ execute.data \in 0 .. methods[execute.addr] - 1
        BY <1>1, <3>1 DEF Calling
      <4>3. callee' = Call(execute.addr, execute.data)  BY <2>1, <3>1, GoCalls
      <4>4. callee'.base = execute.addr /\ callee'.off = execute.data  BY <4>3 DEF Call
      <4>5. callee' # NoCall
        <5>1. execute.addr # 0  BY <1>1, <4>2, MethodSizes
        <5>2. NoCall.base = 0  BY DEF NoCall, Call
        <5> QED  BY <4>4, <5>1, <5>2
      <4>6. execute'.kind # "call" /\ callSlots' = 2  BY <2>1, <4>2, GoCalls
      <4>7. base' = execute.addr  BY <1>8, <4>1
      <4> QED  BY <1>3, <4>2, <4>4, <4>5, <4>6, <4>7 DEF Calling
    <3>2. CASE execute.kind # "call"
      <4>1. callee' = NoCall  BY <2>1, <3>2, GoCalls
      <4>2. IcQuiet'  BY <1>3, <1>7, <3>2 DEF IcQuiet
      <4> QED  BY <1>3, <2>1, <4>1, <4>2, GoCalls DEF Calling
    <3> QED  BY <3>1, <3>2
  <2>4. AtPlace'
    <3>1. posReg' \in Places  BY <1>1, <1>7, <1>8 DEF AtPlace
    <3>2. ASSUME callee' = NoCall, at' # 0
          PROVE  /\ base' \in DOMAIN methods' /\ at' \in base' .. base' + methods'[base'] - 1
                 /\ fetchPc' = (posReg' + (at' - base')) % CacheWords
      <4>1. execute.kind # "call"
        <5>1. ASSUME execute.kind = "call" PROVE FALSE
          <6>1. callee' = Call(execute.addr, execute.data)  BY <2>1, <5>1, GoCalls
          <6>2. execute.addr # 0  BY <1>1, <5>1, MethodSizes DEF Calling
          <6> QED  BY <3>2, <6>1, <6>2 DEF NoCall, Call
        <5> QED  BY <5>1
      <4>2. base' = base /\ posReg' = posReg  BY <1>7, <4>1
      <4> QED  BY <1>3, <2>2, <3>2, <4>2
    <3> QED  BY <1>3, <2>2, <3>1, <3>2 DEF AtPlace
  <2>5. Shown'
    <3>1. ASSUME at' # 0 PROVE block'[rdIdx'] = at'
      <4>1. /\ base \in DOMAIN methods /\ at' \in base .. base + methods[base] - 1
            /\ fetchPc' = (posReg + (at' - base)) % CacheWords
        BY <2>2, <3>1
      <4>2. base \in Nat \ {0} /\ methods[base] \in Nat  BY <1>1, <4>1, MethodSizes
      <4>3. Holds(posReg, base, methods[base])  BY <1>1, <4>2 DEF Whole
      <4>4. at' - base \in 0 .. methods[base] - 1 /\ base + (at' - base) = at'  BY <4>1, <4>2
      <4> QED  BY <1>3, <4>1, <4>3, <4>4 DEF Holds
    <3> QED  BY <1>3, <3>1 DEF Shown
  <2>6. Timed'
    <3>1. ASSUME freeSpace' < 0
          PROVE  hitReg' /\ execute'.kind # "call" /\ Oldest' <= callSlots' + 1
      <4>1. freeSpace < 0 /\ Oldest' = Oldest - 1 /\ Oldest' # 0  BY <1>1, <1>2, <1>3, <3>1, Owing
      <4>2. execute.kind # "call" /\ Oldest <= callSlots + 1  BY <1>1, <1>4, <4>1 DEF Timed
      <4>3. execute'.kind = "call" => callSlots = 0  BY <2>1, GoCalls
      <4>4. execute'.kind # "call"
        <5>1. Oldest # 0  BY <1>1, <1>2, <4>1, RingOrder
        <5> QED  BY <1>6, <4>1, <4>2, <4>3, <5>1
      <4>5. callSlots' = IF callSlots = 0 THEN 0 ELSE callSlots - 1  BY <2>1, <4>4, GoCalls
      <4> QED  BY <1>6, <1>7, <4>1, <4>2, <4>4, <4>5
    <3> QED  BY <1>3, <3>1 DEF Timed
  <2> QED  BY <1>3, <1>5, <1>9, <1>10, <2>3, <2>4, <2>5, <2>6 DEF FetchInv
<1> QED  BY <1>11, <1>12


-----------------------------------------------------------------------------
(* A method is loaded. *)

LEMMA LoadingCycle ==
  ASSUME Typed, Phase, ~IcQuiet, MemoryCycle
  PROVE  /\ Fetching /\ base \in DOMAIN methods /\ execute.kind # "call"
         /\ base' = base /\ posReg' = posReg /\ (hitReg' <=> hitReg \/ SizeRead) /\ methods' = methods
         /\ Replace(Invalidates("code")) /\ Memory(fetchPc')
         /\ (Enable <=> IcEna) /\ (Enable => Go)
         /\ ~Enable => UNCHANGED <<execute, callee, callSlots, fetchPc, at>>
<1>1. Fetching  BY LoadingPhase
<1>2. base \in DOMAIN methods /\ execute.kind # "call"  BY <1>1 DEF Fetching
<1>3. /\ hitReg' <=> hitReg \/ SizeRead
      /\ base' = base /\ methods' = methods /\ (~Enable => Stall)
  BY <1>1, FetchingSide
<1>4. /\ Lookup(CalledBase, MemEna) /\ Replace(Invalidates("code")) /\ Memory(fetchPc')
  BY DEF MemoryCycle, IcCycle
<1>5. CalledBase = {}  BY <1>2 DEF CalledBase
<1>6. posReg' = posReg  BY <1>4, <1>5 DEF Lookup
<1>7. Enable => Go  BY DEF MemoryCycle, Stall
<1>8. Enable <=> IcEna  BY <1>1, FetchingSide
<1> QED  BY <1>1, <1>2, <1>3, <1>4, <1>6, <1>7, <1>8 DEF Stall

\* The size is asked for, or has not arrived yet.
LEMMA MissKeeps ==
  ASSUME Typed, Phase, ~IcQuiet, icState # "transfer", ~SizeRead, MemoryCycle, FetchInv
  PROVE  FetchInv'
<1>1. CacheTyped /\ Calling /\ AtPlace /\ Shown /\ Whole /\ Loading /\ Timed  BY DEF FetchInv
<1>2. PICK start, end : Ring(start, end) /\ Tagged(start, end)  BY DEF FetchInv
<1>3. /\ Fetching /\ base \in DOMAIN methods /\ execute.kind # "call"
      /\ base' = base /\ posReg' = posReg /\ methods' = methods
      /\ Replace(Invalidates("code")) /\ Memory(fetchPc')
  BY LoadingCycle
<1>4. icState \in {"idle", "size"} /\ ~hitReg
  BY <1>1 DEF Typed, CodeTyped, IcQuiet, Loading
<1>5. ~Done /\ ~WordRead /\ ~IcEna /\ (Missing <=> icState = "idle")
  BY <1>4 DEF Done, WordRead, IcEna, Missing
<1>6. ~hitReg'  BY <1>4, LoadingCycle
<1>7. UNCHANGED <<execute, callee, callSlots, fetchPc, at>>  BY <1>5, LoadingCycle
<1>8. icState' = "size"  BY <1>3, <1>4, <1>5, FetchingSide DEF Controller
<1>9. block' = block /\ rdIdx' = rdIdx /\ instrReg' = Instr
  BY <1>3, <1>4, <1>5 DEF Memory
<1>10. Walks
  <2> HIDE DEF Replace
  <2> QED  BY <1>1, <1>3, Walked
<1>11. posReg = nextPos /\ freeSpace \in Int /\ freeSpace >= 0
  BY <1>1, <1>4 DEF Loading, CacheTyped
<1>12. freeSpace' = freeSpace /\ nextPos' = nextPos /\ ~(freeSpace' < 0)  BY <1>10, <1>11 DEF Walks
<1>13. CacheTyped'
  <2>1. block' \in [Places -> Nat]  BY <1>1, <1>9 DEF CacheTyped
  <2> QED  BY <1>1, <1>3, <1>10, <2>1, CacheTypedKept
<1>14. Calling' /\ AtPlace'
  BY <1>1, <1>3, <1>4, <1>6, <1>7, <1>8, <1>9 DEF Calling, AtPlace, IcQuiet
<1>15. Shown'  BY <1>1, <1>7, <1>8, <1>9 DEF Shown, Instr
<1>16. Whole' /\ Timed'  BY <1>8, <1>12 DEF Whole, IcQuiet, Timed
<1>17. slaveReg'.dva /\ ramAddr' + burstCnt' \notin DataWords => slaveReg'.data = ramAddr' + burstCnt'
  <2>1. CASE icState = "idle"
    <3>1. RamReady  BY <1>3, <2>1 DEF Fetching
    <3>2. slaveReg' = IcAnswer  BY <1>3, FetchingSide
    <3>3. ~slaveReg'.dva  BY <3>1, <3>2 DEF RamReady, RamDva, IcAnswer
    <3> QED  BY <3>3
  <2>2. CASE icState # "idle"  BY <1>3, <2>2, BurstCycle
  <2> QED  BY <2>1, <2>2
<1>18. Loading'  BY <1>1, <1>3, <1>6, <1>8, <1>11, <1>12, <1>17 DEF Loading
<1>19. Ring(start, end)'  BY <1>1, <1>2, <1>10, <1>13, RingWalked
<1>20. Tagged(start, end)'
  <2>1. icState' # "transfer"  BY <1>8
  <2> QED  BY <1>1, <1>2, <1>3, <1>9, <1>10, <2>1, TaggedWalked
<1> QED  BY <1>13, <1>14, <1>15, <1>16, <1>18, <1>19, <1>20 DEF FetchInv

\* The size arrives: the method gets its place in the ring.
LEMMA SizeKeeps ==
  ASSUME Typed, Phase, SizeRead, MemoryCycle, FetchInv
  PROVE  FetchInv'
<1>1. CacheTyped /\ Calling /\ AtPlace /\ Shown /\ Whole /\ Loading /\ Timed  BY DEF FetchInv
<1>2. PICK start, end : Ring(start, end) /\ Tagged(start, end)  BY DEF FetchInv
<1>3. icState = "size" /\ slaveReg.dva /\ ~IcQuiet /\ ~hitReg
  BY <1>1 DEF SizeRead, IcQuiet, Loading
<1>4. /\ Fetching /\ base \in DOMAIN methods /\ execute.kind # "call"
      /\ base' = base /\ posReg' = posReg /\ hitReg' /\ methods' = methods
      /\ Replace(Invalidates("code")) /\ Memory(fetchPc')
  BY <1>3, LoadingCycle
<1>5. ~Done /\ ~WordRead /\ ~IcEna /\ ~Missing  BY <1>3 DEF Done, WordRead, IcEna, Missing
<1>6. UNCHANGED <<execute, callee, callSlots, fetchPc, at>>  BY <1>3, <1>5, LoadingCycle
<1>7. icState' = "transfer" /\ fetchCnt' = 0 /\ transferSize' = (Size - 1) % CacheWords
  BY <1>4, <1>5, FetchingSide DEF Controller
<1>8. block' = block /\ rdIdx' = rdIdx /\ instrReg' = instrReg
  BY <1>3, <1>4, <1>5 DEF Memory, Instr
<1>9. /\ Size = methods[base] /\ BurstUnderWay /\ burstCnt = (base - 1) % Burst
      /\ ramAddr = Align(base - 1)
  BY <1>4, SizeArrives
<1> DEFINE m == methods[base]
           n == Rounded(m)
<1>10. /\ base \in Nat \ {0} /\ m \in Nat \ {0} /\ n \in Nat /\ n < CacheWords /\ m <= n
       /\ m < CacheWords /\ MethodCount <= m + 3
  BY <1>1, <1>4, MethodSizes
<1>11. CacheWords \in Nat \ {0} /\ MethodCount \in Nat \ {0} /\ freeSpace \in Int  BY <1>1, Sizes
<1>12. posReg = nextPos /\ freeSpace >= 0 /\ nextPos \in Places /\ nextPos % 2 = 0 /\ nextPos \in Nat
  <2>1. posReg = nextPos /\ freeSpace >= 0 /\ nextPos \in Places /\ nextPos % 2 = 0
    BY <1>1, <1>3 DEF Loading
  <2> QED  BY <1>11, <2>1 DEF Places
<1>13. Enters
  <2> HIDE DEF Replace
  <2> QED  BY <1>1, <1>4, <1>9, <1>10, <1>12, Entered
<1>14. CacheTyped'
  <2>1. block' \in [Places -> Nat]  BY <1>1, <1>8 DEF CacheTyped
  <2> QED  BY <1>1, <1>4, <1>13, <2>1, CacheTypedKept
<1>15. transferSize' = m - 1
  <2>1. m - 1 \in 0 .. CacheWords - 1  BY <1>10, <1>11
  <2>2. (m - 1) % CacheWords = m - 1  BY <1>11, <2>1, Small
  <2> QED  BY <1>7, <1>9, <2>2
<1>16. ramAddr' = base + 0 - burstCnt' /\ burstCnt' \in Int
       /\ (slaveReg'.dva /\ ramAddr' + burstCnt' \notin DataWords => slaveReg'.data = ramAddr' + burstCnt')
  <2>1. /\ BurstEnd => /\ slaveReg.dva /\ burstCnt' = 0 /\ ~slaveReg'.dva
                       /\ \A a : IcReads = {a} => ramAddr' = a
        /\ ~BurstEnd => /\ IcReads = {} /\ ramAddr' = ramAddr
                        /\ burstCnt' = IF slaveReg.dva THEN burstCnt + 1 ELSE burstCnt
        /\ slaveReg'.dva /\ ramAddr' + burstCnt' \notin DataWords =>
             slaveReg'.data = ramAddr' + burstCnt'
    BY <1>3, <1>4, BurstCycle
  <2>2. CASE BurstEnd
    <3>1. IcReads = {base}  BY <1>5, <2>2 DEF IcReads
    <3>2. ramAddr' = base /\ burstCnt' = 0  BY <2>1, <2>2, <3>1
    <3> QED  BY <1>10, <2>1, <3>2
  <2>3. CASE ~BurstEnd
    <3>1. ramAddr' = ramAddr /\ burstCnt' = burstCnt + 1  BY <1>3, <2>1, <2>3
    <3>2. burstCnt \in Int /\ ramAddr = base - 1 - burstCnt
      <4>1. burstCnt \in Int  BY Cells DEF Typed, CodeTyped, Index
      <4> QED  BY <1>9, <4>1 DEF Align
    <3>3. burstCnt' \in Int /\ ramAddr' = base + 0 - burstCnt'  BY <1>10, <3>1, <3>2
    <3> QED  BY <2>1, <3>3
  <2> QED  BY <2>2, <2>3
<1>17. nextPos' \in Places /\ nextPos' % 2 = 0
  <2>1. nextPos' = (nextPos + n) % CacheWords  BY <1>13 DEF Enters
  <2>2. n % 2 = 0 /\ n \in Nat  BY <1>10, Roundings
  <2> DEFINE x == nextPos + n
  <2>3. (x % CacheWords) % 2 = 0  BY <1>12, <2>2, EvenSum
  <2>4. x \in Int  BY <1>12, <2>2
  <2>5. x % CacheWords \in 0 .. CacheWords - 1
    <3> HIDE DEF x
    <3> QED  BY <1>11, <2>4, Division
  <2> QED  BY <2>1, <2>3, <2>5 DEF Places
<1>18. Calling'
  BY <1>1, <1>3, <1>4, <1>6, <1>7 DEF Calling, IcQuiet
<1>19. AtPlace'  BY <1>1, <1>4, <1>6, <1>8 DEF AtPlace
<1>20. Shown'  BY <1>1, <1>3, <1>6, <1>7, <1>8 DEF Shown
<1>21. Whole'  BY <1>7 DEF Whole, IcQuiet
<1>22. Loading'
  <2>1. wrPos' = posReg  BY <1>13 DEF Enters
  <2>2. Holds(wrPos, base, fetchCnt)'  BY <1>7 DEF Holds
  <2>3. fetchCnt' \in 0 .. methods'[base']  BY <1>4, <1>7, <1>10
  <2>4. transferSize' = methods'[base'] - 1  BY <1>4, <1>15
  <2>5. ramAddr' = base' + fetchCnt' - burstCnt'  BY <1>4, <1>7, <1>16
  <2> QED  BY <1>4, <1>7, <1>12, <1>16, <1>17, <2>1, <2>2, <2>3, <2>4, <2>5 DEF Loading
<1>23. Timed'
  <2>1. Oldest' \in Nat /\ Oldest' <= MethodCount - 1
    <3>1. Oldest' = IF nextTag = nextIndex THEN MethodCount - 1 ELSE Oldest + 1
      BY <1>1, <1>13, <1>14, EnteredAges
    <3>2. CASE nextTag = nextIndex  BY <1>11, <3>1, <3>2
    <3>3. CASE nextTag # nextIndex
      <4>1. Oldest \in Nat /\ Oldest < MethodCount - 1
        <5>1. nextTag \in Slots  BY <1>1, Sizes
        <5>2. Age(nextTag) < MethodCount - 1  BY <1>1, <1>13, <1>14, <3>3, <5>1, EnteredAges
        <5> QED  BY <1>1, <5>1, <5>2, Sizes DEF Oldest
      <4> QED  BY <1>11, <3>1, <3>3, <4>1
    <3> QED  BY <3>2, <3>3
  <2>2. Oldest' <= methods'[base'] - fetchCnt' + 2
    <3>1. methods'[base'] = m /\ fetchCnt' = 0  BY <1>4, <1>7
    <3> HIDE DEF m
    <3> QED  BY <1>10, <1>11, <2>1, <3>1
  <2>3. execute'.kind # "call"  BY <1>4, <1>6
  <2> QED  BY <1>4, <1>7, <2>2, <2>3 DEF Timed
<1>24. \E later, last : Ring(later, last)' /\ Tagged(later, last)'
  <2>1. PICK later : later = [start EXCEPT ![nextIndex] = end]  OBVIOUS
  <2>2. PICK k \in Nat : k = n  BY <1>10
  <2>3. PICK last : last = end + k  OBVIOUS
  <2>4. k = Rounded(methods[base])  BY <2>2
  <2>5. Ring(later, end + k)'  BY <1>1, <1>2, <1>13, <1>14, <2>1, <2>4, RingEntered
  <2>6. Tagged(later, last)'
    BY <1>1, <1>2, <1>3, <1>4, <1>7, <1>8, <1>12, <1>13, <1>14, <2>1, <2>3, <2>4, TaggedEntered
  <2> QED  BY <2>3, <2>5, <2>6
<1> QED  BY <1>14, <1>18, <1>19, <1>20, <1>21, <1>22, <1>23, <1>24 DEF FetchInv


\* A word of the method is put behind the others.
LEMMA WordArrives ==
  ASSUME Typed, CacheTyped, AtPlace, Loading, Fetching, MemoryCycle, icState = "transfer"
  PROVE  /\ block' \in [Places -> Nat]
         /\ fetchCnt' = IF WordRead THEN fetchCnt + 1 ELSE fetchCnt
         /\ fetchCnt' \in 0 .. methods[base]
         /\ \A i \in 0 .. fetchCnt' - 1 : block'[(wrPos + i) % CacheWords] = base + i
         /\ \E f \in 0 .. methods[base] - 1 :
              \A p \in Places : p # (wrPos + f) % CacheWords => block'[p] = block[p]
<1> DEFINE m == methods[base]
           k == (wrPos + fetchCnt) % CacheWords
<1>1. base \in DOMAIN methods  BY DEF Fetching
<1>2. base \in Nat \ {0} /\ m \in Nat \ {0} /\ m < CacheWords  BY <1>1, MethodSizes
<1>3. CacheWords \in Nat \ {0}  BY Sizes
<1>4. /\ wrPos = posReg /\ wrPos % 2 = 0 /\ transferSize = m - 1 /\ fetchCnt \in 0 .. m
      /\ fetchCnt <= transferSize => ramAddr = base + fetchCnt - burstCnt
      /\ Holds(wrPos, base, fetchCnt)
      /\ slaveReg.dva /\ ramAddr + burstCnt \notin DataWords => slaveReg.data = ramAddr + burstCnt
  BY DEF Loading
<1>5. wrPos \in Nat  BY <1>3, <1>4 DEF AtPlace, Places
<1>6. fetchCnt \in Nat /\ fetchCnt <= m  BY <1>2, <1>4
<1>7. \A x \in Int : x % CacheWords \in Places
  <2>1. \A x \in Int : x % CacheWords \in 0 .. CacheWords - 1  BY <1>3, Division
  <2> QED  BY <2>1 DEF Places
<1>8. ~SizeRead  BY DEF SizeRead
<1>9. fetchCnt' = IF WordRead THEN (fetchCnt + 1) % CacheWords ELSE fetchCnt
  BY <1>8, FetchingSide DEF Controller
<1>10. block' = IF WordRead THEN [block EXCEPT ![WriteIdx] = slaveReg.data] ELSE block
  BY DEF MemoryCycle, IcCycle, Memory
<1>11. block \in [Places -> Nat]  BY DEF CacheTyped
<1>12. CASE ~WordRead
  <2>1. block' = block /\ fetchCnt' = fetchCnt  BY <1>9, <1>10, <1>12
  <2>2. 0 \in 0 .. m - 1  BY <1>2
  <2> QED  BY <1>4, <1>11, <1>12, <2>1, <2>2 DEF Holds
<1>13. CASE WordRead
  <2>1. slaveReg.dva /\ fetchCnt <= transferSize  BY <1>13 DEF WordRead
  <2>2. fetchCnt <= m - 1  BY <1>4, <2>1
  <2>3. fetchCnt' = fetchCnt + 1
    <3>1. fetchCnt + 1 \in 0 .. CacheWords - 1
      <4> HIDE DEF m
      <4> QED  BY <1>2, <1>3, <1>6, <2>2
    <3>2. (fetchCnt + 1) % CacheWords = fetchCnt + 1  BY <1>3, <3>1, Small
    <3> QED  BY <1>9, <1>13, <3>2
  <2>4. WriteIdx = k
    <3>1. wrPos % 2 = 0 /\ wrPos \in Nat /\ fetchCnt \in Nat  BY <1>4, <1>5, <1>6
    <3> QED  BY <3>1, Banks DEF WriteIdx
  <2>5. slaveReg.data = base + fetchCnt
    <3>1. burstCnt \in Int  BY Cells DEF Typed, CodeTyped, Index
    <3>2. ramAddr + burstCnt = base + fetchCnt  BY <1>2, <1>4, <1>6, <2>1, <3>1
    <3>3. base + fetchCnt \in base - 1 .. base + m - 1
      <4> HIDE DEF m
      <4> QED  BY <1>2, <1>6, <2>2
    <3>4. (base - 1 .. base + m - 1) \cap DataWords = {}  BY <1>1 DEF CacheTyped, Fits
    <3>5. ramAddr + burstCnt \notin DataWords  BY <3>2, <3>3, <3>4
    <3> QED  BY <1>4, <2>1, <3>2, <3>5
  <2>6. k \in Places
    <3>1. wrPos + fetchCnt \in Int  BY <1>5, <1>6
    <3> QED  BY <1>7, <3>1
  <2>7. block' = [block EXCEPT ![k] = base + fetchCnt]  BY <1>10, <1>13, <2>4, <2>5
  <2>8. base + fetchCnt \in Nat  BY <1>2, <1>6
  <2>9. block' \in [Places -> Nat]
        /\ \A p \in Places : block'[p] = IF p = k THEN base + fetchCnt ELSE block[p]
    <3> HIDE DEF k
    <3> QED  BY <1>11, <2>6, <2>7, <2>8
  <2>10. ASSUME NEW i \in 0 .. fetchCnt PROVE block'[(wrPos + i) % CacheWords] = base + i
    <3>1. i \in Nat /\ i <= fetchCnt  BY <1>6
    <3>2. CASE i = fetchCnt  BY <2>6, <2>9, <3>2
    <3>3. CASE i # fetchCnt
      <4>1. i \in 0 .. fetchCnt - 1  BY <1>6, <3>1, <3>3
      <4>2. block[(wrPos + i) % CacheWords] = base + i  BY <1>4, <4>1 DEF Holds
      <4>3. (wrPos + i) % CacheWords \in Places
        <5>1. wrPos + i \in Int  BY <1>5, <3>1
        <5> QED  BY <1>7, <5>1
      <4>4. (wrPos + i) % CacheWords # k
        <5> DEFINE x == wrPos + i
                   y == wrPos + fetchCnt
        <5>1. x \in Nat /\ y \in Nat /\ x < y /\ y - x < CacheWords
          <6> HIDE DEF m
          <6> QED  BY <1>2, <1>3, <1>5, <1>6, <3>1, <3>3
        <5>2. x % CacheWords # y % CacheWords
          <6> HIDE DEF x, y
          <6> QED  BY <1>3, <5>1, OwnPlace
        <5> QED  BY <5>2
      <4> QED  BY <2>9, <4>2, <4>3, <4>4
    <3> QED  BY <3>2, <3>3
  <2>11. \A i \in 0 .. fetchCnt' - 1 : block'[(wrPos + i) % CacheWords] = base + i
    <3>1. fetchCnt' - 1 = fetchCnt  BY <1>6, <2>3
    <3> QED  BY <2>10, <3>1
  <2>12. fetchCnt' \in 0 .. m /\ fetchCnt \in 0 .. m - 1
    <3> HIDE DEF m
    <3> QED  BY <1>2, <1>6, <2>2, <2>3
  <2>13. \E f \in 0 .. m - 1 : \A p \in Places : p # (wrPos + f) % CacheWords => block'[p] = block[p]
    BY <2>9, <2>12
  <2> QED  BY <1>13, <2>3, <2>9, <2>11, <2>12, <2>13
<1> QED  BY <1>12, <1>13

\* How far the walk over the tags has to go during the transfer, and after it.
LEMMA TransferOwes ==
  ASSUME Typed, CacheTyped, CacheTyped', NEW start, NEW end, Ring(start, end), Walks,
         Timed, icState = "transfer", freeSpace' < 0,
         NEW m \in Nat, m = methods[base], fetchCnt \in Nat
  PROVE  /\ fetchCnt' \in Nat /\ fetchCnt' <= fetchCnt + 1 => Oldest' <= m - fetchCnt' + 2
         /\ fetchCnt >= m - 1 => Oldest' <= 2
<1>1. freeSpace < 0 /\ Oldest \in Nat /\ Oldest' = Oldest - 1 /\ Oldest' # 0  BY Owing
<1>2. Oldest <= m - fetchCnt + 2  BY <1>1 DEF Timed
<1> DEFINE k == Oldest'
<1>3. k = Oldest - 1  BY <1>1
<1> HIDE DEF k
<1>4. fetchCnt >= m - 1 => k <= 2  BY <1>1, <1>2, <1>3
<1>5. ASSUME fetchCnt' \in Nat, fetchCnt' <= fetchCnt + 1 PROVE k <= m - fetchCnt' + 2
  BY <1>1, <1>2, <1>3, <1>5
<1> QED  BY <1>4, <1>5 DEF k

\* Words arrive, or the rest of a burst is awaited.
LEMMA TransferKeeps ==
  ASSUME Typed, Phase, icState = "transfer", MemoryCycle, FetchInv
  PROVE  FetchInv'
<1>1. CacheTyped /\ Calling /\ AtPlace /\ Shown /\ Whole /\ Loading /\ Timed  BY DEF FetchInv
<1>2. PICK start, end : Ring(start, end) /\ Tagged(start, end)  BY DEF FetchInv
<1>3. ~IcQuiet /\ ~SizeRead /\ ~Missing /\ hitReg  BY <1>1 DEF IcQuiet, SizeRead, Missing, Loading
<1>4. /\ Fetching /\ base \in DOMAIN methods /\ execute.kind # "call"
      /\ base' = base /\ posReg' = posReg /\ hitReg' /\ methods' = methods
      /\ Replace(Invalidates("code")) /\ Memory(fetchPc')
  BY <1>3, LoadingCycle
<1>5. /\ Enable <=> Done
      /\ Enable => Go
      /\ ~Enable => UNCHANGED <<execute, callee, callSlots, fetchPc, at>>
  <2>1. IcEna <=> Done  BY <1>3 DEF IcEna
  <2> QED  BY <1>3, <2>1, LoadingCycle
<1> DEFINE m == methods[base]
<1>6. base \in Nat \ {0} /\ m \in Nat \ {0} /\ m < CacheWords  BY <1>1, <1>4, MethodSizes
<1>7. CacheWords \in Nat \ {0} /\ callSlots = 2 /\ callee # NoCall
  BY <1>1, <1>3, Sizes DEF Calling
<1>8. /\ nextPos \in Places /\ nextPos % 2 = 0
      /\ wrPos = posReg /\ wrPos % 2 = 0 /\ transferSize = m - 1 /\ fetchCnt \in 0 .. m
      /\ fetchCnt <= transferSize => ramAddr = base + fetchCnt - burstCnt
  BY <1>1 DEF Loading
<1>9. fetchCnt \in Nat /\ fetchCnt <= m  BY <1>6, <1>8
<1>10. icState' = (IF Done THEN "idle" ELSE "transfer") /\ transferSize' = transferSize
  BY <1>3, <1>4, FetchingSide DEF Controller
<1>11. Walks
  <2> HIDE DEF Replace
  <2> QED  BY <1>1, <1>3, <1>4, Walked
<1>12. /\ block' \in [Places -> Nat]
       /\ fetchCnt' = IF WordRead THEN fetchCnt + 1 ELSE fetchCnt
       /\ fetchCnt' \in 0 .. methods[base]
       /\ \A i \in 0 .. fetchCnt' - 1 : block'[(wrPos + i) % CacheWords] = base + i
       /\ \E f \in 0 .. methods[base] - 1 :
            \A p \in Places : p # (wrPos + f) % CacheWords => block'[p] = block[p]
  BY <1>1, <1>4, WordArrives
<1>13. CacheTyped'  BY <1>1, <1>4, <1>11, <1>12, CacheTypedKept
<1>14. Ring(start, end)'  BY <1>1, <1>2, <1>11, <1>13, RingWalked
<1>15. wrPos' = wrPos /\ nextPos' = nextPos  BY <1>11 DEF Walks
<1>16. slaveReg'.dva /\ ramAddr' + burstCnt' \notin DataWords => slaveReg'.data = ramAddr' + burstCnt'
  BY <1>4, BurstCycle
<1>17. Done => fetchCnt' = m /\ fetchCnt >= m - 1
  <2>1. ASSUME Done, fetchCnt > transferSize PROVE fetchCnt' = m /\ fetchCnt >= m - 1
    <3>1. fetchCnt = m
      <4> HIDE DEF m
      <4> QED  BY <1>6, <1>8, <1>9, <2>1
    <3>2. ~WordRead
      <4>1. ~(fetchCnt <= transferSize)
        <5> HIDE DEF m
        <5> QED  BY <1>6, <1>8, <1>9, <2>1
      <4> QED  BY <4>1 DEF WordRead
    <3>3. m >= m - 1
      <4> HIDE DEF m
      <4> QED  BY <1>6
    <3> QED  BY <1>12, <3>1, <3>2, <3>3
  <2>2. ASSUME Done, ~(fetchCnt > transferSize) PROVE fetchCnt' = m /\ fetchCnt >= m - 1
    <3>1. slaveReg.dva /\ fetchCnt = transferSize  BY <2>2 DEF Done
    <3>2. WordRead
      <4>1. fetchCnt <= transferSize  BY <1>9, <3>1
      <4> QED  BY <3>1, <4>1 DEF WordRead
    <3>3. fetchCnt = m - 1 /\ fetchCnt' = fetchCnt + 1  BY <1>8, <1>12, <3>1, <3>2
    <3> HIDE DEF m
    <3> QED  BY <1>6, <1>9, <3>3
  <2> QED  BY <2>1, <2>2
<1>18. Tagged(start, end)'
  <2>1. icState' = "transfer" => icState = "transfer" /\ base' = base  BY <1>4
  <2>2. icState' # "transfer" =>
           \A i \in 0 .. methods[base] - 1 : block'[(wrPos + i) % CacheWords] = base + i
    <3>1. icState' # "transfer" => fetchCnt' = methods[base]  BY <1>10, <1>17
    <3> QED  BY <1>12, <3>1
  <2> QED  BY <1>1, <1>2, <1>4, <1>11, <1>12, <2>1, <2>2, TaggedWalked
<1>19. CASE ~Done
  <2>1. UNCHANGED <<execute, callee, callSlots, fetchPc, at>>  BY <1>5, <1>19
  <2>2. icState' = "transfer"  BY <1>10, <1>19
  <2>3. rdIdx' = rdIdx /\ instrReg' = instrReg  BY <1>4, <1>19 DEF Memory, Instr
  <2>4. Calling'  BY <1>1, <1>4, <1>7, <2>1 DEF Calling
  <2>5. AtPlace'  BY <1>1, <1>4, <2>1, <2>3 DEF AtPlace
  <2>6. Shown'  BY <1>1, <2>1, <2>2, <2>3 DEF Shown
  <2>7. Whole'  BY <2>2 DEF Whole, IcQuiet
  <2>8. fetchCnt' <= transferSize' => ramAddr' = base + fetchCnt' - burstCnt'
    <3>1. burstCnt \in Int  BY Cells DEF Typed, CodeTyped, Index
    <3>2. CASE BurstEnd
      <4>1. slaveReg.dva /\ burstCnt' = 0 /\ \A a : IcReads = {a} => ramAddr' = a
        BY <1>4, <3>2, BurstCycle
      <4>2. fetchCnt < transferSize
        <5>1. ~(fetchCnt > transferSize) /\ fetchCnt # transferSize
          BY <1>19, <3>2, <4>1 DEF Done
        <5> HIDE DEF m
        <5> QED  BY <1>6, <1>8, <1>9, <5>1
      <4>3. WordRead
        <5>1. fetchCnt <= transferSize
          <6> HIDE DEF m
          <6> QED  BY <1>6, <1>8, <1>9, <4>2
        <5> QED  BY <4>1, <5>1 DEF WordRead
      <4>4. IcReads = {base + fetchCnt + 1}  BY <1>3, <3>2, <4>2, <4>3 DEF IcReads
      <4>5. ramAddr' = base + fetchCnt + 1 /\ fetchCnt' = fetchCnt + 1
        BY <1>12, <4>1, <4>3, <4>4
      <4>6. base + fetchCnt + 1 = base + (fetchCnt + 1) - 0  BY <1>6, <1>9
      <4> QED  BY <4>1, <4>5, <4>6
    <3>3. CASE ~BurstEnd
      <4>1. ramAddr' = ramAddr /\ burstCnt' = IF slaveReg.dva THEN burstCnt + 1 ELSE burstCnt
        BY <1>4, <3>3, BurstCycle
      <4>2. CASE ~(fetchCnt <= transferSize)
        <5>1. fetchCnt' = fetchCnt  BY <1>12, <4>2 DEF WordRead
        <5> QED  BY <1>10, <4>2, <5>1
      <4>3. CASE fetchCnt <= transferSize /\ slaveReg.dva
        <5>1. fetchCnt' = fetchCnt + 1 /\ burstCnt' = burstCnt + 1
          BY <1>12, <4>1, <4>3 DEF WordRead
        <5>2. ramAddr' = base + fetchCnt - burstCnt  BY <1>8, <4>1, <4>3
        <5>3. base + fetchCnt - burstCnt = base + (fetchCnt + 1) - (burstCnt + 1)
          BY <1>6, <1>9, <3>1
        <5> QED  BY <5>1, <5>2, <5>3
      <4>4. CASE fetchCnt <= transferSize /\ ~slaveReg.dva
        BY <1>8, <1>12, <4>1, <4>4 DEF WordRead
      <4> QED  BY <4>2, <4>3, <4>4
    <3> QED  BY <3>2, <3>3
  <2>9. Loading'
    <3>1. Holds(wrPos, base, fetchCnt)'  BY <1>4, <1>12, <1>15 DEF Holds
    <3> QED  BY <1>4, <1>8, <1>10, <1>12, <1>15, <1>16, <2>2, <2>8, <3>1 DEF Loading
  <2>10. Timed'
    <3>1. ASSUME freeSpace' < 0 PROVE Oldest' <= methods'[base'] - fetchCnt' + 2
      <4>1. fetchCnt' \in Nat /\ fetchCnt' <= fetchCnt + 1  BY <1>9, <1>12
      <4>2. Oldest' <= m - fetchCnt' + 2
        BY <1>1, <1>2, <1>6, <1>9, <1>11, <1>13, <3>1, <4>1, TransferOwes
      <4> QED  BY <1>4, <4>2
    <3> QED  BY <1>4, <2>1, <2>2, <3>1 DEF Timed
  <2> QED  BY <1>13, <1>14, <1>18, <2>4, <2>5, <2>6, <2>7, <2>9, <2>10 DEF FetchInv
<1>20. CASE Done
  <2>1. Go /\ icState' = "idle" /\ fetchCnt' = m /\ IcQuiet'
    BY <1>4, <1>5, <1>10, <1>17, <1>20 DEF IcQuiet
  <2>2. rdIdx' = fetchPc'  BY <1>4, <1>20 DEF Memory
  <2>3. ~slaveReg'.dva
    <3>1. BurstEnd  BY <1>20 DEF Done
    <3> QED  BY <1>4, <3>1, BurstCycle
  <2>4. /\ fetchPc' \in Places
        /\ at' # 0 => /\ at' \in base .. base + m - 1
                      /\ fetchPc' = (posReg + (at' - base)) % CacheWords
    BY <1>1, <2>1, GoPlace
  <2>5. execute'.kind # "call" /\ callSlots' = 1 /\ callee' = NoCall
    BY <1>4, <1>7, <2>1, GoCalls
  <2>6. Calling'  BY <2>1, <2>5 DEF Calling
  <2>7. AtPlace'  BY <1>1, <1>4, <2>2, <2>4 DEF AtPlace
  <2>8. \A i \in 0 .. m - 1 : block'[(posReg + i) % CacheWords] = base + i
    BY <1>8, <1>12, <2>1
  <2>9. Shown'
    <3>1. ASSUME at' # 0 PROVE block'[rdIdx'] = at'
      <4>1. at' \in base .. base + m - 1 /\ fetchPc' = (posReg + (at' - base)) % CacheWords
        BY <2>4, <3>1
      <4>2. at' \in base .. base + m - 1 /\ base \in Nat /\ m \in Nat  BY <1>6, <4>1
      <4>3. at' - base \in 0 .. m - 1 /\ base + (at' - base) = at'
        <5> HIDE DEF m
        <5> QED  BY <4>2, Offset
      <4> QED  BY <2>2, <2>8, <4>1, <4>3
    <3> QED  BY <2>1, <3>1 DEF Shown
  <2>10. Whole'  BY <1>4, <2>8 DEF Whole, Holds
  <2>11. Loading'  BY <1>4, <1>8, <1>15, <2>1, <2>3 DEF Loading
  <2>12. Timed'
    <3>1. ASSUME freeSpace' < 0 PROVE Oldest' <= callSlots' + 1
      <4>1. fetchCnt >= m - 1  BY <1>17, <1>20
      <4>2. Oldest' <= 2
        BY <1>1, <1>2, <1>6, <1>9, <1>11, <1>13, <3>1, <4>1, TransferOwes
      <4>3. callSlots' + 1 = 2  BY <2>5
      <4> QED  BY <4>2, <4>3
    <3> QED  BY <1>4, <2>1, <2>5, <3>1 DEF Timed
  <2> QED  BY <1>13, <1>14, <1>18, <2>6, <2>7, <2>9, <2>10, <2>11, <2>12 DEF FetchInv
<1> QED  BY <1>19, <1>20


-----------------------------------------------------------------------------
(* Every step. *)

LEMMA FetchStutters ==
  ASSUME FetchInv, UNCHANGED <<icVars, core, ramAddr>>
  PROVE  FetchInv'
<1>1. /\ UNCHANGED <<methods, tags, nextIndex, nextTag, nextPos, freeSpace, base, posReg, wrPos, hitReg>>
      /\ UNCHANGED <<icState, burstCnt, fetchCnt, transferSize, slaveReg, block, rdIdx, instrReg>>
      /\ UNCHANGED <<execute, callee, callSlots, fetchPc, at, ramAddr>>
  BY DEF icVars, replacement, method, control, instruction, core
<1>2. CacheTyped'  BY <1>1 DEF FetchInv, CacheTyped, Fits, Rounded
<1>3. Calling' /\ AtPlace' /\ Shown' /\ Whole'
  BY <1>1 DEF FetchInv, Calling, AtPlace, Shown, Whole, Holds, IcQuiet
<1>4. Loading'  BY <1>1 DEF FetchInv, Loading, Holds
<1>5. Timed'  BY <1>1 DEF FetchInv, Timed, Oldest, Age
<1>6. PICK start, end : Ring(start, end) /\ Tagged(start, end)  BY DEF FetchInv
<1>7. Ring(start, end)'  BY <1>1, <1>6 DEF Ring, Oldest, Age, NextTag
<1>8. Tagged(start, end)'  BY <1>1, <1>6 DEF Tagged, Age, Rounded
<1> QED  BY <1>2, <1>3, <1>4, <1>5, <1>7, <1>8 DEF FetchInv

LEMMA FetchBegins == ASSUME MethodsFit, MemoryInit PROVE FetchInv
<1>1. PICK p \in MemoryPrograms : methods = p.methods  BY DEF MemoryInit
<1>2. CacheWords \in Nat \ {0} /\ MethodCount \in Nat \ {0}  BY MemoryAssumption
<1>3. /\ tags = [i \in Slots |-> EmptyTag]
      /\ nextIndex = 0 /\ nextTag = 0 /\ nextPos = 0 /\ freeSpace = CacheWords
      /\ base = 0 /\ posReg = 0 /\ hitReg = TRUE /\ icState = "idle" /\ slaveReg = NoAnswer
      /\ block = [i \in Places |-> 0] /\ rdIdx = 0
      /\ execute = Nothing /\ callee = NoCall /\ fetchPc = 0 /\ at = 0
  BY DEF MemoryInit, IcInit, Slots, Places
<1>4. 0 \in Slots /\ 0 \in Places  BY <1>2 DEF Slots, Places
<1>5. EmptyTag \in TagRecords /\ EmptyTag.size = 0 /\ ~EmptyTag.valid
  BY <1>4 DEF EmptyTag, TagRecords
<1>6. CacheTyped
  <2>1. ASSUME NEW b \in DOMAIN methods PROVE Fits(b)
    <3>1. Rounded(methods[b]) < CacheWords /\ MethodCount <= methods[b] + 3
      BY <1>1 DEF MethodsFit
    <3>2. /\ (b - 1 .. b + p.methods[b] - 1) \cap DataWords = {}
          /\ \A c \in DOMAIN p.methods : b < c => b + p.methods[b] <= c
      BY <1>1, MemoryAssumption
    <3> QED  BY <1>1, <3>1, <3>2 DEF Fits
  <2>2. tags \in [Slots -> TagRecords]  BY <1>3, <1>5
  <2>3. block \in [Places -> Nat] /\ freeSpace \in Int  BY <1>2, <1>3
  <2> QED  BY <1>3, <1>4, <2>1, <2>2, <2>3 DEF CacheTyped, TagRecords
<1>7. Calling /\ AtPlace /\ Shown /\ Whole
  <2>1. execute.kind # "call"  BY <1>3, Operations
  <2> QED  BY <1>3, <1>4, <2>1 DEF Calling, AtPlace, Shown, Whole, IcQuiet
<1>8. Loading
  <2>1. 0 % 2 = 0  OBVIOUS
  <2> QED  BY <1>3, <1>4, <2>1 DEF Loading, NoAnswer
<1>9. Timed  BY <1>2, <1>3 DEF Timed
<1>10. \E start, end : Ring(start, end) /\ Tagged(start, end)
  <2>1. PICK start : start = [s \in Slots |-> 0]  OBVIOUS
  <2>2. start \in [Slots -> Nat] /\ \A s \in Slots : start[s] = 0 /\ tags[s] = EmptyTag  BY <1>3, <2>1
  <2>3. Oldest = MethodCount - 1 /\ \A s \in Slots : Age(s) \in Nat /\ Age(s) <= MethodCount - 1
    BY <1>2, <1>3, <1>4, <1>6, Sizes, Ages DEF Oldest
  <2>4. 0 % CacheWords = 0  BY <1>2, Small
  <2>5. \A s \in Slots : NextTag(s) \in Slots  BY <1>3, <1>4, Ages
  <2>6. \A s \in Slots : ~(Age(s) > Oldest)  BY <1>2, <2>3
  <2>7. Ring(start, 0)
    <3>1. 0 - start[nextTag] = CacheWords - freeSpace  BY <1>2, <1>3, <1>4, <2>2
    <3>2. \A s, t \in Slots : start[s] + tags[s].size = 0 /\ start[t] = 0  BY <1>5, <2>2
    <3> QED  BY <1>3, <2>2, <2>4, <2>5, <2>6, <3>1, <3>2 DEF Ring
  <2>8. Tagged(start, 0)  BY <1>3, <1>5, <2>2 DEF Tagged
  <2> QED  BY <2>7, <2>8
<1> QED  BY <1>6, <1>7, <1>8, <1>9, <1>10 DEF FetchInv

LEMMA FetchStep ==
  ASSUME MemInv, FetchInv, [MemoryNext]_memVars
  PROVE  FetchInv'
<1>1. Typed /\ Phase  BY DEF MemInv
<1>2. CASE MemoryCycle
  <2>1. CASE IcQuiet  BY <1>1, <1>2, <2>1, QuietKeeps
  <2>2. CASE icState = "transfer"  BY <1>1, <1>2, <2>2, TransferKeeps
  <2>3. CASE SizeRead  BY <1>1, <1>2, <2>3, SizeKeeps
  <2>4. CASE ~IcQuiet /\ icState # "transfer" /\ ~SizeRead  BY <1>1, <1>2, <2>4, MissKeeps
  <2> QED  BY <2>1, <2>2, <2>3, <2>4
<1>3. ASSUME NEW a \in DataWords, NEW v \in Vals, OtherStore(a, v) PROVE FetchInv'
  BY <1>3, FetchStutters DEF OtherStore
<1>4. CASE UNCHANGED memVars  BY <1>4, FetchStutters DEF memVars, ram
<1> QED  BY <1>2, <1>3, <1>4 DEF MemoryNext

\* The pipeline gets the instruction it stands at.
LEMMA FetchShows == ASSUME MemInv, FetchInv PROVE FetchesCode
<1>1. ASSUME at # 0 PROVE Instr = at
  BY <1>1 DEF FetchInv, Shown, Instr
<1> QED  BY <1>1 DEF FetchesCode

\* Whatever methods are called, in whatever order, wherever they lie in the
\* ring of words and of tags and however the answers of the memory come: when
\* the pipeline moves it gets the instruction of the address it stands at.
THEOREM CodeFetched == ASSUME MethodsFit PROVE MemorySpec => []FetchesCode
<1>1. MemoryInit => FetchInv  BY FetchBegins
<1>2. MemInv /\ FetchInv /\ [MemoryNext]_memVars => FetchInv'  BY FetchStep
<1>3. MemInv /\ FetchInv => FetchesCode  BY FetchShows
<1> QED  BY <1>1, <1>2, <1>3, MemoryKept, PTL DEF MemorySpec

=============================================================================
