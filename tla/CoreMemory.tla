------------------------------ MODULE CoreMemory ------------------------------
(***************************************************************************)
(* The memory below a core: method cache, direct-mapped data cache, the    *)
(* bridge for uncached loads and the write path, joined without a buffer   *)
(* in front of one memory that takes any command and ignores it when busy. *)
(* Of the pipeline there are the execute stage, the memory stage with its  *)
(* stall, and the address of the fetch.  Accesses are of whole words.      *)
(***************************************************************************)
EXTENDS MethodCache

CONSTANTS
  MemoryPrograms,  \* records: methods, accesses, and the words another core stores
  DataWords,     \* the addresses of data, in whole bursts
  Offsets,       \* in a method, where returns and branches go
  Lines,         \* lines of the data cache
  Vals           \* contents of a word of data

\* The words of a burst that holds a word of data are words of data.
DataOps       == [kind : {"load", "store"}, space : {"cached", "uncached"}, addr : DataWords, data : Vals]
Invalidations == [kind : {"inval"}, space : {"cached", "code"}, addr : {0}, data : {0}]

ASSUME MemoryAssumption ==
  /\ Burst \in Nat /\ Burst > 1 /\ Lines \in Nat \ {0} /\ MethodCount \in Nat \ {0}
  /\ CacheWords \in Nat \ {0} /\ CacheWords % 2 = 0
  /\ Offsets \subseteq Nat /\ DataWords \subseteq Nat
  /\ \A a \in DataWords : Align(a) .. Align(a) + Burst - 1 \subseteq DataWords
  /\ 0 \in Vals
  /\ \A p \in MemoryPrograms :
       /\ p.accesses \subseteq DataOps \cup Invalidations
       /\ p.shared \subseteq DataWords
       /\ p.methods \in [DOMAIN p.methods -> Nat \ {0}]
       /\ \A b \in DOMAIN p.methods :
            /\ b \in Nat \ {0} /\ (b - 1 .. b + p.methods[b] - 1) \cap DataWords = {}
            /\ \A c \in DOMAIN p.methods : b < c => b + p.methods[b] <= c

VARIABLES
  accesses, shared,                         \* of the program
  execute, pending, callee, callSlots,      \* execute, memory stage; when calls may come
  fetchPc, at,                              \* the position fetched, and its address in the code
  loaded,                                   \* by the last load
  request,                                  \* masterReg
  dmTag, dmLine,                            \* the data cache
  readState, readCnt, readReg,              \* its reads of bursts, and those of the bridge
  wcState, wcCnt,                           \* the write path
  selRightReg,                              \* the join
  ramState, ramAddr, wordCount, wrBuffer,   \* the memory
  words,
  recent, since                             \* history: what loads may get

core  == <<accesses, shared, execute, pending, callee, callSlots, fetchPc, at, loaded>>
cache == <<request, dmTag, dmLine, readState, readCnt, readReg, wcState, wcCnt>>
ram   == <<selRightReg, ramState, ramAddr, wordCount, wrBuffer, words>>
memVars == <<icVars, core, cache, ram, recent, since>>

Op(kind, space, addr, data) == [kind |-> kind, space |-> space, addr |-> addr, data |-> data]
Nothing    == Op("none", "none", 0, 0)
NoRequest  == [op |-> Nothing, new |-> FALSE, hit |-> FALSE]
Line(a)    == (a \div Burst) % Lines
Call(b, o) == [base |-> b, off |-> o]
NoCall     == Call(0, 0)

MemoryInit ==
  /\ \E p \in MemoryPrograms : methods = p.methods /\ accesses = p.accesses /\ shared = p.shared
  /\ IcInit
  /\ execute = Nothing /\ pending = Nothing /\ callee = NoCall /\ callSlots = 0
  /\ fetchPc = 0 /\ at = 0 /\ loaded = 0
  /\ request = NoRequest
  /\ dmTag = [l \in 0..Lines - 1 |-> [valid |-> FALSE, addr |-> 0]]
  /\ dmLine = [l \in 0..Lines - 1 |-> [w \in 0..Burst - 1 |-> 0]]
  /\ readState = "idle" /\ readCnt = 0 /\ readReg = 0 /\ wcState = "idle" /\ wcCnt = 0
  /\ selRightReg = FALSE /\ ramState = "ready" /\ ramAddr = 0 /\ wordCount = 0
  /\ wrBuffer = [w \in 0..Burst - 1 |-> [en |-> FALSE, data |-> 0]]
  /\ words = [a \in DataWords |-> 0] /\ recent = [a \in DataWords |-> {0}] /\ since = {}

-----------------------------------------------------------------------------
(* The memory: the answers of a burst follow each other. *)

RamDva  == ramState \in {"readRet", "writeRet"}
RamData == LET a == ramAddr + wordCount IN IF a \in DataWords THEN words[a] ELSE a

Ram(bus) ==
  /\ ramState' = CASE ramState = "ready" /\ bus.cmds = {"RD"} -> "readExe"
                   [] ramState = "ready" /\ bus.cmds = {"WR"} -> "writeRec"
                   [] ramState = "readExe" -> "readRet"
                   [] ramState = "readRet" /\ wordCount = Burst - 1 -> "ready"
                   [] ramState = "writeRec" /\ bus.valid /\ wordCount = Burst - 1 -> "writeExe"
                   [] ramState = "writeExe" -> "writeRet"
                   [] ramState = "writeRet" -> "ready"
                   [] OTHER -> ramState
  /\ ramAddr' = IF ramState = "ready" /\ bus.cmds # {} THEN bus.addr ELSE ramAddr
  /\ wordCount' = CASE ramState = "ready" /\ bus.cmds = {"WR"} -> 1
                    [] ramState = "readRet" \/ (ramState = "writeRec" /\ bus.valid) ->
                         (wordCount + 1) % Burst
                    [] OTHER -> wordCount
  /\ wrBuffer' = CASE ramState = "ready" -> [wrBuffer EXCEPT ![0] = [en |-> bus.en, data |-> bus.data]]
                   [] ramState = "writeRec" ->
                        [wrBuffer EXCEPT ![wordCount] = [en |-> bus.en, data |-> bus.data]]
                   [] OTHER -> wrBuffer

WordsWritten ==
  IF ramState = "writeExe"
  THEN [a \in DataWords |->
         IF Align(a) = ramAddr /\ wrBuffer[a % Burst].en THEN wrBuffer[a % Burst].data ELSE words[a]]
  ELSE words

-----------------------------------------------------------------------------
(* The data side. *)

NoBus == [cmds |-> {}, addr |-> 0, valid |-> FALSE, en |-> FALSE, data |-> 0]
Read(a) == [NoBus EXCEPT !.cmds = {"RD"}, !.addr = a]

\* A mutant: uncached stores pass the cache by.
HitsCached == request.hit /\ request.op.space = "cached"

\* The cache looks at cached loads and at every store.
DmHit   == request.hit
DmMiss  == request.new /\ request.op.kind = "load" /\ request.op.space = "cached" /\ ~DmHit
Bypass  == request.new /\ request.op.kind = "load" /\ request.op.space = "uncached"
Answers == RamDva /\ selRightReg

\* The exception unit has taken a store to its cache control register.
Invalidates(which) == request.new /\ request.op.kind = "inval" /\ request.op.space = which

DataBus ==
  IF DmMiss \/ Bypass THEN Read(Align(request.op.addr))
  ELSE IF wcState = "write"
  THEN [cmds |-> IF wcCnt = 0 THEN {"WR"} ELSE {}, addr |-> Align(request.op.addr), valid |-> TRUE,
        en |-> wcCnt = request.op.addr % Burst, data |-> request.op.data]
  ELSE NoBus

\* The answer to the memory stage.
DataDva ==
  \/ request.new /\ request.op.kind = "load" /\ request.op.space = "cached" /\ DmHit
  \/ \E which \in {"cached", "code"} : Invalidates(which)
  \/ readState \in {"respond", "readResp"}
  \/ wcState = "resp" /\ Answers
DataRead ==
  IF readState \in {"respond", "readResp"} THEN readReg
  ELSE dmLine[Line(request.op.addr)][request.op.addr % Burst]

\* Loads: a line is filled, or the bridge keeps one word of a burst.
Reads ==
  /\ readState' = CASE DmMiss -> "fill" [] Bypass -> "read"
                    [] readState = "fill" /\ Answers /\ readCnt = Burst - 1 -> "respond"
                    [] readState = "read" /\ Answers /\ readCnt = Burst - 1 -> "readResp"
                    [] readState \in {"respond", "readResp"} -> "idle"
                    [] OTHER -> readState
  /\ readCnt' = IF readState \in {"fill", "read"} /\ Answers THEN (readCnt + 1) % Burst ELSE readCnt
  /\ readReg' = IF readState \in {"fill", "read"} /\ Answers /\ readCnt = request.op.addr % Burst
                THEN RamData ELSE readReg

\* What the line of the request holds after the cycle.
DataCache ==
  LET l == Line(request.op.addr)
  IN  /\ dmLine' = IF readState = "fill" /\ Answers THEN [dmLine EXCEPT ![l][readCnt] = RamData]
                   ELSE IF request.new /\ request.op.kind = "store" /\ DmHit
                   THEN [dmLine EXCEPT ![l][request.op.addr % Burst] = request.op.data]
                   ELSE dmLine
      /\ dmTag' = IF Invalidates("cached") THEN [i \in DOMAIN dmTag |-> [dmTag[i] EXCEPT !.valid = FALSE]]
                  ELSE IF DmMiss
                  THEN [dmTag EXCEPT ![l] = [valid |-> TRUE, addr |-> Align(request.op.addr)]]
                  ELSE dmTag

\* The write path starts with the command itself.
Writes(command) ==
  /\ wcState' = IF command.kind = "store" THEN "write"
                ELSE IF wcState = "write" /\ wcCnt = Burst - 1 THEN "resp"
                ELSE IF wcState = "resp" /\ Answers THEN "idle" ELSE wcState
  /\ wcCnt' = IF wcState = "write" THEN (wcCnt + 1) % Burst ELSE wcCnt

-----------------------------------------------------------------------------
(* The join: an answer goes to the side that asked last. *)

IcBus == IF IcReads = {} THEN NoBus ELSE Read(CHOOSE a \in IcReads : TRUE)

\* A mutant: the data side keeps the bus.
KeepsRight == DataBus.cmds # {} \/ selRightReg

SelRight == IcReads = {} /\ (DataBus.cmds # {} \/ selRightReg)

Bus == [IF SelRight THEN DataBus ELSE IcBus EXCEPT !.cmds = IcBus.cmds \cup DataBus.cmds]

IcAnswer == [dva |-> RamDva /\ ~selRightReg, data |-> RamData]

-----------------------------------------------------------------------------
(* The core. *)

MemEna == DataDva \/ pending = Nothing
Enable == MemEna /\ IcEna

Accessing(op) == op.kind \in {"load", "store", "inval"}
Command == IF Enable /\ Accessing(execute) THEN execute ELSE Nothing
CalledBase == IF execute.kind = "call" THEN {execute.addr} ELSE {}

\* No call in the delay slots of a call.
CallsTo(b) == {Op("call", "none", b, o) : o \in Offsets \cap 0..methods[b] - 1}
NextOps  == {Nothing} \cup accesses \cup IF callSlots > 0 THEN {} ELSE UNION {CallsTo(b) : b \in DOMAIN methods}

\* Within a method the program goes on or jumps.
NextAt ==
  IF callee # NoCall THEN {callee.base + callee.off}
  ELSE IF at = 0 THEN {0}
  ELSE LET b == CHOOSE b \in DOMAIN methods : at \in b..b + methods[b] - 1
       IN  ({b + o : o \in Offsets} \cup {at + 1}) \cap (b..b + methods[b] - 1)

Go ==
  /\ Enable
  /\ execute' \in NextOps
  /\ callSlots' = IF execute'.kind = "call" THEN 3 ELSE IF callSlots = 0 THEN 0 ELSE callSlots - 1
  /\ pending' = IF Accessing(execute) THEN execute ELSE Nothing
  /\ callee' = IF execute.kind = "call" THEN Call(execute.addr, execute.data) ELSE NoCall
  /\ at' \in NextAt
  /\ fetchPc' = (IF callee # NoCall THEN callee.off + posReg ELSE fetchPc + at' - at) % CacheWords
  /\ loaded' = IF pending.kind = "load" THEN DataRead ELSE loaded
  /\ UNCHANGED <<accesses, shared>>

\* An answer that comes in a stall of the method cache is kept.
Stall ==
  /\ ~Enable
  /\ pending' = IF ~IcEna /\ DataDva THEN Nothing ELSE pending
  /\ loaded' = IF ~IcEna /\ DataDva /\ pending.kind = "load" THEN DataRead ELSE loaded
  /\ UNCHANGED <<accesses, shared, execute, callee, callSlots, fetchPc, at>>

Cached(a) == dmTag[Line(a)].valid /\ dmTag[Line(a)].addr = Align(a)

Request ==
  request' = IF Command = Nothing THEN [request EXCEPT !.new = FALSE]
             ELSE [op |-> Command, new |-> TRUE, hit |-> Cached(Command.addr)]

\* What loads may get from now on.
Remember ==
  /\ since' = IF ~Enable THEN since
              ELSE IF Command.kind = "load" /\ Command.space = "uncached" THEN {words[Command.addr]} ELSE {}
  /\ recent' = [a \in DataWords |->
       IF Enable /\ Invalidates("cached") /\ ~(Command.kind = "load" /\ Command.addr = a) THEN {words[a]}
       ELSE IF ramState = "writeExe" /\ pending.addr = a THEN {pending.data}
       ELSE recent[a]]

MemoryCycle ==
  /\ Go \/ Stall
  /\ IcCycle(CalledBase, MemEna, IcAnswer, Invalidates("code"), fetchPc')
  /\ Request /\ Reads /\ DataCache /\ Writes(Command)
  /\ selRightReg' = SelRight /\ Ram(Bus) /\ words' = WordsWritten
  /\ Remember

\* Another core stores a word between the bursts of this one.
OtherStore(a, v) ==
  /\ ramState = "ready" /\ a \in shared
  /\ words' = [words EXCEPT ![a] = v]
  /\ recent' = [recent EXCEPT ![a] = @ \cup {v}]
  /\ since' = IF pending.kind = "load" /\ pending.space = "uncached" /\ pending.addr = a
              THEN since \cup {v} ELSE since
  /\ UNCHANGED <<icVars, core, cache, selRightReg, ramState, ramAddr, wordCount, wrBuffer>>

MemoryNext == MemoryCycle \/ \E a \in DataWords : \E v \in Vals : OtherStore(a, v)

MemorySpec == MemoryInit /\ [][MemoryNext]_memVars
FairMemorySpec == MemorySpec /\ WF_memVars(MemoryCycle)

-----------------------------------------------------------------------------
(* Properties. *)

\* Whenever the pipeline moves it gets the instruction of the address it
\* stands at, however methods have been moved, wrapped, replaced and held.
FetchesCode == Enable /\ at # 0 => Instr = at

\* What that takes: methods smaller than the cache, and none so short that a
\* call can come before the walk over the tags has found the space it needs.
MethodsFit ==
  \A p \in MemoryPrograms : \A b \in DOMAIN p.methods :
    Rounded(p.methods[b]) < CacheWords /\ MethodCount <= p.methods[b] + 3

DataOp(op) == op.kind \in {"load", "store"} \/ (op.kind = "inval" /\ op.space = "cached")

Flat == INSTANCE ProgramMemory WITH
  Ops <- [kind : {"load", "store", "inval"}, space : {"cached", "uncached"},
          addr : DataWords \cup {0}, data : Vals],
  Idle <- Nothing,
  words <- words, got <- loaded, stored <- ramState = "writeRet",
  op <- IF DataOp(pending) THEN pending ELSE Nothing

\* Cached and uncached accesses between calls and invalidations in any order
\* see one memory, and of another core's stores what caches may keep.
IsMemory == Flat!Spec

\* No answer is lost or goes to the wrong side: every stall ends.
StallsEnd == []<>Enable

=============================================================================
