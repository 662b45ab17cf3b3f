------------------------------- MODULE CasMemory -------------------------------
(***************************************************************************)
(* The scratchpad with compare-and-swap of the multicore builds (CASPM):   *)
(* a core leaves an expected and a new word and reads; in its slot of      *)
(* three cycles the word is read, compared and overwritten.  The programs  *)
(* are lock and unlock of caspm.h.  A step is a clock cycle.               *)
(***************************************************************************)
EXTENDS Integers

CONSTANTS
  CasCoreCnt,
  LockIds,      \* the locks: addresses of words
  TheLock       \* the one the properties are about: any

CasCore == 0..CasCoreCnt - 1
CntMax  == 2

VARIABLES
  precnt, cnt,                            \* the cycle of the slot, and whose it is
  states, cmdRegs, addrRegs, expvalRegs, newvalRegs, respReg,
  spm, spmRdAddr,                         \* the scratchpad and its read port
  step, lockid, waiting                   \* of each program

casVars == <<precnt, cnt, states, cmdRegs, addrRegs, expvalRegs, newvalRegs, respReg,
             spm, spmRdAddr, step, lockid, waiting>>

\* The scratchpad holds zeros, as the programs expect.
CasInit ==
  /\ precnt = 0 /\ cnt = 0
  /\ states = [c \in CasCore |-> "idle"] /\ cmdRegs = [c \in CasCore |-> "RD"]
  /\ addrRegs = [c \in CasCore |-> CHOOSE l \in LockIds : TRUE]
  /\ expvalRegs = [c \in CasCore |-> 0] /\ newvalRegs = [c \in CasCore |-> 0]
  /\ respReg = [c \in CasCore |-> FALSE]
  /\ spm = [l \in LockIds |-> 0] /\ spmRdAddr = CHOOSE l \in LockIds : TRUE
  /\ step = [c \in CasCore |-> "free"] /\ waiting = [c \in CasCore |-> FALSE]
  /\ lockid \in [CasCore -> LockIds]

-----------------------------------------------------------------------------
(* The device. *)

\* Mutant: the slot ends before the word is written.
ShortSlot ==
  /\ precnt' = IF precnt >= CntMax - 1 THEN 0 ELSE precnt + 1
  /\ cnt' = IF precnt # CntMax - 1 THEN cnt ELSE IF cnt = CasCoreCnt - 1 THEN 0 ELSE cnt + 1

TimeSlot ==
  /\ precnt' = IF precnt = CntMax THEN 0 ELSE precnt + 1
  /\ cnt' = IF precnt # CntMax THEN cnt ELSE IF cnt = CasCoreCnt - 1 THEN 0 ELSE cnt + 1

Scratchpad ==
  /\ spm' = IF cmdRegs[cnt] = "WR" THEN [spm EXCEPT ![addrRegs[cnt]] = newvalRegs[cnt]] ELSE spm
  /\ spmRdAddr' = addrRegs[cnt]

Data == spm[spmRdAddr]

\* command[c] is what core c has on the bus.
Device(command) ==
  /\ TimeSlot /\ Scratchpad
  /\ states' = [c \in CasCore |->
       CASE states[c] = "idle"  -> IF command[c].cmd = "read" THEN "read" ELSE "idle"
         [] states[c] = "read"  -> IF cnt = c /\ precnt = 0 THEN "write" ELSE "read"
         [] states[c] = "write" -> "idle"]
  /\ cmdRegs' = [c \in CasCore |-> IF states[c] = "write" /\ Data = expvalRegs[c] THEN "WR" ELSE "RD"]
  /\ respReg' = [c \in CasCore |-> states[c] = "write" \/ command[c].cmd \in {"expect", "new"}]
  /\ addrRegs' = [c \in CasCore |-> IF command[c].cmd = "read" THEN command[c].arg ELSE addrRegs[c]]
  /\ expvalRegs' = [c \in CasCore |-> IF command[c].cmd = "expect" THEN command[c].arg ELSE expvalRegs[c]]
  /\ newvalRegs' = [c \in CasCore |-> IF command[c].cmd = "new" THEN command[c].arg ELSE newvalRegs[c]]

-----------------------------------------------------------------------------
(* The programs. *)

Command(cmd, arg) == [cmd |-> cmd, arg |-> arg]

\* The access of step s; lock ends with "take", unlock with "give".
Accesses(s, l) ==
  CASE s = "free"      -> Command("expect", 0)
    [] s = "lockNew"   -> Command("new", 1)
    [] s = "take"      -> Command("read", l)
    [] s = "held"      -> Command("expect", 1)
    [] s = "unlockNew" -> Command("new", 0)
    [] s = "give"      -> Command("read", l)

\* The step after the answer: the loops read until they get what they expect.
After(c) ==
  CASE step[c] = "free"      -> "lockNew"
    [] step[c] = "lockNew"   -> "take"
    [] step[c] = "take"      -> IF Data = 0 THEN "held" ELSE "take"
    [] step[c] = "held"      -> "unlockNew"
    [] step[c] = "unlockNew" -> "give"
    [] step[c] = "give"      -> IF Data = 1 THEN "free" ELSE "give"

Step(c)  == IF waiting[c] /\ respReg[c] THEN After(c) ELSE step[c]
MayGo(c) == ~waiting[c] \/ respReg[c]

\* In the cycle answers are taken and accesses go to the bus, of a core that
\* takes an answer as of one that has none to wait for.
CasCycle(going) ==
  /\ Device([c \in CasCore |-> IF c \in going THEN Accesses(Step(c), lockid[c]) ELSE Command("idle", 0)])
  /\ waiting' = [c \in CasCore |-> c \in going \/ (waiting[c] /\ ~respReg[c])]
  /\ step' = [c \in CasCore |-> Step(c)]
  /\ lockid' \in {ids \in [CasCore -> LockIds] :
                   \A c \in CasCore : step[c] # "give" \/ step'[c] # "free" => ids[c] = lockid[c]}

CasNext == \E going \in SUBSET {c \in CasCore : MayGo(c)} : CasCycle(going)

CasSpec == CasInit /\ [][CasNext]_casVars

CoreGoes(c) == CasNext /\ ~waiting[c] /\ waiting'[c]

\* The clock and the cores go on.
CasFairness == WF_casVars(CasNext) /\ \A c \in CasCore : WF_casVars(CoreGoes(c))

-----------------------------------------------------------------------------
(* Properties. *)

WordHolders == {c \in CasCore : step[c] \in {"held", "unlockNew", "give"} /\ lockid[c] = TheLock}

WordMutex == INSTANCE Lock WITH Core <- CasCore, holders <- WordHolders

\* While cores want a lock, one of them gets it, sooner or later.
SomeGranted ==
  (\E c \in CasCore : step[c] = "take" /\ lockid[c] = TheLock)
    ~> (\E c \in CasCore : step[c] = "held" /\ lockid[c] = TheLock)

\* A word is a lock, although cores read, compare and write it in turn.
IsCasLock == WordMutex!Spec

=============================================================================
