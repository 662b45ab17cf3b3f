------------------------------- MODULE Hardlock -------------------------------
(***************************************************************************)
(* The locking unit of the multicore builds, with its OCP wrapper and the  *)
(* programs that use it through hardlock.h.  A core that asks for a lock   *)
(* is not answered before it has it.  A step is a clock cycle; every core  *)
(* may issue a command in each.                                            *)
(***************************************************************************)
EXTENDS Integers

CONSTANTS
  HlCoreCnt, LckCnt,
  HlLock            \* the one the properties are about: any

Core == 0..HlCoreCnt - 1
Lck  == 0..LckCnt - 1

VARIABLES
  queueReg, curReg,   \* of each lock: who asks for it, whose turn it is
  reqReg,             \* who has not been answered
  asked,              \* the last command of each core
  held                \* the locks each core has had before the cycle

hlVars == <<queueReg, curReg, reqReg, asked, held>>

NoCommand      == [op |-> "none", sel |-> 0]
Lock(l)        == [op |-> "lock", sel |-> l]
Unlock(l)      == [op |-> "unlock", sel |-> l]
Commands       == {NoCommand} \cup {Lock(l) : l \in Lck} \cup {Unlock(l) : l \in Lck}

HlInit ==
  /\ queueReg = [l \in Lck |-> [c \in Core |-> FALSE]]
  /\ curReg = [l \in Lck |-> 0]
  /\ reqReg = [c \in Core |-> FALSE]
  /\ asked = [c \in Core |-> NoCommand]
  /\ held = [c \in Core |-> {}]

-----------------------------------------------------------------------------
(* The unit. *)

Blck(c)     == \E l \in Lck : queueReg[l][c] /\ curReg[l] # c
Responds(c) == reqReg[c] /\ ~Blck(c)

Least(s) == CHOOSE c \in s : \A d \in s : c <= d

\* Mutant: the encoder passes over the core whose turn it is.
PassesOn(l) ==
  LET hi == {c \in Core : queueReg[l][c] /\ curReg[l] < c}
      lo == {c \in Core : queueReg[l][c] /\ curReg[l] >= c}
  IN  IF hi # {} THEN Least(hi) ELSE IF lo # {} THEN Least(lo) ELSE HlCoreCnt - 1

\* The circular priority encoder; one without an input gives its last output.
Encoder(l) ==
  LET hi == {c \in Core : queueReg[l][c] /\ curReg[l] <= c}
      lo == {c \in Core : queueReg[l][c] /\ curReg[l] > c}
  IN  IF hi # {} THEN Least(hi) ELSE IF lo # {} THEN Least(lo) ELSE HlCoreCnt - 1

Unit(command) ==
  /\ queueReg' = [l \in Lck |-> [c \in Core |->
       IF command[c].op # "none" /\ command[c].sel = l THEN command[c].op = "lock"
       ELSE queueReg[l][c]]]
  /\ curReg' = [l \in Lck |-> Encoder(l)]
  /\ reqReg' = [c \in Core |-> command[c].op # "none" \/ (reqReg[c] /\ ~Responds(c))]

-----------------------------------------------------------------------------
(* The programs: a core that holds several locks has asked for them in     *)
(* ascending order.                                                        *)

\* A core has a lock from the answer on.
Holds(c) == held[c] \cup (IF Responds(c) /\ asked[c].op = "lock" THEN {asked[c].sel} ELSE {})
Leaves(command) == IF command.op = "unlock" THEN {command.sel} ELSE {}

MayAsk(c, command) ==
  \/ command = NoCommand
  \/ /\ ~reqReg[c] \/ Responds(c)
     /\ \/ command.op = "unlock" /\ command.sel \in Holds(c)
        \/ command.op = "lock" /\ \A l \in Holds(c) : l < command.sel

\* In the cycle the cores issue these commands.
Issues(command) ==
  /\ \A c \in Core : MayAsk(c, command[c])
  /\ Unit(command)
  /\ asked' = [c \in Core |-> IF command[c] = NoCommand THEN asked[c] ELSE command[c]]
  /\ held' = [c \in Core |-> Holds(c) \ Leaves(command[c])]

HlCycle == \E command \in [Core -> Commands] : Issues(command)

HlSpec == HlInit /\ [][HlCycle]_hlVars

CoreLeaves(c) ==
  /\ Holds(c) # {}
  /\ \E command \in [Core -> Commands] : command[c].op = "unlock" /\ Issues(command)

\* The clock goes on, and a core does not keep its locks.
HlFairness == WF_hlVars(HlCycle) /\ \A c \in Core : WF_hlVars(CoreLeaves(c))

-----------------------------------------------------------------------------
(* Properties. *)

Holders == {c \in Core : HlLock \in Holds(c)}

Mutex == INSTANCE Lock WITH holders <- Holders

\* A core that asks for the lock gets it.
EachGranted ==
  \A c \in Core : (reqReg[c] /\ asked[c] = Lock(HlLock)) ~> HlLock \in Holds(c)

\* The unit is a lock, whatever turns it gives and whichever locks are held.
IsUnitLock == Mutex!Spec

=============================================================================
