------------------------------- MODULE Pipeline -------------------------------
(***************************************************************************)
(* The control of the pipeline of a core and its exception unit, cycle by  *)
(* cycle: fetch, decode, execute and memory stage, the flushes, the delay  *)
(* slots, the exception calls that replace an instruction in decode, the   *)
(* pending flags and the status, and sleep.  Data is left out: an          *)
(* instruction is its kind, its address and its target.                    *)
(***************************************************************************)
EXTENDS Integers, Sequences

CONSTANTS
  Programs,     \* the programs considered
  Interrupts, Handler,
  Levels,       \* how many levels the status register is deep
  LastPc        \* the last address, after which fetch goes on with the first

VARIABLES
  code,
  pc,               \* pcReg
  dec, ex, mem,     \* the registers in front of the stages
  inDelaySlot,
  excOff,           \* excOffReg: where xret goes
  mayStall, illMemReg, errResp,
  master,           \* the command at the exception unit
  status,           \* its interrupt enables, the current one first
  excPend, intrPend, exc, intr, srcReg, excAddr, sleep,
  pins,             \* RegNext(io.intrs)
  ip, slots, target, saved, window,   \* history: what has completed
  owed              \* history: pulses not answered yet

stages  == <<pc, dec, ex, mem, inDelaySlot, excOff, mayStall, illMemReg, errResp, master>>
unit    == <<status, excPend, intrPend, exc, intr, srcReg, excAddr, sleep, pins>>
history == <<ip, slots, target, saved, window>>
vars    == <<code, stages, unit, history, owed>>

\* Of an instruction word only this; a flushed one keeps its address.
Instruction(i, a) == [kind |-> i.kind, to |-> i.to, pc |-> a]
Flushed(a)        == [kind |-> "none", to |-> 0, pc |-> a]

Proc == INSTANCE Processor

\* Commands for the exception unit, and all loads and stores.
UnitOps == {"ei", "di", "clear", "sleep"}
MemOps  == UnitOps \cup {"mem", "bad"}
Calls   == {"call", "callnd", "xret", "xcall"}

\* What a program is made of, and what does not stand in a delay slot.
Transfers == {"br", "brnd", "call", "callnd", "xret", "trap"}
Kinds     == Transfers \cup MemOps \cup {"alu", "mul", "ill"}

DelaySlots(i) == IF i.kind = "br" THEN 2 ELSE IF i.kind \in {"call", "xret"} THEN 3 ELSE 0
Plain(p, a)   == a \in DOMAIN p => p[a].kind \notin Transfers

\* The sources of faults are 0 and 1.  Traps do not use the numbers of pins, and
\* there are no branches in the delay slots of others.
ASSUME PipelineAssumption ==
  /\ Interrupts \subseteq Nat \ {0, 1}
  /\ DOMAIN Handler \subseteq Nat /\ {0, 1} \cup Interrupts \subseteq DOMAIN Handler
  /\ \A source \in DOMAIN Handler : Handler[source] \in Nat
  /\ Levels \in Nat \ {0}
  /\ \A p \in Programs : \A a \in DOMAIN p :
       /\ p[a] \in [kind : Kinds, to : Nat]
       /\ p[a].kind = "trap" => p[a].to \in DOMAIN Handler \ Interrupts
       /\ DelaySlots(p[a]) > 0 =>
            LET b == Proc!Following(a)
                c == Proc!Following(b)
            IN  /\ Plain(p, b) /\ Plain(p, c)
                /\ DelaySlots(p[a]) = 3 => Plain(p, Proc!Following(c))

Lowest(s) == CHOOSE i \in s : \A j \in s : i <= j

Init ==
  /\ code \in Programs
  /\ pc = 0 /\ dec = Flushed(0) /\ ex = Flushed(0) /\ mem = Flushed(0)
  /\ inDelaySlot \in 0..3 /\ excOff = 0
  /\ mayStall = FALSE /\ illMemReg = FALSE /\ errResp = FALSE /\ master = "none"
  /\ status = [l \in 1..Levels |-> FALSE] /\ excPend = {} /\ intrPend = {} /\ exc = FALSE /\ intr = FALSE
  /\ srcReg = 0 /\ excAddr = 0 /\ sleep = FALSE /\ pins = {}
  /\ Proc!Init
  /\ owed = {}

-----------------------------------------------------------------------------
(* The wires of a cycle, in which the bus answers bus and the method cache *)
(* misses or not.                                                          *)

intrEna == Head(status)
Woken   == sleep /\ (exc \/ (intr /\ intrEna))

Resp(bus) ==
  IF errResp THEN "ERR"
  ELSE IF Woken \/ master \in UnitOps \ {"sleep"} THEN "DVA" ELSE bus

Ena(bus, miss) == (Resp(bus) = "DVA" \/ ~mayStall) /\ ~miss

Flush   == mem.kind \in {"xcall", "trap", "callnd", "ill"} \/ illMemReg
BrFlush == ex.kind = "brnd" /\ ~Flush

\* exReg flushed, or not executed because of a flush.
Executed == IF Flush THEN Flushed(ex.pc) ELSE ex

\* A mutant: into a delay slot.
InjectAnywhere == exc \/ (intr /\ intrEna)

Inject == exc \/ (intr /\ intrEna /\ inDelaySlot = 0)

Decoded ==
  IF Inject THEN [kind |-> "xcall", to |-> srcReg, pc |-> IF exc THEN excAddr ELSE dec.pc]
  ELSE dec

-----------------------------------------------------------------------------
(* The stages. *)

FetchStage ==
  pc' = IF mem.kind = "xcall" THEN Handler[mem.to]
        ELSE IF mem.kind \in Calls THEN mem.to
        ELSE IF Executed.kind \in {"br", "brnd"} THEN ex.to
        ELSE Proc!Following(pc)

\* A mutant: the count goes on below zero.
SlotsUnguarded(i) ==
  CASE i.kind \in {"call", "callnd", "xret", "xcall"} -> 3
    [] i.kind \in {"br", "brnd"} -> 2
    [] OTHER -> inDelaySlot - 1

\* A multiplication keeps interrupts out for one more.
SlotsAfter(i) ==
  CASE i.kind \in {"call", "callnd", "xret", "xcall"} -> 3
    [] i.kind \in {"br", "brnd"} -> 2
    [] i.kind = "mul" -> IF inDelaySlot > 1 THEN inDelaySlot - 1 ELSE 1
    [] OTHER -> IF inDelaySlot = 0 THEN 0 ELSE inDelaySlot - 1

DecodeStage ==
  /\ dec' = IF Flush \/ BrFlush THEN Flushed(pc) ELSE Instruction(Proc!At(pc), pc)
  /\ inDelaySlot' = IF Flush \/ BrFlush THEN 1 ELSE SlotsAfter(Decoded)

ExecuteStage ==
  /\ ex' = IF Flush \/ BrFlush THEN Flushed(Decoded.pc) ELSE Decoded
  /\ excOff' = IF Executed.kind = "xcall" THEN ex.pc ELSE excOff

\* Where xret returns to is known from here on.
MemoryStage ==
  /\ mem' = CASE Executed.kind = "xret" -> [ex EXCEPT !.to = excOff]
              [] OTHER -> Executed
  /\ master' = IF Executed.kind \in UnitOps THEN ex.kind ELSE "none"
  /\ errResp' = (errResp \/ Executed.kind = "bad")

Advance(bus, miss) ==
  IF Ena(bus, miss)
  THEN FetchStage /\ DecodeStage /\ ExecuteStage /\ MemoryStage
  ELSE /\ UNCHANGED <<pc, dec, inDelaySlot, ex, excOff, mem, errResp>>
       /\ master' = "none"

\* Not held by a stall.
ErrorResponse(bus, miss) ==
  /\ illMemReg' = (Resp(bus) = "ERR")
  /\ mayStall' = IF Resp(bus) = "ERR" THEN FALSE
                 ELSE IF Ena(bus, miss) THEN Executed.kind \in MemOps ELSE mayStall

-----------------------------------------------------------------------------
(* The exception unit, which is not held by a stall but for the status.    *)

Called       == IF mem.kind = "xcall" THEN {mem.to} ELSE {}
Raised       == IF mem.kind = "ill" THEN {0} ELSE IF illMemReg THEN {1}
                ELSE IF mem.kind = "trap" THEN {mem.to} ELSE {}

\* Mutants: a pin goes under in an acknowledgement; an acknowledgement that
\* leaves the flag.
PinsFirst  == ((IF master = "clear" THEN {} ELSE intrPend) \cup pins) \ Called
NotCleared == (IF master = "clear" THEN {} ELSE intrPend) \cup pins

\* The order of the assignments: software, the acknowledgement, the pins.
IntrPend == ((IF master = "clear" THEN {} ELSE intrPend) \ Called) \cup pins
ExcPend  == (excPend \ Called) \cup Raised

Written ==
  CASE master = "ei" -> [status EXCEPT ![1] = TRUE]
    [] master = "di" -> [status EXCEPT ![1] = FALSE]
    [] OTHER -> status

\* A mutant: the status is shifted in every cycle of a stalled call.
ShiftAlways(ena) ==
  CASE mem.kind = "xcall" -> SubSeq(<<FALSE>> \o status, 1, Levels)
    [] mem.kind = "xret" -> Append(Tail(status), FALSE)
    [] OTHER -> Written

\* Shifted by an exception call and its return, when the pipeline moves.
Shifted(ena) ==
  CASE ena /\ mem.kind = "xcall" -> SubSeq(<<FALSE>> \o status, 1, Levels)
    [] ena /\ mem.kind = "xret" -> Append(Tail(status), FALSE)
    [] OTHER -> Written

ExceptionUnit(pulse, ena) ==
  /\ status' = Shifted(ena)
  /\ excPend' = ExcPend /\ exc' = (ExcPend # {})
  /\ intrPend' = IntrPend /\ intr' = (IntrPend # {})
  /\ srcReg' = IF ExcPend # {} THEN Lowest(ExcPend)
               ELSE IF IntrPend # {} THEN Lowest(IntrPend) ELSE 0
  /\ excAddr' = IF Raised = {} THEN excAddr
                ELSE IF mem.kind = "trap" THEN Proc!Following(mem.pc) ELSE mem.pc
  /\ sleep' = (~Woken /\ (sleep \/ master = "sleep"))
  /\ pins' = pulse

-----------------------------------------------------------------------------
(* What completes is what leaves the memory stage.                         *)

Completed(ena) ==
  IF ~ena \/ mem.kind \in {"none", "ill"} \/ illMemReg THEN UNCHANGED <<code, history>>
  ELSE IF mem.kind = "xcall" THEN Proc!Enter(mem.to, mem.pc)
  ELSE Proc!Complete(mem, mem.pc)

\* A pulse is answered when the handler starts after it, or forgotten when
\* the program clears its flag.
Answered(pulse, ena) ==
  owed' = ((IF master = "clear" THEN owed \cap pins ELSE owed)
           \ (IF ena THEN Called \ pins ELSE {})) \cup pulse

Cycle(pulse, bus, miss) ==
  /\ bus # "NULL" => mayStall /\ mem.kind = "mem"
  /\ miss => mem.kind \in Calls
  /\ Advance(bus, miss)
  /\ ErrorResponse(bus, miss)
  /\ ExceptionUnit(pulse, Ena(bus, miss))
  /\ Completed(Ena(bus, miss))
  /\ Answered(pulse, Ena(bus, miss))

Next ==
  \E pulse \in SUBSET Interrupts, bus \in {"NULL", "DVA", "ERR"}, miss \in BOOLEAN :
    Cycle(pulse, bus, miss)

\* A cycle in which the pipeline moves.
Moves ==
  \E pulse \in SUBSET Interrupts, bus \in {"NULL", "DVA", "ERR"} :
    Ena(bus, FALSE) /\ Cycle(pulse, bus, FALSE)

Spec == Init /\ [][Next]_vars

\* The clock runs, the bus answers and the method cache ends its misses.
FairSpec == Spec /\ WF_vars(Next) /\ WF_vars(Moves)

-----------------------------------------------------------------------------
(* Properties. *)

TypeOK ==
  /\ {dec, ex, mem} \subseteq [kind : Kinds \cup {"none", "xcall"}, to : Nat, pc : Nat]
  /\ pc \in Nat
  /\ inDelaySlot \in 0..3 /\ excOff \in Nat /\ excAddr \in Nat
  /\ {mayStall, illMemReg, errResp, exc, intr, sleep} \subseteq BOOLEAN
  /\ master \in UnitOps \cup {"none"}
  /\ status \in [1..Levels -> BOOLEAN]
  /\ excPend \subseteq DOMAIN Handler /\ srcReg \in DOMAIN Handler
  /\ intrPend \subseteq Interrupts /\ pins \subseteq Interrupts /\ owed \subseteq Interrupts

\* The program is undisturbed: whatever is stalled, flushed and replaced in
\* whichever stage, instructions complete once and in order, branches after
\* their delay slots, a handler starts between two instructions, never in a
\* delay slot and at most one instruction after interrupts were disabled,
\* and returns to where it started.
IsProcessor == Proc!Spec

\* No pulse of a pin is lost: not in the cycle of an acknowledgement, nor in
\* the cycles a call is stalled and acknowledges again, nor when a flush
\* removes a call that is under way.
NothingLost == owed \subseteq intrPend \cup pins \cup Called

\* And none is answered twice: a handler starts only for a pulse that came
\* after its last start, although the call acknowledges its request in the
\* memory stage, cycles after the flag was looked at.
NeverClears  == \A a \in DOMAIN code : code[a].kind # "clear"
AnsweredOnce ==
  [][NeverClears /\ mem.kind = "xcall" /\ saved' # saved /\ mem.to \in Interrupts
     => mem.to \in owed]_vars

\* The first interrupt is answered, asleep or not, in a program that keeps
\* interrupts enabled and does not fault.
Willing == \A a \in DOMAIN code : code[a].kind \notin {"di", "clear", "mem", "ill", "bad"}
Served  ==
  LET i == Lowest(Interrupts)
  IN  Willing /\ i \in owed ~> mem.kind = "xcall" /\ mem.to = i

\* "Illegal memory access": the handler of an access without a device starts.
FaultHandled == errResp ~> ip = Handler[1]

=============================================================================
