---------------------------- MODULE PipelineProofs ----------------------------
(***************************************************************************)
(* For every program, set of interrupts and depth of the status register:  *)
(* no interrupt is lost and none answered twice, and what leaves the       *)
(* memory stage is the program, an instruction or a handler after another. *)
(***************************************************************************)
EXTENDS Pipeline, SequenceTheorems, WellFoundedInduction, TLAPS

\* A stall leaves the call in the memory stage, which goes on acknowledging;
\* in a cycle that moves, an acknowledged pulse is answered unless it is still
\* in the pin register.
LEMMA CycleKeepsPulses ==
  ASSUME NothingLost,
         NEW pulse, NEW bus, NEW miss,
         Cycle(pulse, bus, miss)
  PROVE  NothingLost'
<1> DEFINE ena == Ena(bus, miss)
<1>1. /\ intrPend' = IntrPend /\ pins' = pulse
      /\ owed' = ((IF master = "clear" THEN owed \cap pins ELSE owed)
                    \ (IF ena THEN Called \ pins ELSE {})) \cup pulse
  BY DEF Cycle, ExceptionUnit, Answered
<1>2. ~ena => mem' = mem
  BY DEF Cycle, Advance
<1>3. ~ena => Called' = Called
  BY <1>2 DEF Called
<1> HIDE DEF ena
<1>4. SUFFICES ASSUME NEW i \in owed', i \notin pulse
               PROVE  i \in intrPend' \cup Called'
  BY <1>1 DEF NothingLost
<1>5. i \in owed /\ (master = "clear" => i \in pins) /\ (ena => i \notin Called \ pins)
  BY <1>1, <1>4
<1>6. CASE i \in pins
  BY <1>1, <1>6 DEF IntrPend
<1>7. CASE i \notin pins /\ i \in Called
  BY <1>3, <1>5, <1>7
<1>8. CASE i \notin pins /\ i \notin Called
  BY <1>1, <1>5, <1>8 DEF NothingLost, IntrPend
<1> QED BY <1>6, <1>7, <1>8

\* Every pulse of a pin is pending, latched or being answered, until its
\* handler starts or the program clears it.
THEOREM PulsesKept == Spec => []NothingLost
<1>1. Init => NothingLost
  BY DEF Init, NothingLost
<1>2. NothingLost /\ [Next]_vars => NothingLost'
  <2> SUFFICES ASSUME NothingLost, [Next]_vars PROVE NothingLost'
    OBVIOUS
  <2>1. CASE Next
    BY <2>1, CycleKeepsPulses DEF Next
  <2>2. CASE UNCHANGED vars
    BY <2>2 DEF vars, stages, unit, NothingLost, Called
  <2> QED BY <2>1, <2>2
<1> QED BY <1>1, <1>2, PTL DEF Spec

-----------------------------------------------------------------------------
(* No pulse is answered twice. *)

Instructed(x) ==
  /\ x = [kind |-> x.kind, to |-> x.to, pc |-> x.pc]
  /\ x.kind # "clear"
  /\ x.kind = "trap" => x.to \in Nat \ Interrupts

Program == code \in Programs /\ Instructed(dec) /\ Instructed(ex) /\ Instructed(mem)
           /\ dec.kind # "xcall" /\ master # "clear"

\* The source to be called is one that is pending.
Source ==
  /\ intrPend \subseteq Interrupts /\ pins \subseteq Interrupts
  /\ excPend \subseteq Nat \ Interrupts
  /\ exc => srcReg \in excPend
  /\ ~exc /\ intr => srcReg \in intrPend

\* A call on its way is for a pulse not answered yet.
CallOwed(x) == x.kind = "xcall" /\ x.to \in Interrupts => x.to \in owed
Owed        == intrPend \cup pins \subseteq owed /\ CallOwed(ex) /\ CallOwed(mem)

AnswerInv == NeverClears => Program /\ Source /\ Owed

LEMMA LowestIsMember ==
  ASSUME NEW S \in SUBSET Nat, S # {}
  PROVE  Lowest(S) \in S
<1> DEFINE less == OpToRel(<, Nat)
<1>1. IsWellFoundedOn(less, Nat)
  BY NatLessThanWellFounded
<1>2. \A x, y \in Nat : y < x => <<y, x>> \in less
  BY DEF OpToRel
<1> HIDE DEF less
<1>3. PICK x \in S : \A y \in S : ~ (<<y, x>> \in less)
  BY <1>1, WFMin
<1>4. ASSUME NEW y \in S PROVE x <= y
  <2>1. x \in Nat /\ y \in Nat
    OBVIOUS
  <2>2. ~ (y < x)
    BY <1>2, <1>3, <2>1
  <2> QED BY <2>1, <2>2
<1> QED BY <1>4 DEF Lowest

LEMMA CodeStays ==
  ASSUME [Next]_vars
  PROVE  code' = code
BY DEF Next, Cycle, Completed, Proc!Enter, Proc!Complete, vars

LEMMA FetchedInstructed ==
  ASSUME NeverClears, code \in Programs, NEW a, NEW b
  PROVE  /\ Instructed(Instruction(Proc!At(a), b)) /\ Instruction(Proc!At(a), b).kind # "xcall"
         /\ Instructed(Flushed(b)) /\ Flushed(b).kind = "none"
<1>1. Instructed(Flushed(b)) /\ Flushed(b).kind = "none"
  BY DEF Flushed, Instructed
<1>2. CASE a \in DOMAIN code
  <2>1. /\ code[a] \in [kind : Kinds, to : Nat]
        /\ code[a].kind = "trap" => code[a].to \in DOMAIN Handler \ Interrupts
    BY <1>2, PipelineAssumption
  <2>2. code[a].kind # "xcall"
    BY <2>1 DEF Kinds, Transfers, MemOps, UnitOps
  <2> QED BY <1>1, <1>2, <2>1, <2>2, PipelineAssumption DEF NeverClears, Proc!At, Instruction, Instructed
<1>3. CASE a \notin DOMAIN code
  BY <1>1, <1>3 DEF Proc!At, Instruction, Instructed
<1> QED BY <1>2, <1>3

\* The registers of the stages hold what was decoded, or nothing.
LEMMA StepsKeepProgram ==
  ASSUME NeverClears, Program, NEW pulse, NEW bus, NEW miss, Cycle(pulse, bus, miss), code' = code
  PROVE  Program'
<1>1. CASE ~Ena(bus, miss)
  BY <1>1 DEF Cycle, Advance, Program, Instructed
<1>2. CASE Ena(bus, miss)
  <2>1. FetchStage /\ DecodeStage /\ ExecuteStage /\ MemoryStage
    BY <1>2 DEF Cycle, Advance
  <2>2. Instructed(dec)' /\ dec'.kind # "xcall"
    BY <2>1, FetchedInstructed DEF DecodeStage, Program, Instructed
  <2>3. Instructed(Decoded)
    BY DEF Decoded, Program, Instructed
  <2>4. Instructed(ex)'
    BY <2>1, <2>3, FetchedInstructed DEF ExecuteStage, Program, Instructed
  <2>5. Instructed(Executed) /\ (Executed.kind = "xret" => Executed = ex)
    BY FetchedInstructed DEF Executed, Program
  <2>6. Instructed(mem)'
    <3>1. CASE Executed.kind = "xret"
      BY <2>1, <2>5, <3>1 DEF MemoryStage, Program, Instructed
    <3>2. CASE Executed.kind # "xret"
      BY <2>1, <2>5, <3>2 DEF MemoryStage, Instructed
    <3> QED BY <3>1, <3>2
  <2>7. master' # "clear"
    <3>1. Executed.kind \in UnitOps => Executed = ex
      BY FetchedInstructed DEF Executed, Program, UnitOps
    <3> QED BY <2>1, <3>1 DEF MemoryStage, Program, Instructed, UnitOps
  <2> QED BY <2>2, <2>4, <2>6, <2>7 DEF Program
<1> QED BY <1>1, <1>2

LEMMA StepsKeepSource ==
  ASSUME Program, Source, NEW pulse \in SUBSET Interrupts, NEW bus, NEW miss,
         Cycle(pulse, bus, miss)
  PROVE  Source'
<1>1. /\ excPend' = ExcPend /\ exc' = (ExcPend # {})
      /\ intrPend' = IntrPend /\ intr' = (IntrPend # {}) /\ pins' = pulse
      /\ srcReg' = IF ExcPend # {} THEN Lowest(ExcPend)
                   ELSE IF IntrPend # {} THEN Lowest(IntrPend) ELSE 0
  BY DEF Cycle, ExceptionUnit
<1>2. IntrPend \subseteq Interrupts
  BY DEF IntrPend, Source
<1>3. Raised \subseteq Nat \ Interrupts
  BY PipelineAssumption DEF Raised, Program, Instructed
<1>4. ExcPend \subseteq Nat \ Interrupts
  BY <1>3 DEF ExcPend, Source
<1>5. ExcPend # {} => Lowest(ExcPend) \in ExcPend
  BY <1>4, LowestIsMember
<1>6. IntrPend # {} => Lowest(IntrPend) \in IntrPend
  BY <1>2, LowestIsMember, PipelineAssumption
<1> QED BY <1>1, <1>2, <1>4, <1>5, <1>6 DEF Source

\* The call in the memory stage is answered in a cycle that moves, and flushes
\* the one in the execute stage and the one about to be injected.
LEMMA StepsKeepOwed ==
  ASSUME Program, Source, Owed, NEW pulse \in SUBSET Interrupts, NEW bus, NEW miss,
         Cycle(pulse, bus, miss)
  PROVE  Owed'
<1> DEFINE ena == Ena(bus, miss)
<1>1. /\ intrPend' = IntrPend /\ pins' = pulse
      /\ owed' = (owed \ (IF ena THEN Called \ pins ELSE {})) \cup pulse
  BY DEF Cycle, ExceptionUnit, Answered, Program
<1>2. (intrPend \cup pins)' \subseteq owed'
  BY <1>1 DEF IntrPend, Owed, Called
<1>3. CASE ~ena
  <2>1. ex' = ex /\ mem' = mem /\ owed \subseteq owed'
    BY <1>1, <1>3 DEF Cycle, Advance
  <2> QED BY <1>2, <2>1 DEF Owed, CallOwed
<1>4. CASE ena
  <2>1. ExecuteStage /\ MemoryStage
    BY <1>4 DEF Cycle, Advance
  <2>2. CASE mem.kind = "xcall"
    <3>1. ex'.kind = "none" /\ mem'.kind = "none"
      BY <2>1, <2>2 DEF ExecuteStage, MemoryStage, Executed, Flush, Flushed
    <3> QED BY <1>2, <3>1 DEF Owed, CallOwed
  <2>3. CASE mem.kind # "xcall"
    <3>1. owed \subseteq owed'
      BY <1>1, <2>3 DEF Called
    <3>2. CallOwed(mem)'
      BY <2>1, <3>1 DEF MemoryStage, Executed, Flushed, Owed, CallOwed, Program, Instructed
    <3>3. CallOwed(ex)'
      <4>1. Decoded.kind = "xcall" /\ Decoded.to \in Interrupts => Decoded.to \in intrPend
        BY DEF Decoded, Inject, Source, Program
      <4> QED BY <2>1, <3>1, <4>1 DEF ExecuteStage, Flushed, Owed, CallOwed
    <3> QED BY <1>2, <3>2, <3>3 DEF Owed
  <2> QED BY <2>2, <2>3
<1> QED BY <1>3, <1>4

LEMMA AnswerInvariant == Spec => []AnswerInv
<1>1. Init => AnswerInv
  <2> SUFFICES ASSUME Init PROVE Program /\ Source /\ Owed
    BY DEF AnswerInv
  <2> QED BY DEF Init, Program, Instructed, Flushed, Source, Owed, CallOwed
<1>2. AnswerInv /\ [Next]_vars => AnswerInv'
  <2> SUFFICES ASSUME AnswerInv, [Next]_vars, NeverClears' PROVE (Program /\ Source /\ Owed)'
    BY DEF AnswerInv
  <2>1. code' = code /\ NeverClears
    BY CodeStays DEF NeverClears
  <2>2. Program /\ Source /\ Owed
    BY <2>1 DEF AnswerInv
  <2>3. CASE Next
    <3>1. PICK pulse \in SUBSET Interrupts, bus \in {"NULL", "DVA", "ERR"}, miss \in BOOLEAN :
            Cycle(pulse, bus, miss)
      BY <2>3 DEF Next
    <3> QED BY <2>1, <2>2, <3>1, StepsKeepProgram, StepsKeepSource, StepsKeepOwed
  <2>4. CASE UNCHANGED vars
    BY <2>2, <2>4 DEF vars, stages, unit, history, Program, Instructed, Source, Owed, CallOwed
  <2> QED BY <2>3, <2>4
<1> QED BY <1>1, <1>2, PTL DEF Spec

\* In a program that never clears the flags, the handler of a pin starts only
\* for a pulse that came since its last start.
THEOREM PulsesAnsweredOnce == Spec => AnsweredOnce
<1>1. AnswerInv => [NeverClears /\ mem.kind = "xcall" /\ saved' # saved /\ mem.to \in Interrupts
                    => mem.to \in owed]_vars
  BY DEF AnswerInv, Owed, CallOwed
<1> QED BY <1>1, AnswerInvariant, PTL DEF Spec, AnsweredOnce

-----------------------------------------------------------------------------
(* Types. *)

Item == [kind : Kinds \cup {"none", "xcall"}, to : Nat, pc : Nat]

\* Where a handler is called, there is one.
Sourced(x) ==
  /\ x.kind = "trap" => x.to \in DOMAIN Handler \ Interrupts
  /\ x.kind = "xcall" => x.to \in DOMAIN Handler

Typed ==
  /\ TypeOK /\ code \in Programs
  /\ Sourced(dec) /\ Sourced(ex) /\ Sourced(mem) /\ dec.kind # "xcall"

LEMMA FetchedTyped ==
  ASSUME code \in Programs, NEW a \in Nat, NEW b \in Nat
  PROVE  /\ Instruction(Proc!At(a), b) \in Item /\ Sourced(Instruction(Proc!At(a), b))
         /\ Instruction(Proc!At(a), b).kind \in Kinds
         /\ Flushed(b) \in Item /\ Sourced(Flushed(b))
<1>1. Flushed(b) \in Item /\ Sourced(Flushed(b))
  BY DEF Flushed, Item, Sourced
<1>2. Proc!At(a) \in [kind : Kinds, to : Nat]
      /\ (Proc!At(a).kind = "trap" => Proc!At(a).to \in DOMAIN Handler \ Interrupts)
  <2>1. CASE a \in DOMAIN code
    BY <2>1, PipelineAssumption DEF Proc!At
  <2>2. CASE a \notin DOMAIN code
    <3>1. Proc!At(a) = [kind |-> "alu", to |-> 0]
      BY <2>2 DEF Proc!At
    <3>2. "alu" \in Kinds
      BY DEF Kinds
    <3> QED BY <3>1, <3>2
  <2> QED BY <2>1, <2>2
<1>3. Proc!At(a).kind # "xcall"
  BY <1>2 DEF Kinds, Transfers, MemOps, UnitOps
<1> QED BY <1>1, <1>2, <1>3 DEF Instruction, Item, Sourced

LEMMA FollowingTyped == ASSUME NEW a \in Nat PROVE Proc!Following(a) \in Nat
BY DEF Proc!Following

LEMMA InitTyped == Init => Typed
<1> SUFFICES ASSUME Init PROVE Typed
  OBVIOUS
<1>1. code \in Programs /\ dec = Flushed(0) /\ ex = Flushed(0) /\ mem = Flushed(0)
  BY DEF Init
<1>2. {dec, ex, mem} \subseteq Item /\ Sourced(dec) /\ Sourced(ex) /\ Sourced(mem) /\ dec.kind # "xcall"
  BY <1>1 DEF Flushed, Item, Sourced
<1> QED BY <1>1, <1>2, PipelineAssumption DEF Init, Typed, TypeOK, Item

LEMMA StagesTyped ==
  ASSUME Typed, code' = code, NEW pulse, NEW bus, NEW miss, Cycle(pulse, bus, miss)
  PROVE  /\ {dec', ex', mem'} \subseteq Item
         /\ Sourced(dec') /\ Sourced(ex') /\ Sourced(mem') /\ dec'.kind # "xcall"
         /\ pc' \in Nat /\ inDelaySlot' \in 0..3 /\ excOff' \in Nat
         /\ {mayStall', illMemReg', errResp'} \subseteq BOOLEAN
         /\ master' \in UnitOps \cup {"none"}
<1>1. /\ {dec, ex, mem} \subseteq Item /\ Sourced(dec) /\ Sourced(ex) /\ Sourced(mem)
      /\ dec.kind # "xcall" /\ pc \in Nat /\ inDelaySlot \in 0..3 /\ excOff \in Nat /\ excAddr \in Nat
      /\ mayStall \in BOOLEAN /\ errResp \in BOOLEAN /\ srcReg \in DOMAIN Handler /\ code \in Programs
  BY DEF Typed, TypeOK, Item
<1>2. /\ dec.pc \in Nat /\ ex.pc \in Nat /\ mem.pc \in Nat /\ ex.to \in Nat /\ mem.to \in Nat
      /\ srcReg \in Nat
  BY <1>1, PipelineAssumption DEF Item
<1>3. Executed \in Item /\ Sourced(Executed)
  BY <1>1, <1>2, FetchedTyped DEF Executed
<1>4. Decoded \in Item /\ Sourced(Decoded)
  BY <1>1, <1>2, FetchedTyped DEF Decoded, Item, Sourced
<1>5. /\ illMemReg' \in BOOLEAN /\ mayStall' \in BOOLEAN
  <2>1. illMemReg' = (Resp(bus) = "ERR")
    BY DEF Cycle, ErrorResponse
  <2>2. \/ mayStall' = FALSE
        \/ mayStall' = (Executed.kind \in MemOps)
        \/ mayStall' = mayStall
    BY DEF Cycle, ErrorResponse
  <2>3. illMemReg' \in BOOLEAN
    BY <2>1
  <2>4. mayStall' \in BOOLEAN
    <3>1. mayStall \in BOOLEAN /\ (Executed.kind \in MemOps) \in BOOLEAN /\ FALSE \in BOOLEAN
      BY <1>1
    <3> QED BY <2>2, <3>1, Zenon
  <2> QED BY <2>3, <2>4
<1>6. CASE ~Ena(bus, miss)
  BY <1>1, <1>5, <1>6 DEF Cycle, Advance
<1>7. CASE Ena(bus, miss)
  <2>1. FetchStage /\ DecodeStage /\ ExecuteStage /\ MemoryStage
    BY <1>7 DEF Cycle, Advance
  <2>2. pc' \in Nat
    <3>1. mem.kind = "xcall" => Handler[mem.to] \in Nat
      BY <1>1, PipelineAssumption DEF Sourced
    <3> QED BY <1>1, <1>2, <2>1, <3>1, FollowingTyped DEF FetchStage
  <2>3. dec' \in Item /\ Sourced(dec') /\ dec'.kind # "xcall"
    <3>1. Instruction(Proc!At(pc), pc).kind # "xcall"
      BY <1>1, FetchedTyped DEF Kinds, Transfers, MemOps, UnitOps
    <3>2. Flushed(pc).kind # "xcall"
      BY DEF Flushed
    <3> QED BY <1>1, <2>1, <3>1, <3>2, FetchedTyped DEF DecodeStage
  <2>4. inDelaySlot' \in 0..3
    BY <1>1, <2>1 DEF DecodeStage, SlotsAfter
  <2>5. ex' \in Item /\ Sourced(ex') /\ excOff' \in Nat
    <3>1. Decoded.pc \in Nat
      BY <1>4 DEF Item
    <3> QED BY <1>1, <1>2, <1>4, <2>1, <3>1, FetchedTyped DEF ExecuteStage
  <2>6. mem' \in Item /\ Sourced(mem')
    <3>1. CASE Executed.kind = "xret"
      <4>1. Executed = ex
        BY <3>1 DEF Executed, Flushed
      <4>2. mem' = [ex EXCEPT !.to = excOff]
        BY <2>1, <3>1 DEF MemoryStage
      <4> QED BY <1>1, <3>1, <4>1, <4>2 DEF Item, Sourced
    <3>2. CASE Executed.kind # "xret"
      BY <1>3, <2>1, <3>2 DEF MemoryStage
    <3> QED BY <3>1, <3>2
  <2>7. master' \in UnitOps \cup {"none"} /\ errResp' \in BOOLEAN
    <3>1. Executed.kind \in UnitOps => Executed = ex
      BY DEF Executed, Flushed, UnitOps
    <3> QED BY <1>1, <2>1, <3>1 DEF MemoryStage
  <2> QED BY <1>5, <2>2, <2>3, <2>4, <2>5, <2>6, <2>7
<1> QED BY <1>6, <1>7

LEMMA ShiftedTyped ==
  ASSUME NEW S, NEW n \in Nat \ {0}, NEW s \in [1..n -> S], NEW x \in S
  PROVE  /\ SubSeq(<<x>> \o s, 1, n) \in [1..n -> S]
         /\ Append(Tail(s), x) \in [1..n -> S]
         /\ \A k \in 1..n : SubSeq(<<x>> \o s, 1, n)[k] = IF k = 1 THEN x ELSE s[k - 1]
         /\ \A k \in 1..n : Append(Tail(s), x)[k] = IF k = n THEN x ELSE s[k + 1]
         /\ Head(s) = s[1]
<1>1. s \in Seq(S) /\ Len(s) = n /\ s # <<>>
  OBVIOUS
<1>2. /\ Tail(s) \in Seq(S) /\ Len(Tail(s)) = n - 1
      /\ \A i \in 1..n - 1 : Tail(s)[i] = s[i + 1]
  BY <1>1, HeadTailProperties
<1>3. /\ Append(Tail(s), x) \in Seq(S) /\ Len(Append(Tail(s), x)) = n
      /\ \A k \in 1..n : Append(Tail(s), x)[k] = IF k = n THEN x ELSE s[k + 1]
  BY <1>2, AppendProperties
<1> DEFINE t == <<x>> \o s
<1>4. t \in Seq(S) /\ Len(t) = n + 1 /\ \A k \in 1..n + 1 : t[k] = IF k = 1 THEN x ELSE s[k - 1]
  <2>1. <<x>> \in Seq(S) /\ Len(<<x>>) = 1 /\ <<x>>[1] = x
    OBVIOUS
  <2> QED BY <1>1, <2>1, ConcatProperties
<1> HIDE DEF t
<1>5. \A k \in 1..n : t[k] \in S
  BY <1>4, ElementOfSeq
<1>6. /\ SubSeq(t, 1, n) \in Seq(S) /\ Len(SubSeq(t, 1, n)) = n
      /\ \A k \in 1..n : SubSeq(t, 1, n)[k] = t[k]
  BY <1>5, SubSeqProperties
<1>7. SubSeq(t, 1, n) \in [1..n -> S] /\ Append(Tail(s), x) \in [1..n -> S]
  BY <1>3, <1>6, LenProperties
<1>8. Head(s) = s[1]
  BY <1>1
<1> QED BY <1>3, <1>4, <1>6, <1>7, <1>8, SMTT(30) DEF t

LEMMA UnitTyped ==
  ASSUME Typed, NEW pulse \in SUBSET Interrupts, NEW bus, NEW miss, Cycle(pulse, bus, miss)
  PROVE  /\ status' \in [1..Levels -> BOOLEAN]
         /\ excPend' \subseteq DOMAIN Handler /\ srcReg' \in DOMAIN Handler
         /\ intrPend' \subseteq Interrupts /\ pins' \subseteq Interrupts
         /\ exc' \in BOOLEAN /\ intr' \in BOOLEAN /\ sleep' \in BOOLEAN /\ excAddr' \in Nat
         /\ owed' \subseteq Interrupts
<1>1. /\ mem \in Item /\ Sourced(mem) /\ excAddr \in Nat /\ status \in [1..Levels -> BOOLEAN]
      /\ excPend \subseteq DOMAIN Handler /\ intrPend \subseteq Interrupts /\ pins \subseteq Interrupts
      /\ owed \subseteq Interrupts
  BY DEF Typed, TypeOK, Item
<1>2. ExceptionUnit(pulse, Ena(bus, miss)) /\ Answered(pulse, Ena(bus, miss))
  BY DEF Cycle
<1>3. status' \in [1..Levels -> BOOLEAN]
  BY <1>1, <1>2, ShiftedTyped, PipelineAssumption DEF ExceptionUnit, Shifted, Written
<1>4. ExcPend \subseteq DOMAIN Handler
  BY <1>1, PipelineAssumption DEF ExcPend, Raised, Sourced
<1>5. IntrPend \subseteq Interrupts
  BY <1>1 DEF IntrPend
<1>6. srcReg' \in DOMAIN Handler
  <2>1. ExcPend # {} => Lowest(ExcPend) \in ExcPend
    BY <1>4, PipelineAssumption, LowestIsMember
  <2>2. IntrPend # {} => Lowest(IntrPend) \in IntrPend
    BY <1>5, PipelineAssumption, LowestIsMember
  <2> QED BY <1>2, <1>4, <1>5, <2>1, <2>2, PipelineAssumption DEF ExceptionUnit
<1>7. excAddr' \in Nat
  BY <1>1, <1>2, FollowingTyped DEF ExceptionUnit, Item
<1>8. owed' \subseteq Interrupts
  BY <1>1, <1>2 DEF Answered
<1> QED BY <1>2, <1>3, <1>4, <1>5, <1>6, <1>7, <1>8 DEF ExceptionUnit

LEMMA TypedStep == Typed /\ [Next]_vars => Typed'
<1> SUFFICES ASSUME Typed, [Next]_vars PROVE Typed'
  OBVIOUS
<1>1. CASE Next
  <2>1. PICK pulse \in SUBSET Interrupts, bus \in {"NULL", "DVA", "ERR"}, miss \in BOOLEAN :
          Cycle(pulse, bus, miss)
    BY <1>1 DEF Next
  <2>2. code' = code
    BY <1>1, CodeStays
  <2> HIDE DEF Next
  <2> QED BY <2>1, <2>2, StagesTyped, UnitTyped DEF Typed, TypeOK, Item, Sourced
<1>2. CASE UNCHANGED vars
  BY <1>2 DEF vars, stages, unit, history, Typed, TypeOK, Sourced
<1> QED BY <1>1, <1>2

\* The registers of the pipeline and of the exception unit keep their types.
THEOREM PipelineTyped == Spec => []TypeOK
<1>1. Typed => TypeOK
  BY DEF Typed
<1> QED BY <1>1, InitTyped, TypedStep, PTL DEF Spec

-----------------------------------------------------------------------------
(* The order. *)

\* There is one register for the address to return to: what a handler that is
\* interrupted itself saves in software is left out.
ReturnsOnce == Proc!At(ip).kind = "xret" => Len(saved) = 1

\* A point of the program, and the one after an instruction; off is where a
\* handler returns to.
Point == [ip : Nat, slots : 0..3, target : Nat]

Then(off, s, i) ==
  IF i.kind = "none" THEN s
  ELSE [ip     |-> IF i.kind \in {"brnd", "callnd"} THEN i.to
                   ELSE IF s.slots = 1 THEN s.target ELSE Proc!Following(s.ip),
        slots  |-> IF i.kind = "br" THEN 2 ELSE IF i.kind \in {"call", "xret"} THEN 3
                   ELSE IF s.slots = 0 THEN 0 ELSE s.slots - 1,
        target |-> IF i.kind \in {"br", "call"} THEN i.to
                   ELSE IF i.kind = "xret" THEN off ELSE s.target]

WindowAfter(w, i) ==
  IF i.kind = "none" THEN w ELSE IF i.kind = "ei" THEN 3 ELSE IF i.kind = "di" THEN 2
  ELSE IF w \in {0, 3} THEN w ELSE w - 1

Completing == [ip |-> ip, slots |-> slots, target |-> target]
AfterMem   == Then(excOff, Completing, mem)
AfterEx    == Then(excOff, AfterMem, ex)
AfterDec   == Then(excOff, AfterEx, dec)

\* The instructions that the stages do not follow.
Killers == {"brnd", "callnd", "trap", "ill", "xcall"}

\* Register i holds the instruction of this point, or a bubble, of which there
\* are none among delay slots.
Fits(s, i) ==
  IF i.kind = "none" THEN s.slots = 0
  ELSE /\ i.pc = s.ip /\ i.kind = Proc!At(s.ip).kind
       /\ i.kind # "xret" => i.to = Proc!At(s.ip).to

\* The delay slots are no transfers.
Slotted(s) ==
  /\ s \in Point
  /\ s.slots > 0 => Plain(code, s.ip)
  /\ s.slots > 1 => Plain(code, Proc!Following(s.ip))
  /\ s.slots > 2 => Plain(code, Proc!Following(Proc!Following(s.ip)))

Registers ==
  /\ mayStall => mem.kind \in MemOps
  /\ illMemReg => ~mayStall /\ mem.kind = "mem" /\ ~exc
  /\ mem.kind \in {"ei", "di"} => master = mem.kind
  /\ master \in UnitOps => mem.kind = master
  /\ exc <=> excPend # {}
  /\ ~exc /\ intr => srcReg \in Interrupts

\* The interrupt enables against the windows.
Enables ==
  /\ window \in 0..3 /\ saved \in Seq([ip : Nat, window : 0..3])
  /\ status[1] => window = 3
  /\ \A k \in 1..Levels - 1 : status[k + 1] => k <= Len(saved) /\ saved[k].window = 3

Returns ==
  /\ mem.kind = "xret" => mem.to = excOff
  /\ mem.kind = "xcall" => excOff = mem.pc
  /\ mem.kind # "xcall" /\ Len(saved) = 1 => excOff = saved[1].ip

ExceptionDue(s) ==
  \/ Proc!At(ip).kind = "ill" /\ s = 0
  \/ Proc!At(ip).kind = "mem" /\ s = 1
  \/ /\ s \notin Interrupts /\ slots = 0
     /\ \E a \in DOMAIN code : Proc!Following(a) = ip /\ Proc!At(a) = [kind |-> "trap", to |-> s]

CallDue(s) == (s \in Interrupts /\ slots = 0 /\ window > 0) \/ ExceptionDue(s)

\* Each stage has what follows the stage after it, up to a transfer.
ExInFlight ==
  IF ex.kind = "xcall"
  THEN ex.pc = AfterMem.ip /\ AfterMem.slots = 0 /\ ex.to \in Interrupts /\ WindowAfter(window, mem) > 0
  ELSE Fits(AfterMem, ex)

DecInFlight ==
  /\ Fits(AfterEx, dec) /\ AfterEx.slots <= inDelaySlot
  /\ inDelaySlot = 0 => dec.pc = AfterEx.ip
  /\ dec.kind \notin Killers => pc = AfterDec.ip

InFlight ==
  /\ IF mem.kind = "xcall" THEN mem.pc = ip /\ CallDue(mem.to) ELSE Fits(Completing, mem)
  /\ ~Flush => ExInFlight /\ (ex.kind \notin Killers => DecInFlight)

\* Nothing but the call of the handler.
OnItsWay(i) == i.kind = "none" \/ (i.kind = "xcall" /\ i.pc = excAddr /\ i.to = srcReg)

Raising ==
  /\ OnItsWay(mem) /\ OnItsWay(ex)
  /\ excPend = {srcReg} /\ excAddr = ip /\ ExceptionDue(srcReg)

Ordered ==
  /\ Registers /\ Slotted(Completing) /\ Enables /\ Returns
  /\ exc => Raising
  /\ ~exc => InFlight

\* After an access that no device answers, nothing completes any more.
OrderInv == IF errResp THEN illMemReg \/ mayStall ELSE Ordered

LEMMA KindsApart ==
  /\ "none" \notin Kinds /\ "xcall" \notin Kinds
  /\ Transfers \subseteq Kinds /\ MemOps \subseteq Kinds /\ Calls \subseteq Transfers \cup {"xcall"}
BY DEF Kinds, Transfers, MemOps, UnitOps, Calls

LEMMA AtTyped ==
  ASSUME code \in Programs, NEW a
  PROVE  /\ Proc!At(a) \in [kind : Kinds, to : Nat]
         /\ Proc!At(a).kind = "trap" => Proc!At(a).to \in DOMAIN Handler \ Interrupts
<1>1. CASE a \in DOMAIN code
  BY <1>1, PipelineAssumption DEF Proc!At
<1>2. CASE a \notin DOMAIN code
  <2>1. Proc!At(a) = [kind |-> "alu", to |-> 0]
    BY <1>2 DEF Proc!At
  <2>2. "alu" \in Kinds
    BY DEF Kinds
  <2> QED BY <2>1, <2>2
<1> QED BY <1>1, <1>2

LEMMA ThenTyped ==
  ASSUME NEW off \in Nat, NEW s \in Point, NEW i \in Item
  PROVE  Then(off, s, i) \in Point
<1>1. Proc!Following(s.ip) \in Nat
  BY FollowingTyped DEF Point
<1> QED BY <1>1 DEF Then, Point, Item

\* What stands in a delay slot is no transfer, nor a bubble.
LEMMA SlotsArePlain ==
  ASSUME code \in Programs, NEW s, Slotted(s), NEW i, Fits(s, i), s.slots > 0
  PROVE  i.kind \notin Transfers \cup {"none", "xcall"}
<1>1. i.kind # "none"
  BY DEF Fits, Slotted, Point
<1>2. i.kind = Proc!At(s.ip).kind /\ Plain(code, s.ip)
  BY <1>1 DEF Fits, Slotted
<1>3. Proc!At(s.ip).kind \notin Transfers
  <2>1. CASE s.ip \in DOMAIN code
    BY <1>2, <2>1 DEF Plain, Proc!At
  <2>2. CASE s.ip \notin DOMAIN code
    BY <2>2 DEF Proc!At, Transfers
  <2> QED BY <2>1, <2>2
<1>4. i.kind \in Kinds
  BY <1>2, AtTyped
<1> QED BY <1>1, <1>2, <1>3, <1>4, KindsApart

LEMMA ThenSlotted ==
  ASSUME code \in Programs, NEW off \in Nat, NEW s, Slotted(s), NEW i \in Item, Fits(s, i)
  PROVE  Slotted(Then(off, s, i))
<1>1. s \in Point /\ Then(off, s, i) \in Point /\ s.slots \in 0..3
  BY ThenTyped DEF Slotted, Point
<1>2. CASE i.kind = "none"
  BY <1>2 DEF Then
<1>3. CASE i.kind # "none" /\ s.slots > 0
  <2>1. i.kind \notin Transfers
    BY <1>3, SlotsArePlain
  <2>2. /\ Then(off, s, i).slots = s.slots - 1
        /\ s.slots > 1 => Then(off, s, i).ip = Proc!Following(s.ip)
    BY <1>1, <1>3, <2>1 DEF Then, Transfers
  <2> QED BY <1>1, <1>3, <2>2 DEF Slotted
<1>4. CASE i.kind # "none" /\ s.slots = 0
  <2>1. i.kind = Proc!At(s.ip).kind
    BY <1>4 DEF Fits
  <2>2. CASE i.kind \in {"br", "call", "xret"}
    <3>1. s.ip \in DOMAIN code /\ code[s.ip].kind = i.kind
      BY <2>1, <2>2 DEF Proc!At
    <3>2. /\ Then(off, s, i).ip = Proc!Following(s.ip)
          /\ Then(off, s, i).slots = DelaySlots(code[s.ip]) /\ DelaySlots(code[s.ip]) \in {2, 3}
      BY <1>4, <2>2, <3>1 DEF Then, DelaySlots
    <3>3. LET b == Proc!Following(s.ip)
              c == Proc!Following(b)
          IN  /\ Plain(code, b) /\ Plain(code, c)
              /\ DelaySlots(code[s.ip]) = 3 => Plain(code, Proc!Following(c))
      BY <3>1, <3>2, PipelineAssumption
    <3> QED BY <1>1, <3>2, <3>3 DEF Slotted
  <2>3. CASE i.kind \notin {"br", "call", "xret"}
    <3>1. Then(off, s, i).slots = 0
      BY <1>4, <2>3 DEF Then
    <3> QED BY <1>1, <3>1 DEF Slotted
  <2> QED BY <2>2, <2>3
<1> QED BY <1>1, <1>2, <1>3, <1>4

\* What an instruction makes of the slots: one less, or those of its own.
SlotsFrom(s, i, t, off) ==
  \/ s.slots > 0 /\ t.slots = s.slots - 1 /\ t.target = s.target /\ i.kind \notin {"br", "call", "xret"}
  \/ s.slots = 0 /\ i.kind = "br" /\ t.slots = 2 /\ t.target = i.to
  \/ s.slots = 0 /\ i.kind = "call" /\ t.slots = 3 /\ t.target = i.to
  \/ s.slots = 0 /\ i.kind = "xret" /\ t.slots = 3 /\ t.target = off
  \/ s.slots = 0 /\ i.kind \notin {"br", "call", "xret"} /\ t.slots = 0

LEMMA SlotsOfNext ==
  ASSUME NEW off, NEW s, s.slots \in 0..3, NEW i,
         s.slots > 0 => i.kind \notin Transfers \cup {"none", "xcall"}
  PROVE  SlotsFrom(s, i, Then(off, s, i), off)
<1>1. CASE s.slots > 0
  <2>1. i.kind \notin {"br", "brnd", "call", "callnd", "xret", "none"}
    BY <1>1 DEF Transfers
  <2>2. s.slots # 0
    BY <1>1
  <2>3. Then(off, s, i).slots = s.slots - 1 /\ Then(off, s, i).target = s.target
    BY <2>1, <2>2 DEF Then
  <2> QED BY <1>1, <2>1, <2>3 DEF SlotsFrom
<1>2. CASE s.slots = 0
  <2>1. CASE i.kind = "none"
    BY <1>2, <2>1 DEF Then, SlotsFrom
  <2>2. CASE i.kind = "br"
    BY <1>2, <2>2 DEF Then, SlotsFrom
  <2>3. CASE i.kind = "call"
    BY <1>2, <2>3 DEF Then, SlotsFrom
  <2>4. CASE i.kind = "xret"
    BY <1>2, <2>4 DEF Then, SlotsFrom
  <2>5. CASE i.kind \notin {"none", "br", "call", "xret"}
    <3>1. Then(off, s, i).slots = 0
      BY <1>2, <2>5 DEF Then
    <3> QED BY <1>2, <2>5, <3>1 DEF SlotsFrom
  <2> QED BY <2>1, <2>2, <2>3, <2>4, <2>5
<1>3. s.slots = 0 \/ s.slots > 0
  OBVIOUS
<1> QED BY <1>1, <1>2, <1>3

\* Where the fetch stage goes on: behind the third delay slot of a call in the
\* memory stage, or the second of a branch in the execute stage.
LEMMA FetchesNext ==
  ASSUME code \in Programs, NEW off \in Nat,
         NEW s, Slotted(s), NEW i \in Item, NEW j \in Item, NEW k \in Item,
         Fits(s, i), Fits(Then(off, s, i), j), Fits(Then(off, Then(off, s, i), j), k)
  PROVE  LET u == Then(off, Then(off, Then(off, s, i), j), k)
         IN  /\ i.kind = "call" => u.slots = 1 /\ u.target = i.to
             /\ i.kind = "xret" => u.slots = 1 /\ u.target = off
             /\ i.kind \notin {"call", "xret"} /\ j.kind = "br" => u.slots = 1 /\ u.target = j.to
             /\ i.kind \notin {"call", "xret"} /\ j.kind # "br" => u.slots # 1
<1> DEFINE s1 == Then(off, s, i)
           s2 == Then(off, s1, j)
           s3 == Then(off, s2, k)
<1>1. Slotted(s1)
  BY ThenSlotted
<1> HIDE DEF s1
<1>2. Slotted(s2)
  BY <1>1, ThenSlotted DEF s1
<1> HIDE DEF s2
<1>3. s.slots \in 0..3 /\ s1.slots \in 0..3 /\ s2.slots \in 0..3
  BY <1>1, <1>2 DEF Slotted, Point
<1>4. s.slots > 0 => i.kind \notin Transfers \cup {"none", "xcall"}
  BY SlotsArePlain
<1>5. s1.slots > 0 => j.kind \notin Transfers \cup {"none", "xcall"}
  BY <1>1, SlotsArePlain DEF s1
<1>6. s2.slots > 0 => k.kind \notin Transfers \cup {"none", "xcall"}
  BY <1>2, SlotsArePlain DEF s1, s2
<1>7. SlotsFrom(s, i, s1, off) /\ SlotsFrom(s1, j, s2, off) /\ SlotsFrom(s2, k, s3, off)
  BY <1>3, <1>4, <1>5, <1>6, SlotsOfNext DEF s1, s2
<1>8. /\ i.kind \in {"call", "xret"} => s1.slots = 3
      /\ i.kind = "call" => s1.target = i.to
      /\ i.kind = "xret" => s1.target = off
      /\ i.kind \notin {"call", "xret"} => s1.slots <= 2
  BY <1>3, <1>7 DEF SlotsFrom
<1>9. /\ s1.slots = 3 => s2.slots = 2 /\ s2.target = s1.target
      /\ j.kind = "br" => s2.slots = 2 /\ s2.target = j.to
      /\ s1.slots <= 2 /\ j.kind # "br" => s2.slots # 2
  BY <1>3, <1>7 DEF SlotsFrom
<1>10. /\ s2.slots = 2 => s3.slots = 1 /\ s3.target = s2.target
       /\ s2.slots # 2 => s3.slots # 1
  BY <1>3, <1>7 DEF SlotsFrom
<1>11. /\ i.kind = "call" => s3.slots = 1 /\ s3.target = i.to
       /\ i.kind = "xret" => s3.slots = 1 /\ s3.target = off
       /\ i.kind \notin {"call", "xret"} /\ j.kind = "br" => s3.slots = 1 /\ s3.target = j.to
       /\ i.kind \notin {"call", "xret"} /\ j.kind # "br" => s3.slots # 1
  BY <1>8, <1>9, <1>10
<1> QED BY <1>11 DEF s1, s2

\* A cycle that does not move waits for memory or for the method cache.
LEMMA Wires ==
  ASSUME Typed, Ordered, ~errResp, NEW pulse, NEW bus, NEW miss, Cycle(pulse, bus, miss)
  PROVE  /\ Resp(bus) = "ERR" => mem.kind = "mem" /\ mayStall /\ ~Ena(bus, miss)
         /\ illMemReg \/ mem.kind \in {"trap", "ill", "ei", "di"} => Ena(bus, miss)
         /\ Ena(bus, miss) => Resp(bus) # "ERR"
<1>1. (bus # "NULL" => mayStall /\ mem.kind = "mem") /\ (miss => mem.kind \in Calls)
  BY DEF Cycle
<1>2. Resp(bus) = IF Woken \/ master \in UnitOps \ {"sleep"} THEN "DVA" ELSE bus
  BY DEF Resp
<1>3. Resp(bus) = "ERR" => mem.kind = "mem" /\ mayStall /\ ~Ena(bus, miss)
  BY <1>1, <1>2 DEF Ena
<1>4. illMemReg \/ mem.kind \in {"trap", "ill"} => Ena(bus, miss)
  BY <1>1 DEF Ena, Ordered, Registers, MemOps, UnitOps, Calls
<1>5. mem.kind \in {"ei", "di"} => Ena(bus, miss)
  <2> SUFFICES ASSUME mem.kind \in {"ei", "di"} PROVE Ena(bus, miss)
    OBVIOUS
  <2>1. master \in UnitOps \ {"sleep"}
    BY DEF Ordered, Registers, UnitOps
  <2>2. Resp(bus) = "DVA" /\ ~miss
    BY <1>1, <1>2, <2>1 DEF Calls
  <2> QED BY <2>2 DEF Ena
<1> QED BY <1>3, <1>4, <1>5 DEF Ena

LEMMA StagesStep ==
  ASSUME NEW pulse, NEW bus, NEW miss, Cycle(pulse, bus, miss), Ena(bus, miss)
  PROVE  FetchStage /\ DecodeStage /\ ExecuteStage /\ MemoryStage
BY DEF Cycle, Advance

LEMMA StallKeepsStages ==
  ASSUME NEW pulse, NEW bus, NEW miss, Cycle(pulse, bus, miss), ~Ena(bus, miss)
  PROVE  /\ UNCHANGED <<pc, dec, inDelaySlot, ex, excOff, mem, errResp>> /\ master' = "none"
         /\ UNCHANGED <<ip, slots, target, saved, window>>
BY DEF Cycle, Advance, Completed, history

LEMMA ExecutedIs ==
  /\ Flush => Executed.kind = "none"
  /\ ~Flush => Executed = ex
  /\ Executed.kind # "none" => Executed = ex
BY DEF Executed, Flushed

\* What a faulting access leaves behind.
LEMMA BadStep ==
  ASSUME Typed, Ordered, ~errResp, NEW pulse, NEW bus, NEW miss, Cycle(pulse, bus, miss), errResp'
  PROVE  mayStall'
<1>1. Ena(bus, miss)
  BY StallKeepsStages
<1>2. Executed.kind = "bad"
  BY <1>1, StagesStep DEF MemoryStage
<1>3. Resp(bus) # "ERR"
  BY <1>1, Wires
<1> QED BY <1>1, <1>2, <1>3 DEF Cycle, ErrorResponse, MemOps

LEMMA BadStays ==
  ASSUME errResp, NEW pulse, NEW bus, NEW miss, Cycle(pulse, bus, miss)
  PROVE  errResp' /\ illMemReg'
<1>1. Resp(bus) = "ERR"
  BY DEF Resp
<1>2. illMemReg'
  BY <1>1 DEF Cycle, ErrorResponse
<1>3. errResp'
  BY DEF Cycle, Advance, MemoryStage
<1> QED BY <1>2, <1>3

\* Nothing is raised but by a transfer to the handler, and then nothing else is.
LEMMA UnitStep ==
  ASSUME Typed, Ordered, ~errResp, NEW pulse \in SUBSET Interrupts, NEW bus, NEW miss, Cycle(pulse, bus, miss)
  PROVE  /\ exc' <=> ExcPend # {}
         /\ excPend' = ExcPend
         /\ exc => illMemReg = FALSE /\ Raised = {} /\ mem.kind \in {"none", "xcall"} /\ ex.kind \in {"none", "xcall"}
         /\ exc /\ mem.kind = "none" => ExcPend = {srcReg} /\ srcReg' = srcReg
         /\ exc /\ mem.kind = "xcall" => ExcPend = {}
         /\ ~exc => ExcPend = Raised
         /\ Raised = {} => excAddr' = excAddr
         /\ \A s : ExcPend = {s} => srcReg' = s
         /\ ~exc' /\ intr' => srcReg' \in Interrupts
<1>1. ExceptionUnit(pulse, Ena(bus, miss))
  BY DEF Cycle
<1>2. /\ exc' = (ExcPend # {}) /\ excPend' = ExcPend /\ intr' = (IntrPend # {})
      /\ srcReg' = IF ExcPend # {} THEN Lowest(ExcPend)
                   ELSE IF IntrPend # {} THEN Lowest(IntrPend) ELSE 0
      /\ Raised = {} => excAddr' = excAddr
  BY <1>1 DEF ExceptionUnit
<1>3. \A s : ExcPend = {s} => srcReg' = s
  <2> SUFFICES ASSUME NEW s, ExcPend = {s} PROVE srcReg' = s
    OBVIOUS
  <2>1. s \in Nat
    <3>1. Raised \subseteq Nat
      BY PipelineAssumption DEF Typed, TypeOK, Raised
    <3>2. excPend \subseteq Nat
      BY PipelineAssumption DEF Typed, TypeOK
    <3> QED BY <3>1, <3>2 DEF ExcPend
  <2>2. Lowest(ExcPend) \in ExcPend
    BY <2>1, LowestIsMember
  <2> QED BY <1>2, <2>2
<1>4. ~exc' /\ intr' => srcReg' \in Interrupts
  <2>1. IntrPend \subseteq Interrupts
    BY DEF Typed, TypeOK, IntrPend
  <2>2. IntrPend # {} => Lowest(IntrPend) \in IntrPend
    BY <2>1, PipelineAssumption, LowestIsMember
  <2> QED BY <1>2, <2>1, <2>2
<1>5. ~exc => ExcPend = Raised
  BY DEF ExcPend, Ordered, Registers
<1>6. exc => /\ illMemReg = FALSE /\ Raised = {} /\ mem.kind \in {"none", "xcall"} /\ ex.kind \in {"none", "xcall"}
             /\ excPend = {srcReg} /\ (mem.kind = "xcall" => mem.to = srcReg)
  BY DEF Ordered, Registers, Raising, OnItsWay, Raised, Typed, TypeOK
<1>7. exc /\ mem.kind = "none" => ExcPend = {srcReg}
  BY <1>6 DEF ExcPend, Called
<1>8. exc /\ mem.kind = "xcall" => ExcPend = {}
  BY <1>6 DEF ExcPend, Called
<1> QED BY <1>2, <1>3, <1>4, <1>5, <1>6, <1>7, <1>8

LEMMA RegistersStep ==
  ASSUME Typed, Ordered, ~errResp, NEW pulse \in SUBSET Interrupts, NEW bus, NEW miss, Cycle(pulse, bus, miss)
  PROVE  Registers'
<1>1. (exc' <=> (excPend # {})') /\ (~exc' /\ intr' => srcReg' \in Interrupts)
  BY UnitStep
<1>2. /\ illMemReg' = (Resp(bus) = "ERR")
      /\ mayStall' = IF Resp(bus) = "ERR" THEN FALSE
                     ELSE IF Ena(bus, miss) THEN Executed.kind \in MemOps ELSE mayStall
  BY DEF Cycle, ErrorResponse
<1>3. CASE Ena(bus, miss)
  <2>1. MemoryStage
    BY <1>3, StagesStep
  <2>2. mem'.kind = Executed.kind
    <3>1. CASE Executed.kind = "xret"
      <4>1. mem' = [ex EXCEPT !.to = excOff] /\ ex \in Item /\ Executed = ex
        BY <2>1, <3>1, ExecutedIs DEF MemoryStage, Typed, TypeOK, Item
      <4> QED BY <4>1 DEF Item
    <3>2. CASE Executed.kind # "xret"
      BY <2>1, <3>2 DEF MemoryStage
    <3> QED BY <3>1, <3>2
  <2>3. master' = IF Executed.kind \in UnitOps THEN Executed.kind ELSE "none"
    BY <2>1, ExecutedIs DEF MemoryStage, UnitOps
  <2>4. Resp(bus) # "ERR"
    BY <1>3, Wires
  <2>5. illMemReg' = FALSE /\ (mayStall' => Executed.kind \in MemOps)
    BY <1>2, <1>3, <2>4
  <2> QED BY <1>1, <2>2, <2>3, <2>5 DEF Registers, UnitOps, MemOps
<1>4. CASE ~Ena(bus, miss)
  <2>1. mem' = mem /\ master' = "none" /\ mem.kind \notin {"ei", "di"}
    BY <1>4, StallKeepsStages, Wires
  <2>2. mayStall' => mayStall
    BY <1>2, <1>4
  <2>3. illMemReg' => ~mayStall' /\ mem.kind = "mem" /\ ~exc'
    <3> SUFFICES ASSUME illMemReg' PROVE ~mayStall' /\ mem.kind = "mem" /\ ~exc'
      OBVIOUS
    <3>1. Resp(bus) = "ERR" /\ mem.kind = "mem" /\ mayStall
      BY <1>2, Wires
    <3>2. ~exc
      BY <3>1, UnitStep
    <3>3. Raised = {}
      BY <3>1 DEF Raised, Ordered, Registers
    <3> QED BY <1>2, <3>1, <3>2, <3>3, UnitStep
  <2> QED BY <1>1, <2>1, <2>2, <2>3 DEF Registers, Ordered, UnitOps
<1> QED BY <1>3, <1>4

LEMMA MemoryStageHolds ==
  ASSUME Typed, Ordered
  PROVE  /\ mem.kind = "xcall" => mem.pc = ip /\ CallDue(mem.to) /\ mem.to \in DOMAIN Handler /\ ~illMemReg
         /\ mem.kind \notin {"none", "xcall"} => ~exc
         /\ mem.kind # "xcall" /\ ~exc => Fits(Completing, mem)
         /\ mem.kind \notin {"none", "xcall"} => mem.pc = ip /\ mem.kind = Proc!At(ip).kind
                                                 /\ (mem.kind # "xret" => mem.to = Proc!At(ip).to)
<1>1. mem.kind = "xcall" => mem.pc = ip /\ CallDue(mem.to)
  BY DEF Ordered, Raising, InFlight, OnItsWay, CallDue
<1>2. mem.kind = "xcall" => ~illMemReg /\ mem.to \in DOMAIN Handler
  BY DEF Ordered, Registers, Typed, Sourced
<1>3. mem.kind \notin {"none", "xcall"} => ~exc
  BY DEF Ordered, Raising, OnItsWay
<1>4. mem.kind # "xcall" /\ ~exc => Fits(Completing, mem)
  BY DEF Ordered, InFlight
<1>5. mem.kind \notin {"none", "xcall"} => mem.pc = ip /\ mem.kind = Proc!At(ip).kind
                                           /\ (mem.kind # "xret" => mem.to = Proc!At(ip).to)
  BY <1>3, <1>4 DEF Fits, Completing
<1> QED BY <1>1, <1>2, <1>3, <1>4, <1>5

\* What completes in a cycle.
LEMMA Completion ==
  ASSUME Typed, Ordered, ~errResp, ReturnsOnce, NEW pulse, NEW bus, NEW miss, Cycle(pulse, bus, miss)
  PROVE  /\ ~Ena(bus, miss) \/ mem.kind \in {"none", "ill"} \/ illMemReg
              => Completing' = Completing /\ saved' = saved /\ window' = window
         /\ Ena(bus, miss) /\ mem.kind = "xcall"
              => /\ ip' = Handler[mem.to] /\ slots' = 0 /\ target' = target
                 /\ saved' = <<[ip |-> mem.pc, window |-> window]>> \o saved /\ window' = 0
         /\ Ena(bus, miss) /\ ~illMemReg /\ mem.kind \notin {"ill", "xcall"}
              => /\ Completing' = AfterMem
                 /\ saved' = IF mem.kind = "xret" THEN Tail(saved) ELSE saved
                 /\ mem.kind # "xret" => window' = WindowAfter(window, mem)
                 /\ mem.kind = "xret" => Len(saved) = 1 /\ window' = saved[1].window
<1> DEFINE ena == Ena(bus, miss)
<1>1. Completed(ena)
  BY DEF Cycle
<1> HIDE DEF ena
<1>2. ~ena \/ mem.kind \in {"none", "ill"} \/ illMemReg
        => Completing' = Completing /\ saved' = saved /\ window' = window
  BY <1>1 DEF Completed, history, Completing
<1>3. ena /\ mem.kind = "xcall"
        => /\ ip' = Handler[mem.to] /\ slots' = 0 /\ target' = target
           /\ saved' = <<[ip |-> mem.pc, window |-> window]>> \o saved /\ window' = 0
  BY <1>1, MemoryStageHolds DEF Completed, Proc!Enter
<1>4. ena /\ ~illMemReg /\ mem.kind = "none" => AfterMem = Completing /\ WindowAfter(window, mem) = window
  BY DEF AfterMem, Then, WindowAfter
<1>5. ASSUME ena, ~illMemReg, mem.kind \notin {"none", "ill", "xcall"}
      PROVE  /\ Completing' = AfterMem
             /\ saved' = IF mem.kind = "xret" THEN Tail(saved) ELSE saved
             /\ mem.kind # "xret" => window' = WindowAfter(window, mem)
             /\ mem.kind = "xret" => Len(saved) = 1 /\ window' = saved[1].window
  <2>1. Proc!Complete(mem, ip) /\ mem.kind = Proc!At(ip).kind
    BY <1>1, <1>5, MemoryStageHolds DEF Completed
  <2>2. mem.kind = "xret" => Len(saved) = 1 /\ Head(saved) = saved[1] /\ mem.to = excOff
    BY <2>1 DEF ReturnsOnce, Ordered, Returns, Enables
  <2>3. ip' = AfterMem.ip
    BY <1>5, <2>1 DEF Proc!Complete, AfterMem, Then, Completing
  <2>4. slots' = AfterMem.slots
    BY <1>5, <2>1 DEF Proc!Complete, AfterMem, Then, Completing
  <2>5. target' = AfterMem.target
    BY <1>5, <2>1, <2>2 DEF Proc!Complete, AfterMem, Then, Completing
  <2>6. Completing' = AfterMem
    <3>1. AfterMem = [ip |-> AfterMem.ip, slots |-> AfterMem.slots, target |-> AfterMem.target]
      BY <1>5 DEF AfterMem, Then
    <3> QED BY <2>3, <2>4, <2>5, <3>1 DEF Completing
  <2>7. saved' = IF mem.kind = "xret" THEN Tail(saved) ELSE saved
    BY <2>1 DEF Proc!Complete
  <2>8. mem.kind # "xret" => window' = WindowAfter(window, mem)
    BY <1>5, <2>1 DEF Proc!Complete, Proc!Always, WindowAfter
  <2>9. mem.kind = "xret" => window' = saved[1].window
    BY <2>1, <2>2 DEF Proc!Complete
  <2> QED BY <2>2, <2>6, <2>7, <2>8, <2>9
<1> QED BY <1>2, <1>3, <1>4, <1>5 DEF ena

\* Every cycle is an instruction, the start of a handler or nothing.
LEMMA StepRefines ==
  ASSUME Typed, Ordered, ~errResp, ReturnsOnce, NEW pulse, NEW bus, NEW miss, Cycle(pulse, bus, miss)
  PROVE  [Proc!Next]_(Proc!vars)
<1> DEFINE ena == Ena(bus, miss)
<1>1. Completed(ena)
  BY DEF Cycle
<1> HIDE DEF ena
<1>2. CASE ~ena \/ mem.kind \in {"none", "ill"} \/ illMemReg
  BY <1>1, <1>2 DEF Completed, history, Proc!vars
<1>3. CASE ena /\ mem.kind = "xcall"
  <2>1. Proc!Enter(mem.to, ip) /\ CallDue(mem.to) /\ mem.to \in DOMAIN Handler
    BY <1>1, <1>3, MemoryStageHolds DEF Completed
  <2>2. CASE mem.to \in Interrupts /\ slots = 0 /\ window > 0
    BY <2>1, <2>2 DEF Proc!Interrupt, Proc!Next
  <2>3. CASE Proc!At(ip).kind = "ill" /\ mem.to = 0
    BY <2>1, <2>3 DEF Proc!Fault, Proc!Next
  <2>4. CASE Proc!At(ip).kind = "mem" /\ mem.to = 1
    BY <2>1, <2>4 DEF Proc!Fault, Proc!Next
  <2>5. CASE /\ mem.to \notin Interrupts /\ slots = 0
             /\ \E a \in DOMAIN code : Proc!Following(a) = ip /\ Proc!At(a) = [kind |-> "trap", to |-> mem.to]
    BY <2>1, <2>5 DEF Proc!Trap, Proc!Next
  <2> QED BY <2>1, <2>2, <2>3, <2>4, <2>5 DEF CallDue, ExceptionDue
<1>4. CASE ena /\ ~illMemReg /\ mem.kind \notin {"none", "ill", "xcall"}
  <2>1. /\ Proc!Complete(mem, ip) /\ mem.kind = Proc!At(ip).kind
        /\ mem.kind # "xret" => mem.to = Proc!At(ip).to
    BY <1>1, <1>4, MemoryStageHolds DEF Completed
  <2>2. CASE mem.kind # "xret"
    <3>1. Proc!Complete(Proc!At(ip), ip)
      BY <2>1, <2>2 DEF Proc!Complete
    <3> QED BY <1>4, <2>1, <2>2, <3>1 DEF Proc!Execute, Proc!Next
  <2>3. CASE mem.kind = "xret"
    <3>1. Len(saved) = 1 /\ saved # <<>> /\ Head(saved) = saved[1] /\ mem.to = Head(saved).ip
      <4>1. Len(saved) = 1
        BY <2>1, <2>3 DEF ReturnsOnce
      <4>2. saved \in Seq([ip : Nat, window : 0..3]) /\ mem.to = excOff /\ excOff = saved[1].ip
        BY <2>3, <4>1 DEF Ordered, Returns, Enables
      <4>3. saved # <<>> /\ Head(saved) = saved[1]
        <5>1. saved # <<>>
          BY <4>1
        <5>2. Head(saved) = saved[1]
          BY <4>2, <5>1
        <5> QED BY <5>1, <5>2
      <4> QED BY <4>1, <4>2, <4>3
    <3> DEFINE i == [Proc!At(ip) EXCEPT !.to = Head(saved).ip]
    <3>2. i.kind = "xret" /\ i.to = mem.to
      BY <2>1, <2>3, <3>1, AtTyped DEF Typed
    <3>3. Proc!Complete(i, ip)
      BY <2>1, <2>3, <3>2 DEF Proc!Complete
    <3> QED BY <2>1, <2>3, <3>1, <3>3 DEF Proc!Execute, Proc!Next
  <2> QED BY <2>2, <2>3
<1> QED BY <1>2, <1>3, <1>4

LEMMA SlottedStep ==
  ASSUME Typed, Ordered, ~errResp, ReturnsOnce, NEW pulse, NEW bus, NEW miss, Cycle(pulse, bus, miss),
         code' = code
  PROVE  Slotted(Completing)'
<1>1. Slotted(Completing) /\ code \in Programs /\ excOff \in Nat /\ mem \in Item
  BY DEF Ordered, Typed, TypeOK, Item
<1>2. CASE Completing' = Completing
  BY <1>1, <1>2 DEF Slotted, Plain
<1>3. CASE Ena(bus, miss) /\ mem.kind = "xcall"
  <2>1. Completing' = [ip |-> Handler[mem.to], slots |-> 0, target |-> target] /\ Handler[mem.to] \in Nat
    BY <1>3, Completion, MemoryStageHolds, PipelineAssumption DEF Completing
  <2>2. target \in Nat
    BY <1>1 DEF Slotted, Completing, Point
  <2> QED BY <2>1, <2>2 DEF Slotted, Point
<1>4. CASE Ena(bus, miss) /\ ~illMemReg /\ mem.kind \notin {"ill", "xcall", "none"}
  <2>1. Completing' = AfterMem /\ Fits(Completing, mem)
    BY <1>4, Completion, MemoryStageHolds
  <2>2. Slotted(AfterMem)
    BY <1>1, <2>1, ThenSlotted DEF AfterMem
  <2> QED BY <2>1, <2>2 DEF Slotted, Plain
<1> QED BY <1>2, <1>3, <1>4, Completion

LEMMA ReturnsStep ==
  ASSUME Typed, Ordered, ~errResp, ReturnsOnce, NEW pulse, NEW bus, NEW miss, Cycle(pulse, bus, miss)
  PROVE  Returns'
<1>1. Returns /\ saved \in Seq([ip : Nat, window : 0..3])
  BY DEF Ordered, Enables
<1>2. CASE ~Ena(bus, miss)
  <2>1. mem' = mem /\ excOff' = excOff /\ saved' = saved
    BY <1>2, StallKeepsStages
  <2> QED BY <1>1, <2>1 DEF Returns
<1>3. CASE Ena(bus, miss)
  <2>1. ExecuteStage /\ MemoryStage
    BY <1>3, StagesStep
  <2>2. /\ excOff' = IF Executed.kind = "xcall" THEN ex.pc ELSE excOff
        /\ mem' = IF Executed.kind = "xret" THEN [ex EXCEPT !.to = excOff] ELSE Executed
    BY <2>1 DEF ExecuteStage, MemoryStage
  <2>3. mem'.kind = "xret" => mem'.to = excOff'
    <3>1. CASE Executed.kind = "xret"
      <4>1. mem' = [ex EXCEPT !.to = excOff] /\ ex \in Item /\ excOff' = excOff
        BY <2>2, <3>1 DEF Typed, TypeOK, Item
      <4> QED BY <4>1 DEF Item
    <3>2. CASE Executed.kind # "xret"
      BY <2>2, <3>2
    <3> QED BY <3>1, <3>2
  <2>4. mem'.kind = "xcall" <=> Executed.kind = "xcall"
    <3>1. CASE Executed.kind = "xret"
      <4>1. mem' = [ex EXCEPT !.to = excOff] /\ ex \in Item /\ Executed = ex
        BY <2>2, <3>1, ExecutedIs DEF Typed, TypeOK, Item
      <4> QED BY <3>1, <4>1 DEF Item
    <3>2. CASE Executed.kind # "xret"
      BY <2>2, <3>2
    <3> QED BY <3>1, <3>2
  <2>5. mem'.kind = "xcall" => excOff' = mem'.pc
    BY <2>2, <2>4, ExecutedIs
  <2>6. ASSUME mem'.kind # "xcall", Len(saved') = 1 PROVE excOff' = saved'[1].ip
    <3>1. excOff' = excOff
      BY <2>2, <2>4, <2>6
    <3>2. CASE mem.kind = "xcall"
      <4>1. saved' = <<[ip |-> mem.pc, window |-> window]>> \o saved
        BY <1>3, <3>2, Completion
      <4>2. saved'[1] = [ip |-> mem.pc, window |-> window]
        BY <1>1, <4>1
      <4> QED BY <1>1, <3>1, <3>2, <4>2 DEF Returns
    <3>3. CASE mem.kind = "xret"
      <4>1. ~illMemReg
        BY <3>3 DEF Ordered, Registers
      <4>2. saved' = Tail(saved) /\ Len(saved) = 1
        BY <1>3, <3>3, <4>1, Completion
      <4>3. Len(saved') = 0
        BY <1>1, <4>2
      <4> QED BY <2>6, <4>3
    <3>4. CASE mem.kind \notin {"xcall", "xret"}
      <4>1. saved' = saved
        BY <1>3, <3>4, Completion
      <4> QED BY <1>1, <2>6, <3>1, <3>4, <4>1 DEF Returns
    <3> QED BY <3>2, <3>3, <3>4
  <2> QED BY <2>3, <2>5, <2>6 DEF Returns
<1> QED BY <1>2, <1>3

\* The same of the status register, whose levels are Booleans.
LEMMA StatusShifted ==
  ASSUME NEW s \in [1..Levels -> BOOLEAN]
  PROVE  /\ SubSeq(<<FALSE>> \o s, 1, Levels)[1] = FALSE
         /\ \A k \in 1..Levels - 1 : SubSeq(<<FALSE>> \o s, 1, Levels)[k + 1] = s[k]
         /\ Append(Tail(s), FALSE)[Levels] = FALSE
         /\ \A k \in 1..Levels - 1 : Append(Tail(s), FALSE)[k] = s[k + 1]
<1> DEFINE B == BOOLEAN
           F == FALSE
<1>1. F \in B /\ s \in [1..Levels -> B] /\ Levels \in Nat \ {0}
  BY PipelineAssumption
<1> HIDE DEF B, F
<1>2. /\ \A k \in 1..Levels : SubSeq(<<F>> \o s, 1, Levels)[k] = IF k = 1 THEN F ELSE s[k - 1]
      /\ \A k \in 1..Levels : Append(Tail(s), F)[k] = IF k = Levels THEN F ELSE s[k + 1]
  BY <1>1, ShiftedTyped
<1>3. SubSeq(<<F>> \o s, 1, Levels)[1] = F /\ Append(Tail(s), F)[Levels] = F
  BY <1>1, <1>2
<1>4. ASSUME NEW k \in 1..Levels - 1
      PROVE  SubSeq(<<F>> \o s, 1, Levels)[k + 1] = s[k] /\ Append(Tail(s), F)[k] = s[k + 1]
  <2>1. k + 1 \in 1..Levels /\ k + 1 # 1 /\ (k + 1) - 1 = k /\ k \in 1..Levels /\ k # Levels
    BY <1>1
  <2> QED BY <1>2, <2>1
<1> QED BY <1>3, <1>4 DEF F

LEMMA EnablesStep ==
  ASSUME Typed, Ordered, ~errResp, ReturnsOnce,
         NEW pulse \in SUBSET Interrupts, NEW bus, NEW miss, Cycle(pulse, bus, miss)
  PROVE  Enables'
<1> DEFINE ena == Ena(bus, miss)
<1>1. /\ window \in 0..3 /\ saved \in Seq([ip : Nat, window : 0..3]) /\ Len(saved) \in Nat
      /\ status[1] => window = 3
      /\ \A k \in 1..Levels - 1 : status[k + 1] => k <= Len(saved) /\ saved[k].window = 3
      /\ status \in [1..Levels -> BOOLEAN] /\ Levels \in Nat \ {0}
      /\ mem.kind = "xcall" => ip \in Nat /\ mem.pc = ip
  <2>1. Enables /\ Completing \in Point /\ status \in [1..Levels -> BOOLEAN]
    BY DEF Ordered, Slotted, Typed, TypeOK
  <2>2. ip \in Nat
    BY <2>1 DEF Completing, Point
  <2>3. mem.kind = "xcall" => mem.pc = ip
    BY MemoryStageHolds
  <2>4. saved \in Seq([ip : Nat, window : 0..3]) /\ Len(saved) \in Nat
    BY <2>1 DEF Enables
  <2> QED BY <2>1, <2>2, <2>3, <2>4, PipelineAssumption DEF Enables
<1>2. status' = Shifted(ena)
  BY DEF Cycle, ExceptionUnit
<1>3. CASE ena /\ mem.kind = "xcall"
  <2>1. /\ saved' = <<[ip |-> mem.pc, window |-> window]>> \o saved /\ window' = 0
        /\ status' = SubSeq(<<FALSE>> \o status, 1, Levels)
    BY <1>2, <1>3, Completion DEF Shifted, ena
  <2>2. saved' \in Seq([ip : Nat, window : 0..3]) /\ Len(saved') = Len(saved) + 1
        /\ \A k \in 1..Len(saved) + 1 :
             saved'[k] = IF k = 1 THEN [ip |-> mem.pc, window |-> window] ELSE saved[k - 1]
    <3> DEFINE e == [ip |-> mem.pc, window |-> window]
    <3>1. e \in [ip : Nat, window : 0..3]
      BY <1>1, <1>3
    <3> HIDE DEF e
    <3>2. <<e>> \in Seq([ip : Nat, window : 0..3]) /\ Len(<<e>>) = 1 /\ <<e>>[1] = e
      BY <3>1
    <3> QED BY <1>1, <2>1, <3>2, ConcatProperties DEF e
  <2>3. /\ status'[1] = FALSE
        /\ \A k \in 1..Levels - 1 : status'[k + 1] = status[k]
    BY <1>1, <2>1, StatusShifted
  <2>4. ~status'[1]
    BY <2>3
  <2>5. ASSUME NEW k \in 1..Levels - 1, status'[k + 1]
        PROVE  k <= Len(saved') /\ saved'[k].window = 3
    <3>1. status[k]
      BY <2>3, <2>5
    <3>2. CASE k = 1
      <4>1. window = 3
        BY <1>1, <3>1, <3>2
      <4> QED BY <1>1, <2>2, <3>2, <4>1
    <3>3. CASE k # 1
      <4>1. k - 1 \in 1..Levels - 1 /\ status[(k - 1) + 1]
        BY <1>1, <3>1, <3>3
      <4>2. k - 1 <= Len(saved) /\ saved[k - 1].window = 3
        BY <1>1, <4>1
      <4> QED BY <1>1, <2>2, <3>3, <4>2, SMTT(30)
    <3> QED BY <3>2, <3>3
  <2>6. window' \in 0..3
    BY <2>1
  <2>7. status'[1] => window' = 3
    BY <2>4
  <2> QED BY <2>2, <2>5, <2>6, <2>7 DEF Enables
<1>4. CASE ena /\ mem.kind = "xret"
  <2>1. ~illMemReg
    BY <1>4 DEF Ordered, Registers
  <2>2. /\ saved' = Tail(saved) /\ Len(saved) = 1 /\ window' = saved[1].window
        /\ status' = Append(Tail(status), FALSE)
    BY <1>2, <1>4, <2>1, Completion DEF Shifted, ena
  <2>3. saved' \in Seq([ip : Nat, window : 0..3]) /\ saved[1] \in [ip : Nat, window : 0..3] /\ Len(saved') = 0
    <3>1. saved # <<>>
      BY <2>2
    <3>2. Tail(saved) \in Seq([ip : Nat, window : 0..3]) /\ Len(Tail(saved)) = Len(saved) - 1
      BY <1>1, <3>1, HeadTailProperties
    <3>3. saved[1] \in [ip : Nat, window : 0..3]
      <4>1. 1 \in 1..Len(saved)
        BY <2>2
      <4> QED BY <1>1, <4>1, ElementOfSeq
    <3> QED BY <2>2, <3>2, <3>3
  <2>4. /\ status'[Levels] = FALSE
        /\ \A k \in 1..Levels - 1 : status'[k] = status[k + 1]
    BY <1>1, <2>2, StatusShifted
  <2>5. status'[1] => window' = 3
    <3> SUFFICES ASSUME status'[1] PROVE window' = 3
      OBVIOUS
    <3>1. Levels # 1
      BY <2>4
    <3>2. 1 \in 1..Levels - 1
      BY <1>1, <3>1
    <3>3. status[1 + 1]
      BY <2>4, <3>2
    <3> QED BY <1>1, <2>2, <3>2, <3>3
  <2>6. ASSUME NEW k \in 1..Levels - 1, status'[k + 1]
        PROVE  k <= Len(saved') /\ saved'[k].window = 3
    <3>1. k + 1 # Levels
      BY <2>4, <2>6
    <3>2. k + 1 \in 1..Levels - 1 /\ k \in Nat /\ k > 0
      BY <1>1, <3>1
    <3>3. status[(k + 1) + 1]
      BY <2>4, <2>6, <3>2
    <3>4. k + 1 <= Len(saved)
      BY <1>1, <3>2, <3>3
    <3> QED BY <2>2, <3>2, <3>4
  <2> QED BY <2>2, <2>3, <2>5, <2>6 DEF Enables
<1>5. CASE ~(ena /\ mem.kind \in {"xcall", "xret"})
  <2>1. status' = Written
    BY <1>2, <1>5 DEF Shifted
  <2>2. saved' = saved /\ (window' = window \/ (ena /\ window' = WindowAfter(window, mem)))
    BY <1>5, Completion DEF ena
  <2>3. window' \in 0..3
    BY <1>1, <2>2 DEF WindowAfter
  <2>4. \A k \in 1..Levels - 1 : status'[k + 1] = status[k + 1]
    <3> SUFFICES ASSUME NEW k \in 1..Levels - 1 PROVE status'[k + 1] = status[k + 1]
      OBVIOUS
    <3>1. k + 1 # 1 /\ k + 1 \in 1..Levels
      BY <1>1
    <3>2. \/ status' = [status EXCEPT ![1] = TRUE]
          \/ status' = [status EXCEPT ![1] = FALSE]
          \/ status' = status
      BY <2>1 DEF Written
    <3> QED BY <1>1, <3>1, <3>2
  <2>5. status'[1] => window' = 3
    <3>1. CASE master = "ei"
      <4>1. mem.kind = "ei" /\ ena /\ ~illMemReg
        BY <3>1, Wires DEF Ordered, Registers, UnitOps, ena
      <4>2. window' = WindowAfter(window, mem)
        BY <4>1, Completion DEF ena
      <4> QED BY <4>1, <4>2 DEF WindowAfter
    <3>2. CASE master = "di"
      <4>1. status'[1] = FALSE
        BY <1>1, <2>1, <3>2 DEF Written
      <4> QED BY <4>1
    <3>3. CASE master \notin {"ei", "di"}
      <4>1. mem.kind \notin {"ei", "di"} /\ status' = status
        BY <2>1, <3>3 DEF Ordered, Registers, Written
      <4> QED BY <1>1, <2>2, <4>1 DEF WindowAfter
    <3> QED BY <3>1, <3>2, <3>3
  <2> QED BY <1>1, <2>2, <2>3, <2>4, <2>5 DEF Enables
<1> QED BY <1>3, <1>4, <1>5

LEMMA StallStep ==
  ASSUME Typed, Ordered, ~errResp, NEW pulse \in SUBSET Interrupts, NEW bus, NEW miss,
         Cycle(pulse, bus, miss), code' = code, ~Ena(bus, miss), ~exc'
  PROVE  InFlight'
<1>1. /\ UNCHANGED <<pc, dec, inDelaySlot, ex, excOff, mem>> /\ UNCHANGED <<ip, slots, target, window, code>>
  BY StallKeepsStages
<1>2. ~illMemReg
  BY Wires
<1>3. CASE exc
  <2>1. mem.kind = "xcall"
    BY <1>3, UnitStep
  <2>2. Flush'
    BY <1>1, <2>1 DEF Flush
  <2>3. mem.pc = ip /\ CallDue(mem.to)
    BY <2>1, MemoryStageHolds
  <2> QED BY <1>1, <2>1, <2>2, <2>3 DEF InFlight, CallDue, ExceptionDue, Proc!At
<1>4. CASE ~exc
  <2>1. InFlight
    BY <1>4 DEF Ordered
  <2>2. ~Flush' => ~Flush
    BY <1>1, <1>2 DEF Flush
  <2>3. /\ Completing' = Completing /\ AfterMem' = AfterMem /\ AfterEx' = AfterEx /\ AfterDec' = AfterDec
    BY <1>1 DEF Completing, AfterMem, AfterEx, AfterDec
  <2>4. ExInFlight => ExInFlight'
    BY <1>1, <2>3 DEF ExInFlight, Fits, Proc!At
  <2>5. DecInFlight => DecInFlight'
    BY <1>1, <2>3 DEF DecInFlight, Fits, Proc!At
  <2> QED BY <1>1, <2>1, <2>2, <2>3, <2>4, <2>5 DEF InFlight, CallDue, ExceptionDue, Fits, Proc!At
<1> QED BY <1>3, <1>4

\* All stages are flushed and the fetch stage goes to where the program does.
LEMMA RestartStep ==
  ASSUME Typed, Ordered, ~errResp, ReturnsOnce, NEW pulse \in SUBSET Interrupts, NEW bus, NEW miss,
         Cycle(pulse, bus, miss), code' = code, Ena(bus, miss), mem.kind \in {"xcall", "callnd"}
  PROVE  InFlight'
<1>1. Flush /\ Executed.kind = "none"
  BY ExecutedIs DEF Flush
<1>2. /\ pc' = IF mem.kind = "xcall" THEN Handler[mem.to] ELSE mem.to
      /\ dec'.kind = "none" /\ ex'.kind = "none" /\ mem'.kind = "none" /\ inDelaySlot' = 1
  BY <1>1, StagesStep DEF FetchStage, DecodeStage, ExecuteStage, MemoryStage, Flushed, Calls
<1>3. ip' = pc' /\ slots' = 0
  <2>1. CASE mem.kind = "xcall"
    BY <1>2, <2>1, Completion
  <2>2. CASE mem.kind = "callnd"
    <3>1. ~illMemReg
      BY <2>2 DEF Ordered, Registers
    <3>2. Completing' = AfterMem /\ Fits(Completing, mem) /\ Slotted(Completing) /\ code \in Programs
      BY <2>2, <3>1, Completion, MemoryStageHolds DEF Ordered, Typed
    <3>3. Completing.slots \in 0..3
      BY <3>2 DEF Slotted, Point
    <3>4. Completing.slots = 0
      BY <2>2, <3>2, <3>3, SlotsArePlain DEF Transfers
    <3>5. AfterMem.ip = mem.to /\ AfterMem.slots = 0
      BY <2>2, <3>4 DEF AfterMem, Then
    <3> QED BY <1>2, <2>2, <3>2, <3>5 DEF Completing
  <2> QED BY <2>1, <2>2
<1>4. AfterMem' = Completing' /\ AfterEx' = Completing' /\ AfterDec' = Completing'
  BY <1>2 DEF AfterMem, AfterEx, AfterDec, Then
<1>5. Completing'.slots = 0 /\ Completing'.ip = pc'
  BY <1>3 DEF Completing
<1> QED BY <1>2, <1>4, <1>5 DEF InFlight, ExInFlight, DecInFlight, Fits

LEMMA RaisingStep ==
  ASSUME Typed, Ordered, ~errResp, ReturnsOnce, NEW pulse \in SUBSET Interrupts, NEW bus, NEW miss,
         Cycle(pulse, bus, miss), code' = code, exc'
  PROVE  Raising'
<1>1. CASE exc
  <2>1. mem.kind = "none" /\ ~illMemReg
    BY <1>1, UnitStep
  <2>2. /\ excPend' = {srcReg'} /\ srcReg' = srcReg /\ excAddr' = excAddr
        /\ Completing' = Completing
    BY <1>1, <2>1, UnitStep, Completion
  <2>3. /\ OnItsWay(mem) /\ OnItsWay(ex) /\ excAddr = ip /\ ExceptionDue(srcReg)
    BY <1>1 DEF Ordered, Raising
  <2>4. (excAddr = ip)' /\ ExceptionDue(srcReg)'
    BY <2>2, <2>3 DEF ExceptionDue, Completing, Proc!At
  <2>5. OnItsWay(mem)' /\ OnItsWay(ex)'
    <3>1. CASE ~Ena(bus, miss)
      BY <2>2, <2>3, <3>1, StallKeepsStages DEF OnItsWay
    <3>2. CASE Ena(bus, miss)
      <4>1. ~Flush /\ ~BrFlush /\ Executed = ex /\ ex.kind # "xret" /\ Decoded = [kind |-> "xcall", to |-> srcReg, pc |-> excAddr]
        BY <1>1, <2>1, UnitStep, ExecutedIs DEF Flush, BrFlush, Decoded, Inject
      <4>2. mem' = ex /\ ex' = Decoded
        BY <3>2, <4>1, StagesStep DEF ExecuteStage, MemoryStage
      <4> QED BY <2>2, <2>3, <4>1, <4>2 DEF OnItsWay
    <3> QED BY <3>1, <3>2
  <2> QED BY <2>2, <2>4, <2>5 DEF Raising
<1>2. CASE ~exc
  <2>1. ExcPend = Raised /\ Raised # {} /\ excPend' = Raised
    BY <1>2, UnitStep
  <2>2. illMemReg \/ mem.kind \in {"trap", "ill"}
    BY <2>1 DEF Raised
  <2>3. Ena(bus, miss) /\ Flush
    BY <2>2, Wires DEF Flush
  <2>4. mem'.kind = "none" /\ ex'.kind = "none"
    BY <2>3, ExecutedIs, StagesStep DEF ExecuteStage, MemoryStage, Flushed
  <2>5. excAddr' = IF mem.kind = "trap" THEN Proc!Following(mem.pc) ELSE mem.pc
    BY <2>1 DEF Cycle, ExceptionUnit
  <2>6. /\ mem.pc = ip /\ mem.kind = Proc!At(ip).kind /\ Fits(Completing, mem)
        /\ mem.kind # "xret" => mem.to = Proc!At(ip).to
    BY <1>2, <2>2, MemoryStageHolds DEF Ordered, Registers
  <2>7. CASE mem.kind = "trap"
    <3>1. ~illMemReg
      BY <2>7 DEF Ordered, Registers
    <3>2. Raised = {mem.to} /\ srcReg' = mem.to
      BY <2>1, <2>7, <3>1, UnitStep DEF Raised
    <3>3. Completing' = AfterMem /\ Slotted(Completing) /\ code \in Programs
      BY <2>3, <2>7, <3>1, Completion DEF Ordered, Typed
    <3>4. slots = 0
      <4>1. Completing.slots \in 0..3
        BY <3>3 DEF Slotted, Point
      <4>2. Completing.slots = 0
        BY <2>6, <2>7, <3>3, <4>1, SlotsArePlain DEF Transfers
      <4> QED BY <4>2 DEF Completing
    <3>5. ip' = Proc!Following(ip) /\ slots' = 0
      <4>1. AfterMem.ip = Proc!Following(ip) /\ AfterMem.slots = 0
        BY <2>7, <3>4 DEF AfterMem, Then, Completing
      <4> QED BY <3>3, <4>1 DEF Completing
    <3>6. mem.to \notin Interrupts
      BY <2>7 DEF Typed, Sourced
    <3>7. ip \in DOMAIN code /\ Proc!At(ip) = [kind |-> "trap", to |-> mem.to]
      <4>1. ip \in DOMAIN code
        BY <2>6, <2>7 DEF Proc!At
      <4>2. Proc!At(ip) \in [kind : Kinds, to : Nat]
        BY AtTyped DEF Typed
      <4> QED BY <2>6, <2>7, <4>1, <4>2
    <3>8. ExceptionDue(srcReg)'
      BY <3>2, <3>5, <3>6, <3>7 DEF ExceptionDue, Proc!At
    <3> QED BY <2>1, <2>4, <2>5, <2>6, <2>7, <3>2, <3>5, <3>8 DEF Raising, OnItsWay
  <2>8. CASE mem.kind # "trap"
    <3>1. Completing' = Completing
      BY <2>2, <2>8, Completion
    <3>2. \/ mem.kind = "ill" /\ Raised = {0}
          \/ mem.kind = "mem" /\ Raised = {1}
      BY <2>2, <2>8 DEF Raised, Ordered, Registers
    <3>3. Raised = {srcReg'} /\ ExceptionDue(srcReg)'
      <4>1. CASE mem.kind = "ill" /\ Raised = {0}
        <5>1. srcReg' = 0
          BY <2>1, <4>1, UnitStep
        <5> QED BY <2>6, <3>1, <4>1, <5>1 DEF ExceptionDue, Completing, Proc!At
      <4>2. CASE mem.kind = "mem" /\ Raised = {1}
        <5>1. srcReg' = 1
          BY <2>1, <4>2, UnitStep
        <5> QED BY <2>6, <3>1, <4>2, <5>1 DEF ExceptionDue, Completing, Proc!At
      <4> QED BY <3>2, <4>1, <4>2
    <3>4. ip' = ip
      BY <3>1 DEF Completing
    <3> QED BY <2>1, <2>4, <2>5, <2>6, <2>8, <3>3, <3>4 DEF Raising, OnItsWay
  <2> QED BY <2>7, <2>8
<1> QED BY <1>1, <1>2

\* What the decode stage holds becomes the next in the execute stage, or a
\* call does when no delay slot is open.
LEMMA AdvanceStep ==
  ASSUME Typed, Ordered, ~errResp, ReturnsOnce, NEW pulse \in SUBSET Interrupts, NEW bus, NEW miss,
         Cycle(pulse, bus, miss), code' = code, Ena(bus, miss), ~exc, ~Flush
  PROVE  InFlight'
<1>1. FetchStage /\ DecodeStage /\ ExecuteStage /\ MemoryStage
  BY StagesStep
<1>2. Executed = ex /\ mem.kind \notin {"xcall", "trap", "callnd", "ill"} /\ ~illMemReg
  BY ExecutedIs DEF Flush
<1>3. /\ mem' = IF ex.kind = "xret" THEN [ex EXCEPT !.to = excOff] ELSE ex
      /\ excOff' = IF ex.kind = "xcall" THEN ex.pc ELSE excOff
  BY <1>1, <1>2 DEF ExecuteStage, MemoryStage
<1>4. /\ dec \in Item /\ ex \in Item /\ mem \in Item /\ excOff \in Nat /\ code \in Programs /\ inDelaySlot \in 0..3
      /\ dec.kind # "xcall"
  BY DEF Typed, TypeOK, Item
<1>5. /\ Fits(Completing, mem) /\ ExInFlight /\ (ex.kind \notin Killers => DecInFlight)
      /\ Slotted(Completing) /\ (mem.kind = "xret" => mem.to = excOff)
  BY <1>2 DEF Ordered, InFlight, Returns
<1>6. Completing' = AfterMem /\ (mem.kind # "xret" => window' = WindowAfter(window, mem))
  BY <1>2, Completion
<1>7. Slotted(AfterMem)
  BY <1>4, <1>5, ThenSlotted DEF AfterMem
<1>8. AfterMem.slots \in 0..3
  BY <1>7 DEF Slotted, Point
<1>9. mem.kind \in {"call", "xret"} => AfterMem.slots = 3
  BY DEF AfterMem, Then
<1>10. CASE ex.kind = "xcall"
  <2>1. mem' = ex /\ Flush'
    BY <1>3, <1>10 DEF Flush
  <2>2. ex.pc = AfterMem.ip /\ AfterMem.slots = 0 /\ ex.to \in Interrupts /\ WindowAfter(window, mem) > 0
    BY <1>5, <1>10 DEF ExInFlight
  <2>3. mem.kind # "xret"
    BY <1>9, <2>2
  <2>4. ip' = ex.pc /\ slots' = 0 /\ window' > 0
    BY <1>6, <2>2, <2>3 DEF Completing
  <2> QED BY <1>10, <2>1, <2>2, <2>4 DEF InFlight, CallDue
<1>11. CASE ex.kind # "xcall"
  <2>1. Fits(AfterMem, ex) /\ excOff' = excOff
    BY <1>3, <1>5, <1>11 DEF ExInFlight
  <2>2. mem'.kind = ex.kind /\ mem'.pc = ex.pc /\ (ex.kind # "xret" => mem'.to = ex.to)
    BY <1>3, <1>4 DEF Item
  <2>3. Fits(Completing, mem)'
    BY <1>6, <2>1, <2>2 DEF Fits, Proc!At
  <2>4. AfterMem' = AfterEx
    BY <1>6, <2>1, <2>2 DEF AfterMem, AfterEx, Then
  <2>5. Slotted(AfterEx)
    BY <1>4, <1>7, <2>1, ThenSlotted DEF AfterEx
  <2>6. AfterEx.slots \in 0..3
    BY <2>5 DEF Slotted, Point
  <2>7. CASE ex.kind \in {"trap", "callnd", "ill"}
    <3>1. Flush'
      BY <2>2, <2>7 DEF Flush
    <3> QED BY <2>2, <2>3, <2>7, <3>1 DEF InFlight
  <2>8. CASE ex.kind = "brnd"
    <3>1. AfterMem.slots = 0
      BY <1>4, <1>7, <1>8, <2>1, <2>8, SlotsArePlain DEF Transfers
    <3>2. AfterEx.slots = 0 /\ AfterEx.ip = ex.to
      BY <2>8, <3>1 DEF AfterEx, Then
    <3>3. mem.kind \notin Calls
      BY <1>2, <1>9, <3>1 DEF Calls
    <3>4. /\ pc' = ex.to /\ dec'.kind = "none" /\ ex'.kind = "none" /\ inDelaySlot' = 1
      BY <1>1, <1>2, <2>8, <3>3 DEF FetchStage, DecodeStage, ExecuteStage, BrFlush, Flushed, Calls
    <3>5. AfterEx' = AfterEx /\ AfterDec' = AfterEx
      BY <2>4, <3>4 DEF AfterEx, AfterDec, Then
    <3> QED BY <2>2, <2>3, <2>4, <2>8, <3>2, <3>4, <3>5 DEF InFlight, ExInFlight, DecInFlight, Fits
  <2>9. CASE ex.kind \notin Killers
    <3>1. /\ Fits(AfterEx, dec) /\ AfterEx.slots <= inDelaySlot
          /\ inDelaySlot = 0 => dec.pc = AfterEx.ip
          /\ dec.kind \notin Killers => pc = AfterDec.ip
      BY <1>5, <2>9 DEF DecInFlight
    <3>2. /\ ex' = Decoded /\ dec' = Instruction(Proc!At(pc), pc) /\ inDelaySlot' = SlotsAfter(Decoded)
      BY <1>1, <1>2, <2>9 DEF DecodeStage, ExecuteStage, BrFlush, Killers
    <3>3. ~Flush' => ~illMemReg'
      BY DEF Flush
    <3>4. CASE Inject
      <4>1. intr /\ Head(status) /\ inDelaySlot = 0
        BY <1>5, <3>4 DEF Inject, intrEna
      <4>2. ex' = [kind |-> "xcall", to |-> srcReg, pc |-> dec.pc] /\ srcReg \in Interrupts
        BY <3>2, <3>4, <4>1 DEF Decoded, Ordered, Registers
      <4>3. AfterEx.slots = 0 /\ dec.pc = AfterEx.ip
        <5>1. inDelaySlot = 0
          BY <4>1
        <5>2. AfterEx.slots <= 0 /\ dec.pc = AfterEx.ip
          BY <3>1, <5>1
        <5> QED BY <2>6, <5>2
      <4>4. ex.kind \notin {"br", "call", "xret"}
        BY <4>3 DEF AfterEx, Then
      <4>5. mem.kind # "xret"
        <5>1. SUFFICES ASSUME mem.kind = "xret" PROVE FALSE
          OBVIOUS
        <5>2. AfterMem.slots = 3
          BY <1>9, <5>1
        <5>3. AfterEx.slots = 2
          <6>1. ex.kind # "none"
            BY <2>1, <5>2 DEF Fits
          <6> QED BY <4>4, <5>2, <6>1 DEF AfterEx, Then
        <5> QED BY <4>3, <5>3
      <4>6. window = 3
        <5>1. status \in [1..Levels -> BOOLEAN] /\ Levels \in Nat \ {0} /\ (status[1] => window = 3)
          BY PipelineAssumption DEF Typed, TypeOK, Ordered, Enables
        <5>2. Head(status) = status[1]
          BY <5>1
        <5> QED BY <4>1, <5>1, <5>2
      <4>7. WindowAfter(window', mem') > 0
        <5>1. window' \in {2, 3}
          BY <1>6, <4>5, <4>6 DEF WindowAfter
        <5>2. \A w \in {2, 3} : \A i : WindowAfter(w, i) > 0
          BY DEF WindowAfter
        <5> QED BY <5>1, <5>2
      <4> QED BY <2>2, <2>3, <2>4, <2>9, <4>2, <4>3, <4>7 DEF InFlight, ExInFlight, Killers
    <3>5. CASE ~Inject
      <4>1. ex' = dec /\ inDelaySlot' = SlotsAfter(dec)
        BY <3>2, <3>5 DEF Decoded
      <4>2. ExInFlight'
        BY <1>4, <2>4, <3>1, <4>1 DEF ExInFlight, Fits, Proc!At
      <4>3. ASSUME dec.kind \notin Killers PROVE DecInFlight'
        <5>1. AfterEx' = AfterDec
          BY <2>1, <2>4, <4>1 DEF AfterEx, AfterDec
        <5>2. pc = AfterDec.ip /\ Slotted(AfterDec)
          BY <1>4, <2>5, <3>1, <4>3, ThenSlotted DEF AfterDec
        <5>3. AfterDec.slots \in 0..3
          BY <5>2 DEF Slotted, Point
        <5>4. /\ dec'.kind = Proc!At(pc).kind /\ dec'.to = Proc!At(pc).to /\ dec'.pc = pc
              /\ dec'.kind \in Kinds
          BY <1>4, <3>2, AtTyped DEF Instruction
        <5>5. Fits(AfterEx, dec)'
          BY <5>1, <5>2, <5>4, KindsApart DEF Fits, Proc!At
        <5>6. AfterDec.slots <= inDelaySlot'
          <6>1. dec.kind = "none" => AfterDec.slots = 0
            BY <3>1 DEF Fits, AfterDec, Then
          <6>2. dec.kind = "br" => AfterDec.slots = 2 /\ inDelaySlot' = 2
            BY <4>1 DEF AfterDec, Then, SlotsAfter
          <6>3. dec.kind \in {"call", "xret"} => AfterDec.slots = 3 /\ inDelaySlot' = 3
            BY <4>1 DEF AfterDec, Then, SlotsAfter
          <6>4. dec.kind \notin {"none", "br", "call", "xret"}
                  => AfterDec.slots = (IF AfterEx.slots = 0 THEN 0 ELSE AfterEx.slots - 1)
            BY DEF AfterDec, Then
          <6>5. inDelaySlot' \in Nat
                /\ (dec.kind \notin {"br", "call", "xret"} => inDelaySlot' >= inDelaySlot - 1)
            BY <1>4, <4>1 DEF SlotsAfter
          <6> QED BY <1>4, <2>6, <3>1, <6>1, <6>2, <6>3, <6>4, <6>5
        <5>7. ASSUME dec'.kind \notin Killers PROVE pc' = AfterDec'.ip
          <6>1. pc' = IF mem.kind \in {"call", "xret"} THEN mem.to
                      ELSE IF ex.kind = "br" THEN ex.to ELSE Proc!Following(pc)
            BY <1>1, <1>2, <2>9 DEF FetchStage, Calls, Killers
          <6>2. /\ mem.kind = "call" => AfterDec.slots = 1 /\ AfterDec.target = mem.to
                /\ mem.kind = "xret" => AfterDec.slots = 1 /\ AfterDec.target = excOff
                /\ mem.kind \notin {"call", "xret"} /\ ex.kind = "br" => AfterDec.slots = 1 /\ AfterDec.target = ex.to
                /\ mem.kind \notin {"call", "xret"} /\ ex.kind # "br" => AfterDec.slots # 1
            BY <1>4, <1>5, <2>1, <3>1, FetchesNext DEF AfterMem, AfterEx, AfterDec
          <6>3. AfterDec'.ip = IF AfterDec.slots = 1 THEN AfterDec.target ELSE Proc!Following(AfterDec.ip)
            <7>1. AfterDec' = Then(excOff, AfterDec, dec')
              BY <2>1, <5>1 DEF AfterDec
            <7> QED BY <5>4, <5>7, <7>1, KindsApart DEF Then, Killers
          <6> QED BY <1>5, <5>2, <6>1, <6>2, <6>3
        <5> QED BY <5>1, <5>2, <5>4, <5>5, <5>6, <5>7 DEF DecInFlight
      <4> QED BY <2>2, <2>3, <2>9, <4>1, <4>2, <4>3 DEF InFlight, Killers
    <3> QED BY <3>4, <3>5
  <2> QED BY <1>11, <2>7, <2>8, <2>9 DEF Killers
<1> QED BY <1>10, <1>11

-----------------------------------------------------------------------------
LEMMA InitOrder == Init => Ordered /\ ~errResp
<1> SUFFICES ASSUME Init PROVE Ordered /\ ~errResp
  OBVIOUS
<1>1. /\ dec = Flushed(0) /\ ex = Flushed(0) /\ mem = Flushed(0) /\ pc = 0 /\ inDelaySlot \in 0..3
      /\ mayStall = FALSE /\ illMemReg = FALSE /\ errResp = FALSE /\ master = "none"
      /\ excPend = {} /\ exc = FALSE /\ intr = FALSE
      /\ ip = 0 /\ slots = 0 /\ target = 0 /\ saved = <<>> /\ window = 0
  BY DEF Init, Proc!Init
<1>2. dec.kind = "none" /\ ex.kind = "none" /\ mem.kind = "none" /\ dec.pc = 0
  BY <1>1 DEF Flushed
<1>3. AfterMem = Completing /\ AfterEx = Completing /\ AfterDec = Completing
  BY <1>2 DEF AfterMem, AfterEx, AfterDec, Then
<1>4. Completing.ip = 0 /\ Completing.slots = 0 /\ Completing.target = 0 /\ Completing \in Point
  BY <1>1 DEF Completing, Point
<1>5. Registers
  BY <1>1, <1>2 DEF Registers, UnitOps
<1>6. Slotted(Completing)
  BY <1>4 DEF Slotted
<1>7. Enables
  <2>1. status = [l \in 1..Levels |-> FALSE] /\ Levels \in Nat \ {0}
    BY PipelineAssumption DEF Init
  <2>2. \A k \in 1..Levels : ~status[k]
    BY <2>1
  <2>3. 1 \in 1..Levels /\ \A k \in 1..Levels - 1 : k + 1 \in 1..Levels
    BY <2>1
  <2> QED BY <1>1, <2>2, <2>3 DEF Enables
<1>8. Returns
  BY <1>1, <1>2 DEF Returns
<1>9. InFlight
  BY <1>1, <1>2, <1>3, <1>4 DEF InFlight, ExInFlight, DecInFlight, Fits
<1> QED BY <1>1, <1>5, <1>6, <1>7, <1>8, <1>9 DEF Ordered

LEMMA OrderStep ==
  ASSUME Typed, OrderInv, ReturnsOnce, [Next]_vars
  PROVE  OrderInv' /\ [Proc!Next]_(Proc!vars)
<1>1. CASE Next
  <2>1. PICK pulse \in SUBSET Interrupts, bus \in {"NULL", "DVA", "ERR"}, miss \in BOOLEAN :
          Cycle(pulse, bus, miss)
    BY <1>1 DEF Next
  <2>2. code' = code
    BY <1>1, CodeStays
  <2>3. CASE errResp
    <3>1. illMemReg \/ mayStall
      BY <2>3 DEF OrderInv
    <3>2. errResp' /\ illMemReg'
      BY <2>1, <2>3, BadStays
    <3>3. ~Ena(bus, miss) \/ illMemReg
      BY <2>3, <3>1 DEF Ena, Resp
    <3>4. UNCHANGED <<code, history>>
      BY <2>1, <3>3 DEF Cycle, Completed
    <3> QED BY <3>2, <3>4 DEF OrderInv, history, Proc!vars
  <2>4. CASE ~errResp
    <3>1. Ordered
      BY <2>4 DEF OrderInv
    <3>2. [Proc!Next]_(Proc!vars)
      BY <2>1, <2>4, <3>1, StepRefines
    <3>3. errResp' => mayStall'
      BY <2>1, <2>4, <3>1, BadStep
    <3>4. Registers' /\ Slotted(Completing)' /\ Enables' /\ Returns' /\ (exc' => Raising')
      BY <2>1, <2>2, <2>4, <3>1, RegistersStep, SlottedStep, EnablesStep, ReturnsStep, RaisingStep
    <3>5. ASSUME ~exc' PROVE InFlight'
      <4>1. CASE ~Ena(bus, miss)
        BY <2>1, <2>2, <2>4, <3>1, <3>5, <4>1, StallStep
      <4>2. CASE Ena(bus, miss) /\ mem.kind \in {"xcall", "callnd"}
        BY <2>1, <2>2, <2>4, <3>1, <4>2, RestartStep
      <4>3. CASE Ena(bus, miss) /\ mem.kind \notin {"xcall", "callnd"}
        <5>1. ExcPend = {}
          BY <2>1, <2>4, <3>1, <3>5, UnitStep
        <5>2. ~exc
          <6>1. SUFFICES ASSUME exc PROVE FALSE
            OBVIOUS
          <6>2. mem.kind = "none" /\ ExcPend = {srcReg}
            BY <2>1, <2>4, <3>1, <4>3, <6>1, UnitStep
          <6> QED BY <5>1, <6>2
        <5>3. Raised = {}
          BY <2>1, <2>4, <3>1, <5>1, <5>2, UnitStep
        <5>4. ~Flush
          BY <4>3, <5>3 DEF Flush, Raised
        <5> QED BY <2>1, <2>2, <2>4, <3>1, <4>3, <5>2, <5>4, AdvanceStep
      <4> QED BY <4>1, <4>2, <4>3
    <3> QED BY <3>2, <3>3, <3>4, <3>5 DEF OrderInv, Ordered
  <2> QED BY <2>3, <2>4
<1>2. CASE UNCHANGED vars
  <2>1. UNCHANGED <<code, pc, dec, ex, mem, inDelaySlot, excOff, mayStall, illMemReg, errResp, master>>
    BY <1>2 DEF vars, stages
  <2>2. UNCHANGED <<status, excPend, exc, intr, srcReg, excAddr>> /\ UNCHANGED <<ip, slots, target, saved, window>>
    BY <1>2 DEF vars, unit, history
  <2>3. /\ Completing' = Completing /\ AfterMem' = AfterMem /\ AfterEx' = AfterEx /\ AfterDec' = AfterDec
        /\ (Flush' <=> Flush)
    BY <2>1, <2>2 DEF Completing, AfterMem, AfterEx, AfterDec, Flush
  <2>4. Registers => Registers'
    BY <2>1, <2>2 DEF Registers
  <2>5. Slotted(Completing) => Slotted(Completing)'
    BY <2>1, <2>3 DEF Slotted, Plain
  <2>6. Enables => Enables'
    BY <2>2 DEF Enables
  <2>7. Returns => Returns'
    BY <2>1, <2>2 DEF Returns
  <2>8. Raising => Raising'
    BY <2>1, <2>2 DEF Raising, OnItsWay, ExceptionDue, Proc!At
  <2>9. (ExInFlight => ExInFlight') /\ (DecInFlight => DecInFlight')
    BY <2>1, <2>2, <2>3 DEF ExInFlight, DecInFlight, Fits, Proc!At
  <2>10. InFlight => InFlight'
    BY <2>1, <2>2, <2>3, <2>9 DEF InFlight, CallDue, ExceptionDue, Fits, Proc!At
  <2>11. OrderInv'
    BY <2>1, <2>2, <2>4, <2>5, <2>6, <2>7, <2>8, <2>10 DEF OrderInv, Ordered
  <2> QED BY <2>1, <2>2, <2>11 DEF Proc!vars
<1> QED BY <1>1, <1>2

\* The pipeline completes every program as a processor that takes one
\* instruction after the other, as long as handlers that return are not
\* interrupted themselves.
THEOREM PipelineIsProcessor == Spec /\ []ReturnsOnce => IsProcessor
<1>1. Init => Typed /\ OrderInv /\ Proc!Init
  BY InitTyped, InitOrder DEF OrderInv, Init
<1>2. Typed /\ OrderInv /\ ReturnsOnce /\ [Next]_vars => Typed' /\ OrderInv' /\ [Proc!Next]_(Proc!vars)
  BY TypedStep, OrderStep
<1> QED BY <1>1, <1>2, PTL DEF Spec, IsProcessor, Proc!Spec

=============================================================================
