----------------------- MODULE TransactionalMemoryProofs -----------------------
(***************************************************************************)
(* Transactions are atomic as built: nobody reads while a commit is half   *)
(* stored, and what an unmarked transaction has read is what the memory    *)
(* holds, but for words read in the cycle of their overwriting.            *)
(***************************************************************************)
EXTENDS TransactionalMemory, TLAPS

Accesses == [kind : {"none", "read", "write", "commit"}, addr : Addresses, data : Int]

TmAssumption ==
  /\ CoreCnt \in Nat \ {0} /\ BufSize \in Nat /\ RdMod \in Nat \ {0}
  /\ 0 \in Addresses
  /\ Scenarios \subseteq [Cores -> SUBSET Accesses]

States  == {"idle", "read", "preSharedRead", "sharedRead", "commit"}
Entries == [addr : Addresses, rd : BOOLEAN, wr : BOOLEAN, data : Int, got : Int]
Registered ==
  [ioM : Accesses, waiting : BOOLEAN, state : States, buf : Seq(Entries), rdaddr : Nat,
   conflict : BOOLEAN, overflow : BOOLEAN, memrdaddr : Addresses, late : SUBSET Addresses]

TmTypeOK ==
  /\ corecur \in Cores /\ sharedmemrdaddr \in Addresses
  /\ sharedmem \in [Addresses -> Int]
  /\ core \in [Cores -> Registered]
  /\ allowed \in [Cores -> SUBSET Accesses]

\* Between two accesses nothing is under way.
Rests(c) == ~c.waiting => c.state = "idle" /\ c.ioM.kind = "none"

\* A commit ends before the pointer comes round.
Short(c) ==
  /\ c.ioM.kind = "commit" => Len(c.buf) < RdMod \/ c.overflow
  /\ c.state = "commit" => Len(c.buf) < RdMod /\ c.rdaddr <= Len(c.buf)

\* Only a commit in its turn has come beyond its first entry.
InTurn(i) == core[i].rdaddr # 0 => i = corecur /\ core[i].state = "commit"

\* The port has the address of whoever reads, and nobody is beyond the first
\* entry of a commit.
Addressed(i) ==
  core[i].state = "sharedRead" =>
    sharedmemrdaddr = core[i].memrdaddr /\ core[corecur].rdaddr = 0

\* Who is not marked has read what the memory holds.
Unmarked(i) == ~core[i].conflict /\ core[i].rdaddr = 0 => Current(core[i], core[i].late)

TmInv ==
  /\ TmTypeOK
  /\ \A i \in Cores : /\ Rests(core[i]) /\ Short(core[i])
                     /\ InTurn(i) /\ Addressed(i) /\ Unmarked(i)

LEMMA InitInv == TmAssumption /\ TmInit => TmInv
<1> SUFFICES ASSUME TmAssumption, TmInit PROVE TmInv
  OBVIOUS
<1> USE DEF TmAssumption, TmInit
<1>1. NoAccess \in Accesses /\ NoAccess.kind = "none"
  BY DEF NoAccess, Access, Accesses
<1>2. Start \in Registered
  BY <1>1 DEF Start, Registered, States
<1>3. 0 \in Cores
  BY DEF Cores
<1>4. TmTypeOK
  BY <1>2, <1>3 DEF TmTypeOK
<1>5. ASSUME NEW i \in Cores
      PROVE  Rests(core[i]) /\ Short(core[i]) /\ InTurn(i) /\ Addressed(i) /\ Unmarked(i)
  <2>1. core[i] = Start /\ Start.state = "idle" /\ Start.buf = <<>> /\ Start.rdaddr = 0
        /\ Start.ioM.kind = "none"
    BY <1>1 DEF Start
  <2> QED
    BY <2>1 DEF Rests, Short, InTurn, Addressed, Unmarked, Current
<1> QED
  BY <1>4, <1>5 DEF TmInv

-----------------------------------------------------------------------------
(* What a cycle does to a core. *)

LEMMA Appended ==
  ASSUME NEW S, NEW s \in Seq(S), NEW e \in S
  PROVE  /\ Append(s, e) \in Seq(S) /\ Len(Append(s, e)) = Len(s) + 1
         /\ \A k \in 1..Len(s) + 1 : Append(s, e)[k] = IF k <= Len(s) THEN s[k] ELSE e
  OBVIOUS

\* The state machine keeps the types.
LEMMA HandledType ==
  ASSUME TmAssumption, TmTypeOK, NEW i \in Cores
  PROVE  Handled(i) \in Registered
<1> DEFINE c == core[i]
<1>1. c \in Registered
  BY DEF TmTypeOK
<1> HIDE DEF c
<1> USE DEF Registered, States
<1>2. Answer(c) \in Registered
  BY <1>1 DEF Answer
<1>3. Cleared(c) \in Registered
  <2>1. <<>> \in Seq(Entries)
    OBVIOUS
  <2> QED
    BY <1>2, <2>1 DEF Cleared
<1>5. c.ioM \in Accesses /\ c.ioM.addr \in Addresses /\ c.ioM.data \in Int
  BY <1>1 DEF Accesses
<1>6. WriteWord(c) \in Registered
  <2>1. CASE Matches(c) # {}
    <3> DEFINE j == CHOOSE j \in Matches(c) : TRUE
    <3>1. j \in 1..Len(c.buf)
      BY <2>1 DEF Matches
    <3> HIDE DEF j
    <3>2. c.buf \in Seq(Entries) /\ c.buf[j] \in Entries
      BY <1>1, <3>1
    <3>3. [c.buf[j] EXCEPT !.data = c.ioM.data, !.wr = TRUE] \in Entries
      BY <3>2, <1>5 DEF Entries
    <3>4. [c.buf EXCEPT ![j] = [c.buf[j] EXCEPT !.data = c.ioM.data, !.wr = TRUE]] \in Seq(Entries)
      BY <3>1, <3>2, <3>3
    <3>5. WriteWord(c) = [c EXCEPT !.buf = [c.buf EXCEPT
                        ![j] = [c.buf[j] EXCEPT !.data = c.ioM.data, !.wr = TRUE]]]
      BY <2>1 DEF WriteWord, j
    <3> QED
      BY <3>4, <3>5, <1>1
  <2>2. CASE Matches(c) = {}
    <3>1. Entry(c.ioM.addr, FALSE, c.ioM.data, 0) \in Entries
      BY <1>5 DEF Entry, Entries
    <3>2. c.buf \in Seq(Entries)
      BY <1>1
    <3> DEFINE grown == Append(c.buf, Entry(c.ioM.addr, FALSE, c.ioM.data, 0))
    <3>3. grown \in Seq(Entries)
      BY <3>1, <3>2, Appended
    <3>4. WriteWord(c) = [c EXCEPT !.overflow = TRUE] \/ WriteWord(c) = [c EXCEPT !.buf = grown]
      BY <2>2 DEF WriteWord
    <3> HIDE DEF grown
    <3> QED
      BY <1>1, <3>3, <3>4
  <2> QED
    BY <2>1, <2>2
<1>7. Answer(WriteWord(c)) \in Registered
  BY <1>6 DEF Answer
<1>8. Idle(c) \in Registered
  BY <1>1, <1>3, <1>5, <1>7 DEF Idle, ReadWord, Accesses
<1>9. SharedRead(c) \in Registered
  <2>1. sharedmemrdaddr \in Addresses /\ sharedmem[sharedmemrdaddr] \in Int
    BY DEF TmTypeOK
  <2> DEFINE word == sharedmem[sharedmemrdaddr]
             grown == Append(c.buf, Entry(c.memrdaddr, TRUE, word, word))
  <2>2. Entry(c.memrdaddr, TRUE, word, word) \in Entries
    BY <1>1, <2>1 DEF Entry, Entries
  <2>3. grown \in Seq(Entries)
    BY <1>1, <2>2, Appended
  <2>4. Answer(c).buf = c.buf /\ Answer(c).late = c.late
    BY <1>1 DEF Answer
  <2>5. PICK late \in SUBSET Addresses :
          SharedRead(c) = [Answer(c) EXCEPT !.buf = grown, !.late = late]
    BY <1>1, <1>2, <2>1, <2>4 DEF SharedRead
  <2> HIDE DEF grown
  <2> QED
    BY <1>2, <2>3, <2>5
<1>10. \A m \in Nat : (m + 1) % RdMod \in Nat
  BY DEF TmAssumption
<1> QED
  BY <1>1, <1>2, <1>3, <1>8, <1>9, <1>10 DEF Handled, c

\* The registers after the cycle: those of the state machine, the mark and
\* the access the core issues.
LEMMA AfterCycle ==
  ASSUME TmAssumption, TmTypeOK, Cycle, NEW i \in Cores
  PROVE  \E access \in Accesses :
           LET h == Handled(i)
           IN  /\ May(i, access)
               /\ core'[i] \in Registered
               /\ core'[i].ioM = access
               /\ core'[i].waiting = (access # NoAccess \/ h.waiting)
               /\ core'[i].state = h.state /\ core'[i].buf = h.buf
               /\ core'[i].rdaddr = (IF h.state = "commit" THEN h.rdaddr ELSE 0)
               /\ core'[i].conflict = (h.buf # <<>> /\ (h.conflict \/ Conflicts(i)))
               /\ core'[i].overflow = h.overflow /\ core'[i].memrdaddr = h.memrdaddr
               /\ core'[i].late = h.late
<1> PICK access \in [Cores -> {NoAccess} \cup UNION {allowed[j] : j \in Cores}] :
           /\ \A j \in Cores : May(j, access[j])
           /\ core' = [j \in Cores |-> Issue(Registers(j), access[j])]
  BY DEF Cycle
<1> DEFINE h == Handled(i)
           a == access[i]
           c == Registers(i)
<1>1. a \in Accesses
  <2>1. NoAccess \in Accesses
    BY DEF NoAccess, Access, Accesses, TmAssumption
  <2>2. UNION {allowed[j] : j \in Cores} \subseteq Accesses
    BY DEF TmTypeOK
  <2> QED
    BY <2>1, <2>2
<1>2. h \in Registered
  BY HandledType
<1>3. Conflicts(i) \in BOOLEAN
  BY DEF Conflicts
<1>4. NoAccess \in Accesses
  BY DEF NoAccess, Access, Accesses, TmAssumption
<1>5. c = [h EXCEPT !.rdaddr = IF h.state = "commit" THEN h.rdaddr ELSE 0,
                    !.conflict = h.buf # <<>> /\ (h.conflict \/ Conflicts(i)),
                    !.ioM = NoAccess]
  BY <1>2 DEF Registers, Registered
<1>6. core'[i] = Issue(c, a) /\ May(i, a)
  OBVIOUS
<1> HIDE DEF h, a, c
<1>7. /\ c \in Registered /\ c.ioM = NoAccess /\ c.waiting = h.waiting
      /\ c.state = h.state /\ c.buf = h.buf
      /\ c.rdaddr = (IF h.state = "commit" THEN h.rdaddr ELSE 0)
      /\ c.conflict = (h.buf # <<>> /\ (h.conflict \/ Conflicts(i)))
      /\ c.overflow = h.overflow /\ c.memrdaddr = h.memrdaddr /\ c.late = h.late
  BY <1>2, <1>3, <1>4, <1>5 DEF Registered
<1>8. CASE a = NoAccess
  <2>1. core'[i] = c
    BY <1>6, <1>8 DEF Issue
  <2>2. c.waiting = (a # NoAccess \/ h.waiting)
    BY <1>2, <1>7, <1>8 DEF Registered
  <2> QED
    BY <1>1, <1>6, <1>7, <1>8, <2>1, <2>2 DEF h
<1>9. CASE a # NoAccess
  <2>1. core'[i] = [c EXCEPT !.ioM = a, !.waiting = TRUE]
    BY <1>6, <1>9 DEF Issue
  <2>2. /\ core'[i] \in Registered /\ core'[i].ioM = a /\ core'[i].waiting = TRUE
        /\ core'[i].state = c.state /\ core'[i].buf = c.buf /\ core'[i].rdaddr = c.rdaddr
        /\ core'[i].conflict = c.conflict /\ core'[i].overflow = c.overflow
        /\ core'[i].memrdaddr = c.memrdaddr /\ core'[i].late = c.late
    BY <1>1, <1>7, <2>1 DEF Registered
  <2>3. core'[i].waiting = (a # NoAccess \/ h.waiting)
    BY <1>2, <1>9, <2>2 DEF Registered
  <2> QED
    BY <1>1, <1>6, <1>7, <2>2, <2>3 DEF h
<1> QED
  BY <1>8, <1>9

-----------------------------------------------------------------------------
(* The state machine, state by state. *)

LEMMA Rested ==
  ASSUME TmInv, NEW i \in Cores, ~core[i].waiting
  PROVE  Handled(i) = core[i] /\ core[i].state = "idle"
  BY DEF TmInv, Rests, Handled, Idle

LEMMA Below == ASSUME NEW n \in Nat, NEW m \in Nat \ {0}, n < m PROVE n % m = n
OBVIOUS

LEMMA WaitingHandled ==
  ASSUME TmInv, NEW i \in Cores, ~Handled(i).waiting
  PROVE  Handled(i).state = "idle"
<1> DEFINE c == core[i]
<1>1. c \in Registered /\ Rests(c)
  BY DEF TmInv, TmTypeOK
<1> QED
  BY <1>1 DEF Rests, Registered, States, Accesses, Handled, Idle, ReadWord, WriteWord, Answer, Cleared,
     SharedRead

LEMMA CommitHandled ==
  ASSUME TmInv, NEW i \in Cores, Handled(i).state = "commit"
  PROVE  /\ Handled(i).buf = core[i].buf
         /\ \/ /\ core[i].state = "idle" /\ core[i].ioM.kind = "commit" /\ ~core[i].overflow
               /\ Handled(i).rdaddr = core[i].rdaddr
            \/ /\ core[i].state = "commit" /\ ~Ends(i)
               /\ Handled(i).rdaddr = IF corecur = i THEN (core[i].rdaddr + 1) % RdMod ELSE 0
<1> DEFINE c == core[i]
<1>1. c \in Registered
  BY DEF TmInv, TmTypeOK
<1>2. /\ c.state \in {"idle", "read", "preSharedRead", "sharedRead", "commit"}
      /\ c.ioM.kind \in {"none", "read", "write", "commit"}
  BY <1>1 DEF Registered, States, Accesses
<1>3. Answer(c).state = "idle" /\ Cleared(c).state = "idle" /\ SharedRead(c).state = "idle"
  BY <1>1 DEF Answer, Cleared, SharedRead, Registered
<1>4. CASE c.state = "idle"
  <2>1. Handled(i) = Idle(c)
    BY <1>4 DEF Handled
  <2>2. c.ioM.kind # "write"
    <3>1. SUFFICES ASSUME c.ioM.kind = "write" PROVE Idle(c).state = "idle"
      BY <2>1
    <3>2. DOMAIN WriteWord(c) = DOMAIN c
      BY DEF WriteWord
    <3>3. "state" \in DOMAIN WriteWord(c)
      BY <1>1, <3>2 DEF Registered
    <3>4. Answer(WriteWord(c)).state = "idle"
      BY <3>3 DEF Answer
    <3> QED BY <3>1, <3>4 DEF Idle
  <2>3. c.ioM.kind # "read"
    BY <1>1, <1>4, <2>1 DEF Idle, ReadWord, Registered
  <2>4. c.ioM.kind # "none"
    BY <1>4, <2>1 DEF Idle
  <2>5. c.ioM.kind = "commit" /\ ~Fails(c) /\ Handled(i) = [c EXCEPT !.state = "commit"]
    BY <1>2, <1>3, <2>1, <2>2, <2>3, <2>4 DEF Idle
  <2> QED
    BY <1>1, <1>4, <2>5 DEF Fails, Registered
<1>5. CASE c.state = "commit"
  <2>1. Handled(i) = IF Ends(i) THEN Cleared(c)
                     ELSE [c EXCEPT !.rdaddr = IF corecur = i THEN (@ + 1) % RdMod ELSE 0]
    BY <1>5 DEF Handled
  <2>2. ~Ends(i)
    BY <1>3, <2>1
  <2> QED
    BY <1>1, <1>5, <2>1, <2>2 DEF Registered
<1>6. CASE c.state \in {"read", "preSharedRead", "sharedRead"}
  <2>1. \/ Handled(i) = Answer(c) \/ Handled(i) = SharedRead(c)
        \/ c.state = "preSharedRead" /\ Handled(i) \in {c, [c EXCEPT !.state = "sharedRead"]}
    BY <1>6 DEF Handled
  <2> QED
    BY <1>1, <1>3, <2>1 DEF Registered
<1> QED
  BY <1>2, <1>4, <1>5, <1>6

LEMMA ReadHandled ==
  ASSUME TmInv, NEW i \in Cores, Handled(i).state = "sharedRead"
  PROVE  /\ core[i].state = "preSharedRead" /\ corecur = i
         /\ Handled(i).memrdaddr = core[i].memrdaddr
<1> DEFINE c == core[i]
<1>1. c \in Registered
  BY DEF TmInv, TmTypeOK
<1> QED
  BY <1>1 DEF Registered, States, Accesses, Handled, Idle, ReadWord, WriteWord, Answer, Cleared, SharedRead

\* What a core has read in its transaction is what it had, or the word at the
\* read port.
OldOrNew(c, h) ==
  \A k \in 1..Len(h.buf) : h.buf[k].rd =>
    \/ \E m \in 1..Len(c.buf) :
         c.buf[m].rd /\ c.buf[m].addr = h.buf[k].addr /\ c.buf[m].got = h.buf[k].got
    \/ /\ c.state = "sharedRead" /\ h.buf[k].addr = c.memrdaddr
       /\ h.buf[k].got = sharedmem[sharedmemrdaddr]
       /\ Stores /\ Stored.addr = sharedmemrdaddr => sharedmemrdaddr \in h.late

LEMMA BufferHandled ==
  ASSUME TmInv, NEW i \in Cores, Handled(i).buf # <<>>
  PROVE  /\ OldOrNew(core[i], Handled(i))
         /\ Handled(i).conflict = core[i].conflict /\ core[i].late \subseteq Handled(i).late
<1> DEFINE c == core[i]
           h == Handled(i)
<1>1. c \in Registered
  BY DEF TmInv, TmTypeOK
<1> HIDE DEF c
<1>2. ASSUME NEW d \in Registered, d.buf = c.buf PROVE OldOrNew(c, d)
  BY <1>2 DEF OldOrNew
<1>3. CASE c.state = "sharedRead"
  <2> DEFINE word == sharedmem[sharedmemrdaddr]
             e == Entry(c.memrdaddr, TRUE, word, word)
  <2>1. e \in Entries
    BY <1>1 DEF TmInv, TmTypeOK, Registered, Entry, Entries
  <2>2. e.addr = c.memrdaddr /\ e.got = word
    BY DEF Entry
  <2>3. c.buf \in Seq(Entries) /\ h = SharedRead(c)
    BY <1>1, <1>3 DEF Registered, Handled, c
  <2>4. Answer(c).buf = c.buf /\ Answer(c).late = c.late /\ Answer(c).conflict = c.conflict
    BY <1>1 DEF Answer, Registered
  <2>5. /\ h.buf = Append(c.buf, e) /\ h.conflict = c.conflict
        /\ h.late = IF Stores /\ Stored.addr = sharedmemrdaddr
                     THEN c.late \cup {sharedmemrdaddr} ELSE c.late
    BY <1>1, <2>3, <2>4 DEF SharedRead, Answer, Registered
  <2> HIDE DEF e, h, word
  <2>6. /\ Len(h.buf) = Len(c.buf) + 1
        /\ \A k \in 1..Len(c.buf) + 1 : h.buf[k] = IF k <= Len(c.buf) THEN c.buf[k] ELSE e
    BY <2>1, <2>3, <2>5, Appended
  <2>7. Len(c.buf) \in Nat
    BY <2>3
  <2>8. OldOrNew(c, h)
    BY <1>3, <2>2, <2>5, <2>6, <2>7 DEF OldOrNew, word
  <2> QED
    BY <2>5, <2>8 DEF c, h
<1>4. CASE c.state = "idle" /\ c.ioM.kind = "write"
  <2>1. h = Answer(WriteWord(c))
    BY <1>4 DEF Handled, Idle, c
  <2> DEFINE w == WriteWord(c)
  <2>2. c.buf \in Seq(Entries) /\ \A k \in 1..Len(c.buf) : c.buf[k] \in Entries
    BY <1>1 DEF Registered
  <2>3. CASE Matches(c) # {}
    <3> DEFINE j == CHOOSE j \in Matches(c) : TRUE
               e == [c.buf[j] EXCEPT !.data = c.ioM.data, !.wr = TRUE]
               buf == [c.buf EXCEPT ![j] = e]
    <3>1. j \in 1..Len(c.buf)
      BY <2>3 DEF Matches
    <3> HIDE DEF j
    <3>2. e.rd = c.buf[j].rd /\ e.addr = c.buf[j].addr /\ e.got = c.buf[j].got
      BY <2>2, <3>1 DEF Entries
    <3>3. w = [c EXCEPT !.buf = buf]
      BY <2>2, <2>3, <1>1, <3>1 DEF WriteWord, j, Entries
    <3>4. w.buf = buf /\ w.conflict = c.conflict /\ w.late = c.late
      BY <1>1, <3>3 DEF Registered
    <3>5. Answer(w).buf = w.buf /\ Answer(w).conflict = w.conflict /\ Answer(w).late = w.late
      BY <1>1, <3>3 DEF Registered, Answer
    <3>6. h = Answer(w)
      BY <2>1
    <3> HIDE DEF e, w, h
    <3>7. Len(buf) = Len(c.buf)
          /\ \A k \in 1..Len(c.buf) : buf[k] = IF k = j THEN e ELSE c.buf[k]
      BY <2>2, <3>1
    <3>8. OldOrNew(c, w)
      BY <3>1, <3>2, <3>4, <3>7 DEF OldOrNew
    <3> QED
      BY <3>4, <3>8, <3>5, <3>6 DEF OldOrNew, c, h
  <2>4. CASE Matches(c) = {}
    <3> DEFINE e == Entry(c.ioM.addr, FALSE, c.ioM.data, 0)
    <3>1. e \in Entries /\ ~e.rd
      BY <1>1 DEF Registered, Accesses, Entry, Entries
    <3>2. w = [c EXCEPT !.overflow = TRUE] \/ w = [c EXCEPT !.buf = Append(c.buf, e)]
      BY <1>1, <2>4 DEF WriteWord
    <3>3. Answer(w).buf = w.buf /\ Answer(w).conflict = w.conflict /\ Answer(w).late = w.late
      BY <1>1, <3>2 DEF Registered, Answer
    <3>4. h = Answer(w)
      BY <2>1
    <3> HIDE DEF e, w, h
    <3>5. /\ w.buf = c.buf \/ w.buf = Append(c.buf, e)
          /\ w.conflict = c.conflict /\ w.late = c.late
      BY <1>1, <3>2 DEF Registered
    <3>6. OldOrNew(c, w)
      <4>1. CASE w.buf = c.buf
        BY <4>1 DEF OldOrNew
      <4>2. CASE w.buf = Append(c.buf, e)
        <5>1. Len(w.buf) = Len(c.buf) + 1 /\ Len(c.buf) \in Nat
              /\ \A k \in 1..Len(c.buf) + 1 : w.buf[k] = IF k <= Len(c.buf) THEN c.buf[k] ELSE e
          BY <2>2, <3>1, <4>2, Appended
        <5> QED
          BY <3>1, <5>1, SMTT(30) DEF OldOrNew
      <4> QED
        BY <3>5, <4>1, <4>2
    <3> QED
      BY <3>5, <3>6, <3>3, <3>4 DEF OldOrNew, c, h
  <2> QED
    BY <2>3, <2>4
<1>5. CASE ~(c.state = "idle" /\ c.ioM.kind = "write") /\ c.state # "sharedRead"
  <2>1. h.buf = c.buf /\ h.conflict = c.conflict /\ h.late = c.late
    BY <1>1, <1>5 DEF Registered, States, Accesses, Handled, Idle, ReadWord, Answer, Cleared, c
  <2> QED
    BY <2>1 DEF OldOrNew, c
<1> QED
  BY <1>3, <1>4, <1>5

-----------------------------------------------------------------------------
(* A cycle keeps the invariant. *)

\* A transaction that goes on being stored keeps the turn, one word further.
LEMMA Further ==
  ASSUME TmAssumption, TmInv, Cycle, NEW i \in Cores, core'[i].rdaddr # 0
  PROVE  /\ i = corecur /\ core[i].state = "commit" /\ ~core[i].conflict
         /\ corecur' = corecur /\ core'[i].state = "commit"
<1>1. /\ Handled(i).state = "commit" /\ Handled(i).rdaddr # 0
      /\ core'[i].state = Handled(i).state
  BY AfterCycle DEF TmInv
<1>2. InTurn(i)
  BY DEF TmInv
<1>3. /\ core[i].state = "commit" /\ ~Ends(i)
      /\ Handled(i).rdaddr = IF corecur = i THEN (core[i].rdaddr + 1) % RdMod ELSE 0
  BY <1>1, <1>2, CommitHandled DEF InTurn
<1>4. corecur = i
  BY <1>1, <1>3
<1>5. ~core[i].conflict /\ ~Finished /\ Storing
  BY <1>3, <1>4 DEF Ends, Finished, Storing, Turn
<1> QED
  BY <1>1, <1>3, <1>4, <1>5 DEF Cycle, SharedMemory, TurnEnds

\* The core whose turn it is does not store its first word and stay there.
LEMMA Advances ==
  ASSUME TmAssumption, TmInv, Cycle, NEW i \in Cores, corecur = i, core[i].state = "commit",
         ~core[i].conflict, core'[i].buf # <<>>
  PROVE  core'[i].rdaddr # 0
<1> DEFINE c == core[i]
<1>1. Handled(i) = IF Ends(i) THEN Cleared(c) ELSE [c EXCEPT !.rdaddr = (@ + 1) % RdMod]
  BY DEF Handled
<1>2. c \in Registered /\ Short(c)
  BY DEF TmInv, TmTypeOK
<1>3. Cleared(c).buf = <<>>
  BY <1>2 DEF Cleared, Answer, Registered
<1>4. ~Ends(i)
  BY <1>1, <1>3, AfterCycle DEF TmInv
<1>5. c.rdaddr \in Nat /\ c.rdaddr # Len(c.buf) /\ Len(c.buf) \in Nat
  BY <1>2, <1>4 DEF Ends, Registered
<1>6. c.rdaddr + 1 < RdMod
  BY <1>2, <1>5 DEF Short, TmAssumption
<1>7. (c.rdaddr + 1) % RdMod = c.rdaddr + 1 /\ c.rdaddr + 1 # 0
  BY <1>5, <1>6, Below DEF TmAssumption
<1>8. Handled(i).state = "commit" /\ Handled(i).rdaddr # 0
  <2>1. Handled(i) = [c EXCEPT !.rdaddr = c.rdaddr + 1]
    BY <1>1, <1>4, <1>7
  <2> QED BY <1>2, <1>7, <2>1 DEF Registered
<1> QED
  BY <1>8, AfterCycle DEF TmInv

LEMMA TypeKept == ASSUME TmAssumption, TmInv, Cycle PROVE TmTypeOK'
<1> USE DEF TmInv, TmTypeOK
<1>1. corecur' \in Cores
  BY DEF Cycle, SharedMemory, Cores, TmAssumption
<1>2. core[corecur] \in Registered
  OBVIOUS
<1>3. sharedmemrdaddr' \in Addresses
  BY <1>2 DEF Cycle, SharedMemory, Turn, Registered
<1>4. sharedmem' \in [Addresses -> Int]
  <2>1. CASE Stores
    <3>1. Turn.rdaddr + 1 \in 1..Len(Turn.buf) /\ Turn.buf \in Seq(Entries)
      BY <1>2, <2>1 DEF Stores, Turn, Registered
    <3>2. Stored \in Entries
      BY <3>1 DEF Stored
    <3> QED
      BY <2>1, <3>2 DEF Cycle, SharedMemory, Entries
  <2> QED
    BY <2>1 DEF Cycle, SharedMemory
<1>5. \A i \in Cores : core'[i] \in Registered
  BY AfterCycle
<1>6. DOMAIN core' = Cores
  BY DEF Cycle
<1>7. core' \in [Cores -> Registered]
  <2>1. core' = [i \in Cores |-> core'[i]]
    BY DEF Cycle
  <2> QED
    BY <1>5, <2>1
<1> QED
  BY <1>1, <1>3, <1>4, <1>7 DEF Cycle

LEMMA RestsKept ==
  ASSUME TmAssumption, TmInv, Cycle, NEW i \in Cores PROVE Rests(core'[i])
<1>1. PICK a \in Accesses : /\ core'[i].ioM = a /\ core'[i].state = Handled(i).state
                           /\ core'[i].waiting = (a # NoAccess \/ Handled(i).waiting)
  BY AfterCycle DEF TmInv
<1>2. NoAccess.kind = "none"
  BY DEF NoAccess, Access
<1> QED
  BY <1>1, <1>2, WaitingHandled DEF Rests

LEMMA ShortKept ==
  ASSUME TmAssumption, TmInv, Cycle, NEW i \in Cores PROVE Short(core'[i])
<1> DEFINE c == core[i]
<1>1. c \in Registered /\ Short(c) /\ InTurn(i)
  BY DEF TmInv, TmTypeOK
<1>2. PICK a \in Accesses :
        /\ May(i, a) /\ core'[i].ioM = a /\ core'[i].buf = Handled(i).buf
        /\ core'[i].state = Handled(i).state /\ core'[i].overflow = Handled(i).overflow
        /\ core'[i].rdaddr = (IF Handled(i).state = "commit" THEN Handled(i).rdaddr ELSE 0)
  BY AfterCycle DEF TmInv
<1>3. ASSUME a.kind = "commit" PROVE Len(core'[i].buf) < RdMod \/ core'[i].overflow
  <2>1. a # NoAccess
    BY <1>3 DEF NoAccess, Access
  <2>2. ~c.waiting /\ (Len(c.buf) < RdMod \/ c.overflow)
    BY <1>2, <1>3, <2>1 DEF May, Fits
  <2> QED
    BY <1>2, <2>2, Rested
<1>4. ASSUME Handled(i).state = "commit"
      PROVE  Len(core'[i].buf) < RdMod /\ core'[i].rdaddr <= Len(core'[i].buf)
  <2>1. Len(c.buf) \in Nat /\ c.rdaddr \in Nat
    BY <1>1 DEF Registered
  <2>2. CASE /\ c.state = "idle" /\ c.ioM.kind = "commit" /\ ~c.overflow
             /\ Handled(i).rdaddr = c.rdaddr
    BY <1>1, <1>2, <1>4, <2>1, <2>2, CommitHandled DEF Short, InTurn
  <2>3. CASE /\ c.state = "commit" /\ ~Ends(i)
             /\ Handled(i).rdaddr = IF corecur = i THEN (c.rdaddr + 1) % RdMod ELSE 0
    <3>1. Len(c.buf) < RdMod /\ c.rdaddr <= Len(c.buf)
      BY <1>1, <2>3 DEF Short
    <3>2. CASE corecur = i
      <4>1. c.rdaddr + 1 <= Len(c.buf)
        BY <2>1, <2>3, <3>1, <3>2 DEF Ends
      <4>2. (c.rdaddr + 1) % RdMod = c.rdaddr + 1
        <5>1. c.rdaddr + 1 \in Nat /\ c.rdaddr + 1 < RdMod /\ RdMod \in Nat \ {0}
          BY <2>1, <3>1, <4>1 DEF TmAssumption
        <5> QED BY <5>1, Below
      <4> QED
        BY <1>2, <1>4, <2>3, <3>1, <3>2, <4>1, <4>2, CommitHandled
    <3>3. CASE corecur # i
      BY <1>2, <1>4, <2>1, <2>3, <3>1, <3>3, CommitHandled
    <3> QED
      BY <3>2, <3>3
  <2> QED
    BY <1>4, <2>2, <2>3, CommitHandled
<1> QED
  BY <1>2, <1>3, <1>4 DEF Short

LEMMA AddressedKept ==
  ASSUME TmAssumption, TmInv, Cycle, NEW i \in Cores PROVE Addressed(i)'
<1> SUFFICES ASSUME core'[i].state = "sharedRead"
             PROVE  sharedmemrdaddr' = core'[i].memrdaddr /\ core'[corecur'].rdaddr = 0
  BY DEF Addressed
<1>1. Handled(i).state = "sharedRead" /\ core'[i].memrdaddr = Handled(i).memrdaddr
  BY AfterCycle DEF TmInv
<1>2. core[i].state = "preSharedRead" /\ corecur = i /\ core'[i].memrdaddr = core[i].memrdaddr
  BY <1>1, ReadHandled
<1>3. corecur' \in Cores
  BY TypeKept DEF TmTypeOK
<1>4. core'[corecur'].rdaddr = 0
  BY <1>2, <1>3, Further
<1> QED
  BY <1>2, <1>4 DEF Cycle, SharedMemory, Turn

LEMMA UnmarkedKept ==
  ASSUME TmAssumption, TmInv, Cycle, NEW i \in Cores PROVE Unmarked(i)'
<1> DEFINE c == core[i]
           h == Handled(i)
<1> SUFFICES ASSUME ~core'[i].conflict, core'[i].rdaddr = 0,
                    NEW k \in 1..Len(core'[i].buf), core'[i].buf[k].rd,
                    core'[i].buf[k].addr \notin core'[i].late
             PROVE  sharedmem'[core'[i].buf[k].addr] = core'[i].buf[k].got
  BY DEF Unmarked, Current
<1>1. core'[i].buf = h.buf /\ core'[i].late = h.late
      /\ (~core'[i].conflict <=> ~(h.buf # <<>> /\ (h.conflict \/ Conflicts(i))))
  BY AfterCycle DEF TmInv
<1>2. h.buf # <<>>
  BY <1>1
<1>3. ~h.conflict /\ ~Conflicts(i)
  BY <1>1, <1>2
<1>4. OldOrNew(c, h) /\ ~c.conflict /\ c.late \subseteq h.late
  BY <1>2, <1>3, BufferHandled
<1>5. c \in Registered /\ Short(c) /\ InTurn(i) /\ Addressed(i) /\ Unmarked(i)
  BY DEF TmInv, TmTypeOK
<1>6. c.rdaddr = 0
  BY <1>1, <1>2, <1>4, <1>5, Advances DEF InTurn
<1>7. Stores => corecur # i
  BY <1>1, <1>2, <1>4, Advances DEF Stores, Storing, Turn
<1>8. \A a \in Addresses : (Stores /\ Stored.addr = a) \/ sharedmem'[a] = sharedmem[a]
  BY DEF Cycle, SharedMemory, TmInv, TmTypeOK
<1>9. CASE \E m \in 1..Len(c.buf) :
             c.buf[m].rd /\ c.buf[m].addr = h.buf[k].addr /\ c.buf[m].got = h.buf[k].got
  <2>1. PICK m \in 1..Len(c.buf) :
          c.buf[m].rd /\ c.buf[m].addr = h.buf[k].addr /\ c.buf[m].got = h.buf[k].got
    BY <1>9
  <2>2. c.buf[m].addr \in Addresses
    <3>1. c.buf \in Seq(Entries)
      BY <1>5 DEF Registered
    <3>2. c.buf[m] \in Entries
      BY <3>1, <2>1
    <3> QED
      BY <3>2 DEF Entries
  <2>3. sharedmem[c.buf[m].addr] = c.buf[m].got
    BY <1>1, <1>4, <1>5, <1>6, <2>1 DEF Unmarked, Current
  <2>4. ~(Stores /\ Stored.addr = c.buf[m].addr)
    BY <1>3, <1>7, <2>1 DEF Conflicts
  <2> QED
    BY <1>1, <1>8, <2>1, <2>2, <2>3, <2>4
<1>10. CASE /\ c.state = "sharedRead" /\ h.buf[k].addr = c.memrdaddr
            /\ h.buf[k].got = sharedmem[sharedmemrdaddr]
            /\ Stores /\ Stored.addr = sharedmemrdaddr => sharedmemrdaddr \in h.late
  <2>1. c.memrdaddr = sharedmemrdaddr /\ sharedmemrdaddr \in Addresses
    BY <1>5, <1>10 DEF Addressed, TmInv, TmTypeOK
  <2> QED
    BY <1>1, <1>8, <1>10, <2>1
<1> QED
  BY <1>1, <1>4, <1>9, <1>10 DEF OldOrNew

LEMMA StepInv == ASSUME TmAssumption, TmInv, [Cycle]_tmVars PROVE TmInv'
<1>1. CASE Cycle
  <2>1. ASSUME NEW i \in Cores PROVE InTurn(i)'
    BY <1>1, <2>1, Further DEF InTurn
  <2>2. ASSUME NEW i \in Cores PROVE Rests(core[i])' /\ Short(core[i])'
    BY <1>1, <2>2, RestsKept, ShortKept DEF Rests, Short
  <2> QED
    BY <1>1, <2>1, <2>2, TypeKept, AddressedKept, UnmarkedKept DEF TmInv
<1>2. CASE UNCHANGED tmVars
  BY <1>2 DEF TmInv, TmTypeOK, Rests, Short, InTurn, Addressed, Unmarked, Current, tmVars
<1> QED
  BY <1>1, <1>2

LEMMA TmInvariant == ASSUME TmAssumption PROVE TmSpec => []TmInv
<1>1. TmInv /\ [Cycle]_tmVars => TmInv'
  BY StepInv
<1> QED
  BY <1>1, InitInv, PTL DEF TmSpec

-----------------------------------------------------------------------------
\* Transactions are atomic as built (TransactionalMemory.scala: the turn is
\* kept while a commit is stored, and every word stored is compared with what
\* the others have read), for any number of cores and sizes of buffer.
THEOREM TransactionsAtomic == ASSUME TmAssumption PROVE TmSpec => []AtomicAsBuilt
<1>1. TmInv => AtomicAsBuilt
  <2> SUFFICES ASSUME TmInv PROVE AtomicAsBuilt
    OBVIOUS
  <2>1. ReadsApart
    BY DEF TmInv, Addressed, ReadsApart, Turn
  <2>2. \A i \in Cores : Begins(i) => Current(core[i], core[i].late)
    BY DEF TmInv, Unmarked, Begins, Turn
  <2> QED
    BY <2>1, <2>2 DEF AtomicAsBuilt
<1> QED
  BY <1>1, TmInvariant, PTL

=============================================================================
