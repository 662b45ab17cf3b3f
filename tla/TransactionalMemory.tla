-------------------------- MODULE TransactionalMemory --------------------------
(***************************************************************************)
(* The transactional memory of the multicore builds.  Each core collects   *)
(* what it reads and writes in a buffer of its own; a commit stores the    *)
(* written words when the turn of the core comes, holding on to the turn,  *)
(* and marks the transactions of other cores that have read one of them.   *)
(* A step is a clock cycle of the whole device.  The cores issue any of    *)
(* the accesses they may, whenever their last one has been answered.       *)
(***************************************************************************)
EXTENDS Integers, Sequences

CONSTANTS
  CoreCnt,
  BufSize,      \* entries of a buffer
  RdMod,        \* values of a pointer into it: the power of two from BufSize on
  Addresses,        \* addresses of the memory
  Scenarios     \* the accesses of each core

Cores == 0..CoreCnt - 1

VARIABLES
  corecur,             \* whose turn it is
  sharedmem,
  sharedmemrdaddr,     \* the address in its read port
  core,                \* the registers of each core, see Start
  allowed              \* the accesses of each core

tmVars == <<corecur, sharedmem, sharedmemrdaddr, core, allowed>>

Access(kind, addr, data) == [kind |-> kind, addr |-> addr, data |-> data]
NoAccess == Access("none", 0, 0)
Commit   == Access("commit", 0, 0)

\* got is history: the word that was read from the memory.
Entry(addr, rd, data, got) == [addr |-> addr, rd |-> rd, wr |-> ~rd, data |-> data, got |-> got]

\* ioM is a command, a cycle late; buf has bufnxt entries; rdaddr is
\* bufmemrdaddr; late is history: words read in the cycle of their overwriting.
Start ==
  [ioM |-> NoAccess, waiting |-> FALSE, state |-> "idle", buf |-> <<>>, rdaddr |-> 0,
   conflict |-> FALSE, overflow |-> FALSE, memrdaddr |-> 0, late |-> {}]

TmInit ==
  /\ corecur = 0 /\ sharedmemrdaddr = 0
  /\ sharedmem = [a \in Addresses |-> 0]
  /\ core = [i \in Cores |-> Start]
  /\ allowed \in Scenarios

-----------------------------------------------------------------------------
(* The memory, for the core whose turn it is. *)

Turn    == core[corecur]
Storing == Turn.state = "commit" /\ ~Turn.conflict

\* Past the last entry the commit is over.
Finished == Turn.rdaddr = Len(Turn.buf)
Stored   == Turn.buf[Turn.rdaddr + 1]
Stores   == Storing /\ Turn.rdaddr < Len(Turn.buf) /\ Stored.wr

\* Mutant: a turn lasts a cycle.
TurnPasses == TRUE

TurnEnds == Storing => Finished

SharedMemory ==
  /\ corecur' = IF TurnEnds THEN (corecur + 1) % CoreCnt ELSE corecur
  /\ sharedmem' = IF Stores THEN [sharedmem EXCEPT ![Stored.addr] = Stored.data] ELSE sharedmem
  /\ sharedmemrdaddr' = Turn.memrdaddr

\* Another core stores a word this one has read.
Conflicts(i) ==
  /\ Stores /\ corecur # i
  /\ \E j \in 1..Len(core[i].buf) : core[i].buf[j].rd /\ core[i].buf[j].addr = Stored.addr

-----------------------------------------------------------------------------
(* What a cycle makes of the registers c of a core. *)

Matches(c) == {j \in 1..Len(c.buf) : c.buf[j].addr = c.ioM.addr}
Full(c)    == Len(c.buf) = BufSize

Answer(c)  == [c EXCEPT !.waiting = FALSE, !.state = "idle"]
Cleared(c) == [Answer(c) EXCEPT !.buf = <<>>, !.conflict = FALSE, !.overflow = FALSE, !.late = {}]

WriteWord(c) ==
  LET j == CHOOSE j \in Matches(c) : TRUE
  IN  IF Matches(c) # {}
      THEN [c EXCEPT !.buf[j] = [@ EXCEPT !.data = c.ioM.data, !.wr = TRUE]]
      ELSE IF Full(c) THEN [c EXCEPT !.overflow = TRUE]
      ELSE [c EXCEPT !.buf = Append(@, Entry(c.ioM.addr, FALSE, c.ioM.data, 0))]

\* A word of the buffer takes a cycle; a new word that does not fit is not
\* answered.
ReadWord(c) ==
  IF Matches(c) # {} THEN [c EXCEPT !.state = "read"]
  ELSE IF Full(c) THEN [c EXCEPT !.overflow = TRUE]
  ELSE [c EXCEPT !.state = "preSharedRead", !.memrdaddr = c.ioM.addr]

\* Nothing to commit, or nothing that may be committed.
Fails(c) == c.buf = <<>> \/ c.conflict \/ c.overflow

Idle(c) ==
  CASE c.ioM.kind = "write"  -> Answer(WriteWord(c))
    [] c.ioM.kind = "read"   -> ReadWord(c)
    [] c.ioM.kind = "commit" -> IF Fails(c) THEN Cleared(c) ELSE [c EXCEPT !.state = "commit"]
    [] c.ioM.kind = "none"   -> c

\* The word has been addressed in the last cycle.
SharedRead(c) ==
  LET word == sharedmem[sharedmemrdaddr]
  IN  [Answer(c) EXCEPT
         !.buf = Append(@, Entry(c.memrdaddr, TRUE, word, word)),
         !.late = IF Stores /\ Stored.addr = sharedmemrdaddr THEN @ \cup {sharedmemrdaddr} ELSE @]

\* Mutant: a commit that has been overtaken waits for its turn.
EndsInTurn(i) == corecur = i /\ core[i].rdaddr = Len(core[i].buf)

Ends(i) == core[i].conflict \/ (corecur = i /\ core[i].rdaddr = Len(core[i].buf))

Handled(i) ==
  LET c == core[i]
  IN  CASE c.state = "idle" -> Idle(c)
        [] c.state = "read" -> Answer(c)
        [] c.state = "preSharedRead" ->
             IF corecur = i THEN [c EXCEPT !.state = "sharedRead"] ELSE c
        [] c.state = "sharedRead" -> SharedRead(c)
        [] c.state = "commit" ->
             IF Ends(i) THEN Cleared(c)
             ELSE [c EXCEPT !.rdaddr = IF corecur = i THEN (@ + 1) % RdMod ELSE 0]

\* rdaddr is 0 but in a commit, and a cleared mark stays so.
Registers(i) ==
  LET c == Handled(i)
  IN  [c EXCEPT !.rdaddr = IF c.state = "commit" THEN @ ELSE 0,
                !.conflict = c.buf # <<>> /\ (@ \/ Conflicts(i)),
                !.ioM = NoAccess]

-----------------------------------------------------------------------------
(* The cores. *)

\* A program that does not touch more words than a buffer holds never reads
\* a word that does not fit.  It commits fewer words than pointers tell apart.
Fits(c, access) ==
  CASE access.kind = "read"   -> ~Full(c) \/ \E j \in 1..Len(c.buf) : c.buf[j].addr = access.addr
    [] access.kind = "commit" -> Len(c.buf) < RdMod \/ c.overflow
    [] access.kind = "write"  -> TRUE

May(i, access) ==
  \/ access = NoAccess
  \/ ~core[i].waiting /\ access \in allowed[i] /\ Fits(core[i], access)

\* The registers c of a core that issues an access, or none.
Issue(c, access) ==
  IF access = NoAccess THEN c ELSE [c EXCEPT !.ioM = access, !.waiting = TRUE]

Cycle ==
  /\ SharedMemory
  /\ LET after == [i \in Cores |-> Registers(i)]
     IN  \E access \in [Cores -> {NoAccess} \cup UNION {allowed[i] : i \in Cores}] :
           /\ \A i \in Cores : May(i, access[i])
           /\ core' = [i \in Cores |-> Issue(after[i], access[i])]
  /\ UNCHANGED allowed

TmSpec == TmInit /\ [][Cycle]_tmVars

\* The clock goes on.
TmFairness == WF_tmVars(Cycle)

-----------------------------------------------------------------------------
(* Properties. *)

\* The words transaction c has read from the memory are those of the memory,
\* but for those in except.
Current(c, except) ==
  \A j \in 1..Len(c.buf) :
    c.buf[j].rd /\ c.buf[j].addr \notin except => sharedmem[c.buf[j].addr] = c.buf[j].got

Begins(i) == Turn.state = "commit" /\ ~Turn.conflict /\ Turn.rdaddr = 0 /\ corecur = i

\* Nobody reads while words of a commit are in the memory and others are not.
ReadsApart == \A i \in Cores : core[i].state = "sharedRead" => ~(Storing /\ Turn.rdaddr > 0)

\* "Commits are marked as failed in the case of a read/write conflict": a
\* transaction that is committed has read what the memory holds at that
\* time, so that it took place there as a whole.
CommitsCurrent == \A i \in Cores : Begins(i) => Current(core[i], {})

\* The same but for words that were read in the very cycle in which another
\* core overwrote them; and nobody sees half of a commit.
AtomicAsBuilt ==
  /\ ReadsApart
  /\ \A i \in Cores : Begins(i) => Current(core[i], core[i].late)

\* Every access is answered.
Answered == \A i \in Cores : core[i].waiting ~> ~core[i].waiting

=============================================================================
