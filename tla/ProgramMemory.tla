---------------------------- MODULE ProgramMemory ----------------------------
(***************************************************************************)
(* What a program may expect of the memory below its core: one access at a *)
(* time; an uncached load gets what the memory holds during the access; a  *)
(* cached load gets something the memory held since the core's own last    *)
(* store to the address, or since it invalidated its cache.                *)
(***************************************************************************)

CONSTANTS
  Ops,       \* the accesses of programs: records with kind, space, addr and data
  Idle       \* no access

VARIABLES
  words,     \* the memory
  op,        \* the access under way
  stored,    \* it is a store and has been done
  got,       \* what the last load got
  recent,    \* what a cached load of an address may get
  since      \* what the address of an uncached load held since the load began

vars == <<words, op, stored, got, recent, since>>

Init ==
  /\ op = Idle /\ stored = FALSE /\ since = {}
  /\ recent = [a \in DOMAIN words |-> {words[a]}]

MayGet == IF op.space = "cached" THEN recent[op.addr] ELSE since

\* The access ends and the program goes on.  An invalidation does not yet
\* bind the load right behind it.
Finish ==
  /\ IF op.kind = "load" THEN got' \in MayGet ELSE UNCHANGED got
  /\ op.kind = "store" => stored
  /\ op' \in Ops \cup {Idle} /\ stored' = FALSE
  /\ since' = IF op'.kind = "load" /\ op'.space = "uncached" THEN {words[op'.addr]} ELSE {}
  /\ recent' = IF op.kind # "inval" THEN recent
               ELSE [a \in DOMAIN words |->
                      IF op'.kind = "load" /\ op'.addr = a THEN recent[a] ELSE {words[a]}]
  /\ UNCHANGED words

Store ==
  /\ op.kind = "store" /\ ~stored
  /\ words' = [words EXCEPT ![op.addr] = op.data]
  /\ recent' = [recent EXCEPT ![op.addr] = {op.data}]
  /\ stored' = TRUE
  /\ UNCHANGED <<op, got, since>>

\* Another core stores.
Other(a, v) ==
  /\ words' = [words EXCEPT ![a] = v]
  /\ recent' = [recent EXCEPT ![a] = @ \cup {v}]
  /\ since' = IF op.kind = "load" /\ op.space = "uncached" /\ op.addr = a THEN since \cup {v} ELSE since
  /\ UNCHANGED <<op, stored, got>>

Next ==
  \/ Finish \/ Store
  \/ \E a \in DOMAIN words : \E v \in {o.data : o \in Ops} : Other(a, v)

Spec == Init /\ [][Next]_vars

=============================================================================
