------------------------------ MODULE Processor ------------------------------
(***************************************************************************)
(* What a program may rely on: instructions complete one after the other,  *)
(* a branch after its delay slots, and handlers start between two of them. *)
(***************************************************************************)
EXTENDS Integers, Sequences

CONSTANTS
  Interrupts,   \* the sources that are pins; 0 and 1 are the faults
  Handler,      \* where the handler of a source starts
  LastPc        \* the last address, which the first one follows

VARIABLES
  code,             \* the instructions, of a kind and with a target
  ip,               \* the next instruction
  slots, target,    \* delay slots left, and where to go after them
  saved,            \* the interrupted programs
  window            \* boundaries at which interrupts may still come

vars == <<code, ip, slots, target, saved, window>>

Always       == 3
Following(a) == IF a = LastPc THEN 0 ELSE a + 1
At(a)        == IF a \in DOMAIN code THEN code[a] ELSE [kind |-> "alu", to |-> 0]

\* Instruction i of address a completes.  Disabling interrupts takes effect
\* an instruction late.
Complete(i, a) ==
  /\ ip' = IF i.kind \in {"brnd", "callnd"} THEN i.to ELSE IF slots = 1 THEN target ELSE Following(a)
  /\ slots' = CASE i.kind = "br" -> 2
                [] i.kind \in {"call", "xret"} -> 3
                [] OTHER -> IF slots = 0 THEN 0 ELSE slots - 1
  /\ target' = IF i.kind \in {"br", "call", "xret"} THEN i.to ELSE target
  /\ saved' = IF i.kind = "xret" THEN Tail(saved) ELSE saved
  /\ window' = CASE i.kind = "ei" -> Always
                 [] i.kind = "di" -> 2
                 [] i.kind = "xret" -> Head(saved).window
                 [] OTHER -> IF window \in {0, Always} THEN window ELSE window - 1
  /\ UNCHANGED code

\* The handler of a source starts and will return to a.
Enter(source, a) ==
  /\ ip' = Handler[source] /\ slots' = 0
  /\ saved' = <<[ip |-> a, window |-> window]>> \o saved
  /\ window' = 0
  /\ UNCHANGED <<code, target>>

-----------------------------------------------------------------------------
Init ==
  /\ ip = 0 /\ slots = 0 /\ target = 0 /\ saved = <<>> /\ window = 0

Execute ==
  LET i == At(ip)
  IN  /\ i.kind # "ill"
      /\ i.kind = "xret" => saved # <<>>
      /\ Complete(IF i.kind = "xret" THEN [i EXCEPT !.to = Head(saved).ip] ELSE i, ip)

\* Not between a branch and its slots.
Interrupt(source) == source \in Interrupts /\ slots = 0 /\ window > 0 /\ Enter(source, ip)

\* A trap has completed.
Trap(source) ==
  /\ source \notin Interrupts /\ slots = 0
  /\ \E a \in DOMAIN code : Following(a) = ip /\ At(a) = [kind |-> "trap", to |-> source]
  /\ Enter(source, ip)

\* A fault is reported at the instruction that failed.
Fault(source) ==
  /\ At(ip).kind \in IF source = 0 THEN {"ill"} ELSE IF source = 1 THEN {"mem", "bad"} ELSE {}
  /\ Enter(source, ip)

Next ==
  \/ Execute
  \/ \E source \in DOMAIN Handler : Interrupt(source) \/ Trap(source) \/ Fault(source)

Spec == Init /\ [][Next]_vars

=============================================================================
