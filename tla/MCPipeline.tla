------------------------------ MODULE MCPipeline ------------------------------
(***************************************************************************)
(* Short programs, each with the handlers behind it: one that returns and  *)
(* one that stays, as the fault handler of intrs.c does.                   *)
(***************************************************************************)
EXTENDS Pipeline, TLC

I(kind)      == [kind |-> kind, to |-> 0]
To(kind, to) == [kind |-> kind, to |-> to]

HandlerAt == 10
StayAt    == 20
MCHandler == [s \in 0..4 |-> IF s < 2 THEN StayAt ELSE HandlerAt]

WithHandlers(program) ==
  [a \in 0..Len(program) - 1 |-> program[a + 1]] @@
  (HandlerAt :> I("alu") @@ HandlerAt + 1 :> I("xret")) @@ (StayAt :> To("brnd", StayAt))

MCPrograms == {WithHandlers(p) : p \in {
  <<I("ei"), I("alu"), To("br", 1), I("mul"), I("alu")>>,
  <<I("ei"), To("br", 1), I("mem"), I("mul"), I("alu")>>,
  <<I("ei"), To("call", 1), I("mul"), I("mem"), I("alu")>>,
  <<I("ei"), To("callnd", 3), I("ill"), I("mul"), To("brnd", 1)>>,
  <<I("ei"), To("trap", 2), I("mem"), To("brnd", 1)>>,
  <<I("ei"), I("di"), I("alu"), To("brnd", 4), To("call", 0), I("alu"), I("di"), I("alu")>>,
  <<I("ei"), I("sleep"), To("trap", 2), To("brnd", 1)>>,
  <<I("ei"), I("clear"), I("mem"), To("brnd", 1), I("ill")>>,
  <<I("ei"), I("alu"), I("ill")>> }}

MCBadAccess == {WithHandlers(<<I("bad"), To("brnd", 1)>>)}

=============================================================================
