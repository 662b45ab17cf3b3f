--------------------------- MODULE MCAcceleratorOpen ---------------------------
(***************************************************************************)
(* The device under a master that issues any command in any cycle: writes  *)
(* into a busy device, debug accesses in the middle of an inference,       *)
(* reloads.  Words of one bit (-1 and 0) keep every value that corrupts an *)
(* operand; the parameters are loaded as -1, so that a stray 0 shows.      *)
(***************************************************************************)
EXTENDS Accelerator

MCWords == {-1, 0}
MCEither == BOOLEAN

MCCommands ==
  {NoCommand(-1), Write(INPUT, -1), Write(INPUT, 0), Write(SET_ADDR, 0), Read(MEM_READ, -1)}

OpenNext ==
  \E m \in MCCommands :
    /\ stateReg \in {"loadNN", "infLoad"} => m.data = -1
    /\ Tick(m)

OpenSpec == Init /\ [][OpenNext]_vars

=============================================================================
