-------------------------------- MODULE MCCore --------------------------------
(***************************************************************************)
(* Three parts of a core, one in a behaviour: the control of the pipeline  *)
(* with the exception unit; the stack cache on a bus that refuses some     *)
(* transfers, under a stack of many bursts whose contents do not matter;   *)
(* and the memory with the method cache and the data cache.                *)
(***************************************************************************)
EXTENDS MCPipeline, MCCoreMemory

VARIABLES
  part,
  stateReg, isReserveReg, stackTopReg, memTopReg, transferAddrReg, newMemTopReg,
  memoryBlock, rdAddrReg, memory, answer, configured, refused, lost

Cache == INSTANCE StackCache WITH
  Size <- 8, Burst <- 4, Words <- 64, Base <- 14, Floor <- 0, MemWords <- 16,
  Vals <- {"word"}, BusErrors <- BOOLEAN, mem <- memory

cacheVars == <<stateReg, isReserveReg, stackTopReg, memTopReg, transferAddrReg,
               newMemTopReg, memoryBlock, rdAddrReg, memory, answer, configured,
               refused, lost>>

coreVars  == <<part, vars, cacheVars, memVars>>

\* The choices of a part that does not run are fixed.
CoreInit ==
  /\ part \in {"pipeline", "stack", "memory"}
  /\ Init
  /\ part # "pipeline" => inDelaySlot = 0 /\ code = CHOOSE c \in Programs : TRUE
  /\ Cache!Init
  /\ part # "stack" => ~isReserveReg /\ stackTopReg = 0 /\ memTopReg = 0
  /\ MemoryInit
  /\ part # "memory" =>
       LET p == CHOOSE p \in MemoryPrograms : TRUE
       IN  methods = p.methods /\ accesses = p.accesses /\ shared = p.shared

CoreNext ==
  /\ UNCHANGED part
  /\ \/ part = "pipeline" /\ Next /\ UNCHANGED <<cacheVars, memVars>>
     \/ part = "stack" /\ Cache!Next /\ UNCHANGED <<vars, memVars>>
     \/ part = "memory" /\ MemoryNext /\ UNCHANGED <<vars, cacheVars>>

CoreSpec ==
  /\ CoreInit /\ [][CoreNext]_coreVars
  /\ WF_vars(part = "pipeline" /\ Next) /\ WF_vars(part = "pipeline" /\ Moves)
  /\ WF_cacheVars(part = "stack" /\ Cache!Transfer)
  /\ WF_memVars(part = "memory" /\ MemoryCycle)

Resumes == Cache!Resumes

\* The programs of this run are such that every fetch is right by theorem.
ASSUME MCMethodsFit == MethodsFit

=============================================================================
