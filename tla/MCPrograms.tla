------------------------------ MODULE MCPrograms ------------------------------
(***************************************************************************)
(* The programs of the cores and how they get there, one part in a         *)
(* behaviour: the classifier in C; the compression of a download; the      *)
(* download, of an executable with a segment that is shorter in the file   *)
(* than in memory, one that is empty in the file, and one that is odd and  *)
(* larger than its memory; the serial line under it; and the boot loader   *)
(* of three cores, under downloads that fail and programs that set up the  *)
(* network or not and make two threads, at a time or one after the other.  *)
(***************************************************************************)
EXTENDS MCSoftwareInference, Uart

VARIABLES
  part,
  enc, closed, packed, dec, text, last,
  elf, sync, frame, chunks, responseQueue, host, line, responses, dev, mem, tries, clean, fresh,
  pc, master, slave, i, todo, loaded, made, joined

Packer == INSTANCE Compression WITH
  ByteBits <- 2, IndexBits <- 3, LengthBits <- 1, Threshold <- 2,
  Symbols <- {0, 1}, Blank <- 0, Garbage <- 3, line <- packed, got <- last

Segment(o, m, d) == [offset |-> o, memsize |-> m, data |-> d]

\* Different check sums may have the same low byte.
LowByte(s) == FoldLeft(LAMBDA v, b : v + b, 0, s) % 4

Load == INSTANCE Download WITH
  Executables <- { [entry |-> 2, segments |-> <<Segment(2, 5, <<1, 2, 1>>), Segment(8, 2, <<>>)>>],
                   [entry |-> 1, segments |-> <<Segment(4, 2, <<2, 2, 2>>)>>] },
  FrameSizes <- {3, 6}, Low <- LowByte, Exit <- <<0, 6, 7>>, Window <- 2,
  WordBytes <- 2, Base <- 8, MemWords <- 6,
  Noise <- {1}, MaxTries <- 2

Create(c, thread) == [op |-> "create", core |-> c, thread |-> thread]
Join(c)           == [op |-> "join", core |-> c]

Mains == { <<>>, << Create(1, 1), Create(2, 2), Join(1), Join(2) >>,
           << Create(1, 1), Join(1), Create(1, 2), Join(1) >> }

Boot == INSTANCE BootLoader WITH
  CoreCnt <- 3, Timely <- TRUE, NULL <- None,
  Downloads <- {None} \cup {[sync |-> s, main |-> m] : s \in BOOLEAN, m \in Mains}

ASSUME MCProgramsJoinOwn == Boot!BootAssumption
ASSUME MCProgramsLine == UartAssumption

zipVars  == <<enc, closed, packed, dec, text, last>>
loadVars == <<elf, sync, frame, chunks, responseQueue, host, line, responses, dev, mem, tries, clean, fresh>>
bootVars == <<pc, master, slave, i, todo, loaded, made, joined>>

\* The choices of a part that does not run are fixed.
ProgramsInit ==
  /\ part \in {"classifier", "compression", "download", "boot", "line"}
  /\ part # "classifier" => net = [k \in 0..ParamCount - 1 |-> 2] /\ img = [p \in 0..NPix - 1 |-> 3]
  /\ Init /\ Packer!CompressionInit
  /\ Load!DownloadInit
  /\ Boot!BootInit
  /\ UartInit
  /\ part # "line" => tx.baud = 0
  /\ part # "download" => elf.entry = 1 /\ sync /\ frame = 3

ProgramsNext ==
  /\ UNCHANGED part
  /\ \/ part = "classifier" /\ Next /\ UNCHANGED <<zipVars, loadVars, bootVars, uartVars>>
     \/ part = "compression" /\ Packer!CompressionNext /\ UNCHANGED <<cvars, loadVars, bootVars, uartVars>>
     \/ part = "download" /\ Load!DownloadNext /\ UNCHANGED <<cvars, zipVars, bootVars, uartVars>>
     \/ part = "boot" /\ Boot!BootNext /\ UNCHANGED <<cvars, zipVars, loadVars, uartVars>>
     \/ part = "line" /\ UartNext /\ UNCHANGED <<cvars, zipVars, loadVars, bootVars>>

ProgramsSpec ==
  /\ ProgramsInit /\ [][ProgramsNext]_<<part, cvars, zipVars, loadVars, bootVars, uartVars>>
  /\ WF_loadVars(part = "download" /\ Load!Moves)
  /\ \A c \in 0..2 : WF_bootVars(part = "boot" /\ Boot!CoreStep(c))
  /\ SF_bootVars(part = "boot" /\ Boot!LastBoot)

Lossless  == Packer!Lossless
Downloads == [](part = "download" => Load!LoadedWhole /\ Load!NoFalseError) /\ (part = "download" => Load!IsLoaded)
Boots     == [](part = "boot" => Boot!OneProgram) /\ (part = "boot" => Boot!LoopsBack)

=============================================================================
