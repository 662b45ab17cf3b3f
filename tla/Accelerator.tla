------------------------------ MODULE Accelerator ------------------------------
(***************************************************************************)
(* The neural-network accelerator of io/Accelerator.scala, one step of the *)
(* specification per clock cycle.  The device is an OCP slave: the master  *)
(* command of a cycle is registered in masterReg and acted on in the next  *)
(* one.  It keeps the image, the weights, the biases and the hidden nodes  *)
(* in one synchronous memory (util/MemorySInt.scala), whose read port      *)
(* returns in rdData the word addressed one cycle earlier.                 *)
(*                                                                         *)
(*    0 .. NPix-1                        the image                         *)
(*    WeightAddrZero ..                  NPix*NHid, then NHid*NOut weights *)
(*    BiasAddrZero ..                    NHid, then NOut biases            *)
(*    NodeAddrZero ..                    the nodes of the hidden layer     *)
(*                                                                         *)
(* The sizes of the network are parameters; the code fixes them at 784,    *)
(* 100 and 10.  The last word of the biases and the first node share an    *)
(* address, as they do in the code.                                        *)
(***************************************************************************)
EXTENDS Integers

CONSTANTS
  NPix,        \* pixels of an image (784)
  NHid,        \* nodes of the hidden layer (100)
  Half,        \* half the number of values of a word (2^31)
  MemSize,     \* words of the memory (2^18)
  PowerUp,     \* words the memory and layer2 may hold at power-up
  BusData,     \* words the data lines may carry when no command is on them
  FloatWrEna   \* what a write enable no state drives may be in the build

NOut == 10

Word == (-Half) .. (Half - 1)
Addr == 0 .. (MemSize - 1)

\* The address constants of the code as functions of the sizes.
BiasBase(p, h) == p + p * h + h * NOut
NodeBase(p, h) == BiasBase(p, h) + h + NOut - 1

WeightAddrZero == NPix
BiasAddrZero   == BiasBase(NPix, NHid)
NodeAddrZero   == NodeBase(NPix, NHid)

\* The sizes give the literals of the code for the network of the code.
ASSUME AddressLiterals == BiasBase(784, 100) = 80184 /\ NodeBase(784, 100) = 80293

ASSUME SizeAssumption ==
  /\ NPix \in Nat \ {0}
  /\ NHid \in Nat \ {0}
  /\ Half \in Nat \ {0}
  /\ MemSize \in Nat
  /\ NodeAddrZero + NHid < MemSize

ASSUME DataAssumption ==
  /\ PowerUp \subseteq Word
  /\ BusData \subseteq Word
  /\ FloatWrEna \subseteq BOOLEAN

\* Mutant: the sums are kept exact.
ExactSum(x) == x

\* A result of SInt(32.W) arithmetic keeps the low bits of the exact one.
Wrap(x) == ((x + Half) % (2 * Half)) - Half

VARIABLES
  stateReg,       \* the state of the controller
  masterReg,      \* the OCP master signals of the cycle before
  memoryAddress,  \* address of the debug reads
  readAddrP, readAddrW, readAddrB, writeAddr,
  nodeIdx, outputIdx,
  pReg, nReg,     \* operand and accumulator
  layer2,         \* the output layer
  outputReg,      \* the answer
  mem, rdData     \* the memory and the output of its read port

readRegs == <<readAddrP, readAddrW, readAddrB>>
macRegs  == <<pReg, nReg>>
fsmVars  == <<stateReg, readRegs, writeAddr, nodeIdx, outputIdx, macRegs, layer2, outputReg>>
vars     == <<fsmVars, masterReg, memoryAddress, mem, rdData>>

-----------------------------------------------------------------------------
(***************************************************************************)
(* The OCP port.                                                           *)
(***************************************************************************)
INPUT    == 0      \* any offset but SET_ADDR is the input for a write
STATUS   == 4
RESULT   == 8
MEM_READ == 12
SET_ADDR == 16

Offsets  == {INPUT, STATUS, RESULT, MEM_READ, SET_ADDR}
Commands == [cmd : {"IDLE", "WR", "RD"}, addr : Offsets, data : Word]

NoCommand(d) == [cmd |-> "IDLE", addr |-> INPUT, data |-> d]
Write(a, d)  == [cmd |-> "WR", addr |-> a, data |-> d]
Read(a, d)   == [cmd |-> "RD", addr |-> a, data |-> d]

Writing    == masterReg.cmd = "WR"
Reading(a) == masterReg.cmd = "RD" /\ masterReg.addr = a
DebugWrite == Writing /\ masterReg.addr = SET_ADDR

\* The states in the order of the code: what a read of STATUS returns.
StatusCode ==
  [noNN |-> 0, loadNN |-> 1, idle |-> 2, infLoad |-> 3, nextNode |-> 4,
   loadpx |-> 5, mac0 |-> 6, addb0 |-> 7, writeNode |-> 8, nextOutput |-> 9,
   loadNode |-> 10, mac1 |-> 11, addb1 |-> 12, writeRes |-> 13,
   clearMem |-> 14, clearOut |-> 15]

States    == DOMAIN StatusCode
Listening == {"noNN", "loadNN", "idle", "infLoad"}

\* Reads and debug writes are always answered, writes only when listening.
Answered == \/ masterReg.cmd = "RD"
            \/ DebugWrite
            \/ Writing /\ stateReg \in Listening

SlaveData == CASE Reading(STATUS)   -> StatusCode[stateReg]
               [] Reading(MEM_READ) -> rdData
               [] Reading(RESULT)   -> outputReg
               [] OTHER             -> 15

-----------------------------------------------------------------------------
(***************************************************************************)
(* The memory.  Its ports have no default assignment: in a cycle in which  *)
(* no state drives the write enable its value is whatever the build picks, *)
(* and address and data are those of the load states, the only drivers     *)
(* left.  A read and a write of the same word may return either content.   *)
(***************************************************************************)
MorePixels == readAddrP <= WeightAddrZero

\* Mutant: one node more.
MoreNodesInclusive == nodeIdx <= NHid

MoreNodes == nodeIdx < NHid

WriteEnable ==
  CASE DebugWrite                                      -> FloatWrEna
    [] stateReg \in {"writeNode", "clearMem"}          -> {TRUE}
    [] stateReg \in {"nextNode", "nextOutput"}         -> {FALSE}
    [] stateReg \in {"loadNN", "infLoad"} /\ Writing   -> {TRUE}
    [] stateReg = "idle" /\ Writing                    -> {FALSE}
    [] OTHER                                           -> FloatWrEna

\* Mutant: the clearing starts at the biases of the output layer.
ClearsBiases ==
  CASE stateReg = "writeNode" -> NodeAddrZero + nodeIdx
    [] stateReg = "clearMem"  -> BiasAddrZero + NHid + nodeIdx
    [] OTHER                  -> writeAddr

WriteAddress == IF stateReg \in {"writeNode", "clearMem"}
                  THEN NodeAddrZero + nodeIdx
                  ELSE writeAddr

WriteData == CASE stateReg = "writeNode" -> nReg
               [] stateReg = "clearMem"  -> 0
               [] OTHER                  -> masterReg.data

FsmReadAddress ==
  CASE stateReg \in {"loadpx", "loadNode"}   -> readAddrW
    [] stateReg = "mac0" /\ MorePixels       -> readAddrP
    [] stateReg = "mac0" /\ ~MorePixels      -> readAddrB
    [] stateReg = "nextOutput"               -> NodeAddrZero
    [] stateReg = "mac1" /\ MoreNodes        -> NodeAddrZero + nodeIdx
    [] stateReg = "mac1" /\ ~MoreNodes       -> readAddrB
    [] OTHER                                 -> 0

\* Mutant: the debug port does not take the read port over.
NoDebugPort == FsmReadAddress

ReadAddress == IF Reading(MEM_READ) THEN memoryAddress ELSE FsmReadAddress

MemoryCycle ==
  \E we \in WriteEnable :
    /\ mem' = IF we THEN [mem EXCEPT ![WriteAddress] = WriteData] ELSE mem
    /\ rdData' \in {mem[ReadAddress], mem'[ReadAddress]}

-----------------------------------------------------------------------------
(***************************************************************************)
(* The controller, one action per state of the code.                       *)
(***************************************************************************)

\* A listening state without a write command keeps everything.
Wait ==
  /\ stateReg \in Listening /\ ~Writing
  /\ UNCHANGED fsmVars

NoNN ==
  /\ stateReg = "noNN" /\ Writing
  /\ IF masterReg.data = 0
       THEN stateReg' = "loadNN" /\ writeAddr' = WeightAddrZero
       ELSE UNCHANGED <<stateReg, writeAddr>>
  /\ UNCHANGED <<readRegs, nodeIdx, outputIdx, macRegs, layer2, outputReg>>

\* The word itself is stored by MemoryCycle.
LoadNN ==
  /\ stateReg = "loadNN" /\ Writing
  /\ stateReg' = IF writeAddr = NodeAddrZero THEN "idle" ELSE "loadNN"
  /\ writeAddr' = writeAddr + 1
  /\ UNCHANGED <<readRegs, nodeIdx, outputIdx, macRegs, layer2, outputReg>>

\* Only bit 0 of the command word is looked at here.
Idle ==
  /\ stateReg = "idle" /\ Writing
  /\ IF masterReg.data % 2 = 0
       THEN stateReg' = "loadNN" /\ writeAddr' = WeightAddrZero
       ELSE stateReg' = "infLoad" /\ writeAddr' = 0
  /\ UNCHANGED <<readRegs, nodeIdx, outputIdx, macRegs, layer2, outputReg>>

InfLoad ==
  /\ stateReg = "infLoad" /\ Writing
  /\ IF writeAddr = WeightAddrZero - 1
       THEN /\ readAddrP' = 0
            /\ readAddrW' = WeightAddrZero
            /\ readAddrB' = BiasAddrZero
            /\ stateReg' = "nextNode"
       ELSE UNCHANGED <<readRegs, stateReg>>
  /\ writeAddr' = writeAddr + 1
  /\ UNCHANGED <<nodeIdx, outputIdx, macRegs, layer2, outputReg>>

\* Mutant: every node starts with the weights of node 0.
NextNodeSameWeights ==
  /\ stateReg = "nextNode"
  /\ readAddrP' = 0
  /\ readAddrW' = WeightAddrZero
  /\ readAddrB' = BiasAddrZero + nodeIdx
  /\ nReg' = 0
  /\ stateReg' = "loadpx"
  /\ UNCHANGED <<writeAddr, nodeIdx, outputIdx, pReg, layer2, outputReg>>

NextNode ==
  /\ stateReg = "nextNode"
  /\ readAddrP' = 0
  /\ readAddrW' = WeightAddrZero + nodeIdx
  /\ readAddrB' = BiasAddrZero + nodeIdx
  /\ nReg' = 0
  /\ stateReg' = "loadpx"
  /\ UNCHANGED <<writeAddr, nodeIdx, outputIdx, pReg, layer2, outputReg>>

LoadPx ==
  /\ stateReg = "loadpx"
  /\ pReg' = rdData
  /\ readAddrP' = readAddrP + 1
  /\ readAddrW' = readAddrW + NHid
  /\ stateReg' = "mac0"
  /\ UNCHANGED <<readAddrB, writeAddr, nodeIdx, outputIdx, nReg, layer2, outputReg>>

Mac0 ==
  /\ stateReg = "mac0"
  /\ IF MorePixels
       THEN nReg' = Wrap(nReg + pReg * rdData) /\ stateReg' = "loadpx"
       ELSE nReg' = nReg /\ stateReg' = "addb0"
  /\ UNCHANGED <<readRegs, writeAddr, nodeIdx, outputIdx, pReg, layer2, outputReg>>

AddB0 ==
  /\ stateReg = "addb0"
  /\ LET relu == Wrap(nReg + rdData)
     IN  nReg' = IF relu > 0 THEN relu ELSE 0
  /\ stateReg' = "writeNode"
  /\ UNCHANGED <<readRegs, writeAddr, nodeIdx, outputIdx, pReg, layer2, outputReg>>

\* The node is stored by MemoryCycle.  The test admits one node too many:
\* nodeIdx takes the value NHid as well.
WriteNode ==
  /\ stateReg = "writeNode"
  /\ IF MoreNodes
       THEN nodeIdx' = nodeIdx + 1 /\ stateReg' = "nextNode" /\ UNCHANGED outputIdx
       ELSE outputIdx' = 0 /\ stateReg' = "nextOutput" /\ UNCHANGED nodeIdx
  /\ UNCHANGED <<readRegs, writeAddr, macRegs, layer2, outputReg>>

NextOutput ==
  /\ stateReg = "nextOutput"
  /\ nodeIdx' = 0
  /\ readAddrW' = BiasAddrZero - NHid * NOut + outputIdx
  /\ readAddrB' = BiasAddrZero + NHid + outputIdx
  /\ nReg' = 0
  /\ stateReg' = "loadNode"
  /\ UNCHANGED <<readAddrP, writeAddr, outputIdx, pReg, layer2, outputReg>>

LoadNode ==
  /\ stateReg = "loadNode"
  /\ pReg' = rdData
  /\ readAddrW' = readAddrW + NOut
  /\ nodeIdx' = nodeIdx + 1
  /\ stateReg' = "mac1"
  /\ UNCHANGED <<readAddrP, readAddrB, writeAddr, outputIdx, nReg, layer2, outputReg>>

Mac1 ==
  /\ stateReg = "mac1"
  /\ nReg' = Wrap(nReg + pReg * rdData)
  /\ stateReg' = IF MoreNodes THEN "loadNode" ELSE "addb1"
  /\ UNCHANGED <<readRegs, writeAddr, nodeIdx, outputIdx, pReg, layer2, outputReg>>

AddB1 ==
  /\ stateReg = "addb1"
  /\ layer2' = [layer2 EXCEPT ![outputIdx] = Wrap(nReg + rdData)]
  /\ IF outputIdx < NOut - 1
       THEN outputIdx' = outputIdx + 1 /\ stateReg' = "nextOutput"
       ELSE outputIdx' = outputIdx /\ stateReg' = "writeRes"
  /\ UNCHANGED <<readRegs, writeAddr, nodeIdx, macRegs, outputReg>>

\* The tree of comparators: the left entry wins when it is not smaller.
Better(v, i, j) == IF v[i] >= v[j] THEN i ELSE j

MaxIndex(v) ==
  LET max0123 == Better(v, Better(v, 0, 1), Better(v, 2, 3))
      max4567 == Better(v, Better(v, 4, 5), Better(v, 6, 7))
  IN  Better(v, Better(v, max0123, max4567), Better(v, 8, 9))

WriteRes ==
  /\ stateReg = "writeRes"
  /\ outputReg' = MaxIndex(layer2)
  /\ nodeIdx' = 0
  /\ stateReg' = "clearMem"
  /\ UNCHANGED <<readRegs, writeAddr, outputIdx, macRegs, layer2>>

\* Mutant: the clearing stops one node early.
ClearsOneLess == nodeIdx < NHid - 2

MoreToClear == nodeIdx < NHid - 1

\* Mutant: the index does not advance.
ClearMemStuck ==
  /\ stateReg = "clearMem"
  /\ IF MoreToClear THEN UNCHANGED stateReg ELSE stateReg' = "clearOut"
  /\ UNCHANGED <<nodeIdx, readRegs, writeAddr, outputIdx, macRegs, layer2, outputReg>>

\* The zero is stored by MemoryCycle.
ClearMem ==
  /\ stateReg = "clearMem"
  /\ IF MoreToClear
       THEN nodeIdx' = nodeIdx + 1 /\ UNCHANGED stateReg
       ELSE stateReg' = "clearOut" /\ UNCHANGED nodeIdx
  /\ UNCHANGED <<readRegs, writeAddr, outputIdx, macRegs, layer2, outputReg>>

ClearOut ==
  /\ stateReg = "clearOut"
  /\ outputIdx' = 0
  /\ nodeIdx' = 0
  /\ layer2' = [o \in 0 .. NOut - 1 |-> 0]
  /\ stateReg' = "idle"
  /\ UNCHANGED <<readRegs, writeAddr, macRegs, outputReg>>

Controller ==
  \/ Wait \/ NoNN \/ LoadNN \/ Idle \/ InfLoad
  \/ NextNode \/ LoadPx \/ Mac0 \/ AddB0 \/ WriteNode
  \/ NextOutput \/ LoadNode \/ Mac1 \/ AddB1
  \/ WriteRes \/ ClearMem \/ ClearOut

\* A debug write takes the cycle: the controller stands still.
SetAddress ==
  /\ DebugWrite
  /\ memoryAddress' = masterReg.data % MemSize
  /\ UNCHANGED fsmVars

Control == ~DebugWrite /\ Controller /\ UNCHANGED memoryAddress

\* One clock cycle, in which the master drives the signals m.
Tick(m) ==
  /\ masterReg' = m
  /\ SetAddress \/ Control
  /\ MemoryCycle

Init ==
  /\ stateReg = "noNN"
  /\ \E d \in BusData : masterReg = NoCommand(d)
  /\ memoryAddress = NPix - 1
  /\ readAddrP = 0 /\ readAddrW = 0 /\ readAddrB = 0 /\ writeAddr = 0
  /\ nodeIdx = 0 /\ outputIdx = 0
  /\ pReg = 0 /\ nReg = 0
  /\ layer2 \in [0 .. NOut - 1 -> PowerUp]
  /\ outputReg = 10
  /\ mem \in [Addr -> PowerUp]
  /\ rdData \in PowerUp

\* Any master: every command of the bus in every cycle.
Next == \E m \in Commands : Tick(m)
Spec == Init /\ [][Next]_vars

-----------------------------------------------------------------------------
(***************************************************************************)
(* Properties of the device under any master.                              *)
(***************************************************************************)
IndicesTyped ==
  /\ stateReg \in States
  /\ readAddrP \in 0 .. NPix + 1
  /\ readAddrW \in 0 .. NodeAddrZero + NHid
  /\ readAddrB \in 0 .. NodeAddrZero
  /\ writeAddr \in 0 .. NodeAddrZero + 1
  /\ nodeIdx \in 0 .. NHid /\ outputIdx \in 0 .. NOut - 1
  /\ outputReg \in 0 .. NOut

DataTyped ==
  /\ pReg \in Word /\ nReg \in Word
  /\ layer2 \in [0 .. NOut - 1 -> Word]

\* The registers and the memory hold values of their types: no index leaves
\* its layer, no address the part of the memory in use and no sum a word.
TypeOK ==
  /\ IndicesTyped /\ DataTyped
  /\ masterReg \in Commands /\ memoryAddress \in Addr
  /\ mem \in [Addr -> Word] /\ rdData \in Word

\* Where the write address stands in each state.
WriteFollows ==
  /\ stateReg = "noNN"    => writeAddr = 0
  /\ stateReg = "loadNN"  => writeAddr \in WeightAddrZero .. NodeAddrZero
  /\ stateReg = "idle"    => writeAddr \in {WeightAddrZero, NodeAddrZero + 1}
  /\ stateReg = "infLoad" => writeAddr \in 0 .. WeightAddrZero - 1
  /\ stateReg \notin Listening => writeAddr = WeightAddrZero

\* Where the node index stands in each state; inferences start from node 0,
\* which no state of the first layer sets.
NodeFollows ==
  /\ stateReg \in Listening => nodeIdx = 0
  /\ stateReg \in {"loadNode", "clearMem"} => nodeIdx < NHid

\* While an operand is fetched, the weight address is that of the pixel (or
\* of the hidden node) and of the node (or of the output) being computed.
WeightFollows ==
  /\ stateReg = "loadpx" => readAddrP <= NPix
  /\ stateReg \in {"loadpx", "mac0"} =>
       readAddrW = WeightAddrZero + nodeIdx + NHid * readAddrP
  /\ stateReg \in {"loadNode", "mac1"} =>
       readAddrW = WeightAddrZero + NPix * NHid + outputIdx + NOut * nodeIdx

\* The four address registers and the two indices, each counted by its own
\* states, agree with each other in every state, whatever commands arrive.
AddressesFollow == WriteFollows /\ NodeFollows /\ WeightFollows

\* The addresses at the memory port stay within the part of the memory the
\* network uses, so no 18-bit address ever wraps around onto the image.
AddressesBounded ==
  /\ WriteAddress \in 0 .. NodeAddrZero + NHid
  /\ FsmReadAddress \in 0 .. NodeAddrZero + NHid

\* The parameters that no hidden node and no undriven write can reach: all
\* but the first weight and the last bias.
KeptAddrs == (WeightAddrZero + 1) .. (NodeAddrZero - 1)

\* A loaded network stays loaded: only the load state changes a parameter,
\* in spite of writes, debug writes and reads at any time (all but the first
\* weight and the last bias, which do change).
ParamsKept ==
  [][stateReg # "loadNN" => \A a \in KeptAddrs : mem'[a] = mem[a]]_vars

=============================================================================
