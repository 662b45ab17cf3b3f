--------------------------- MODULE AccelSystemProofs ---------------------------
(***************************************************************************)
(* Theorems about the accelerator, for every size of the network and every *)
(* word width.                                                             *)
(*                                                                         *)
(* Under any master, for every content at power-up and every value of the  *)
(* undriven write enables: its types, addresses and parameters.  The       *)
(* inductive invariant is TypeOK with AddressesFollow: the bounds of TypeOK *)
(* on the address registers are kept only because the registers agree with *)
(* the indices.                                                            *)
(*                                                                         *)
(* Under its program, for every number of rounds and every pace: the core  *)
(* never stalls for good, the debug port returns what was loaded, the      *)
(* operands of every product belong together, and the verdicts are those   *)
(* of InferenceService.  The sums of the reference are recursive           *)
(* functions; what they compute is proved by induction, from the           *)
(* well-foundedness of the natural numbers.                                *)
(***************************************************************************)
EXTENDS AccelSystem, WellFoundedInduction, TLAPS

-----------------------------------------------------------------------------
(* The accelerator under any master. *)

\* Results of the adders and multipliers are words.
LEMMA WrapInWord == \A x \in Int : Wrap(x) \in Word
  BY SizeAssumption DEF Wrap, Word

LEMMA ZeroIsWord == 0 \in Word
  BY SizeAssumption DEF Word

\* The product used by the weight addresses is monotonic and distributes.
LEMMA Products ==
  ASSUME NEW a \in Nat, NEW b \in Nat, NEW h \in Nat
  PROVE  /\ h * a \in Nat
         /\ h * (a + 1) = h * a + h
         /\ a <= b => h * a <= h * b
  OBVIOUS

\* The parts of the memory follow each other.
LEMMA Weights ==
  /\ NPix * NHid \in Nat
  /\ BiasAddrZero = NPix + NPix * NHid + NHid * 10
  BY SizeAssumption, Products DEF BiasAddrZero, BiasBase, NOut

LEMMA Layout ==
  /\ WeightAddrZero = NPix
  /\ NPix \in Nat /\ NPix > 0
  /\ NHid \in Nat /\ NHid > 0
  /\ BiasAddrZero \in Nat /\ BiasAddrZero >= NPix + NHid * 10
  /\ NodeAddrZero = BiasAddrZero + NHid + 9
  /\ MemSize \in Nat /\ NodeAddrZero + NHid < MemSize
<1>1. NodeAddrZero = BiasAddrZero + NHid + 9
  BY Weights, SizeAssumption DEF NodeAddrZero, NodeBase, BiasAddrZero, NOut
<1>2. BiasAddrZero \in Nat /\ BiasAddrZero >= NPix + NHid * 10
  BY Weights, SizeAssumption
<1> QED  BY <1>1, <1>2, SizeAssumption DEF WeightAddrZero

\* The comparators return an index of the output layer.
LEMMA MaxIndexInRange == ASSUME NEW v PROVE MaxIndex(v) \in 0 .. 9
<1>1. \A a, b \in 0 .. 9 : Better(v, a, b) \in 0 .. 9  BY DEF Better
<1> QED  BY <1>1 DEF MaxIndex

\* The states by name.
LEMMA StateNames ==
  States = {"noNN", "loadNN", "idle", "infLoad", "nextNode", "loadpx", "mac0",
            "addb0", "writeNode", "nextOutput", "loadNode", "mac1", "addb1",
            "writeRes", "clearMem", "clearOut"}
  BY DEF States, StatusCode

\* The inductive invariant.
IInv == TypeOK /\ AddressesFollow

LEMMA InitIInv == Init => IInv
<1> SUFFICES ASSUME Init PROVE IInv  OBVIOUS
<1>1. IndicesTyped
  BY Layout, StateNames DEF Init, IndicesTyped, NOut
<1>2. DataTyped
  BY DataAssumption, ZeroIsWord DEF Init, DataTyped
<1>3. masterReg \in Commands /\ memoryAddress \in Addr
  BY DataAssumption, Layout DEF Init, Commands, NoCommand, Offsets, Addr
<1>4. mem \in [Addr -> Word] /\ rdData \in Word
  BY DataAssumption DEF Init
<1>5. AddressesFollow
  BY Layout DEF Init, AddressesFollow, WriteFollows, NodeFollows, WeightFollows, Listening
<1> QED  BY <1>1, <1>2, <1>3, <1>4, <1>5 DEF IInv, TypeOK

\* The addresses at the memory port are those of words the network uses.
LEMMA PortAddresses == IInv => AddressesBounded
<1> SUFFICES ASSUME IInv PROVE AddressesBounded  OBVIOUS
<1> DEFINE Used == 0 .. NodeAddrZero + NHid
<1>1. /\ writeAddr \in Used /\ readAddrP \in Used
      /\ readAddrW \in Used /\ readAddrB \in Used
      /\ NodeAddrZero \in Used /\ 0 \in Used
      /\ NodeAddrZero + nodeIdx \in Used
  BY Layout DEF IInv, TypeOK, IndicesTyped
<1>2. WriteAddress \in Used
  BY <1>1 DEF WriteAddress
<1>3. FsmReadAddress \in Used
  BY <1>1 DEF FsmReadAddress
<1> QED  BY <1>2, <1>3 DEF AddressesBounded

-----------------------------------------------------------------------------
(***************************************************************************)
(* The memory port: whatever the controller does, a cycle keeps the types  *)
(* of the memory and of the word read.                                     *)
(***************************************************************************)
LEMMA MemoryTyped ==
  ASSUME IInv, MemoryCycle
  PROVE  mem' \in [Addr -> Word] /\ rdData' \in Word
<1>1. /\ mem \in [Addr -> Word] /\ memoryAddress \in Addr
      /\ masterReg.data \in Word /\ nReg \in Word
  BY DEF IInv, TypeOK, DataTyped, Commands
<1>2. WriteData \in Word
  BY <1>1, ZeroIsWord DEF WriteData
<1>3. PICK we \in WriteEnable :
         /\ mem' = IF we THEN [mem EXCEPT ![WriteAddress] = WriteData] ELSE mem
         /\ rdData' \in {mem[ReadAddress], mem'[ReadAddress]}
  BY DEF MemoryCycle
<1>4. mem' \in [Addr -> Word]
  BY <1>1, <1>2, <1>3
<1>5. ReadAddress \in Addr
  <2>1. FsmReadAddress \in Addr
    BY PortAddresses, Layout DEF AddressesBounded, Addr
  <2> QED  BY <1>1, <2>1 DEF ReadAddress
<1>6. mem[ReadAddress] \in Word /\ mem'[ReadAddress] \in Word
  BY <1>1, <1>4, <1>5
<1> QED  BY <1>3, <1>4, <1>6

\* A command of any master is registered as it is, and the debug address is
\* one of the memory.
LEMMA PortTyped ==
  ASSUME IInv, NEW m \in Commands, Tick(m)
  PROVE  masterReg' \in Commands /\ memoryAddress' \in Addr
<1>1. masterReg.data \in Int /\ memoryAddress \in Addr
  BY DEF IInv, TypeOK, Commands, Word
<1>2. masterReg.data % MemSize \in Addr
  BY <1>1, Layout DEF Addr
<1> QED  BY <1>1, <1>2 DEF Tick, SetAddress, Control

-----------------------------------------------------------------------------
(***************************************************************************)
(* The controller: every state of it keeps the registers in their types    *)
(* and in agreement.                                                       *)
(***************************************************************************)
\* There is room for the step a state takes along the weights.
LEMMA WeightRoom ==
  ASSUME IndicesTyped, NodeFollows, WeightFollows
  PROVE  /\ stateReg = "loadpx" => readAddrP <= NPix /\ readAddrW <= NodeAddrZero
         /\ stateReg = "loadNode" => nodeIdx < NHid /\ readAddrW + NOut <= NodeAddrZero
<1>1. /\ readAddrP \in Nat /\ nodeIdx \in 0 .. NHid /\ outputIdx \in 0 .. 9
      /\ NHid * readAddrP \in Nat
  BY Products, Layout DEF IndicesTyped, NOut
<1>2. ASSUME stateReg = "loadpx"
      PROVE  readAddrP <= NPix /\ readAddrW <= NodeAddrZero
  <2>1. readAddrP <= NPix /\ readAddrW = NPix + nodeIdx + NHid * readAddrP
    BY <1>2, Layout DEF WeightFollows
  <2>2. NHid * readAddrP <= NPix * NHid
    BY <1>1, <2>1, Products, Layout
  <2> QED  BY <1>1, <2>1, <2>2, Layout, Weights
<1>3. ASSUME stateReg = "loadNode"
      PROVE  nodeIdx < NHid /\ readAddrW + NOut <= NodeAddrZero
  <2>1. nodeIdx < NHid /\ readAddrW = NPix + NPix * NHid + outputIdx + 10 * nodeIdx
    BY <1>3, Layout DEF NodeFollows, WeightFollows, NOut
  <2> QED  BY <1>1, <2>1, Layout, Weights DEF NOut
<1> QED  BY <1>2, <1>3

-----------------------------------------------------------------------------
(***************************************************************************)
(* The controller: each part of the invariant is kept by every state of    *)
(* it.  The states that touch the part come first, one step each.          *)
(***************************************************************************)

\* No register leaves its range.
LEMMA IndicesKept ==
  ASSUME IInv, Controller
  PROVE  IndicesTyped'
<1>0. IndicesTyped /\ WriteFollows /\ NodeFollows /\ WeightFollows
  BY DEF IInv, TypeOK, AddressesFollow
<1> USE DEF readRegs, macRegs
<1>1. CASE NoNN
  BY <1>0, <1>1, StateNames, Layout
  DEF NoNN, IndicesTyped, NOut
<1>2. CASE LoadNN
  BY <1>0, <1>2, StateNames, Layout
  DEF LoadNN, WriteFollows, IndicesTyped, NOut
<1>3. CASE Idle
  BY <1>0, <1>3, StateNames, Layout
  DEF Idle, IndicesTyped, NOut
<1>4. CASE InfLoad
  BY <1>0, <1>4, StateNames, Layout
  DEF InfLoad, WriteFollows, Listening, IndicesTyped, NOut
<1>5. CASE NextNode
  BY <1>0, <1>5, StateNames, Layout
  DEF NextNode, IndicesTyped, NOut
<1>6. CASE LoadPx
  BY <1>0, <1>6, StateNames, Layout, WeightRoom
  DEF LoadPx, IndicesTyped, NOut
<1>7. CASE WriteNode
  BY <1>0, <1>7, StateNames, Layout
  DEF WriteNode, MoreNodes, IndicesTyped, NOut
<1>8. CASE NextOutput
  BY <1>0, <1>8, StateNames, Layout
  DEF NextOutput, IndicesTyped, NOut
<1>9. CASE LoadNode
  BY <1>0, <1>9, StateNames, Layout, WeightRoom
  DEF LoadNode, IndicesTyped, NOut
<1>10. CASE AddB1
  BY <1>0, <1>10, StateNames, Layout
  DEF AddB1, IndicesTyped, NOut
<1>11. CASE WriteRes
  BY <1>0, <1>11, StateNames, Layout, MaxIndexInRange
  DEF WriteRes, IndicesTyped, NOut
<1>12. CASE ClearMem
  BY <1>0, <1>12, StateNames, Layout
  DEF ClearMem, MoreToClear, IndicesTyped, NOut
<1>13. CASE ClearOut
  BY <1>0, <1>13, StateNames, Layout
  DEF ClearOut, IndicesTyped, NOut
\* The other states change nothing but the state and the data.
<1>14. CASE Wait \/ Mac0 \/ AddB0 \/ Mac1
  BY <1>0, <1>14, StateNames, Layout
  DEF Wait, Mac0, AddB0, Mac1, IndicesTyped, NOut, fsmVars
<1> QED  BY <1>1, <1>2, <1>3, <1>4, <1>5, <1>6, <1>7, <1>8, <1>9, <1>10,
     <1>11, <1>12, <1>13, <1>14 DEF Controller

\* No operand, sum or output exceeds a word.
LEMMA DataKept ==
  ASSUME IInv, Controller
  PROVE  DataTyped'
<1>0. DataTyped /\ IndicesTyped /\ rdData \in Word
  BY DEF IInv, TypeOK, AddressesFollow
<1> USE DEF readRegs, macRegs
<1>1. CASE NextNode
  BY <1>0, <1>1, ZeroIsWord
  DEF NextNode, DataTyped
<1>2. CASE LoadPx
  BY <1>0, <1>2, ZeroIsWord
  DEF LoadPx, DataTyped
<1>3. CASE Mac0
  <2>1. nReg + pReg * rdData \in Int
    BY <1>0 DEF DataTyped, Word
  <2>2. Wrap(nReg + pReg * rdData) \in Word
    BY <2>1, WrapInWord
  <2> QED  BY <1>0, <1>3, <2>2, ZeroIsWord DEF Mac0, DataTyped
<1>4. CASE AddB0
  <2>1. nReg + rdData \in Int
    BY <1>0 DEF DataTyped, Word
  <2>2. Wrap(nReg + rdData) \in Word
    BY <2>1, WrapInWord
  <2> QED  BY <1>0, <1>4, <2>2, ZeroIsWord DEF AddB0, DataTyped
<1>5. CASE NextOutput
  BY <1>0, <1>5, ZeroIsWord
  DEF NextOutput, DataTyped
<1>6. CASE LoadNode
  BY <1>0, <1>6, ZeroIsWord
  DEF LoadNode, DataTyped
<1>7. CASE Mac1
  <2>1. nReg + pReg * rdData \in Int
    BY <1>0 DEF DataTyped, Word
  <2>2. Wrap(nReg + pReg * rdData) \in Word
    BY <2>1, WrapInWord
  <2> QED  BY <1>0, <1>7, <2>2, ZeroIsWord DEF Mac1, DataTyped
<1>8. CASE AddB1
  <2>1. nReg + rdData \in Int
    BY <1>0 DEF DataTyped, Word
  <2>2. Wrap(nReg + rdData) \in Word
    BY <2>1, WrapInWord
  <2> QED  BY <1>0, <1>8, <2>2 DEF AddB1, DataTyped
<1>9. CASE ClearOut
  BY <1>0, <1>9, ZeroIsWord
  DEF ClearOut, NOut, DataTyped
\* The other states leave the data alone.
<1>10. CASE Wait \/ NoNN \/ LoadNN \/ Idle \/ InfLoad \/ WriteNode \/
           WriteRes \/ ClearMem
  BY <1>0, <1>10, ZeroIsWord
  DEF Wait, NoNN, LoadNN, Idle, InfLoad, WriteNode, WriteRes, ClearMem,
     DataTyped, fsmVars
<1> QED  BY <1>1, <1>2, <1>3, <1>4, <1>5, <1>6, <1>7, <1>8, <1>9, <1>10 DEF Controller

\* The write address starts with each load and stands still in an inference.
LEMMA WriteKept ==
  ASSUME IInv, Controller
  PROVE  WriteFollows'
<1>0. IndicesTyped /\ WriteFollows
  BY DEF IInv, TypeOK, AddressesFollow
<1> USE DEF readRegs, macRegs
<1>1. CASE NoNN
  BY <1>0, <1>1, Layout
  DEF NoNN, WriteFollows, Listening
<1>2. CASE LoadNN
  BY <1>0, <1>2, Layout
  DEF LoadNN, IndicesTyped, WriteFollows, Listening
<1>3. CASE Idle
  BY <1>0, <1>3, Layout
  DEF Idle, WriteFollows, Listening
<1>4. CASE InfLoad
  BY <1>0, <1>4, Layout
  DEF InfLoad, IndicesTyped, WriteFollows, Listening
\* The other states leave the write address alone.
<1>5. CASE Wait \/ NextNode \/ LoadPx \/ Mac0 \/ AddB0 \/ WriteNode \/
           NextOutput \/ LoadNode \/ Mac1 \/ AddB1 \/ WriteRes \/ ClearMem \/
           ClearOut
  BY <1>0, <1>5, Layout
  DEF Wait, NextNode, LoadPx, Mac0, AddB0, WriteNode, NextOutput, LoadNode,
     Mac1, AddB1, WriteRes, ClearMem, ClearOut, WriteFollows, Listening,
     fsmVars
<1> QED  BY <1>1, <1>2, <1>3, <1>4, <1>5 DEF Controller

\* The node index is 0 again when an inference ends.
LEMMA NodeKept ==
  ASSUME IInv, Controller
  PROVE  NodeFollows'
<1>0. IndicesTyped /\ NodeFollows
  BY DEF IInv, TypeOK, AddressesFollow
<1> USE DEF readRegs, macRegs
<1>1. CASE WriteNode
  BY <1>0, <1>1, Layout
  DEF WriteNode, MoreNodes, NodeFollows, Listening, IndicesTyped
<1>2. CASE NextOutput
  BY <1>0, <1>2, Layout
  DEF NextOutput, NodeFollows, Listening, IndicesTyped
<1>3. CASE LoadNode
  BY <1>0, <1>3, Layout
  DEF LoadNode, NodeFollows, Listening, IndicesTyped
<1>4. CASE Mac1
  BY <1>0, <1>4, Layout
  DEF Mac1, MoreNodes, NodeFollows, Listening, IndicesTyped
<1>5. CASE WriteRes
  BY <1>0, <1>5, Layout
  DEF WriteRes, NodeFollows, Listening, IndicesTyped
<1>6. CASE ClearMem
  BY <1>0, <1>6, Layout
  DEF ClearMem, MoreToClear, NodeFollows, Listening, IndicesTyped
<1>7. CASE ClearOut
  BY <1>0, <1>7, Layout
  DEF ClearOut, NodeFollows, Listening, IndicesTyped
\* The other states leave the index alone.
<1>8. CASE Wait \/ NoNN \/ LoadNN \/ Idle \/ InfLoad \/ NextNode \/ LoadPx \/
           Mac0 \/ AddB0 \/ AddB1
  BY <1>0, <1>8, Layout
  DEF Wait, NoNN, LoadNN, Idle, InfLoad, NextNode, LoadPx, Mac0, AddB0, AddB1,
     NodeFollows, Listening, IndicesTyped, fsmVars
<1> QED  BY <1>1, <1>2, <1>3, <1>4, <1>5, <1>6, <1>7, <1>8 DEF Controller

\* The weight address advances by a row with each pixel and each node.
LEMMA WeightKept ==
  ASSUME IInv, Controller
  PROVE  WeightFollows'
<1>0. IndicesTyped /\ WeightFollows
  BY DEF IInv, TypeOK, AddressesFollow
<1> USE DEF readRegs, macRegs
<1>1. CASE NextNode
  BY <1>0, <1>1, Layout, Products
  DEF NextNode, IndicesTyped, WeightFollows
<1>2. CASE LoadPx
  BY <1>0, <1>2, Layout, Products
  DEF LoadPx, IndicesTyped, WeightFollows
<1>3. CASE Mac0
  BY <1>0, <1>3, Layout
  DEF Mac0, MorePixels, WeightFollows
<1>4. CASE NextOutput
  BY <1>0, <1>4, Layout, Weights
  DEF NextOutput, NOut, IndicesTyped, WeightFollows
<1>5. CASE LoadNode
  BY <1>0, <1>5, Layout
  DEF LoadNode, IndicesTyped, NOut, WeightFollows
<1>6. CASE Mac1
  BY <1>0, <1>6, Layout
  DEF Mac1, WeightFollows
\* The other states are not followed by one that fetches an operand.
<1>7. CASE Wait \/ NoNN \/ LoadNN \/ Idle \/ InfLoad \/ AddB0 \/ WriteNode \/
           AddB1 \/ WriteRes \/ ClearMem \/ ClearOut
  BY <1>0, <1>7, Layout
  DEF Wait, NoNN, LoadNN, Idle, InfLoad, AddB0, WriteNode, AddB1, WriteRes,
     ClearMem, ClearOut, WeightFollows, fsmVars
<1> QED  BY <1>1, <1>2, <1>3, <1>4, <1>5, <1>6, <1>7 DEF Controller

-----------------------------------------------------------------------------
LEMMA StepIInv == IInv /\ [Next]_vars => IInv'
<1> SUFFICES ASSUME IInv, [Next]_vars PROVE IInv'  OBVIOUS
<1>1. CASE UNCHANGED vars
  BY <1>1
  DEF IInv, TypeOK, AddressesFollow, IndicesTyped, DataTyped, WriteFollows,
      NodeFollows, WeightFollows, vars, fsmVars, readRegs, macRegs
<1>2. ASSUME NEW m \in Commands, Tick(m)
      PROVE  IInv'
  <2>1. mem' \in [Addr -> Word] /\ rdData' \in Word
    BY <1>2, MemoryTyped DEF Tick
  <2>2. masterReg' \in Commands /\ memoryAddress' \in Addr
    BY <1>2, PortTyped
  <2>3. IndicesTyped' /\ DataTyped' /\ AddressesFollow'
    <3>1. CASE SetAddress
      BY <3>1 DEF IInv, TypeOK, AddressesFollow, IndicesTyped, DataTyped, WriteFollows,
         NodeFollows, WeightFollows, SetAddress, fsmVars, readRegs, macRegs
    <3>2. CASE Control
      BY <3>2, IndicesKept, DataKept, WriteKept, NodeKept, WeightKept
      DEF Control, AddressesFollow
    <3> QED  BY <1>2, <3>1, <3>2 DEF Tick
  <2> QED  BY <2>1, <2>2, <2>3 DEF IInv, TypeOK
<1> QED  BY <1>1, <1>2 DEF Next

LEMMA Invariance == Spec => []IInv
  BY InitIInv, StepIInv, PTL DEF Spec

\* The registers and the memory hold values of their types, whatever commands
\* the master of the device issues and when (io/Accelerator.scala).
THEOREM TypeCorrect == Spec => []TypeOK
<1>1. IInv => TypeOK  BY DEF IInv
<1> QED  BY <1>1, Invariance, PTL

\* The four address registers and the two indices of the controller, each
\* counted by states of its own, agree in every state.
THEOREM AddressesAgree == Spec => []AddressesFollow
<1>1. IInv => AddressesFollow  BY DEF IInv
<1> QED  BY <1>1, Invariance, PTL

\* No address at the memory port leaves the part of the memory the network
\* uses: none of the 18-bit registers wraps around.
THEOREM MemoryBounded == Spec => []AddressesBounded
  BY PortAddresses, Invariance, PTL

\* Only the load state changes a parameter that is neither the first weight
\* nor the last bias, whatever the master does in the other states.
THEOREM ParametersKept == Spec => ParamsKept
<1>1. IInv /\ [Next]_vars => [stateReg # "loadNN" => \A a \in KeptAddrs : mem'[a] = mem[a]]_vars
  <2> SUFFICES ASSUME IInv, NEW m \in Commands, Tick(m), stateReg # "loadNN",
                      NEW a \in KeptAddrs
               PROVE  mem'[a] = mem[a]
    BY DEF Next
  <2>1. /\ IndicesTyped /\ WriteFollows /\ mem \in [Addr -> Word]
    BY DEF IInv, TypeOK, AddressesFollow
  <2>2. WriteAddress # a
    BY <2>1, Layout DEF WriteAddress, KeptAddrs, WriteFollows, Listening, IndicesTyped
  <2>3. a \in Addr
    BY Layout DEF KeptAddrs, Addr
  <2> QED  BY <2>1, <2>2, <2>3 DEF Tick, MemoryCycle
<1> QED  BY <1>1, Invariance, PTL DEF Spec, ParamsKept

-----------------------------------------------------------------------------
(***************************************************************************)
(* The inductive invariant.  What the device holds while the program       *)
(* stands at a command and nothing is under way:                           *)
(***************************************************************************)
\* The first k parameters of the network have been stored.
Params(k) == \A a \in WeightAddrZero .. WeightAddrZero + k - 1 :
               mem[a] = net[a - WeightAddrZero]

\* No undriven write enable writes in the build.
NoFloat == FloatWrEna \subseteq {FALSE}

\* The network is in the memory, but for what hidden nodes and undriven writes
\* may have replaced.
Kept == /\ \A a \in KeptAddrs : mem[a] = net[a - WeightAddrZero]
        /\ NoFloat => mem[WeightAddrZero] = net[0]

\* The first k pixels of the image have been stored.
Pixels(k) == \A a \in 0 .. k - 1 : mem[a] = img[a]

Fresh      == stateReg \in {"noNN", "idle"}
Loading(k) == stateReg = "loadNN" /\ writeAddr = WeightAddrZero + k /\ Params(k)
Checking   == stateReg = "idle" /\ writeAddr = NodeAddrZero + 1 /\ Params(Ref!ParamCount)
Resting    == stateReg = "idle" /\ Kept
Drawing(k) == stateReg = "infLoad" /\ writeAddr = k /\ Kept /\ Pixels(k)

\* The partial sums of the reference for a network w and an image x: node n over
\* p pixels, output o over k nodes.
Row1(w, n)       == [p \in 0 .. NPix - 1 |-> Ref!Weight1(w, p, n)]
Row2(w, o)       == [n \in 0 .. NHid - 1 |-> Ref!Weight2(w, n, o)]
Sum1(w, x, n, p) == Ref!ToWord(Ref!Dot(x, Row1(w, n), p))
Sum2(w, x, o, k) == Ref!ToWord(Ref!Dot(Ref!Hidden(w, x), Row2(w, o), k))
Scores(w, x)     == Ref!Logits(w, x, Ref!BuiltBias(w, x))

\* The first m nodes of the hidden layer have been stored.
Nodes(m) == \A n \in 0 .. m - 1 : mem[NodeAddrZero + n] = Ref!Hidden(net, img)[n]

FirstLayer  == {"nextNode", "loadpx", "mac0", "addb0", "writeNode"}
SecondLayer == {"nextOutput", "loadNode", "mac1", "addb1"}
Finishing   == {"clearMem", "clearOut", "idle"}
Computing   == FirstLayer \cup SecondLayer \cup {"writeRes"} \cup Finishing

\* The first layer: node NHid, which the network does not have, is computed
\* like the others, of what the memory holds there.
PixelFetched ==
  stateReg = "loadpx" =>
    /\ readAddrB = BiasAddrZero + nodeIdx
    /\ readAddrP < NPix => rdData = img[readAddrP]
    /\ nodeIdx < NHid => nReg = Sum1(net, img, nodeIdx, readAddrP)

PixelMet ==
  stateReg = "mac0" =>
    /\ readAddrB = BiasAddrZero + nodeIdx
    /\ readAddrP > 0
    /\ MorePixels => pReg = img[readAddrP - 1]
    /\ MorePixels /\ nodeIdx < NHid =>
         /\ nReg = Sum1(net, img, nodeIdx, readAddrP - 1)
         /\ NoFloat \/ readAddrP # 1 \/ nodeIdx # 0 =>
              rdData = Ref!Weight1(net, readAddrP - 1, nodeIdx)
    /\ ~MorePixels /\ nodeIdx < NHid => nReg = Sum1(net, img, nodeIdx, NPix)

NodeSummed ==
  /\ stateReg = "addb0" /\ nodeIdx < NHid =>
       nReg = Sum1(net, img, nodeIdx, NPix) /\ rdData = Ref!Bias1(net, nodeIdx)
  /\ stateReg = "writeNode" /\ nodeIdx < NHid =>
       nReg = Ref!Hidden(net, img)[nodeIdx]

\* The second layer.
NodeFetched ==
  stateReg = "loadNode" =>
    /\ readAddrB = BiasAddrZero + NHid + outputIdx
    /\ rdData = Ref!Hidden(net, img)[nodeIdx]
    /\ nReg = Sum2(net, img, outputIdx, nodeIdx)

NodeMet ==
  stateReg = "mac1" =>
    /\ readAddrB = BiasAddrZero + NHid + outputIdx
    /\ nodeIdx > 0
    /\ pReg = Ref!Hidden(net, img)[nodeIdx - 1]
    /\ rdData = Ref!Weight2(net, nodeIdx - 1, outputIdx)
    /\ nReg = Sum2(net, img, outputIdx, nodeIdx - 1)

OutputSummed ==
  stateReg = "addb1" =>
    nReg = Sum2(net, img, outputIdx, NHid) /\ rdData = Ref!BuiltBias(net, img)[outputIdx]

\* What has been stored of the layers, and the answer.
Stored ==
  /\ stateReg \in FirstLayer => Nodes(nodeIdx)
  /\ stateReg \in SecondLayer =>
       Nodes(NHid) /\ \A q \in 0 .. outputIdx - 1 : layer2[q] = Scores(net, img)[q]
  /\ stateReg = "writeRes" => \A q \in 0 .. 9 : layer2[q] = Scores(net, img)[q]
  /\ stateReg \in Finishing => outputReg = Ref!BuiltAnswer(net, img)

\* The program waits for an answer: an inference is under way, or over.
Inferring == stateReg \in Computing /\ Kept /\ Pixels(NPix)

-----------------------------------------------------------------------------
(***************************************************************************)
(* Where the program stands, and what it has under way.                    *)
(***************************************************************************)
Inside == {"poll", "branch", "keep"}

DriverTyped ==
  /\ pc \in {"fill", "params", "check", "read1", "read2", "checked", "ready", "pixels",
             "poll", "branch", "keep", "done"}
  /\ i \in Nat /\ gap \in 0 .. MaxGap /\ waiting \in BOOLEAN
  /\ net \in Networks /\ img \in Images
  /\ pc = "params" => i < Ref!ParamCount
  /\ pc = "check" => i > 0
  /\ pc \in {"read1", "read2", "checked"} => i \in 1 .. Len(CheckAddrs)
  /\ pc = "pixels" => i < NPix

\* Nothing is under way.
Settled ==
  ~waiting =>
    /\ masterReg.cmd = "IDLE"
    /\ pc = "fill" => Fresh
    /\ pc = "params" => Loading(i)
    /\ pc \in {"check", "read1", "read2", "checked"} => Checking
    /\ pc \in {"read1", "read2", "checked"} => memoryAddress = CheckAddrs[i]
    /\ pc \in {"ready", "done"} => Resting
    /\ pc = "pixels" => Drawing(i)
    /\ pc \in Inside => Inferring

Sends(op, a, d) == masterReg.cmd = op /\ masterReg.addr = a /\ masterReg.data = d
Asks(a)         == masterReg.cmd = "RD" /\ masterReg.addr = a

\* The command before pc is at the device.
UnderWay ==
  waiting =>
    /\ gap = 0
    /\ pc \notin {"fill", "ready", "done"}
    /\ pc = "params" /\ i = 0 => Fresh /\ Sends("WR", INPUT, 0)
    /\ pc = "params" /\ i > 0 => Loading(i - 1) /\ Sends("WR", INPUT, net[i - 1])
    /\ pc = "check" =>
         /\ i = 1
         /\ Loading(Ref!ParamCount - 1)
         /\ Sends("WR", INPUT, net[Ref!ParamCount - 1])
    /\ pc = "read1" => Checking /\ Sends("WR", SET_ADDR, CheckAddrs[i])
    /\ pc \in {"read2", "checked"} =>
         Checking /\ Asks(MEM_READ) /\ memoryAddress = CheckAddrs[i]
    /\ pc = "checked" /\ adjacent => rdData = net[CheckAddrs[i] - WeightAddrZero]
    /\ pc = "pixels" /\ i = 0 => Resting /\ Sends("WR", INPUT, 1)
    /\ pc = "pixels" /\ i > 0 => Drawing(i - 1) /\ Sends("WR", INPUT, img[i - 1])
    /\ pc = "poll" => Drawing(NPix - 1) /\ Sends("WR", INPUT, img[NPix - 1])
    /\ pc = "branch" => Inferring /\ Asks(STATUS)
    /\ pc = "keep" => Inferring /\ Asks(RESULT)

\* What the program knows: a pause is counted, and an idle status is the truth.
Known ==
  /\ ~waiting /\ pc = "read2" => gap > 0
  /\ ~waiting /\ pc = "branch" /\ loaded = IdleStatus => stateReg = "idle"

\* The invariant that holds of every image.
SysInv == IInv /\ DriverTyped /\ Settled /\ UnderWay /\ Known

\* What an inference has computed so far.
Progress == /\ PixelFetched /\ PixelMet /\ NodeSummed
            /\ NodeFetched /\ NodeMet /\ OutputSummed
            /\ Stored

Computed == pc \in Inside => Progress

-----------------------------------------------------------------------------
(***************************************************************************)
(* The timing: the cycles the device needs at least until it is idle, and  *)
(* what they leave of a stale answer.                                      *)
(***************************************************************************)
Left == CASE stateReg = "idle"     -> 0
          [] stateReg = "clearOut" -> 1
          [] stateReg = "clearMem" -> NHid - nodeIdx + 1
          [] OTHER                 -> NHid + 2

Answer == Ref!BuiltAnswer(net, img)

Timely ==
  /\ pc = "poll" => Left + gap >= NHid + 2
  /\ pc = "branch" => result = Answer \/ Loaded # IdleStatus
  /\ pc = "keep" => Loaded = Answer \/ Left + gap >= NHid + 2

-----------------------------------------------------------------------------
(***************************************************************************)
(* Induction on the natural numbers: a set that holds 0 and with every     *)
(* number the next holds all of them, for a least number outside would     *)
(* have a predecessor inside.                                              *)
(***************************************************************************)
LEMMA SetInduction ==
  ASSUME NEW T \in SUBSET Nat, 0 \in T, \A n \in T : n + 1 \in T
  PROVE  T = Nat
<1> DEFINE less == OpToRel(<, Nat)
<1>1. IsWellFoundedOn(less, Nat)
  BY NatLessThanWellFounded
<1>2. \A x, y \in Nat : y < x => <<y, x>> \in less
  BY DEF OpToRel
<1> HIDE DEF less
<1> SUFFICES ASSUME Nat \ T # {} PROVE FALSE
  OBVIOUS
<1>3. PICK x \in Nat \ T : \A y \in Nat \ T : <<y, x>> \notin less
  BY <1>1, WFMin
<1>4. x # 0 /\ x - 1 \in Nat /\ x - 1 < x
  BY <1>3
<1>5. (x - 1) + 1 \in T
  BY <1>2, <1>3, <1>4
<1> QED  BY <1>3, <1>5

-----------------------------------------------------------------------------
(***************************************************************************)
(* The sums of the reference.                                              *)
(***************************************************************************)
\* The function Dot is read from.
IsSum(f, x, w, n) ==
  f = [k \in 0 .. n |-> IF k = 0 THEN 0 ELSE f[k - 1] + x[k - 1] * w[k - 1]]

LEMMA DotIsSum ==
  ASSUME NEW x, NEW w, NEW n
  PROVE  Ref!Dot(x, w, n) = (CHOOSE f : IsSum(f, x, w, n))[n]
  BY DEF Ref!Dot, IsSum

LEMMA SumExists ==
  ASSUME NEW x, NEW w, NEW n \in Nat
  PROVE  \E f : IsSum(f, x, w, n)
<1> DEFINE T == {m \in Nat : \E f : IsSum(f, x, w, m)}
<1>1. 0 \in T
  <2>1. IsSum([k \in 0 .. 0 |-> 0], x, w, 0)  BY DEF IsSum
  <2> QED  BY <2>1
<1>2. ASSUME NEW m \in T PROVE m + 1 \in T
  <2>1. PICK f : IsSum(f, x, w, m)  OBVIOUS
  <2> DEFINE g == [k \in 0 .. m + 1 |-> IF k = m + 1 THEN f[m] + x[m] * w[m] ELSE f[k]]
  <2>2. ASSUME NEW k \in 0 .. m + 1
        PROVE  g[k] = IF k = 0 THEN 0 ELSE g[k - 1] + x[k - 1] * w[k - 1]
    BY <2>1 DEF IsSum
  <2>3. IsSum(g, x, w, m + 1)  BY <2>2 DEF IsSum
  <2> QED  BY <2>3
<1> HIDE DEF T
<1>3. T = Nat  BY <1>1, <1>2, SetInduction DEF T
<1> QED  BY <1>3 DEF T

LEMMA SumUnique ==
  ASSUME NEW x, NEW w, NEW n \in Nat, NEW m \in Nat, NEW f, NEW g,
         IsSum(f, x, w, n), IsSum(g, x, w, m), NEW j \in 0 .. n, j <= m
  PROVE  f[j] = g[j]
<1> DEFINE T == {k \in Nat : k <= n /\ k <= m => f[k] = g[k]}
<1>1. 0 \in T  BY DEF IsSum
<1>2. ASSUME NEW k \in T PROVE k + 1 \in T
  <2> SUFFICES ASSUME k + 1 <= n, k + 1 <= m PROVE f[k + 1] = g[k + 1]
    OBVIOUS
  <2>1. f[k] = g[k]  OBVIOUS
  <2> QED  BY <2>1 DEF IsSum
<1> HIDE DEF T
<1>3. T = Nat  BY <1>1, <1>2, SetInduction DEF T
<1> QED  BY <1>3 DEF T

\* What a sum is: nothing, and then one product more.
LEMMA DotSteps ==
  ASSUME NEW x, NEW w
  PROVE  /\ Ref!Dot(x, w, 0) = 0
         /\ \A n \in Nat : Ref!Dot(x, w, n + 1) = Ref!Dot(x, w, n) + x[n] * w[n]
<1> DEFINE S(n) == CHOOSE f : IsSum(f, x, w, n)
<1>1. ASSUME NEW n \in Nat
      PROVE  IsSum(S(n), x, w, n) /\ Ref!Dot(x, w, n) = S(n)[n]
  BY SumExists, DotIsSum
<1> HIDE DEF S
<1>2. Ref!Dot(x, w, 0) = 0
  BY <1>1 DEF IsSum
<1>3. ASSUME NEW n \in Nat
      PROVE  Ref!Dot(x, w, n + 1) = Ref!Dot(x, w, n) + x[n] * w[n]
  <2>1. IsSum(S(n), x, w, n) /\ Ref!Dot(x, w, n) = S(n)[n]
    BY <1>1
  <2>2. IsSum(S(n + 1), x, w, n + 1) /\ Ref!Dot(x, w, n + 1) = S(n + 1)[n + 1]
    BY <1>1
  <2>3. S(n + 1)[n] = S(n)[n]
    BY <2>1, <2>2, SumUnique
  <2>4. S(n + 1)[n + 1] = S(n + 1)[n] + x[n] * w[n]
    BY <2>2 DEF IsSum
  <2> QED  BY <2>1, <2>2, <2>3, <2>4
<1> QED  BY <1>2, <1>3

\* Sums of words are integers.
LEMMA DotIsInt ==
  ASSUME NEW n \in Nat, NEW x \in [0 .. n - 1 -> Int], NEW w \in [0 .. n - 1 -> Int],
         NEW m \in 0 .. n
  PROVE  Ref!Dot(x, w, m) \in Int
<1> DEFINE T == {k \in Nat : k <= n => Ref!Dot(x, w, k) \in Int}
<1>1. 0 \in T  BY DotSteps
<1>2. ASSUME NEW k \in T PROVE k + 1 \in T
  <2> SUFFICES ASSUME k + 1 <= n PROVE Ref!Dot(x, w, k + 1) \in Int
    OBVIOUS
  <2>1. Ref!Dot(x, w, k) \in Int /\ x[k] \in Int /\ w[k] \in Int  OBVIOUS
  <2>2. Ref!Dot(x, w, k + 1) = Ref!Dot(x, w, k) + x[k] * w[k]  BY DotSteps
  <2>3. x[k] * w[k] \in Int  BY <2>1
  <2> QED  BY <2>1, <2>2, <2>3
<1> HIDE DEF T
<1>3. T = Nat  BY <1>1, <1>2, SetInduction DEF T
<1> QED  BY <1>3 DEF T

-----------------------------------------------------------------------------
(***************************************************************************)
(* Words: an accumulator that is cut to a word after every addition holds  *)
(* the exact sum, cut once.                                                *)
(***************************************************************************)
\* Quotient and remainder, and that they are unique.
LEMMA Remainders ==
  ASSUME NEW m \in Nat \ {0}, NEW x \in Int
  PROVE  /\ x \div m \in Int /\ x % m \in 0 .. m - 1
         /\ x = m * (x \div m) + (x % m)
  OBVIOUS

LEMMA RemainderUnique ==
  ASSUME NEW m \in Nat \ {0}, NEW q \in Int, NEW p \in Int,
         NEW r \in 0 .. m - 1, NEW s \in 0 .. m - 1, m * q + r = m * p + s
  PROVE  r = s
<1>1. ASSUME NEW a \in Int, NEW b \in Int, a < b PROVE m * a + m <= m * b
  <2>1. m * (a + 1) = m * a + m  OBVIOUS
  <2>2. m * (a + 1) <= m * b  BY <1>1
  <2> QED  BY <2>1, <2>2
<1>2. m * p \in Int /\ m * q \in Int  OBVIOUS
<1>3. CASE q < p
  <2>1. m * q + m <= m * p  BY <1>1, <1>3
  <2> QED  BY <1>2, <2>1
<1>4. CASE p < q
  <2>1. m * p + m <= m * q  BY <1>1, <1>4
  <2> QED  BY <1>2, <2>1
<1>5. CASE p = q
  BY <1>2, <1>5
<1> QED  BY <1>3, <1>4, <1>5

LEMMA Distributes ==
  ASSUME NEW m \in Nat, NEW p \in Int, NEW q \in Int
  PROVE  m * (p + q) = m * p + m * q
  OBVIOUS

LEMMA WrapAdd ==
  ASSUME NEW a \in Int, NEW b \in Int
  PROVE  Wrap(Wrap(a) + b) = Wrap(a + b)
<1> DEFINE m == 2 * Half
           x == a + Half
           y == (x % m) + b
           z == x + b
<1>1. m \in Nat \ {0} /\ x \in Int /\ Half \in Int
  BY SizeAssumption
<1>2. x \div m \in Int /\ x % m \in Int /\ x = m * (x \div m) + (x % m)
  <2> HIDE DEF x, m
  <2> QED  BY <1>1, Remainders
<1>3. y \in Int /\ z \in Int /\ z = m * (x \div m) + y
  BY <1>1, <1>2
<1>4. y \div m \in Int /\ y % m \in 0 .. m - 1 /\ y = m * (y \div m) + (y % m)
  <2> HIDE DEF y, m
  <2> QED  BY <1>1, <1>3, Remainders
<1>5. z \div m \in Int /\ z % m \in 0 .. m - 1 /\ z = m * (z \div m) + (z % m)
  <2> HIDE DEF z, m
  <2> QED  BY <1>1, <1>3, Remainders
<1>6. m * (z \div m) + (z % m) = m * ((x \div m) + (y \div m)) + (y % m)
  <2> HIDE DEF x, y, z, m
  <2>1. m * ((x \div m) + (y \div m)) = m * (x \div m) + m * (y \div m)
    BY <1>1, <1>2, <1>4, Distributes
  <2>2. m * (x \div m) \in Int /\ m * (y \div m) \in Int
    BY <1>1, <1>2, <1>4
  <2> QED  BY <1>1, <1>2, <1>3, <1>4, <1>5, <2>1, <2>2
<1>7. z % m = y % m
  <2>1. (x \div m) + (y \div m) \in Int  BY <1>2, <1>4
  <2> HIDE DEF x, y, z, m
  <2> QED  BY <1>1, <1>4, <1>5, <1>6, <2>1, RemainderUnique
<1>8. Wrap(Wrap(a) + b) = (y % m) - Half
  BY <1>1, <1>2 DEF Wrap
<1>9. Wrap(a + b) = (z % m) - Half
  <2>1. (a + b) + Half = z  BY <1>1
  <2> QED  BY <2>1 DEF Wrap
<1> QED  BY <1>7, <1>8, <1>9

\* The word of the reference is that of the device.
LEMMA WordIsWrap == ASSUME NEW a PROVE Ref!ToWord(a) = Wrap(a)
  BY DEF Ref!ToWord, Wrap

LEMMA WrapZero == Wrap(0) = 0
<1>1. Half \in Nat /\ Half > 0  BY SizeAssumption
<1>2. Half % (2 * Half) = Half
  <2> DEFINE m == 2 * Half
  <2>1. m \in Nat \ {0} /\ Half \in 0 .. m - 1  BY <1>1
  <2> HIDE DEF m
  <2>2. Half \div m \in Int /\ Half % m \in 0 .. m - 1 /\ Half = m * (Half \div m) + (Half % m)
    BY <1>1, <2>1, Remainders
  <2>3. m * 0 + Half = m * (Half \div m) + (Half % m)  BY <1>1, <2>1, <2>2
  <2>4. Half = Half % m  BY <2>1, <2>2, <2>3, RemainderUnique
  <2> QED  BY <2>4 DEF m
<1> QED  BY <1>1, <1>2 DEF Wrap

-----------------------------------------------------------------------------
(***************************************************************************)
(* The parameters of the network and their addresses.                      *)
(***************************************************************************)
LEMMA Parameters ==
  /\ Ref!ParamCount = NPix * NHid + NHid * 10 + NHid + 10
  /\ Ref!ParamCount \in Nat /\ Ref!ParamCount >= 10
  /\ NPix * NHid \in Nat /\ NHid * 10 \in Nat
  /\ NodeAddrZero = WeightAddrZero + Ref!ParamCount - 1
<1>1. NPix * NHid \in Nat /\ NPix \in Nat /\ NHid \in Nat
  BY Weights, Layout
<1> QED  BY <1>1, Weights, Layout DEF Ref!ParamCount, NOut

\* Each weight and bias is a parameter, and lies where the device looks for it.
LEMMA FirstWeights ==
  ASSUME NEW p \in 0 .. NPix - 1, NEW n \in 0 .. NHid - 1
  PROVE  /\ p * NHid + n \in 0 .. NPix * NHid - 1
         /\ p * NHid = NHid * p
<1>1. p * NHid = NHid * p /\ NHid * (p + 1) = NHid * p + NHid /\ NHid * p \in Nat
  BY Products, Layout
<1>2. NHid * (p + 1) <= NHid * NPix /\ NHid * NPix = NPix * NHid
  BY Products, Layout
<1> QED  BY <1>1, <1>2, Layout

LEMMA NetworkTyped ==
  ASSUME NEW w \in Networks
  PROVE  /\ \A k \in 0 .. Ref!ParamCount - 1 : w[k] \in Word
         /\ \A n \in 0 .. NHid - 1, p \in 0 .. NPix - 1 : Ref!Weight1(w, p, n) \in Word
         /\ \A o \in 0 .. 9, n \in 0 .. NHid - 1 : Ref!Weight2(w, n, o) \in Word
         /\ \A n \in 0 .. NHid - 1 : Ref!Bias1(w, n) \in Word
         /\ \A o \in 0 .. 9 : Ref!Bias2(w, o) \in Word
<1>1. \A k \in 0 .. Ref!ParamCount - 1 : w[k] \in Word
  BY DriverAssumption
<1>2. ASSUME NEW n \in 0 .. NHid - 1, NEW p \in 0 .. NPix - 1
      PROVE  Ref!Weight1(w, p, n) \in Word
  BY <1>1, FirstWeights, Parameters, Layout DEF Ref!Weight1
<1>3. ASSUME NEW n \in 0 .. NHid - 1, NEW o \in 0 .. 9
      PROVE  Ref!Weight2(w, n, o) \in Word
  BY <1>1, Parameters, Layout DEF Ref!Weight2, NOut
<1>4. ASSUME NEW n \in 0 .. NHid - 1
      PROVE  Ref!Bias1(w, n) \in Word
  BY <1>1, Parameters, Layout DEF Ref!Bias1, NOut
<1>5. ASSUME NEW o \in 0 .. 9
      PROVE  Ref!Bias2(w, o) \in Word
  BY <1>1, Parameters, Layout DEF Ref!Bias2, NOut
<1> QED  BY <1>1, <1>2, <1>3, <1>4, <1>5

LEMMA ImageTyped == ASSUME NEW x \in Images PROVE x \in [0 .. NPix - 1 -> Word]
  BY DriverAssumption

LEMMA WordsAreInts == Word \subseteq Int
  BY Layout, SizeAssumption DEF Word

-----------------------------------------------------------------------------
(***************************************************************************)
(* The layers of the reference, one product at a time and under the        *)
(* arithmetic of the device.                                               *)
(***************************************************************************)
LEMMA FirstLayerSums ==
  ASSUME NEW w \in Networks, NEW x \in Images, NEW n \in 0 .. NHid - 1
  PROVE  /\ Sum1(w, x, n, 0) = 0
         /\ \A p \in 0 .. NPix - 1 :
              Sum1(w, x, n, p + 1) = Wrap(Sum1(w, x, n, p) + x[p] * Ref!Weight1(w, p, n))
         /\ Ref!Hidden(w, x)[n] =
              Ref!Relu(Wrap(Sum1(w, x, n, NPix) + Ref!Bias1(w, n)))
<1> DEFINE r == Row1(w, n)
<1>1. /\ x \in [0 .. NPix - 1 -> Int] /\ r \in [0 .. NPix - 1 -> Int]
      /\ Ref!Bias1(w, n) \in Int
  BY NetworkTyped, ImageTyped, WordsAreInts DEF Row1
<1>2. \A p \in 0 .. NPix : Ref!Dot(x, r, p) \in Int
  BY <1>1, DotIsInt, Layout
<1>3. Sum1(w, x, n, 0) = 0
  BY DotSteps, WordIsWrap, WrapZero DEF Sum1
<1>4. ASSUME NEW p \in 0 .. NPix - 1
      PROVE  Sum1(w, x, n, p + 1) = Wrap(Sum1(w, x, n, p) + x[p] * Ref!Weight1(w, p, n))
  <2>1. r[p] = Ref!Weight1(w, p, n)  BY DEF Row1
  <2>2. x[p] * r[p] \in Int
    <3>1. x[p] \in Int /\ r[p] \in Int  BY <1>1
    <3> QED  BY <3>1
  <2>3. Ref!Dot(x, r, p + 1) = Ref!Dot(x, r, p) + x[p] * r[p]
    <3>1. p \in Nat  BY Layout
    <3> HIDE DEF r
    <3> QED  BY <3>1, DotSteps
  <2>4. Ref!Dot(x, r, p) \in Int  BY <1>2, Layout
  <2>5. Wrap(Wrap(Ref!Dot(x, r, p)) + x[p] * r[p]) = Wrap(Ref!Dot(x, r, p) + x[p] * r[p])
    BY <2>2, <2>4, WrapAdd
  <2> QED  BY <2>1, <2>3, <2>5, WordIsWrap DEF Sum1
<1>5. Ref!Hidden(w, x)[n] = Ref!Relu(Wrap(Sum1(w, x, n, NPix) + Ref!Bias1(w, n)))
  <2>1. Ref!Hidden(w, x)[n] = Ref!Relu(Ref!ToWord(Ref!Dot(x, r, NPix) + Ref!Bias1(w, n)))
    BY DEF Ref!Hidden, Row1
  <2>2. Ref!Dot(x, r, NPix) \in Int  BY <1>2, Layout
  <2>3. Wrap(Wrap(Ref!Dot(x, r, NPix)) + Ref!Bias1(w, n))
          = Wrap(Ref!Dot(x, r, NPix) + Ref!Bias1(w, n))
    BY <1>1, <2>2, WrapAdd
  <2> QED  BY <2>1, <2>3, WordIsWrap DEF Sum1
<1> QED  BY <1>3, <1>4, <1>5

LEMMA HiddenTyped ==
  ASSUME NEW w \in Networks, NEW x \in Images
  PROVE  Ref!Hidden(w, x) \in [0 .. NHid - 1 -> Int]
<1>1. ASSUME NEW a \in Int PROVE Ref!Relu(Wrap(a)) \in Int
  <2>1. Wrap(a) \in Int  BY WrapInWord, WordsAreInts
  <2> QED  BY <2>1 DEF Ref!Relu
<1>2. ASSUME NEW n \in 0 .. NHid - 1
      PROVE  Ref!Hidden(w, x)[n] \in Int
  <2>1. Sum1(w, x, n, NPix) + Ref!Bias1(w, n) \in Int
    <3>1. x \in [0 .. NPix - 1 -> Int] /\ Row1(w, n) \in [0 .. NPix - 1 -> Int]
      BY NetworkTyped, ImageTyped, WordsAreInts DEF Row1
    <3>2. NPix \in Nat /\ NPix \in 0 .. NPix
      BY Layout
    <3>3. Ref!Dot(x, Row1(w, n), NPix) \in Int
      BY <3>1, <3>2, DotIsInt
    <3>4. Sum1(w, x, n, NPix) = Wrap(Ref!Dot(x, Row1(w, n), NPix))
      BY WordIsWrap DEF Sum1
    <3>5. Sum1(w, x, n, NPix) \in Int
      BY <3>3, <3>4, WrapInWord, WordsAreInts
    <3>6. Ref!Bias1(w, n) \in Int
      BY NetworkTyped, WordsAreInts
    <3> QED  BY <3>5, <3>6
  <2> QED  BY <1>1, <2>1, FirstLayerSums
<1> QED  BY <1>2 DEF Ref!Hidden

LEMMA BiasesUsed ==
  ASSUME NEW w \in Networks, NEW x \in Images, NEW o \in 0 .. 9
  PROVE  /\ Ref!BuiltBias(w, x)[o] =
              IF o = 9 THEN Ref!Hidden(w, x)[0] ELSE Ref!Bias2(w, o)
         /\ Ref!BuiltBias(w, x)[o] \in Int
<1>1. Ref!BuiltBias(w, x)[o] = IF o = 9 THEN Ref!Hidden(w, x)[0] ELSE Ref!Bias2(w, o)
  BY DEF Ref!BuiltBias, Ref!TrainedBias, NOut
<1>2. Ref!Hidden(w, x)[0] \in Int
  <2>1. 0 \in 0 .. NHid - 1  BY Layout
  <2> QED  BY <2>1, HiddenTyped
<1>3. Ref!Bias2(w, o) \in Int
  BY NetworkTyped, WordsAreInts
<1> QED  BY <1>1, <1>2, <1>3

LEMMA SecondLayerSums ==
  ASSUME NEW w \in Networks, NEW x \in Images, NEW o \in 0 .. 9
  PROVE  /\ Sum2(w, x, o, 0) = 0
         /\ \A n \in 0 .. NHid - 1 :
              Sum2(w, x, o, n + 1) =
                Wrap(Sum2(w, x, o, n) + Ref!Hidden(w, x)[n] * Ref!Weight2(w, n, o))
         /\ Scores(w, x)[o] = Wrap(Sum2(w, x, o, NHid) + Ref!BuiltBias(w, x)[o])
         /\ Scores(w, x)[o] \in Int
<1> DEFINE h == Ref!Hidden(w, x)
           r == Row2(w, o)
           b == Ref!BuiltBias(w, x)
<1>1. /\ h \in [0 .. NHid - 1 -> Int] /\ r \in [0 .. NHid - 1 -> Int]
      /\ b[o] \in Int
  BY HiddenTyped, BiasesUsed, NetworkTyped, WordsAreInts DEF Row2
<1>2. \A n \in 0 .. NHid : Ref!Dot(h, r, n) \in Int
  <2> HIDE DEF h, r
  <2> QED  BY <1>1, DotIsInt, Layout
<1>3. Sum2(w, x, o, 0) = 0
  BY DotSteps, WordIsWrap, WrapZero DEF Sum2
<1>4. ASSUME NEW n \in 0 .. NHid - 1
      PROVE  Sum2(w, x, o, n + 1) = Wrap(Sum2(w, x, o, n) + h[n] * Ref!Weight2(w, n, o))
  <2>1. r[n] = Ref!Weight2(w, n, o)  BY DEF Row2
  <2> HIDE DEF h, r
  <2>2. h[n] * r[n] \in Int
    <3>1. h[n] \in Int /\ r[n] \in Int  BY <1>1
    <3> QED  BY <3>1
  <2>3. Ref!Dot(h, r, n + 1) = Ref!Dot(h, r, n) + h[n] * r[n]
    <3>1. n \in Nat  BY Layout
    <3> QED  BY <3>1, DotSteps, Zenon
  <2>4. Ref!Dot(h, r, n) \in Int  BY <1>2, Layout
  <2>5. Wrap(Wrap(Ref!Dot(h, r, n)) + h[n] * r[n]) = Wrap(Ref!Dot(h, r, n) + h[n] * r[n])
    BY <2>2, <2>4, WrapAdd
  <2>6. \A k : Sum2(w, x, o, k) = Wrap(Ref!Dot(h, r, k))
    BY WordIsWrap DEF Sum2, h, r
  <2> QED  BY <2>1, <2>3, <2>5, <2>6
<1>5. Scores(w, x)[o] = Wrap(Sum2(w, x, o, NHid) + b[o]) /\ Scores(w, x)[o] \in Int
  <2>1. Scores(w, x)[o] = Ref!ToWord(Ref!Dot(h, r, NHid) + b[o])
    BY DEF Scores, Ref!Logits, Row2, NOut
  <2>2. Ref!Dot(h, r, NHid) \in Int  BY <1>2, Layout
  <2>3. Wrap(Wrap(Ref!Dot(h, r, NHid)) + b[o]) = Wrap(Ref!Dot(h, r, NHid) + b[o])
    <3> HIDE DEF h, r, b
    <3> QED  BY <1>1, <2>2, WrapAdd
  <2>4. Ref!Dot(h, r, NHid) + b[o] \in Int
    BY <1>1, <2>2
  <2>5. Wrap(Ref!Dot(h, r, NHid) + b[o]) \in Int
    BY <2>4, WrapInWord, WordsAreInts
  <2> QED  BY <2>1, <2>3, <2>5, WordIsWrap DEF Sum2
<1> QED  BY <1>3, <1>4, <1>5

\* The tree of comparators finds the first maximum.
LEMMA TreeIsFirstMax ==
  ASSUME NEW v, DOMAIN v = 0 .. 9, \A o \in 0 .. 9 : v[o] \in Int
  PROVE  MaxIndex(v) = Ref!FirstMax(v)
<1> DEFINE First(a) == \A j \in 0 .. 9 : v[j] <= v[a] /\ (v[j] = v[a] => a <= j)
<1>1. MaxIndex(v) \in 0 .. 9 /\ First(MaxIndex(v))
  <2> DEFINE a == Better(v, 0, 1)
             b == Better(v, 2, 3)
             c == Better(v, 4, 5)
             d == Better(v, 6, 7)
             e == Better(v, 8, 9)
             f == Better(v, a, b)
             g == Better(v, c, d)
             k == Better(v, f, g)
             \* The best of a run of entries is its first maximum.
             Best(x, lo, hi) ==
               /\ x \in lo .. hi
               /\ \A j \in lo .. hi : v[j] <= v[x] /\ (v[j] = v[x] => x <= j)
  <2>1. ASSUME NEW lo \in 0 .. 9, NEW mid \in 0 .. 9, NEW hi \in 0 .. 9, lo <= mid, mid < hi,
               NEW x, NEW y, Best(x, lo, mid), Best(y, mid + 1, hi)
        PROVE  Best(Better(v, x, y), lo, hi)
    <3>1. /\ x \in lo .. mid /\ y \in mid + 1 .. hi
          /\ x \in lo .. hi /\ y \in lo .. hi /\ \A j \in mid + 1 .. hi : x < j
      BY <2>1
    <3>2. v[x] \in Int /\ v[y] \in Int  BY <3>1
    <3>3. \A j \in lo .. mid : v[j] <= v[x] /\ (v[j] = v[x] => x <= j)  BY <2>1
    <3>4. \A j \in mid + 1 .. hi : v[j] <= v[y] /\ (v[j] = v[y] => y <= j)  BY <2>1
    <3>5. \A j \in lo .. hi : v[j] \in Int /\ (j \in lo .. mid \/ j \in mid + 1 .. hi)
      BY <2>1
    <3>6. CASE v[x] >= v[y]
      <4>1. Better(v, x, y) = x  BY <3>6 DEF Better
      <4>2. ASSUME NEW j \in lo .. hi PROVE v[j] <= v[x] /\ (v[j] = v[x] => x <= j)
        BY <3>1, <3>2, <3>3, <3>4, <3>5, <3>6
      <4> QED  BY <3>1, <4>1, <4>2
    <3>7. CASE ~ (v[x] >= v[y])
      <4>1. Better(v, x, y) = y  BY <3>7 DEF Better
      <4>2. ASSUME NEW j \in lo .. hi PROVE v[j] <= v[y] /\ (v[j] = v[y] => y <= j)
        BY <3>1, <3>2, <3>3, <3>4, <3>5, <3>7
      <4> QED  BY <3>1, <4>1, <4>2
    <3> QED  BY <3>6, <3>7
  <2>2. \A j \in 0 .. 9 : Best(j, j, j)  OBVIOUS
  <2> HIDE DEF Best
  <2>3. Best(a, 0, 1) /\ Best(b, 2, 3) /\ Best(c, 4, 5) /\ Best(d, 6, 7) /\ Best(e, 8, 9)
    BY <2>1, <2>2
  <2> HIDE DEF a, b, c, d, e
  <2>4. Best(f, 0, 3) /\ Best(g, 4, 7)
    BY <2>1, <2>3
  <2> HIDE DEF f, g
  <2>5. Best(k, 0, 7)
    BY <2>1, <2>4
  <2> HIDE DEF k
  <2>6. Best(Better(v, k, e), 0, 9)
    BY <2>1, <2>3, <2>5
  <2>7. MaxIndex(v) = Better(v, k, e)
    BY DEF MaxIndex, a, b, c, d, e, f, g, k
  <2> QED  BY <2>6, <2>7 DEF Best
<1>2. \A a, b \in 0 .. 9 : First(a) /\ First(b) => a = b
  OBVIOUS
<1> HIDE DEF First
<1>3. Ref!FirstMax(v) = CHOOSE a \in 0 .. 9 : First(a)
  BY DEF Ref!FirstMax, First
<1> QED  BY <1>1, <1>2, <1>3

\* So the device answers what the reference says once its outputs do.
LEMMA AnswerOfScores ==
  ASSUME NEW w \in Networks, NEW x \in Images, NEW v \in [0 .. 9 -> Word],
         \A o \in 0 .. 9 : v[o] = Scores(w, x)[o]
  PROVE  MaxIndex(v) = Ref!BuiltAnswer(w, x)
<1>1. v = Scores(w, x)
  BY DEF Scores, Ref!Logits, NOut
<1>2. \A o \in 0 .. 9 : v[o] \in Int
  BY WordsAreInts
<1> QED  BY <1>1, <1>2, TreeIsFirstMax DEF Ref!BuiltAnswer, Scores

-----------------------------------------------------------------------------
(***************************************************************************)
(* One cycle of the device, as the program drives it.                      *)
(***************************************************************************)
\* Each state of the controller has one action.
LEMMA ActionOfState ==
  ASSUME Controller
  PROVE  /\ stateReg \in Listening /\ ~Writing => Wait
         /\ stateReg = "noNN" /\ Writing => NoNN
         /\ stateReg = "loadNN" /\ Writing => LoadNN
         /\ stateReg = "idle" /\ Writing => Idle
         /\ stateReg = "infLoad" /\ Writing => InfLoad
         /\ stateReg = "nextNode" => NextNode
         /\ stateReg = "loadpx" => LoadPx
         /\ stateReg = "mac0" => Mac0
         /\ stateReg = "addb0" => AddB0
         /\ stateReg = "writeNode" => WriteNode
         /\ stateReg = "nextOutput" => NextOutput
         /\ stateReg = "loadNode" => LoadNode
         /\ stateReg = "mac1" => Mac1
         /\ stateReg = "addb1" => AddB1
         /\ stateReg = "writeRes" => WriteRes
         /\ stateReg = "clearMem" => ClearMem
         /\ stateReg = "clearOut" => ClearOut
<1>1. /\ Wait => stateReg \in Listening /\ ~Writing
      /\ NoNN => stateReg = "noNN" /\ Writing
      /\ LoadNN => stateReg = "loadNN" /\ Writing
      /\ Idle => stateReg = "idle" /\ Writing
      /\ InfLoad => stateReg = "infLoad" /\ Writing
  BY DEF Wait, NoNN, LoadNN, Idle, InfLoad
<1>2. /\ NextNode => stateReg = "nextNode"
      /\ LoadPx => stateReg = "loadpx"
      /\ Mac0 => stateReg = "mac0"
      /\ AddB0 => stateReg = "addb0"
      /\ WriteNode => stateReg = "writeNode"
  BY DEF NextNode, LoadPx, Mac0, AddB0, WriteNode
<1>3. /\ NextOutput => stateReg = "nextOutput"
      /\ LoadNode => stateReg = "loadNode"
      /\ Mac1 => stateReg = "mac1"
      /\ AddB1 => stateReg = "addb1"
  BY DEF NextOutput, LoadNode, Mac1, AddB1
<1>4. /\ WriteRes => stateReg = "writeRes"
      /\ ClearMem => stateReg = "clearMem"
      /\ ClearOut => stateReg = "clearOut"
  BY DEF WriteRes, ClearMem, ClearOut
<1> QED  BY <1>1, <1>2, <1>3, <1>4 DEF Controller, Listening

\* A cycle without a debug write is one of the controller.
LEMMA Undisturbed ==
  ASSUME NEW m, Tick(m), ~DebugWrite
  PROVE  Controller /\ memoryAddress' = memoryAddress /\ MemoryCycle /\ masterReg' = m
  BY DEF Tick, SetAddress, Control

LEMMA WaitKeeps ==
  ASSUME NEW m, Tick(m), stateReg \in Listening, masterReg.cmd # "WR"
  PROVE  /\ stateReg' = stateReg /\ writeAddr' = writeAddr
         /\ memoryAddress' = memoryAddress
<1>1. ~Writing /\ ~DebugWrite  BY DEF Writing, DebugWrite
<1> QED  BY <1>1, Undisturbed, ActionOfState DEF Wait, fsmVars

\* What a cycle leaves in the memory and returns from it.
LEMMA MemoryStep ==
  ASSUME IInv, NEW m, Tick(m)
  PROVE  /\ WriteAddress \in Addr
         /\ \A a \in Addr : a # WriteAddress => mem'[a] = mem[a]
         /\ WriteEnable = {TRUE} => mem'[WriteAddress] = WriteData
         /\ WriteEnable \subseteq {FALSE} => mem' = mem
         /\ mem'[ReadAddress] = mem[ReadAddress] => rdData' = mem[ReadAddress]
<1>1. mem \in [Addr -> Word] /\ WriteAddress \in Addr
  BY PortAddresses, Layout DEF IInv, TypeOK, AddressesBounded, Addr
<1>2. PICK we \in WriteEnable :
         /\ mem' = IF we THEN [mem EXCEPT ![WriteAddress] = WriteData] ELSE mem
         /\ rdData' \in {mem[ReadAddress], mem'[ReadAddress]}
  BY DEF Tick, MemoryCycle
<1>3. \A a \in Addr : a # WriteAddress => mem'[a] = mem[a]
  BY <1>1, <1>2
<1>4. WriteEnable = {TRUE} => mem'[WriteAddress] = WriteData
  BY <1>1, <1>2
<1>5. WriteEnable \subseteq {FALSE} => mem' = mem
  BY <1>2
<1>6. mem'[ReadAddress] = mem[ReadAddress] => rdData' = mem[ReadAddress]
  BY <1>2
<1> QED  BY <1>1, <1>3, <1>4, <1>5, <1>6

\* Where a cycle may write.
LEMMA WritePlaces ==
  ASSUME IInv
  PROVE  /\ stateReg # "loadNN" => WriteAddress \notin KeptAddrs
         /\ stateReg \in Computing => WriteAddress \notin 0 .. NPix - 1
         /\ stateReg \notin {"writeNode", "clearMem"} => WriteAddress = writeAddr
         /\ stateReg \in {"writeNode", "clearMem"} =>
              WriteAddress = NodeAddrZero + nodeIdx /\ WriteAddress > WeightAddrZero
<1>1. IndicesTyped /\ WriteFollows
  BY DEF IInv, TypeOK, AddressesFollow
<1> QED  BY <1>1, Layout, StateNames DEF WriteAddress, KeptAddrs, WriteFollows,
         Listening, IndicesTyped, Computing, FirstLayer, SecondLayer, Finishing

\* Where no undriven enable writes, the first weight is safe.
LEMMA FirstWeightSafe ==
  ASSUME IInv, NoFloat, stateReg # "loadNN"
  PROVE  WriteEnable \subseteq {FALSE} \/ WriteAddress # WeightAddrZero
<1>1. IndicesTyped /\ WriteFollows
  BY DEF IInv, TypeOK, AddressesFollow
<1>2. CASE stateReg \in {"writeNode", "clearMem"}
  <2>1. WriteAddress = NodeAddrZero + nodeIdx
    BY <1>2, WritePlaces
  <2>2. nodeIdx \in Nat /\ NodeAddrZero \in Nat /\ NodeAddrZero > WeightAddrZero
    BY <1>1, Layout DEF IndicesTyped
  <2>3. WeightAddrZero \in Nat  BY Layout
  <2>4. NodeAddrZero + nodeIdx # WeightAddrZero  BY <2>2, <2>3
  <2> QED  BY <2>1, <2>4
<1>3. CASE stateReg = "infLoad"
  <2>1. WriteAddress # WeightAddrZero
    BY <1>1, <1>3, Layout DEF WriteAddress, WriteFollows
  <2> QED  BY <2>1
<1>4. CASE stateReg \notin {"writeNode", "clearMem", "infLoad"}
  <2>1. WriteEnable \in {FloatWrEna, {FALSE}}
    BY <1>4 DEF WriteEnable
  <2> QED  BY <2>1 DEF NoFloat
<1> QED  BY <1>2, <1>3, <1>4

LEMMA KeptStays ==
  ASSUME IInv, NEW m, Tick(m), Kept, stateReg # "loadNN", net' = net
  PROVE  Kept'
<1>1. ASSUME NEW a \in KeptAddrs PROVE mem'[a] = net[a - WeightAddrZero]
  <2>1. a \in Addr  BY Layout DEF KeptAddrs, Addr
  <2> QED  BY <2>1, MemoryStep, WritePlaces DEF Kept
<1>2. ASSUME NoFloat PROVE mem'[WeightAddrZero] = net[0]
  <2>1. WeightAddrZero \in Addr  BY Layout DEF Addr
  <2> QED  BY <1>2, <2>1, MemoryStep, FirstWeightSafe DEF Kept
<1> QED  BY <1>1, <1>2 DEF Kept

LEMMA PixelsStay ==
  ASSUME IInv, NEW m, Tick(m), Pixels(NPix), stateReg \in Computing, img' = img
  PROVE  Pixels(NPix)'
<1>1. ASSUME NEW a \in 0 .. NPix - 1 PROVE mem'[a] = img[a]
  <2>1. a \in Addr  BY Layout DEF Addr
  <2> QED  BY <2>1, MemoryStep, WritePlaces DEF Pixels
<1> QED  BY <1>1 DEF Pixels

-----------------------------------------------------------------------------
(***************************************************************************)
(* Loading a network: the device counts the parameters as the program does.*)
(***************************************************************************)
LEMMA FreshStays ==
  ASSUME NEW m, Tick(m), Fresh, masterReg.cmd # "WR"
  PROVE  Fresh'
  BY WaitKeeps DEF Fresh, Listening

LEMMA InputIsWrite ==
  ASSUME NEW d, Sends("WR", INPUT, d)
  PROVE  Writing /\ ~DebugWrite /\ masterReg.data = d
  BY DEF Sends, Writing, DebugWrite, INPUT, SET_ADDR

LEMMA FreshLoads ==
  ASSUME NEW m, Tick(m), Fresh, Sends("WR", INPUT, 0)
  PROVE  Loading(0)'
<1>1. Writing /\ ~DebugWrite /\ masterReg.data = 0  BY InputIsWrite
<1>2. NoNN \/ Idle  BY <1>1, Undisturbed, ActionOfState DEF Fresh
<1>3. stateReg' = "loadNN" /\ writeAddr' = WeightAddrZero
  BY <1>1, <1>2 DEF NoNN, Idle
<1> QED  BY <1>3, Layout DEF Loading, Params

LEMMA LoadingStays ==
  ASSUME IInv, NEW m, Tick(m), NEW k \in Nat, Loading(k), masterReg.cmd # "WR", net' = net
  PROVE  Loading(k)'
<1>1. stateReg' = "loadNN" /\ writeAddr' = WeightAddrZero + k
  BY WaitKeeps DEF Loading, Listening
<1>2. ASSUME NEW a \in WeightAddrZero .. WeightAddrZero + k - 1
      PROVE  mem'[a] = net[a - WeightAddrZero]
  <2>1. a \in Addr /\ a # writeAddr
    BY Layout DEF Addr, Loading, IInv, AddressesFollow, WriteFollows
  <2>2. a # WriteAddress
    BY <2>1, WritePlaces DEF Loading
  <2> QED  BY <2>1, <2>2, MemoryStep DEF Loading, Params
<1> QED  BY <1>1, <1>2 DEF Loading, Params

LEMMA LoadingTakes ==
  ASSUME IInv, NEW m, Tick(m), NEW k \in 0 .. Ref!ParamCount - 1, Loading(k),
         Sends("WR", INPUT, net[k]), net' = net
  PROVE  IF k = Ref!ParamCount - 1 THEN Checking' ELSE Loading(k + 1)'
<1>1. Writing /\ ~DebugWrite /\ masterReg.data = net[k]  BY InputIsWrite
<1>2. /\ stateReg' = IF writeAddr = NodeAddrZero THEN "idle" ELSE "loadNN"
      /\ writeAddr' = writeAddr + 1 /\ writeAddr = WeightAddrZero + k
  BY <1>1, Undisturbed, ActionOfState DEF Loading, LoadNN
<1>3. ASSUME NEW a \in WeightAddrZero .. WeightAddrZero + k
      PROVE  mem'[a] = net[a - WeightAddrZero]
  <2>1. a \in Addr
    BY Parameters, Layout DEF Addr
  <2>2. /\ WriteAddress = WeightAddrZero + k
        /\ WriteEnable = {TRUE} /\ WriteData = net[k]
    BY <1>1, <1>2 DEF Loading, WriteAddress, WriteEnable, WriteData
  <2>3. CASE a = WeightAddrZero + k
    <3>1. a - WeightAddrZero = k  BY <2>3, Layout
    <3> QED  BY <2>2, <2>3, <3>1, MemoryStep
  <2>4. CASE a # WeightAddrZero + k
    <3>1. a \in WeightAddrZero .. WeightAddrZero + k - 1  BY <2>4, Layout
    <3> QED  BY <2>1, <2>2, <2>4, <3>1, MemoryStep DEF Loading, Params
  <2> QED  BY <2>3, <2>4
<1>4. CASE k = Ref!ParamCount - 1
  BY <1>2, <1>3, <1>4, Parameters, Layout DEF Checking, Params
<1>5. CASE k # Ref!ParamCount - 1
  BY <1>2, <1>3, <1>5, Parameters, Layout DEF Loading, Params
<1> QED  BY <1>4, <1>5

LEMMA CheckingStays ==
  ASSUME IInv, NEW m, Tick(m), Checking, net' = net,
         masterReg.cmd # "WR" \/ DebugWrite
  PROVE  Checking'
<1>1. stateReg' = "idle" /\ writeAddr' = NodeAddrZero + 1
  <2>1. CASE DebugWrite
    BY <2>1 DEF Tick, SetAddress, Control, fsmVars, Checking
  <2>2. CASE masterReg.cmd # "WR"
    BY <2>2, WaitKeeps DEF Checking, Listening
  <2> QED  BY <2>1, <2>2
<1>2. ASSUME NEW a \in WeightAddrZero .. WeightAddrZero + Ref!ParamCount - 1
      PROVE  mem'[a] = net[a - WeightAddrZero]
  <2>1. a \in Addr /\ a # NodeAddrZero + 1
    BY Parameters, Layout DEF Addr
  <2>2. WriteAddress = NodeAddrZero + 1
    BY WritePlaces DEF Checking
  <2> QED  BY <2>1, <2>2, MemoryStep DEF Checking, Params
<1> QED  BY <1>1, <1>2 DEF Checking, Params

LEMMA CheckingRests == Checking => Resting
  BY Parameters, Layout DEF Checking, Resting, Kept, Params, KeptAddrs

-----------------------------------------------------------------------------
(***************************************************************************)
(* Submitting an image.                                                    *)
(***************************************************************************)
LEMMA RestingStays ==
  ASSUME IInv, NEW m, Tick(m), Resting, masterReg.cmd # "WR", net' = net
  PROVE  Resting'
  BY WaitKeeps, KeptStays DEF Resting, Listening

LEMMA RestingStarts ==
  ASSUME IInv, NEW m, Tick(m), Resting, Sends("WR", INPUT, 1), net' = net
  PROVE  Drawing(0)'
<1>1. Writing /\ ~DebugWrite /\ masterReg.data = 1  BY InputIsWrite
<1>2. Idle  BY <1>1, Undisturbed, ActionOfState DEF Resting
<1>3. stateReg' = "infLoad" /\ writeAddr' = 0
  BY <1>1, <1>2 DEF Idle
<1> QED  BY <1>3, KeptStays DEF Resting, Drawing, Pixels

LEMMA DrawingStays ==
  ASSUME IInv, NEW m, Tick(m), NEW k \in Nat, Drawing(k), masterReg.cmd # "WR",
         net' = net, img' = img
  PROVE  Drawing(k)'
<1>1. stateReg' = "infLoad" /\ writeAddr' = k /\ Kept'
  BY WaitKeeps, KeptStays DEF Drawing, Listening
<1>2. ASSUME NEW a \in 0 .. k - 1 PROVE mem'[a] = img[a]
  <2>1. a \in Addr /\ a # WriteAddress
    BY WritePlaces, Layout DEF Addr, Drawing, IInv, AddressesFollow, WriteFollows
  <2> QED  BY <2>1, MemoryStep DEF Drawing, Pixels
<1> QED  BY <1>1, <1>2 DEF Drawing, Pixels

LEMMA DrawingTakes ==
  ASSUME IInv, NEW m, Tick(m), NEW k \in 0 .. NPix - 1, Drawing(k),
         Sends("WR", INPUT, img[k]), net' = net, img' = img
  PROVE  IF k = NPix - 1 THEN Inferring' /\ stateReg' = "nextNode" ELSE Drawing(k + 1)'
<1>1. Writing /\ ~DebugWrite /\ masterReg.data = img[k]  BY InputIsWrite
<1>2. InfLoad /\ writeAddr = k
  BY <1>1, Undisturbed, ActionOfState DEF Drawing
<1>3. Kept'  BY KeptStays DEF Drawing
<1>4. ASSUME NEW a \in 0 .. k PROVE mem'[a] = img[a]
  <2>1. a \in Addr
    BY Layout DEF Addr
  <2>2. WriteAddress = k /\ WriteEnable = {TRUE} /\ WriteData = img[k]
    BY <1>1, <1>2 DEF Drawing, WriteAddress, WriteEnable, WriteData
  <2>3. CASE a = k
    BY <2>2, <2>3, MemoryStep
  <2>4. CASE a # k
    <3>1. a \in 0 .. k - 1  BY <2>4
    <3> QED  BY <2>1, <2>2, <2>4, <3>1, MemoryStep DEF Drawing, Pixels
  <2> QED  BY <2>3, <2>4
<1>5. CASE k = NPix - 1
  <2>1. stateReg' = "nextNode"
    BY <1>2, <1>5, Layout DEF InfLoad
  <2>2. Pixels(NPix)'
    BY <1>4, <1>5 DEF Pixels
  <2> QED  BY <1>3, <1>5, <2>1, <2>2 DEF Inferring, Computing, FirstLayer
<1>6. CASE k # NPix - 1
  <2>1. stateReg' = "infLoad" /\ writeAddr' = k + 1
    BY <1>2, <1>6, Layout DEF InfLoad, Drawing
  <2>2. Pixels(k + 1)'
    BY <1>4 DEF Pixels
  <2> QED  BY <1>3, <1>6, <2>1, <2>2 DEF Drawing
<1> QED  BY <1>5, <1>6

LEMMA InferringStays ==
  ASSUME IInv, NEW m, Tick(m), Inferring, masterReg.cmd # "WR", net' = net, img' = img
  PROVE  Inferring' /\ memoryAddress' = memoryAddress /\ (stateReg = "idle" => stateReg' = "idle")
<1>1. ~Writing /\ ~DebugWrite  BY DEF Writing, DebugWrite
<1>2. Kept' /\ Pixels(NPix)'
  BY KeptStays, PixelsStay
  DEF Inferring, Computing, FirstLayer, SecondLayer, Finishing
<1>3. stateReg' \in Computing /\ (stateReg = "idle" => stateReg' = "idle")
  <2>1. Controller  BY <1>1, Undisturbed
  <2>2. CASE stateReg = "idle"
    BY <2>2, WaitKeeps DEF Listening, Computing, Finishing
  <2>3. CASE stateReg # "idle"
    <3>1. stateReg \in (Computing \ {"idle"})  BY <2>3 DEF Inferring
    <3> QED
      BY <2>1, <2>3, <3>1, ActionOfState
      DEF Computing, FirstLayer, SecondLayer, Finishing, NextNode, LoadPx, Mac0, AddB0,
          WriteNode, NextOutput, LoadNode, Mac1, AddB1, WriteRes, ClearMem, ClearOut
  <2> QED  BY <2>2, <2>3
<1> QED  BY <1>1, <1>2, <1>3, Undisturbed DEF Inferring

-----------------------------------------------------------------------------
(***************************************************************************)
(* The inference, one state of the controller after the other.  Words      *)
(* arrive one cycle after they are addressed, so each step relates what a  *)
(* state finds to the addresses of the one before it.                      *)
(***************************************************************************)
\* Pixel 0 does not count where its weight may be overwritten.
BlackCorner == NoFloat \/ \A x \in Images : x[0] = 0

\* A cycle m of an inference, in which the program only looks on.
Running(m) ==
  /\ IInv /\ Tick(m)
  /\ masterReg.cmd # "WR" /\ ~Reading(MEM_READ)
  /\ net \in Networks /\ img \in Images
  /\ net' = net /\ img' = img
  /\ Inferring /\ Progress

\* The indices an inference works with.
LEMMA Running1 ==
  ASSUME NEW m, Running(m)
  PROVE  /\ Controller /\ IInv /\ Tick(m) /\ Kept /\ Pixels(NPix)
         /\ net \in Networks /\ img \in Images
         /\ readAddrP \in Nat /\ nodeIdx \in 0 .. NHid /\ outputIdx \in 0 .. 9
         /\ readAddrP <= NPix + 1
         /\ NPix \in Nat /\ NPix > 0 /\ NHid \in Nat /\ NHid > 0
         /\ rdData \in Int /\ pReg \in Int /\ nReg \in Int
         /\ layer2 \in [0 .. 9 -> Word]
<1>1. ~DebugWrite  BY DEF Running, DebugWrite, Writing
<1>2. IndicesTyped /\ DataTyped /\ rdData \in Word
  BY DEF Running, IInv, TypeOK
<1>3. Controller  BY <1>1, Undisturbed DEF Running
<1>4. rdData \in Int /\ pReg \in Int /\ nReg \in Int /\ layer2 \in [0 .. 9 -> Word]
  BY <1>2, WordsAreInts DEF DataTyped, NOut
<1> QED  BY <1>2, <1>3, <1>4, Layout DEF Running, Inferring, IndicesTyped, NOut

\* An address that is not written is read as it stands.
LEMMA ReadsWord ==
  ASSUME NEW m, Running(m), NEW a \in Addr, FsmReadAddress = a,
         a # WriteAddress \/ WriteEnable \subseteq {FALSE}
  PROVE  rdData' = mem[a]
<1>1. ReadAddress = a  BY DEF ReadAddress, Running
<1>2. mem'[a] = mem[a]  BY MemoryStep DEF Running
<1> QED  BY <1>1, <1>2, MemoryStep DEF Running

\* Only two states of an inference write anything but the first weight.
LEMMA WritesFirst ==
  ASSUME NEW m, Running(m), stateReg \notin Finishing \cup {"writeNode"}
  PROVE  WriteAddress = WeightAddrZero
<1>1. stateReg \notin Listening
  BY DEF Running, Inferring, Computing, FirstLayer, SecondLayer, Finishing, Listening
<1>2. writeAddr = WeightAddrZero
  BY <1>1 DEF Running, IInv, AddressesFollow, WriteFollows
<1> QED  BY <1>2, WritePlaces DEF Running, Finishing

\* The parameters, the pixels and the nodes at the addresses of the device.
LEMMA Places ==
  /\ WeightAddrZero \in Addr /\ 0 \in Addr
  /\ \A a \in KeptAddrs : a \in Addr /\ a # WeightAddrZero
  /\ \A a \in 0 .. NPix - 1 : a \in Addr /\ a # WeightAddrZero
  /\ \A n \in 0 .. NHid : NodeAddrZero + n \in Addr /\ NodeAddrZero + n # WeightAddrZero
  BY Layout DEF Addr, KeptAddrs

LEMMA NodesStay ==
  ASSUME NEW m, Running(m), NEW k \in 0 .. NHid, Nodes(k),
         WriteAddress \notin NodeAddrZero .. NodeAddrZero + k - 1
  PROVE  \A n \in 0 .. k - 1 : mem'[NodeAddrZero + n] = Ref!Hidden(net, img)[n]
<1> TAKE n \in 0 .. k - 1
<1>0. n \in 0 .. NHid  BY Layout
<1>1. /\ NodeAddrZero + n \in Addr
      /\ NodeAddrZero + n \in NodeAddrZero .. NodeAddrZero + k - 1
  BY <1>0, Places, Layout, SMTT(30)
<1>2. mem'[NodeAddrZero + n] = mem[NodeAddrZero + n]
  BY <1>1, MemoryStep DEF Running
<1> QED  BY <1>2 DEF Nodes

\* In the other states no stored node is written.
LEMMA NodesSafe ==
  ASSUME NEW m, Running(m), stateReg \notin Finishing \cup {"writeNode"},
         NEW k \in 0 .. NHid
  PROVE  WriteAddress \notin NodeAddrZero .. NodeAddrZero + k - 1
<1>1. WriteAddress = WeightAddrZero  BY WritesFirst
<1> QED  BY <1>1, Layout

-----------------------------------------------------------------------------
(***************************************************************************)
(* The first layer.                                                        *)
(***************************************************************************)
LEMMA FromNextNode ==
  ASSUME NEW m, Running(m), stateReg = "nextNode"
  PROVE  Progress'
<1>1. NextNode  BY Running1, ActionOfState
<1>2. FsmReadAddress = 0 /\ WriteEnable \subseteq {FALSE}
  <2>1. ~DebugWrite  BY DEF Running, DebugWrite, Writing
  <2> QED  BY <2>1 DEF FsmReadAddress, WriteEnable
<1>3. rdData' = img[0]
  <2>1. rdData' = mem[0]  BY <1>2, ReadsWord, Places
  <2>2. 0 \in 0 .. NPix - 1  BY Layout
  <2> QED  BY <2>1, <2>2, Running1 DEF Pixels
<1>4. Nodes(nodeIdx)'
  BY <1>1, NodesStay, NodesSafe, Running1
  DEF NextNode, Nodes, Running, Progress, Stored, FirstLayer, Finishing
<1>5. /\ stateReg' = "loadpx" /\ readAddrP' = 0 /\ nReg' = 0 /\ nodeIdx' = nodeIdx
      /\ readAddrB' = BiasAddrZero + nodeIdx
  BY <1>1 DEF NextNode
<1>6. PixelFetched'
  <2>1. nodeIdx < NHid => Sum1(net, img, nodeIdx, 0) = 0
    BY FirstLayerSums, Running1
  <2> QED  BY <1>3, <1>5, <2>1 DEF PixelFetched, Running
<1> QED
  BY <1>4, <1>5, <1>6 DEF Progress, PixelMet, NodeSummed, NodeFetched, NodeMet,
     OutputSummed, Stored, FirstLayer, SecondLayer, Finishing

\* The weight the address registers point at.
LEMMA WeightRead1 ==
  ASSUME NEW m, Running(m), stateReg = "loadpx", readAddrP < NPix, nodeIdx < NHid,
         NoFloat \/ readAddrP # 0 \/ nodeIdx # 0
  PROVE  rdData' = Ref!Weight1(net, readAddrP, nodeIdx)
<1> DEFINE k == readAddrP * NHid + nodeIdx
<1>1. k \in 0 .. NPix * NHid - 1 /\ readAddrP * NHid = NHid * readAddrP
  BY FirstWeights, Running1
<1>2. readAddrW = WeightAddrZero + k
  <2>1. readAddrW = WeightAddrZero + nodeIdx + NHid * readAddrP
    BY DEF Running, IInv, AddressesFollow, WeightFollows
  <2>2. NHid * readAddrP \in Nat  BY Products, Running1
  <2> QED  BY <1>1, <2>1, <2>2, Running1, Layout
<1>3. FsmReadAddress = WeightAddrZero + k
  BY <1>2 DEF FsmReadAddress
<1>4. WriteAddress = WeightAddrZero
  BY WritesFirst DEF Finishing
<1>5. CASE k = 0
  <2>1. readAddrP = 0 /\ nodeIdx = 0
    <3>1. readAddrP # 0 => NHid * readAddrP >= NHid
      <4>1. CASE readAddrP # 0
        <5>1. NHid * 1 <= NHid * readAddrP  BY <4>1, Products, Running1
        <5> QED  BY <5>1, Running1
      <4> QED  BY <4>1
    <3>2. NHid * readAddrP \in Nat  BY Products, Running1
    <3> QED  BY <1>1, <1>5, <3>1, <3>2, Running1
  <2>2. NoFloat  BY <2>1
  <2>3. WriteEnable \subseteq {FALSE}
    BY <1>4, <2>2, FirstWeightSafe DEF Running
  <2>4. FsmReadAddress = WeightAddrZero  BY <1>3, <1>5, Layout
  <2>5. rdData' = mem[WeightAddrZero]
    BY <2>3, <2>4, ReadsWord, Places
  <2>6. rdData' = net[0]
    BY <2>2, <2>5, Running1 DEF Kept
  <2> QED  BY <1>5, <2>6 DEF Ref!Weight1
<1>6. CASE k # 0
  <2>1. WeightAddrZero + k \in KeptAddrs /\ (WeightAddrZero + k) - WeightAddrZero = k
    BY <1>1, <1>6, Parameters, Layout DEF KeptAddrs
  <2>2. rdData' = mem[WeightAddrZero + k]
    BY <1>3, <1>4, <2>1, ReadsWord, Places
  <2> HIDE DEF k
  <2>3. rdData' = net[k]
    BY <2>1, <2>2, Running1 DEF Kept
  <2> QED  BY <2>3 DEF Ref!Weight1, k
<1> QED  BY <1>5, <1>6

LEMMA FromLoadPx ==
  ASSUME NEW m, Running(m), stateReg = "loadpx"
  PROVE  Progress'
<1>1. LoadPx  BY Running1, ActionOfState
<1>2. /\ stateReg' = "mac0" /\ pReg' = rdData /\ readAddrP' = readAddrP + 1
      /\ readAddrB' = readAddrB /\ nodeIdx' = nodeIdx /\ nReg' = nReg
  BY <1>1 DEF LoadPx
<1>3. Nodes(nodeIdx)'
  BY <1>2, NodesStay, NodesSafe, Running1
  DEF Nodes, Running, Progress, Stored, FirstLayer, Finishing
<1>4. PixelFetched /\ readAddrP <= NPix
  BY DEF Running, Progress, IInv, AddressesFollow, WeightFollows
<1>5. (readAddrP' <= WeightAddrZero) <=> (readAddrP < NPix)
  BY <1>2, Running1, Layout
<1>6. PixelMet'
  <2>1. readAddrP' > 0 /\ readAddrP' - 1 = readAddrP
    BY <1>2, Running1
  <2>2. readAddrP < NPix => pReg' = img[readAddrP]
    BY <1>2, <1>4 DEF PixelFetched
  <2>3. nodeIdx < NHid => nReg' = Sum1(net, img, nodeIdx, readAddrP)
    BY <1>2, <1>4 DEF PixelFetched
  <2>4. ~ (readAddrP < NPix) => readAddrP = NPix
    BY <1>4, Running1
  <2>5. readAddrP' # 1 => readAddrP # 0
    BY <1>2
  <2>6. readAddrB' = BiasAddrZero + nodeIdx
    BY <1>2, <1>4 DEF PixelFetched
  <2> QED
    BY <1>2, <1>5, <2>1, <2>2, <2>3, <2>4, <2>5, <2>6, WeightRead1
    DEF PixelMet, MorePixels, Running
<1> QED
  BY <1>2, <1>3, <1>6 DEF Progress, PixelFetched, NodeSummed, NodeFetched, NodeMet,
     OutputSummed, Stored, FirstLayer, SecondLayer, Finishing

LEMMA FromMac0 ==
  ASSUME NEW m, Running(m), stateReg = "mac0", BlackCorner
  PROVE  Progress'
<1>1. Mac0  BY Running1, ActionOfState
<1>2. readAddrP' = readAddrP /\ readAddrB' = readAddrB /\ nodeIdx' = nodeIdx
  BY <1>1 DEF Mac0, readRegs
<1>3. Nodes(nodeIdx)'
  BY <1>2, NodesStay, NodesSafe, Running1
  DEF Nodes, Running, Progress, Stored, FirstLayer, Finishing
<1>4. PixelMet  BY DEF Running, Progress
<1>5. WriteAddress = WeightAddrZero  BY WritesFirst DEF Finishing
<1>6. CASE MorePixels
  <2>1. stateReg' = "loadpx" /\ nReg' = Wrap(nReg + pReg * rdData)
    BY <1>1, <1>6 DEF Mac0
  <2>2. readAddrP - 1 \in 0 .. NPix - 1 /\ (readAddrP - 1) + 1 = readAddrP
    BY <1>4, <1>6, Running1, Layout DEF PixelMet, MorePixels
  <2>3. ASSUME readAddrP < NPix PROVE rdData' = img[readAddrP]
    <3>1. FsmReadAddress = readAddrP  BY <1>6 DEF FsmReadAddress
    <3>2. readAddrP \in 0 .. NPix - 1  BY <2>3, Running1
    <3>3. rdData' = mem[readAddrP]  BY <1>5, <3>1, <3>2, ReadsWord, Places
    <3> QED  BY <3>2, <3>3, Running1 DEF Pixels
  <2>4. ASSUME nodeIdx < NHid PROVE nReg' = Sum1(net, img, nodeIdx, readAddrP)
    <3> DEFINE p == readAddrP - 1
               w == Ref!Weight1(net, p, nodeIdx)
    <3>1. nReg = Sum1(net, img, nodeIdx, p) /\ pReg = img[p]
      BY <1>4, <1>6, <2>4 DEF PixelMet
    <3>2. pReg * rdData = img[p] * w
      <4>1. CASE NoFloat \/ readAddrP # 1 \/ nodeIdx # 0
        BY <1>4, <1>6, <2>4, <3>1, <4>1 DEF PixelMet
      <4>2. CASE ~NoFloat /\ readAddrP = 1 /\ nodeIdx = 0
        <5>1. img[p] = 0
          <6>1. p = 0  BY <4>2
          <6>2. img[0] = 0  BY <4>2, Running1 DEF BlackCorner
          <6> QED  BY <6>1, <6>2
        <5>2. w \in Int
          <6>1. nodeIdx \in 0 .. NHid - 1  BY <2>4, Running1
          <6> QED  BY <2>2, <6>1, Running1, NetworkTyped, WordsAreInts
        <5> HIDE DEF w
        <5> QED  BY <3>1, <5>1, <5>2, Running1
      <4> QED  BY <4>1, <4>2
    <3>3. Sum1(net, img, nodeIdx, p + 1) = Wrap(Sum1(net, img, nodeIdx, p) + img[p] * w)
      BY <2>2, <2>4, FirstLayerSums, Running1
    <3> QED  BY <2>1, <2>2, <3>1, <3>2, <3>3
  <2>5. PixelFetched'
    BY <1>2, <1>4, <2>1, <2>3, <2>4 DEF PixelFetched, PixelMet, Running
  <2> QED
    BY <1>3, <2>1, <2>5 DEF Progress, PixelMet, NodeSummed, NodeFetched, NodeMet,
       OutputSummed, Stored, FirstLayer, SecondLayer, Finishing
<1>7. CASE ~MorePixels
  <2>1. stateReg' = "addb0" /\ nReg' = nReg
    BY <1>1, <1>7 DEF Mac0
  <2>2. ASSUME nodeIdx < NHid
        PROVE  nReg' = Sum1(net, img, nodeIdx, NPix) /\ rdData' = Ref!Bias1(net, nodeIdx)
    <3>1. nReg' = Sum1(net, img, nodeIdx, NPix)
      BY <1>4, <1>7, <2>1, <2>2 DEF PixelMet
    <3>2. FsmReadAddress = BiasAddrZero + nodeIdx
      BY <1>4, <1>7 DEF FsmReadAddress, PixelMet
    <3>3. /\ BiasAddrZero + nodeIdx \in KeptAddrs
          /\ (BiasAddrZero + nodeIdx) - WeightAddrZero = NPix * NHid + NHid * 10 + nodeIdx
      BY <2>2, Running1, Parameters, Weights, Layout DEF KeptAddrs
    <3>4. rdData' = mem[BiasAddrZero + nodeIdx]
      BY <1>5, <3>2, <3>3, ReadsWord, Places
    <3>5. rdData' = net[NPix * NHid + NHid * 10 + nodeIdx]
      BY <3>3, <3>4, Running1 DEF Kept
    <3> QED  BY <3>1, <3>5 DEF Ref!Bias1, NOut
  <2>3. NodeSummed'
    BY <1>2, <2>1, <2>2 DEF NodeSummed, Running
  <2> QED
    BY <1>3, <2>1, <2>3 DEF Progress, PixelFetched, PixelMet, NodeFetched, NodeMet,
       OutputSummed, Stored, FirstLayer, SecondLayer, Finishing
<1> QED  BY <1>6, <1>7

LEMMA FromAddB0 ==
  ASSUME NEW m, Running(m), stateReg = "addb0"
  PROVE  Progress'
<1>1. AddB0  BY Running1, ActionOfState
<1>2. stateReg' = "writeNode" /\ nodeIdx' = nodeIdx
  BY <1>1 DEF AddB0
<1>3. Nodes(nodeIdx)'
  BY <1>2, NodesStay, NodesSafe, Running1
  DEF Nodes, Running, Progress, Stored, FirstLayer, Finishing
<1>4. ASSUME nodeIdx < NHid PROVE nReg' = Ref!Hidden(net, img)[nodeIdx]
  <2>1. nReg = Sum1(net, img, nodeIdx, NPix) /\ rdData = Ref!Bias1(net, nodeIdx)
    BY <1>4 DEF Running, Progress, NodeSummed
  <2>2. nReg' = Ref!Relu(Wrap(nReg + rdData))
    BY <1>1 DEF AddB0, Ref!Relu
  <2> QED  BY <1>4, <2>1, <2>2, FirstLayerSums, Running1
<1>5. NodeSummed'
  BY <1>2, <1>4 DEF NodeSummed, Running
<1> QED
  BY <1>2, <1>3, <1>5 DEF Progress, PixelFetched, PixelMet, NodeFetched, NodeMet,
     OutputSummed, Stored, FirstLayer, SecondLayer, Finishing

LEMMA FromWriteNode ==
  ASSUME NEW m, Running(m), stateReg = "writeNode"
  PROVE  Progress'
<1>1. WriteNode  BY Running1, ActionOfState
<1>2. Nodes(nodeIdx) /\ (nodeIdx < NHid => nReg = Ref!Hidden(net, img)[nodeIdx])
  BY DEF Running, Progress, Stored, FirstLayer, NodeSummed
<1>3. WriteAddress = NodeAddrZero + nodeIdx
  BY DEF WriteAddress
<1>4. \A n \in 0 .. nodeIdx - 1 : mem'[NodeAddrZero + n] = Ref!Hidden(net, img)[n]
  <2>1. WriteAddress \notin NodeAddrZero .. NodeAddrZero + nodeIdx - 1
    BY <1>3, Running1, Layout
  <2> QED  BY <1>2, <2>1, NodesStay, Running1
<1>5. CASE MoreNodes
  <2>1. stateReg' = "nextNode" /\ nodeIdx' = nodeIdx + 1 /\ nodeIdx < NHid
    BY <1>1, <1>5 DEF WriteNode, MoreNodes
  <2>2. WriteEnable = {TRUE} /\ WriteData = nReg
    <3>1. ~DebugWrite  BY DEF Running, DebugWrite, Writing
    <3> QED  BY <3>1 DEF WriteEnable, WriteData
  <2>3. mem'[NodeAddrZero + nodeIdx] = Ref!Hidden(net, img)[nodeIdx]
    BY <1>2, <1>3, <2>1, <2>2, MemoryStep DEF Running
  <2>4. \A n \in 0 .. nodeIdx : mem'[NodeAddrZero + n] = Ref!Hidden(net, img)[n]
    <3> TAKE n \in 0 .. nodeIdx
    <3>1. n = nodeIdx \/ n \in 0 .. nodeIdx - 1  BY Running1
    <3> QED  BY <1>4, <2>3, <3>1
  <2>5. Nodes(nodeIdx)'
    <3>1. nodeIdx' - 1 = nodeIdx  BY <2>1, Running1
    <3> QED  BY <2>4, <3>1 DEF Nodes, Running
  <2> QED
    BY <2>1, <2>5 DEF Progress, PixelFetched, PixelMet, NodeSummed, NodeFetched, NodeMet,
       OutputSummed, Stored, FirstLayer, SecondLayer, Finishing
<1>6. CASE ~MoreNodes
  <2>1. stateReg' = "nextOutput" /\ outputIdx' = 0 /\ nodeIdx = NHid
    BY <1>1, <1>6, Running1 DEF WriteNode, MoreNodes
  <2>2. Nodes(NHid)'
    BY <1>4, <2>1 DEF Nodes, Running
  <2> QED
    BY <2>1, <2>2 DEF Progress, PixelFetched, PixelMet, NodeSummed, NodeFetched, NodeMet,
       OutputSummed, Stored, FirstLayer, SecondLayer, Finishing
<1> QED  BY <1>5, <1>6

-----------------------------------------------------------------------------
(***************************************************************************)
(* The second layer and the answer.                                        *)
(***************************************************************************)
LEMMA FromNextOutput ==
  ASSUME NEW m, Running(m), stateReg = "nextOutput"
  PROVE  Progress'
<1>1. NextOutput  BY Running1, ActionOfState
<1>2. /\ stateReg' = "loadNode" /\ nodeIdx' = 0 /\ nReg' = 0 /\ outputIdx' = outputIdx
      /\ readAddrB' = BiasAddrZero + NHid + outputIdx /\ layer2' = layer2
  BY <1>1 DEF NextOutput
<1>3. Nodes(NHid) /\ \A q \in 0 .. outputIdx - 1 : layer2[q] = Scores(net, img)[q]
  BY DEF Running, Progress, Stored, SecondLayer
<1>4. rdData' = Ref!Hidden(net, img)[0]
  <2>1. FsmReadAddress = NodeAddrZero /\ NodeAddrZero + 0 = NodeAddrZero
    BY Layout DEF FsmReadAddress
  <2>2. WriteAddress = WeightAddrZero  BY WritesFirst DEF Finishing
  <2>a. 0 \in 0 .. NHid  BY Layout
  <2>b. NodeAddrZero + 0 \in Addr /\ NodeAddrZero + 0 # WeightAddrZero  BY <2>a, Places
  <2>3. rdData' = mem[NodeAddrZero + 0]
    BY <2>1, <2>2, <2>b, ReadsWord
  <2> QED  BY <1>3, <2>3, Running1 DEF Nodes
<1>5. Nodes(NHid)'
  BY <1>3, NodesStay, NodesSafe, Running1 DEF Nodes, Running, Finishing
<1>6. NodeFetched'
  <2>1. Sum2(net, img, outputIdx, 0) = 0  BY SecondLayerSums, Running1
  <2> QED  BY <1>2, <1>4, <2>1 DEF NodeFetched, Running
<1> QED
  BY <1>2, <1>3, <1>5, <1>6 DEF Running, Progress, PixelFetched, PixelMet, NodeSummed,
     NodeMet, OutputSummed, Stored, FirstLayer, SecondLayer, Finishing

LEMMA FromLoadNode ==
  ASSUME NEW m, Running(m), stateReg = "loadNode"
  PROVE  Progress'
<1>1. LoadNode  BY Running1, ActionOfState
<1>2. /\ stateReg' = "mac1" /\ pReg' = rdData /\ nodeIdx' = nodeIdx + 1
      /\ nReg' = nReg /\ readAddrB' = readAddrB /\ outputIdx' = outputIdx
      /\ layer2' = layer2
  BY <1>1 DEF LoadNode
<1>3. Nodes(NHid) /\ \A q \in 0 .. outputIdx - 1 : layer2[q] = Scores(net, img)[q]
  BY DEF Running, Progress, Stored, SecondLayer
<1>4. NodeFetched  BY DEF Running, Progress
<1>5. rdData' = Ref!Weight2(net, nodeIdx, outputIdx)
  <2> DEFINE k == NPix * NHid + nodeIdx * 10 + outputIdx
             a == WeightAddrZero + k
  <2>1. /\ nodeIdx < NHid
        /\ readAddrW = WeightAddrZero + NPix * NHid + outputIdx + NOut * nodeIdx
    BY DEF Running, IInv, AddressesFollow, NodeFollows, WeightFollows
  <2>2. NPix * NHid \in Nat /\ NPix * NHid > 0
    <3>1. NHid * 1 <= NHid * NPix /\ NHid * NPix = NPix * NHid
      BY Products, Running1
    <3> QED  BY <3>1, Running1, Parameters
  <2>3. FsmReadAddress = a
    BY <2>1, <2>2, Running1, Layout DEF FsmReadAddress, NOut
  <2>4. a \in KeptAddrs /\ a - WeightAddrZero = k
    BY <2>1, <2>2, Running1, Parameters, Layout DEF KeptAddrs
  <2>5. WriteAddress = WeightAddrZero  BY WritesFirst DEF Finishing
  <2> HIDE DEF a
  <2>6. rdData' = mem[a]  BY <2>3, <2>4, <2>5, ReadsWord, Places
  <2> HIDE DEF k
  <2>7. rdData' = net[k]  BY <2>4, <2>6, Running1 DEF Kept
  <2> QED  BY <2>7 DEF Ref!Weight2, NOut, k
<1>6. Nodes(NHid)'
  BY <1>3, NodesStay, NodesSafe, Running1 DEF Nodes, Running, Finishing
<1>7. NodeMet'
  <2>1. nodeIdx' > 0 /\ nodeIdx' - 1 = nodeIdx  BY <1>2, Running1
  <2> QED  BY <1>2, <1>4, <1>5, <2>1 DEF NodeFetched, NodeMet, Running
<1> QED
  BY <1>2, <1>3, <1>6, <1>7 DEF Running, Progress, PixelFetched, PixelMet, NodeSummed,
     NodeFetched, OutputSummed, Stored, FirstLayer, SecondLayer, Finishing

LEMMA FromMac1 ==
  ASSUME NEW m, Running(m), stateReg = "mac1"
  PROVE  Progress'
<1>1. Mac1  BY Running1, ActionOfState
<1>2. /\ nReg' = Wrap(nReg + pReg * rdData) /\ nodeIdx' = nodeIdx
      /\ readAddrB' = readAddrB /\ outputIdx' = outputIdx /\ layer2' = layer2
  BY <1>1 DEF Mac1, readRegs
<1>3. Nodes(NHid) /\ \A q \in 0 .. outputIdx - 1 : layer2[q] = Scores(net, img)[q]
  BY DEF Running, Progress, Stored, SecondLayer
<1>4. NodeMet  BY DEF Running, Progress
<1>5. nodeIdx - 1 \in 0 .. NHid - 1 /\ (nodeIdx - 1) + 1 = nodeIdx
  BY <1>4, Running1 DEF NodeMet
<1>6. nReg' = Sum2(net, img, outputIdx, nodeIdx)
  <2>1. Sum2(net, img, outputIdx, (nodeIdx - 1) + 1)
          = Wrap(Sum2(net, img, outputIdx, nodeIdx - 1)
                 + Ref!Hidden(net, img)[nodeIdx - 1] * Ref!Weight2(net, nodeIdx - 1, outputIdx))
    BY <1>5, SecondLayerSums, Running1
  <2> QED  BY <1>2, <1>4, <1>5, <2>1 DEF NodeMet
<1>7. Nodes(NHid)'
  BY <1>3, NodesStay, NodesSafe, Running1 DEF Nodes, Running, Finishing
<1>8. WriteAddress = WeightAddrZero  BY WritesFirst DEF Finishing
<1>9. CASE MoreNodes
  <2>1. stateReg' = "loadNode" /\ nodeIdx \in 0 .. NHid - 1
    BY <1>1, <1>9, Running1 DEF Mac1, MoreNodes
  <2>2. FsmReadAddress = NodeAddrZero + nodeIdx
    BY <1>9 DEF FsmReadAddress
  <2>3. rdData' = mem[NodeAddrZero + nodeIdx]
    BY <1>8, <2>2, ReadsWord, Places, Running1
  <2>4. rdData' = Ref!Hidden(net, img)[nodeIdx]
    BY <1>3, <2>1, <2>3 DEF Nodes
  <2>5. NodeFetched'
    BY <1>2, <1>4, <1>6, <2>1, <2>4 DEF NodeFetched, NodeMet, Running
  <2> QED
    BY <1>2, <1>3, <1>7, <2>1, <2>5 DEF Running, Progress, PixelFetched, PixelMet,
       NodeSummed, NodeMet, OutputSummed, Stored, FirstLayer, SecondLayer, Finishing
<1>10. CASE ~MoreNodes
  <2>0. nodeIdx = NHid
    BY <1>10, Running1 DEF MoreNodes
  <2>1. stateReg' = "addb1"
    BY <1>1, <1>10 DEF Mac1
  <2>2. FsmReadAddress = BiasAddrZero + NHid + outputIdx
    BY <1>4, <1>10 DEF FsmReadAddress, NodeMet
  <2>3. rdData' = Ref!BuiltBias(net, img)[outputIdx]
    <3>1. CASE outputIdx = 9
      <4>1. FsmReadAddress = NodeAddrZero + 0
        BY <2>2, <3>1, Layout
      <4>a. 0 \in 0 .. NHid  BY Layout
      <4>b. NodeAddrZero + 0 \in Addr /\ NodeAddrZero + 0 # WeightAddrZero  BY <4>a, Places
      <4>2. rdData' = mem[NodeAddrZero + 0]
        BY <1>8, <4>1, <4>b, ReadsWord
      <4>3. rdData' = Ref!Hidden(net, img)[0]
        BY <1>3, <4>2, Running1 DEF Nodes
      <4> QED  BY <3>1, <4>3, BiasesUsed, Running1
    <3>2. CASE outputIdx # 9
      <4> DEFINE k == NPix * NHid + NHid * 10 + NHid + outputIdx
                 a == BiasAddrZero + NHid + outputIdx
      <4>1. a \in KeptAddrs /\ a - WeightAddrZero = k
        BY <3>2, Running1, Parameters, Weights, Layout DEF KeptAddrs
      <4> HIDE DEF a
      <4>2. rdData' = mem[a]
        BY <1>8, <2>2, <4>1, ReadsWord, Places DEF a
      <4> HIDE DEF k
      <4>3. rdData' = net[k]
        BY <4>1, <4>2, Running1 DEF Kept
      <4>4. rdData' = Ref!Bias2(net, outputIdx)
        BY <4>3 DEF Ref!Bias2, NOut, k
      <4> QED  BY <3>2, <4>4, BiasesUsed, Running1
    <3> QED  BY <3>1, <3>2
  <2>4. OutputSummed'
    BY <1>2, <1>6, <2>0, <2>1, <2>3 DEF OutputSummed, Running
  <2> QED
    BY <1>2, <1>3, <1>7, <2>1, <2>4 DEF Running, Progress, PixelFetched, PixelMet,
       NodeSummed, NodeFetched, NodeMet, Stored, FirstLayer, SecondLayer, Finishing
<1> QED  BY <1>9, <1>10

LEMMA FromAddB1 ==
  ASSUME NEW m, Running(m), stateReg = "addb1"
  PROVE  Progress'
<1>1. AddB1  BY Running1, ActionOfState
<1>2. Nodes(NHid) /\ \A q \in 0 .. outputIdx - 1 : layer2[q] = Scores(net, img)[q]
  BY DEF Running, Progress, Stored, SecondLayer
<1>3. Nodes(NHid)'
  BY <1>2, NodesStay, NodesSafe, Running1 DEF Nodes, Running, Finishing
<1>4. \A q \in 0 .. outputIdx : layer2'[q] = Scores(net, img)[q]
  <2>1. Wrap(nReg + rdData) = Scores(net, img)[outputIdx]
    BY SecondLayerSums, Running1 DEF Running, Progress, OutputSummed
  <2>2. layer2' = [layer2 EXCEPT ![outputIdx] = Wrap(nReg + rdData)]
    BY <1>1 DEF AddB1
  <2> TAKE q \in 0 .. outputIdx
  <2>3. q \in 0 .. 9 /\ (q = outputIdx \/ q \in 0 .. outputIdx - 1)
    BY Running1
  <2>4. CASE q = outputIdx
    BY <2>1, <2>2, <2>3, <2>4, Running1
  <2>5. CASE q \in 0 .. outputIdx - 1 /\ q # outputIdx
    BY <1>2, <2>2, <2>3, <2>5, Running1
  <2> QED  BY <2>3, <2>4, <2>5
<1>5. CASE outputIdx < 9
  <2>1. stateReg' = "nextOutput" /\ outputIdx' = outputIdx + 1
    BY <1>1, <1>5 DEF AddB1, NOut
  <2>2. outputIdx' - 1 = outputIdx  BY <2>1, Running1
  <2>3. \A q \in 0 .. outputIdx' - 1 : layer2'[q] = Scores(net', img')[q]
    BY <1>4, <2>2 DEF Running
  <2> QED
    BY <1>3, <2>1, <2>3 DEF Progress, PixelFetched, PixelMet, NodeSummed, NodeFetched,
       NodeMet, OutputSummed, Stored, FirstLayer, SecondLayer, Finishing
<1>6. CASE ~ (outputIdx < 9)
  <2>1. stateReg' = "writeRes" /\ outputIdx = 9
    BY <1>1, <1>6, Running1 DEF AddB1, NOut
  <2>2. \A q \in 0 .. 9 : layer2'[q] = Scores(net', img')[q]
    BY <1>4, <2>1 DEF Running
  <2> QED
    BY <2>1, <2>2 DEF Progress, PixelFetched, PixelMet, NodeSummed, NodeFetched,
       NodeMet, OutputSummed, Stored, FirstLayer, SecondLayer, Finishing
<1> QED  BY <1>5, <1>6

\* From the outputs to the answer, and on to the idle state.
LEMMA FromWriteRes ==
  ASSUME NEW m, Running(m), stateReg \in {"writeRes"} \cup Finishing
  PROVE  Progress'
<1>1. stateReg' \in Finishing /\ outputReg' = Ref!BuiltAnswer(net, img)
  <2>1. CASE stateReg = "writeRes"
    <3>1. WriteRes  BY <2>1, Running1, ActionOfState
    <3>2. \A q \in 0 .. 9 : layer2[q] = Scores(net, img)[q]
      BY <2>1 DEF Running, Progress, Stored
    <3>3. MaxIndex(layer2) = Ref!BuiltAnswer(net, img)
      BY <3>2, AnswerOfScores, Running1
    <3> QED  BY <3>1, <3>3 DEF WriteRes, Finishing
  <2>2. CASE stateReg \in Finishing
    <3>1. outputReg = Ref!BuiltAnswer(net, img)
      BY <2>2 DEF Running, Progress, Stored
    <3>2. CASE stateReg = "clearMem"
      BY <3>1, <3>2, Running1, ActionOfState DEF ClearMem, Finishing
    <3>3. CASE stateReg = "clearOut"
      BY <3>1, <3>3, Running1, ActionOfState DEF ClearOut, Finishing
    <3>4. CASE stateReg = "idle"
      <4>1. Wait
        BY <3>4, Running1, ActionOfState DEF Running, Writing, Listening
      <4> QED  BY <3>1, <3>4, <4>1 DEF Wait, fsmVars, Finishing
    <3> QED  BY <2>2, <3>2, <3>3, <3>4 DEF Finishing
  <2> QED  BY <2>1, <2>2
<1> QED
  BY <1>1 DEF Running, Progress, PixelFetched, PixelMet, NodeSummed, NodeFetched,
     NodeMet, OutputSummed, Stored, FirstLayer, SecondLayer, Finishing

LEMMA RunningKeeps ==
  ASSUME NEW m, Running(m), BlackCorner
  PROVE  Progress'
  BY FromNextNode, FromLoadPx, FromMac0, FromAddB0, FromWriteNode, FromNextOutput,
     FromLoadNode, FromMac1, FromAddB1, FromWriteRes
  DEF Running, Inferring, Computing, FirstLayer, SecondLayer

-----------------------------------------------------------------------------
(***************************************************************************)
(* The program drives the device as any master may.                        *)
(***************************************************************************)
LEMMA CommandWords ==
  /\ \A d \in BusData : NoCommand(d) \in Commands /\ NoCommand(d).cmd = "IDLE"
  /\ \A a \in Offsets, d \in Word : Write(a, d) \in Commands
  /\ \A a \in Offsets, d \in BusData : Read(a, d) \in Commands
  /\ 0 \in Word /\ 1 \in Word
  BY DataAssumption, DriverAssumption, SizeAssumption
  DEF NoCommand, Write, Read, Commands, Offsets, Word

LEMMA PaceTyped == MaxGap \in Nat /\ Len(CheckAddrs) \in Nat
  BY DriverAssumption

LEMMA DriverWords ==
  ASSUME DriverTyped
  PROVE  /\ \A k \in 0 .. Ref!ParamCount - 1 : net[k] \in Word
         /\ \A k \in 0 .. NPix - 1 : img[k] \in Word
         /\ \A k \in 1 .. Len(CheckAddrs) :
              /\ CheckAddrs[k] \in Word
              /\ CheckAddrs[k] \in WeightAddrZero .. NodeAddrZero
  BY NetworkTyped, ImageTyped, DriverAssumption, Parameters, Layout, SMTT(30) DEF DriverTyped

LEMMA StoreIsTick ==
  ASSUME NEW a \in Offsets, NEW d \in Word, Store(a, d)
  PROVE  /\ \E m \in Commands : Tick(m)
         /\ waiting' = TRUE /\ gap' = 0 /\ loaded' = Loaded
         /\ masterReg'.cmd = "WR" /\ masterReg'.addr = a /\ masterReg'.data = d
  BY CommandWords DEF Store, Issue, Tick, Write

LEMMA LoadIsTick ==
  ASSUME NEW a \in Offsets, Load(a)
  PROVE  /\ \E m \in Commands : Tick(m)
         /\ waiting' = TRUE /\ gap' = 0 /\ loaded' = Loaded
         /\ Asks(a)'
  BY CommandWords DEF Load, Issue, Tick, Asks, Read

LEMMA NoIssueIsTick ==
  ASSUME NoIssue
  PROVE  /\ \E m \in Commands : Tick(m)
         /\ ~waiting' /\ waiting' \in BOOLEAN /\ loaded' = Loaded
         /\ masterReg'.cmd = "IDLE"
  BY CommandWords DEF NoIssue, Tick

LEMMA ProgramIsMaster ==
  ASSUME DriverTyped, SysNext
  PROVE  \E m \in Commands : Tick(m)
<1>1. /\ INPUT \in Offsets /\ STATUS \in Offsets /\ RESULT \in Offsets
      /\ MEM_READ \in Offsets /\ SET_ADDR \in Offsets
  BY DEF Offsets
<1>2. CASE FillStart
  BY <1>1, <1>2, StoreIsTick, CommandWords DEF FillStart
<1>3. CASE FillParam
  <2>1. i \in 0 .. Ref!ParamCount - 1  BY <1>3, Parameters DEF FillParam, DriverTyped
  <2> QED  BY <1>1, <1>3, <2>1, StoreIsTick, DriverWords DEF FillParam
<1>4. CASE CheckSet
  <2>1. CheckAddrs[i] \in Word
    BY <1>4, DriverAssumption, DriverWords DEF CheckSet, DriverTyped
  <2> QED  BY <1>1, <1>4, <2>1, StoreIsTick DEF CheckSet
<1>5. CASE CheckRead1 \/ CheckRead2 \/ PollStatus \/ ReadResult \/ KeepResult
  BY <1>1, <1>5, LoadIsTick DEF CheckRead1, CheckRead2, PollStatus, ReadResult, KeepResult
<1>6. CASE Pause \/ CheckNext \/ CheckEnd \/ Compare \/ Refill \/ Return
  BY <1>6, NoIssueIsTick DEF Pause, CheckNext, CheckEnd, Compare, Refill, Return
<1>7. CASE Halted
  BY <1>7, CommandWords DEF Halted
<1>8. CASE LoadImg
  BY <1>1, <1>8, StoreIsTick, CommandWords DEF LoadImg
<1>9. CASE LoadPixel
  <2>1. i \in 0 .. NPix - 1  BY <1>9, Layout DEF LoadPixel, DriverTyped
  <2> QED  BY <1>1, <1>9, <2>1, StoreIsTick, DriverWords DEF LoadPixel
<1> QED  BY <1>2, <1>3, <1>4, <1>5, <1>6, <1>7, <1>8, <1>9 DEF SysNext

LEMMA DeviceKept == IInv /\ DriverTyped /\ [SysNext]_sysVars => IInv'
<1> SUFFICES ASSUME IInv, DriverTyped, [SysNext]_sysVars PROVE IInv'  OBVIOUS
<1>1. CASE SysNext  BY <1>1, ProgramIsMaster, StepIInv DEF Next
<1>2. CASE UNCHANGED sysVars  BY <1>2, StepIInv DEF sysVars
<1> QED  BY <1>1, <1>2

-----------------------------------------------------------------------------
(***************************************************************************)
(* A cycle brings the device to where the program stands, whether it is    *)
(* one that carries a command or one of other instructions.                *)
(***************************************************************************)
\* The address of a debug write is one of the memory: no bit of it is cut.
LEMMA AddressTaken ==
  ASSUME NEW a \in WeightAddrZero .. NodeAddrZero
  PROVE  a % MemSize = a
<1>1. MemSize \in Nat \ {0} /\ a \in 0 .. MemSize - 1 /\ a \in Int  BY Layout
<1>2. a \div MemSize \in Int /\ a % MemSize \in 0 .. MemSize - 1
      /\ a = MemSize * (a \div MemSize) + (a % MemSize)
  BY <1>1, Remainders
<1>3. MemSize * 0 + a = MemSize * (a \div MemSize) + (a % MemSize)
  BY <1>1, <1>2
<1> QED  BY <1>1, <1>2, <1>3, RemainderUnique

LEMMA SettlesLoading ==
  ASSUME SysInv, NEW m, Tick(m), net' = net, NEW k, k = i
  PROVE  /\ pc = "fill" => Fresh'
         /\ pc = "params" => Loading(k)'
<1> USE DEF SysInv
<1>1. ASSUME pc = "fill" PROVE Fresh'
  BY <1>1, FreshStays DEF UnderWay, Settled, DriverTyped
<1>2. ASSUME pc = "params" PROVE Loading(k)'
  <2>1. k \in Nat /\ k < Ref!ParamCount  BY <1>2 DEF DriverTyped
  <2>2. CASE ~waiting
    BY <1>2, <2>1, <2>2, LoadingStays DEF Settled
  <2>3. CASE waiting /\ k = 0
    BY <1>2, <2>3, FreshLoads DEF UnderWay
  <2>4. CASE waiting /\ k > 0
    <3> DEFINE j == k - 1
    <3>1. Loading(j) /\ Sends("WR", INPUT, net[j])
      BY <1>2, <2>4 DEF UnderWay
    <3>2. j \in 0 .. Ref!ParamCount - 1 /\ j # Ref!ParamCount - 1 /\ j + 1 = k
      BY <2>1, <2>4, Parameters
    <3> HIDE DEF j
    <3>3. Loading(j + 1)'  BY <3>1, <3>2, LoadingTakes
    <3> QED  BY <3>2, <3>3
  <2> QED  BY <2>1, <2>2, <2>3, <2>4 DEF DriverTyped
<1> QED  BY <1>1, <1>2

LEMMA SettlesChecking ==
  ASSUME SysInv, NEW m, Tick(m), net' = net, NEW k, k = i
  PROVE  /\ pc \in {"check", "read1", "read2", "checked"} => Checking'
         /\ pc \in {"read1", "read2", "checked"} => memoryAddress' = CheckAddrs[k]
         /\ pc = "read2" /\ gap = 0 => rdData' = net[CheckAddrs[k] - WeightAddrZero]
<1> USE DEF SysInv
<1>1. ASSUME pc = "check" PROVE Checking'
  <2>1. CASE ~waiting
    BY <1>1, <2>1, CheckingStays DEF Settled
  <2>2. CASE waiting
    <3> DEFINE j == Ref!ParamCount - 1
    <3>1. Loading(j) /\ Sends("WR", INPUT, net[j])
      BY <1>1, <2>2 DEF UnderWay
    <3>2. j \in 0 .. Ref!ParamCount - 1 /\ j = Ref!ParamCount - 1
      BY Parameters
    <3> HIDE DEF j
    <3> QED  BY <3>1, <3>2, LoadingTakes
  <2> QED  BY <2>1, <2>2
<1>2. ASSUME pc = "read1" PROVE Checking' /\ memoryAddress' = CheckAddrs[k]
  <2>1. CASE ~waiting
    BY <1>2, <2>1, CheckingStays, WaitKeeps DEF Settled, Checking, Listening
  <2>2. CASE waiting
    <3>1. Checking /\ Sends("WR", SET_ADDR, CheckAddrs[k])
      BY <1>2, <2>2 DEF UnderWay
    <3>2. DebugWrite /\ masterReg.data = CheckAddrs[k]
      BY <3>1 DEF Sends, DebugWrite, Writing
    <3>3. CheckAddrs[k] % MemSize = CheckAddrs[k]
      BY <1>2, AddressTaken, DriverWords DEF DriverTyped
    <3>4. memoryAddress' = CheckAddrs[k]
      BY <3>2, <3>3 DEF Tick, SetAddress, Control
    <3> QED  BY <3>1, <3>2, <3>4, CheckingStays
  <2> QED  BY <2>1, <2>2
<1>3. ASSUME pc \in {"read2", "checked"} PROVE Checking' /\ memoryAddress' = CheckAddrs[k]
  <2>1. /\ Checking /\ memoryAddress = CheckAddrs[k]
        /\ masterReg.cmd # "WR"
    BY <1>3 DEF Settled, UnderWay, Asks
  <2> QED  BY <2>1, CheckingStays, WaitKeeps DEF Checking, Listening
<1>4. ASSUME pc = "read2", gap = 0
      PROVE  rdData' = net[CheckAddrs[k] - WeightAddrZero]
  <2> DEFINE a == CheckAddrs[k]
  <2>1. waiting  BY <1>4 DEF Known, DriverTyped
  <2>2. Checking /\ Reading(MEM_READ) /\ memoryAddress = a
    BY <1>4, <2>1 DEF UnderWay, Asks, Reading
  <2>3. a \in WeightAddrZero .. NodeAddrZero
    BY <1>4, DriverWords DEF DriverTyped
  <2> HIDE DEF a
  <2>4. ReadAddress = a  BY <2>2 DEF ReadAddress
  <2>5. a \in Addr /\ a # WriteAddress
    <3>1. WriteAddress = NodeAddrZero + 1  BY <2>2, WritePlaces DEF Checking
    <3> QED  BY <2>3, <3>1, Layout DEF Addr
  <2>6. rdData' = mem[a]  BY <2>4, <2>5, MemoryStep
  <2>7. mem[a] = net[a - WeightAddrZero]
    BY <2>2, <2>3, Parameters, Layout DEF Checking, Params
  <2> QED  BY <2>6, <2>7 DEF a
<1> QED  BY <1>1, <1>2, <1>3, <1>4

LEMMA SettlesResting ==
  ASSUME SysInv, NEW m, Tick(m), pc \in {"ready", "done"}
  PROVE  /\ net' = net => Resting'
         /\ Fresh'
<1>1. Resting /\ masterReg.cmd # "WR"
  BY DEF SysInv, UnderWay, Settled, DriverTyped
<1>2. net' = net => Resting'
  BY <1>1, RestingStays DEF SysInv
<1>3. Fresh'
  BY <1>1, WaitKeeps DEF Resting, Listening, Fresh
<1> QED  BY <1>2, <1>3

LEMMA SettlesDrawing ==
  ASSUME SysInv, NEW m, Tick(m), net' = net, img' = img, NEW k, k = i
  PROVE  pc = "pixels" => Drawing(k)'
<1> USE DEF SysInv
<1> SUFFICES ASSUME pc = "pixels" PROVE Drawing(k)'
  OBVIOUS
<1>1. k \in Nat /\ k < NPix  BY DEF DriverTyped
<1>2. CASE ~waiting
  BY <1>1, <1>2, DrawingStays DEF Settled
<1>3. CASE waiting /\ k = 0
  BY <1>3, RestingStarts DEF UnderWay
<1>4. CASE waiting /\ k > 0
  <2> DEFINE j == k - 1
  <2>1. Drawing(j) /\ Sends("WR", INPUT, img[j])
    BY <1>4 DEF UnderWay
  <2>2. j \in 0 .. NPix - 1 /\ j # NPix - 1 /\ j + 1 = k
    BY <1>1, <1>4, Layout
  <2> HIDE DEF j
  <2>3. Drawing(j + 1)'  BY <2>1, <2>2, DrawingTakes
  <2> QED  BY <2>2, <2>3
<1> QED  BY <1>1, <1>2, <1>3, <1>4 DEF DriverTyped

LEMMA SettlesInferring ==
  ASSUME SysInv, NEW m, Tick(m), net' = net, img' = img, pc \in Inside
  PROVE  /\ Inferring'
         /\ pc = "poll" /\ waiting => stateReg' = "nextNode"
         /\ ~ (pc = "poll" /\ waiting) =>
              /\ Inferring /\ masterReg.cmd # "WR" /\ ~Reading(MEM_READ)
              /\ stateReg = "idle" => stateReg' = "idle"
<1> USE DEF SysInv
<1>1. CASE pc = "poll" /\ waiting
  <2> DEFINE j == NPix - 1
  <2>1. Drawing(j) /\ Sends("WR", INPUT, img[j])
    BY <1>1 DEF UnderWay
  <2>2. j \in 0 .. NPix - 1 /\ j = NPix - 1
    BY Layout
  <2> HIDE DEF j
  <2>3. Inferring' /\ stateReg' = "nextNode"
    BY <2>1, <2>2, DrawingTakes
  <2> QED  BY <1>1, <2>3
<1>2. CASE ~ (pc = "poll" /\ waiting)
  <2>1. Inferring /\ masterReg.cmd # "WR" /\ ~Reading(MEM_READ)
    BY <1>2 DEF Inside, UnderWay, Settled, Asks, Reading, STATUS, RESULT, MEM_READ, DriverTyped
  <2> QED  BY <1>2, <2>1, InferringStays
<1> QED  BY <1>1, <1>2

\* A status that reads as idle is that of an idle device.
LEMMA IdleIsTrue ==
  ASSUME SysInv, pc = "branch", Loaded = IdleStatus
  PROVE  stateReg = "idle"
<1>1. CASE waiting
  <2>1. SlaveData = StatusCode[stateReg] /\ stateReg \in States
    BY <1>1 DEF SysInv, UnderWay, Asks, Reading, SlaveData, IInv, TypeOK, IndicesTyped,
           STATUS, RESULT, MEM_READ
  <2>2. StatusCode[stateReg] = 2
    BY <1>1, <2>1 DEF Loaded, IdleStatus
  <2> QED  BY <2>1, <2>2, StateNames DEF StatusCode
<1>2. CASE ~waiting
  BY <1>2 DEF SysInv, Known, Loaded
<1> QED  BY <1>1, <1>2

-----------------------------------------------------------------------------
(***************************************************************************)
(* The steps of the program.                                               *)
(***************************************************************************)
SysRest == DriverTyped /\ Settled /\ UnderWay /\ Known

LEMMA InitSysInv == SysInit => SysInv
<1> SUFFICES ASSUME SysInit PROVE SysInv  OBVIOUS
<1>1. IInv  BY InitIInv DEF SysInit
<1>2. DriverTyped
  <2>1. waiting \in BOOLEAN  BY DEF SysInit
  <2>2. pc = "fill" /\ i = 0 /\ gap = 0 /\ net \in Networks /\ img \in Images
    BY DEF SysInit
  <2> QED  BY <2>1, <2>2, PaceTyped DEF DriverTyped
<1>3. Settled
  BY DEF SysInit, Settled, Init, NoCommand, Fresh, Inside
<1>4. UnderWay /\ Known
  BY DEF SysInit, UnderWay, Known
<1> QED  BY <1>1, <1>2, <1>3, <1>4 DEF SysInv

LEMMA FillStartKeeps == ASSUME SysInv, FillStart PROVE SysRest'
<1>1. /\ waiting' = TRUE /\ gap' = 0
      /\ masterReg'.cmd = "WR" /\ masterReg'.addr = INPUT /\ masterReg'.data = 0
      /\ \E m : Tick(m)
  BY StoreIsTick, CommandWords DEF FillStart, Offsets
<1>2. pc = "fill" /\ pc' = "params" /\ i' = 0 /\ net' = net /\ img' = img
  BY DEF FillStart
<1>3. Fresh'  BY <1>1, <1>2, SettlesLoading
<1>4. DriverTyped'
  BY <1>1, <1>2, Parameters, PaceTyped DEF SysInv, DriverTyped
<1> QED  BY <1>1, <1>2, <1>3, <1>4 DEF SysRest, Settled, UnderWay, Known, Sends, Asks

LEMMA FillParamKeeps == ASSUME SysInv, FillParam PROVE SysRest'
<1>1. PICK k : k = i  OBVIOUS
<1>2. k \in 0 .. Ref!ParamCount - 1
  BY <1>1, Parameters DEF FillParam, SysInv, DriverTyped
<1>3. /\ waiting' = TRUE /\ gap' = 0
      /\ masterReg'.cmd = "WR" /\ masterReg'.addr = INPUT /\ masterReg'.data = net[k]
      /\ \E m : Tick(m)
  BY <1>1, <1>2, StoreIsTick, DriverWords DEF FillParam, Offsets, SysInv
<1>4. pc = "params" /\ net' = net /\ img' = img
  BY DEF FillParam
<1>5. Loading(k)'  BY <1>1, <1>3, <1>4, SettlesLoading
<1>6. masterReg'.cmd = "WR" /\ masterReg'.addr = INPUT /\ masterReg'.data = net'[k]
  BY <1>3, <1>4
<1>7. CASE k = Ref!ParamCount - 1
  <2>1. pc' = "check" /\ i' = 1  BY <1>1, <1>7 DEF FillParam
  <2>2. DriverTyped'
    BY <1>3, <1>4, <2>1, PaceTyped DEF SysInv, DriverTyped
  <2>3. Settled' /\ Known'  BY <1>3, <2>1 DEF Settled, Known
  <2>4. UnderWay'  BY <1>3, <1>5, <1>6, <1>7, <2>1 DEF UnderWay, Sends
  <2> QED  BY <2>2, <2>3, <2>4 DEF SysRest
<1>8. CASE k # Ref!ParamCount - 1
  <2>1. pc' = "params" /\ i' = k + 1  BY <1>1, <1>8 DEF FillParam
  <2>2. DriverTyped'
    BY <1>2, <1>3, <1>4, <1>8, <2>1, Parameters, PaceTyped DEF SysInv, DriverTyped
  <2>3. i' > 0 /\ i' - 1 = k  BY <1>2, <2>1, Parameters
  <2>4. Loading(i - 1)'  BY <1>5, <2>3 DEF Loading, Params
  <2>5. Sends("WR", INPUT, net[i - 1])'  BY <1>6, <2>3 DEF Sends
  <2>6. Settled' /\ Known'  BY <1>3, <2>1 DEF Settled, Known
  <2>7. UnderWay'  BY <1>3, <2>1, <2>3, <2>4, <2>5 DEF UnderWay
  <2> QED  BY <2>2, <2>6, <2>7 DEF SysRest
<1> QED  BY <1>7, <1>8

LEMMA CheckSetKeeps == ASSUME SysInv, CheckSet PROVE SysRest'
<1>1. i \in 1 .. Len(CheckAddrs) /\ CheckAddrs[i] \in Word
  BY PaceTyped, DriverWords DEF CheckSet, SysInv, DriverTyped
<1>2. /\ waiting' = TRUE /\ gap' = 0
      /\ masterReg'.cmd = "WR" /\ masterReg'.addr = SET_ADDR /\ masterReg'.data = CheckAddrs[i]
      /\ \E m : Tick(m)
  BY <1>1, StoreIsTick DEF CheckSet, Offsets
<1>3. pc = "check" /\ pc' = "read1" /\ i' = i /\ net' = net /\ img' = img
  BY DEF CheckSet
<1>4. Checking'  BY <1>2, <1>3, SettlesChecking
<1>5. masterReg'.data = CheckAddrs[i']
  BY <1>2, <1>3
<1>6. DriverTyped'
  BY <1>1, <1>2, <1>3, PaceTyped DEF SysInv, DriverTyped
<1> QED  BY <1>2, <1>3, <1>4, <1>5, <1>6 DEF SysRest, Settled, UnderWay, Known, Sends, Asks

LEMMA CheckReadsKeep == ASSUME SysInv, CheckRead1 \/ CheckRead2 PROVE SysRest'
<1>1. PICK k : k = i  OBVIOUS
<1>2. /\ waiting' = TRUE /\ gap' = 0 /\ Asks(MEM_READ)'
      /\ \E m : Tick(m)
  BY LoadIsTick DEF CheckRead1, CheckRead2, Offsets
<1>3. /\ i' = i /\ net' = net /\ img' = img
      /\ \/ pc = "read1" /\ pc' = "read2"
         \/ pc = "read2" /\ pc' = "checked" /\ (adjacent' <=> gap = 0)
  BY DEF CheckRead1, CheckRead2
<1>4. Checking' /\ memoryAddress' = CheckAddrs[k]
  BY <1>1, <1>2, <1>3, SettlesChecking
<1>5. pc' = "checked" /\ adjacent' => rdData' = net[CheckAddrs[k] - WeightAddrZero]
  BY <1>1, <1>2, <1>3, SettlesChecking
<1>6. DriverTyped'
  BY <1>2, <1>3, PaceTyped DEF SysInv, DriverTyped
<1> QED  BY <1>1, <1>2, <1>3, <1>4, <1>5, <1>6 DEF SysRest, Settled, UnderWay, Known, Sends, Asks

LEMMA CheckNextKeeps == ASSUME SysInv, CheckNext \/ CheckEnd PROVE SysRest'
<1>1. /\ ~waiting' /\ waiting' \in BOOLEAN /\ masterReg'.cmd = "IDLE" /\ \E m : Tick(m)
  BY NoIssueIsTick DEF CheckNext, CheckEnd
<1>2. /\ gap' = 0 /\ net' = net /\ img' = img
      /\ \/ pc = "checked" /\ pc' = "check" /\ i' = i + 1
         \/ pc = "check" /\ pc' = "ready" /\ i' = i
  BY DEF CheckNext, CheckEnd
<1>3. Checking'  BY <1>1, <1>2, SettlesChecking
<1>4. Resting'
  BY <1>3, Parameters, Layout DEF Checking, Resting, Kept, Params, KeptAddrs
<1>5. DriverTyped'
  BY <1>1, <1>2, PaceTyped DEF SysInv, DriverTyped
<1> QED  BY <1>1, <1>2, <1>3, <1>4, <1>5 DEF SysRest, Settled, UnderWay, Known, Inside

LEMMA LoadImgKeeps == ASSUME SysInv, LoadImg PROVE SysRest'
<1>1. /\ waiting' = TRUE /\ gap' = 0
      /\ masterReg'.cmd = "WR" /\ masterReg'.addr = INPUT /\ masterReg'.data = 1
      /\ \E m : Tick(m)
  BY StoreIsTick, CommandWords DEF LoadImg, Offsets
<1>2. pc = "ready" /\ pc' = "pixels" /\ i' = 0 /\ net' = net /\ img' \in Images
  BY DEF LoadImg
<1>3. Resting'  BY <1>1, <1>2, SettlesResting
<1>4. DriverTyped'
  BY <1>1, <1>2, Layout, PaceTyped DEF SysInv, DriverTyped
<1> QED  BY <1>1, <1>2, <1>3, <1>4 DEF SysRest, Settled, UnderWay, Known, Sends, Asks

LEMMA LoadPixelKeeps == ASSUME SysInv, LoadPixel PROVE SysRest'
<1>1. PICK k : k = i  OBVIOUS
<1>2. k \in 0 .. NPix - 1
  BY <1>1, Layout DEF LoadPixel, SysInv, DriverTyped
<1>3. /\ waiting' = TRUE /\ gap' = 0
      /\ masterReg'.cmd = "WR" /\ masterReg'.addr = INPUT /\ masterReg'.data = img[k]
      /\ \E m : Tick(m)
  BY <1>1, <1>2, StoreIsTick, DriverWords DEF LoadPixel, Offsets, SysInv
<1>4. pc = "pixels" /\ net' = net /\ img' = img
  BY DEF LoadPixel
<1>5. Drawing(k)'  BY <1>1, <1>3, <1>4, SettlesDrawing
<1>6. masterReg'.cmd = "WR" /\ masterReg'.addr = INPUT /\ masterReg'.data = img'[k]
  BY <1>3, <1>4
<1>7. CASE k = NPix - 1
  <2>1. pc' = "poll" /\ i' = 0  BY <1>1, <1>7 DEF LoadPixel
  <2>2. DriverTyped'
    BY <1>3, <1>4, <2>1, PaceTyped DEF SysInv, DriverTyped
  <2>3. Settled' /\ Known'  BY <1>3, <2>1 DEF Settled, Known
  <2>4. UnderWay'  BY <1>3, <1>5, <1>6, <1>7, <2>1 DEF UnderWay, Sends
  <2> QED  BY <2>2, <2>3, <2>4 DEF SysRest
<1>8. CASE k # NPix - 1
  <2>1. pc' = "pixels" /\ i' = k + 1  BY <1>1, <1>8 DEF LoadPixel
  <2>2. DriverTyped'
    BY <1>2, <1>3, <1>4, <1>8, <2>1, Layout, PaceTyped DEF SysInv, DriverTyped
  <2>3. i' > 0 /\ i' - 1 = k  BY <1>2, <2>1, Layout
  <2>4. Drawing(i - 1)'  BY <1>5, <2>3 DEF Drawing, Kept, Pixels
  <2>5. Sends("WR", INPUT, img[i - 1])'  BY <1>6, <2>3 DEF Sends
  <2>6. Settled' /\ Known'  BY <1>3, <2>1 DEF Settled, Known
  <2>7. UnderWay'  BY <1>3, <2>1, <2>3, <2>4, <2>5 DEF UnderWay
  <2> QED  BY <2>2, <2>6, <2>7 DEF SysRest
<1> QED  BY <1>7, <1>8

LEMMA PollsKeep ==
  ASSUME SysInv, PollStatus \/ ReadResult \/ KeepResult
  PROVE  SysRest'
<1>1. /\ waiting' = TRUE /\ gap' = 0
      /\ \E m : Tick(m)
      /\ PollStatus \/ KeepResult => Asks(STATUS)'
      /\ ReadResult => Asks(RESULT)'
  BY LoadIsTick DEF PollStatus, ReadResult, KeepResult, Offsets
<1>2. /\ pc \in Inside /\ i' = i /\ net' = net /\ img' = img
      /\ PollStatus \/ KeepResult => pc' = "branch"
      /\ ReadResult => pc' = "keep"
  BY DEF PollStatus, ReadResult, KeepResult, Inside
<1>3. Inferring'  BY <1>1, <1>2, SettlesInferring
<1>4. DriverTyped'
  BY <1>1, <1>2, PaceTyped DEF SysInv, DriverTyped
<1> QED  BY <1>1, <1>2, <1>3, <1>4 DEF SysRest, Settled, UnderWay, Known, Sends, Asks

LEMMA CompareKeeps == ASSUME SysInv, Compare PROVE SysRest'
<1>1. /\ ~waiting' /\ waiting' \in BOOLEAN /\ masterReg'.cmd = "IDLE" /\ \E m : Tick(m)
  BY NoIssueIsTick DEF Compare
<1>2. /\ gap' = 0 /\ net' = net /\ img' = img /\ i' = i
      /\ pc = "branch" /\ pc' = "ready" /\ Loaded = IdleStatus
  BY DEF Compare
<1>3. stateReg = "idle"  BY <1>2, IdleIsTrue
<1>4. Inferring' /\ stateReg' = "idle"
  BY <1>1, <1>2, <1>3, SettlesInferring DEF Inside
<1>5. Resting'  BY <1>4 DEF Inferring, Resting
<1>6. DriverTyped'
  BY <1>1, <1>2, PaceTyped DEF SysInv, DriverTyped
<1> QED  BY <1>1, <1>2, <1>5, <1>6 DEF SysRest, Settled, UnderWay, Known, Inside

LEMMA RefillKeeps == ASSUME SysInv, Refill \/ Return PROVE SysRest'
<1>1. /\ ~waiting' /\ waiting' \in BOOLEAN /\ masterReg'.cmd = "IDLE" /\ \E m : Tick(m)
  BY NoIssueIsTick DEF Refill, Return
<1>2. /\ gap' = 0 /\ net' \in Networks /\ img' = img /\ i' = i
      /\ pc = "ready"
      /\ \/ pc' = "fill"
         \/ pc' = "done" /\ net' = net
  BY DEF Refill, Return, SysInv, DriverTyped
<1>3. Fresh' /\ (pc' = "done" => Resting')
  BY <1>1, <1>2, SettlesResting
<1>4. DriverTyped'
  BY <1>1, <1>2, PaceTyped DEF SysInv, DriverTyped
<1> QED  BY <1>1, <1>2, <1>3, <1>4 DEF SysRest, Settled, UnderWay, Known, Inside

\* Other instructions, and the clock after main has returned.
LEMMA PauseKeeps == ASSUME SysInv, Pause PROVE SysRest'
<1>1. PICK k : k = i  OBVIOUS
<1>2. /\ ~waiting' /\ waiting' \in BOOLEAN /\ loaded' = Loaded
      /\ masterReg'.cmd = "IDLE" /\ \E m : Tick(m)
  BY NoIssueIsTick DEF Pause
<1>3. /\ pc # "done" /\ pc' = pc /\ i' = i /\ net' = net /\ img' = img
      /\ gap < MaxGap /\ gap' = gap + 1
  BY DEF Pause
<1>4. DriverTyped'
  BY <1>2, <1>3, PaceTyped DEF SysInv, DriverTyped
<1>5. /\ pc = "fill" => Fresh'
      /\ pc = "params" => Loading(k)'
      /\ pc \in {"check", "read1", "read2", "checked"} => Checking'
      /\ pc \in {"read1", "read2", "checked"} => memoryAddress' = CheckAddrs[k]
      /\ pc = "ready" => Resting'
      /\ pc = "pixels" => Drawing(k)'
      /\ pc \in Inside => Inferring'
  BY <1>1, <1>2, <1>3, SettlesLoading, SettlesChecking, SettlesResting, SettlesDrawing,
     SettlesInferring
<1>6. Settled'
  <2>1. pc' = "params" => Loading(i)'
    BY <1>1, <1>3, <1>5 DEF Loading, Params
  <2>2. pc' = "pixels" => Drawing(i)'
    BY <1>1, <1>3, <1>5 DEF Drawing, Kept, Pixels
  <2> QED  BY <1>1, <1>2, <1>3, <1>5, <2>1, <2>2 DEF Settled
<1>7. Known'
  <2>1. pc' = "branch" /\ loaded' = IdleStatus => stateReg' = "idle"
    BY <1>2, <1>3, IdleIsTrue, SettlesInferring DEF Inside
  <2>2. gap' > 0
    BY <1>3, PaceTyped DEF SysInv, DriverTyped
  <2> QED  BY <2>1, <2>2 DEF Known
<1> QED  BY <1>2, <1>4, <1>6, <1>7 DEF SysRest, UnderWay

LEMMA HaltedKeeps == ASSUME SysInv, Halted PROVE SysRest'
<1>1. masterReg'.cmd = "IDLE" /\ \E m : Tick(m)
  BY DEF Halted, Tick, NoCommand
<1>2. pc = "done" /\ UNCHANGED driverVars
  BY DEF Halted
<1>3. Resting' /\ ~waiting
  BY <1>1, <1>2, SettlesResting DEF driverVars, SysInv, UnderWay, DriverTyped
<1>4. DriverTyped'
  BY <1>2 DEF driverVars, SysInv, DriverTyped
<1> QED  BY <1>1, <1>2, <1>3, <1>4 DEF driverVars, SysRest, Settled, UnderWay, Known, Inside

LEMMA StepSysInv == SysInv /\ [SysNext]_sysVars => SysInv'
<1> SUFFICES ASSUME SysInv, [SysNext]_sysVars PROVE SysInv'  OBVIOUS
<1>1. IInv'  BY DeviceKept DEF SysInv
<1>2. CASE SysNext
  BY <1>1, <1>2, FillStartKeeps, FillParamKeeps, CheckSetKeeps, CheckReadsKeep, CheckNextKeeps,
     LoadImgKeeps, LoadPixelKeeps, PollsKeep, CompareKeeps, RefillKeeps, PauseKeeps,
     HaltedKeeps
  DEF SysNext, SysRest, SysInv
<1>3. CASE UNCHANGED sysVars
  BY <1>1, <1>3
  DEF sysVars, driverVars, vars, fsmVars, readRegs, macRegs, SysInv, SysRest, DriverTyped,
      Settled, UnderWay, Known, Fresh, Loading, Checking, Resting, Drawing, Inferring,
      Params, Kept, Pixels, Sends, Asks
<1> QED  BY <1>1, <1>2, <1>3 DEF SysInv, SysRest

LEMMA SysInvariance == SysSpec => []SysInv
  BY InitSysInv, StepSysInv, PTL DEF SysSpec

-----------------------------------------------------------------------------
\* The core never stalls for good: a command on the bus is answered in the
\* cycle the device sees it, whatever the pace of the program
\* (patmos/Memory.scala does not repeat a command).
THEOREM CoreNeverHung == SysSpec => []NeverHung
<1>1. SysInv => NeverHung
  <2> SUFFICES ASSUME SysInv, waiting PROVE Answered  BY DEF NeverHung
  <2>1. i \in Nat /\ pc \notin {"fill", "ready", "done"}
    BY DEF SysInv, DriverTyped, UnderWay
  <2> QED
    BY <2>1 DEF SysInv, DriverTyped, UnderWay, Answered, Writing, DebugWrite, Sends, Asks,
       Listening, Fresh, Loading, Checking, Resting, Drawing
<1> QED  BY <1>1, SysInvariance, PTL

\* readFromMem returns the parameter loaded at the address it sets, when its
\* two reads follow each other.
THEOREM DebugReadsTrue == SysSpec => []CheckReads
<1>1. SysInv => CheckReads
  BY DEF SysInv, UnderWay, CheckReads, SlaveData, Reading, Asks, STATUS, RESULT, MEM_READ
<1> QED  BY <1>1, SysInvariance, PTL


-----------------------------------------------------------------------------
(***************************************************************************)
(* While the program waits for an answer.                                  *)
(***************************************************************************)
\* It waits on, on the same image, or has just sent the last pixel.
LEMMA StepsInside ==
  ASSUME SysInv, SysNext, pc' \in Inside
  PROVE  \/ LoadPixel /\ pc' = "poll" /\ gap' = 0 /\ stateReg' = "infLoad"
         \/ /\ pc \in Inside /\ net' = net /\ img' = img
            /\ Pause \/ PollStatus \/ ReadResult \/ KeepResult
            /\ \E m \in Commands : Tick(m)
<1>1. CASE LoadPixel
  <2>1. gap' = 0 /\ pc' = "poll" /\ net' = net /\ img' = img /\ pc = "pixels"
    BY <1>1 DEF LoadPixel, Store, Issue, Inside
  <2>2. PICK k : k = i  OBVIOUS
  <2>3. \E m : Tick(m)  BY <1>1, ProgramIsMaster DEF SysInv, SysNext
  <2>4. Drawing(k)'  BY <2>1, <2>2, <2>3, SettlesDrawing
  <2> QED  BY <1>1, <2>1, <2>4 DEF Drawing
<1>2. CASE Pause \/ PollStatus \/ ReadResult \/ KeepResult
  <2>1. pc \in Inside /\ net' = net /\ img' = img
    BY <1>2 DEF Pause, PollStatus, ReadResult, KeepResult, Inside
  <2> QED  BY <1>2, <2>1, ProgramIsMaster DEF SysInv
<1>3. CASE FillStart \/ FillParam \/ CheckSet \/ CheckRead1 \/ CheckRead2
  BY <1>3 DEF FillStart, FillParam, CheckSet, CheckRead1, CheckRead2, Inside
<1>4. CASE CheckNext \/ CheckEnd \/ LoadImg \/ Compare \/ Refill \/ Return \/ Halted
  BY <1>4 DEF CheckNext, CheckEnd, LoadImg, Compare, Refill, Return, Halted, driverVars, Inside
<1> QED  BY <1>1, <1>2, <1>3, <1>4 DEF SysNext

\* The device computes what the reference does.
LEMMA InitComputed == SysInit => Computed
  BY DEF SysInit, Computed, Inside

LEMMA StepComputed ==
  ASSUME BlackCorner
  PROVE  SysInv /\ Computed /\ [SysNext]_sysVars => Computed'
<1> SUFFICES ASSUME SysInv, Computed, [SysNext]_sysVars, pc' \in Inside PROVE Progress'
  BY DEF Computed
<1>1. CASE SysNext
  <2>1. CASE stateReg' = "infLoad"
    BY <2>1 DEF Progress, PixelFetched, PixelMet, NodeSummed, NodeFetched, NodeMet,
       OutputSummed, Stored, FirstLayer, SecondLayer, Finishing
  <2>2. CASE stateReg' # "infLoad"
    <3>1. pc \in Inside /\ net' = net /\ img' = img
      BY <1>1, <2>2, StepsInside
    <3>2. PICK m \in Commands : Tick(m)
      BY <1>1, <2>2, StepsInside
    <3>3. CASE pc = "poll" /\ waiting
      <4>1. stateReg' = "nextNode"  BY <3>1, <3>2, <3>3, SettlesInferring
      <4>2. Drawing(NPix - 1) /\ masterReg.cmd = "WR" /\ masterReg.addr = INPUT
        BY <3>3 DEF SysInv, UnderWay, Sends
      <4>3. stateReg = "infLoad" /\ Writing /\ ~DebugWrite
        BY <4>2 DEF Drawing, Writing, DebugWrite, INPUT, SET_ADDR
      <4>4. InfLoad  BY <3>2, <4>3, Undisturbed, ActionOfState
      <4>5. nodeIdx = 0
        BY <4>3 DEF SysInv, IInv, AddressesFollow, NodeFollows, Listening
      <4>6. nodeIdx' = 0  BY <4>4, <4>5 DEF InfLoad
      <4>7. Nodes(nodeIdx)'  BY <4>6 DEF Nodes
      <4> QED
        BY <4>1, <4>7 DEF Progress, PixelFetched, PixelMet, NodeSummed, NodeFetched,
           NodeMet, OutputSummed, Stored, FirstLayer, SecondLayer, Finishing
    <3>4. CASE ~ (pc = "poll" /\ waiting)
      <4>1. Inferring /\ masterReg.cmd # "WR" /\ ~Reading(MEM_READ)
        BY <3>1, <3>2, <3>4, SettlesInferring
      <4>2. net \in Networks /\ img \in Images  BY DEF SysInv, DriverTyped
      <4>3. Running(m)
        BY <3>1, <3>2, <4>1, <4>2 DEF SysInv, Computed, Running
      <4> QED  BY <4>3, RunningKeeps
    <3> QED  BY <3>3, <3>4
  <2> QED  BY <2>1, <2>2
<1>2. CASE UNCHANGED sysVars
  BY <1>2 DEF sysVars, driverVars, vars, fsmVars, readRegs, macRegs, Computed, Progress,
     PixelFetched, PixelMet, NodeSummed, NodeFetched, NodeMet, OutputSummed, Stored, Nodes,
     MorePixels
<1> QED  BY <1>1, <1>2

LEMMA ComputedInvariance ==
  ASSUME BlackCorner
  PROVE  SysSpec => [](SysInv /\ Computed)
<1>1. SysInit => SysInv /\ Computed
  BY InitSysInv, InitComputed
<1>2. SysInv /\ Computed /\ [SysNext]_sysVars => (SysInv /\ Computed)'
  BY StepSysInv, StepComputed
<1> QED  BY <1>1, <1>2, PTL DEF SysSpec

\* Every product the device accumulates is one of the reference, whatever the
\* pace of the program: the operands that meet in mac0 and in mac1 are a pixel
\* or a hidden node and its own weight (io/Accelerator.scala, states loadpx to
\* mac1).
THEOREM OperandsMeet ==
  ASSUME BlackCorner
  PROVE  SysSpec => []OperandsMatch
<1>1. SysInv /\ Computed => OperandsMatch
  <2> SUFFICES ASSUME SysInv, Computed PROVE OperandsMatch  OBVIOUS
  <2>1. stateReg \in {"mac0", "mac1"} => Progress
    <3> SUFFICES ASSUME stateReg \in {"mac0", "mac1"}, pc \notin Inside PROVE FALSE
      BY DEF Computed
    <3>1. i \in Nat  BY DEF SysInv, DriverTyped
    <3> QED
      BY <3>1 DEF SysInv, DriverTyped, Settled, UnderWay, Inside, Fresh, Loading, Checking,
         Resting, Drawing
  <2>2. ASSUME stateReg = "mac0", MorePixels, nodeIdx < NHid
        PROVE  /\ pReg = img[readAddrP - 1]
               /\ readAddrP - 1 # 0 \/ nodeIdx # 0 =>
                    rdData = Ref!Weight1(net, readAddrP - 1, nodeIdx)
    <3>1. readAddrP \in Nat /\ (readAddrP - 1 # 0 => readAddrP # 1)
      BY DEF SysInv, IInv, TypeOK, IndicesTyped
    <3> QED  BY <2>1, <2>2, <3>1 DEF Progress, PixelMet
  <2>3. ASSUME stateReg = "mac1"
        PROVE  /\ pReg = Ref!Hidden(net, img)[nodeIdx - 1]
               /\ rdData = Ref!Weight2(net, nodeIdx - 1, outputIdx)
    BY <2>1, <2>3 DEF Progress, NodeMet
  <2> QED  BY <2>2, <2>3 DEF OperandsMatch
<1> QED  BY <1>1, ComputedInvariance, PTL

-----------------------------------------------------------------------------
(***************************************************************************)
(* The timing of the polling loop.                                         *)
(***************************************************************************)
\* The device comes closer to the idle state by at most one cycle at a time.
LEMMA LeftSteps ==
  ASSUME SysInv, NEW m, Tick(m), pc \in Inside, net' = net, img' = img
  PROVE  /\ Left \in Int /\ Left' \in Int
         /\ Left' >= Left - 1
         /\ pc = "poll" /\ waiting => Left' = NHid + 2
<1>1. /\ NHid \in Nat /\ NHid > 0 /\ nodeIdx \in 0 .. NHid
  BY Layout DEF SysInv, IInv, TypeOK, IndicesTyped
<1>2. Left \in Int /\ Left <= NHid + 2
  BY <1>1 DEF Left
<1>3. CASE pc = "poll" /\ waiting
  <2>1. stateReg' = "nextNode"  BY <1>3, SettlesInferring
  <2>2. Left' = NHid + 2  BY <2>1 DEF Left
  <2> QED  BY <1>1, <1>2, <2>2
<1>4. CASE ~ (pc = "poll" /\ waiting)
  <2>1. Inferring /\ masterReg.cmd # "WR" /\ (stateReg = "idle" => stateReg' = "idle")
    BY <1>4, SettlesInferring
  <2>2. Controller
    BY <2>1, Undisturbed DEF DebugWrite, Writing
  <2>3. CASE stateReg = "clearMem"
    <3>1. ClearMem  BY <2>2, <2>3, ActionOfState
    <3>2. nodeIdx \in 0 .. NHid - 1
      BY <1>1, <2>3 DEF SysInv, IInv, AddressesFollow, NodeFollows
    <3>3. Left = NHid - nodeIdx + 1  BY <2>3 DEF Left
    <3>4. CASE MoreToClear
      <4>1. stateReg' = "clearMem" /\ nodeIdx' = nodeIdx + 1
        BY <2>3, <3>1, <3>4 DEF ClearMem
      <4>2. Left' = NHid - nodeIdx' + 1  BY <4>1 DEF Left
      <4> QED  BY <1>1, <1>4, <3>2, <3>3, <4>1, <4>2
    <3>5. CASE ~MoreToClear
      <4>1. stateReg' = "clearOut" /\ nodeIdx = NHid - 1
        BY <1>1, <3>1, <3>2, <3>5 DEF ClearMem, MoreToClear
      <4>2. Left' = 1  BY <4>1 DEF Left
      <4> QED  BY <1>1, <1>4, <3>3, <4>1, <4>2
    <3> QED  BY <3>4, <3>5
  <2>4. CASE stateReg = "clearOut"
    <3>1. ClearOut  BY <2>2, <2>4, ActionOfState
    <3>2. Left = 1 /\ Left' = 0  BY <2>4, <3>1 DEF Left, ClearOut
    <3> QED  BY <1>4, <3>2
  <2>5. CASE stateReg = "idle"
    BY <1>4, <2>1, <2>5 DEF Left
  <2>6. CASE stateReg = "writeRes"
    <3>1. WriteRes  BY <2>2, <2>6, ActionOfState
    <3>2. Left = NHid + 2  BY <2>6 DEF Left
    <3>3. stateReg' = "clearMem" /\ nodeIdx' = 0  BY <3>1 DEF WriteRes
    <3>4. Left' = NHid - nodeIdx' + 1  BY <3>3 DEF Left
    <3> QED  BY <1>1, <1>4, <3>2, <3>3, <3>4
  <2>7. CASE stateReg \in FirstLayer \cup SecondLayer
    <3>1. stateReg' \in FirstLayer \cup SecondLayer \cup {"writeRes"}
      BY <2>2, <2>7, ActionOfState
      DEF FirstLayer, SecondLayer, NextNode, LoadPx, Mac0, AddB0, WriteNode, NextOutput,
          LoadNode, Mac1, AddB1
    <3>2. Left' = NHid + 2  BY <3>1 DEF Left, FirstLayer, SecondLayer
    <3> QED  BY <1>1, <1>2, <1>4, <3>2
  <2> QED  BY <2>1, <2>3, <2>4, <2>5, <2>6, <2>7 DEF Inferring, Computing, Finishing
<1> QED  BY <1>3, <1>4

\* A status read from a device that is not idle does not say so.
LEMMA StatusOfNext ==
  ASSUME SysInv', Left' > 0, waiting' = TRUE, Asks(STATUS)'
  PROVE  Loaded' # IdleStatus
<1>1. stateReg' \in States /\ stateReg' # "idle"
  BY DEF SysInv, IInv, TypeOK, IndicesTyped, Left
<1>2. Loaded' = StatusCode[stateReg']
  BY DEF Loaded, SlaveData, Asks, Reading, STATUS, RESULT, MEM_READ
<1> QED  BY <1>1, <1>2, StateNames DEF StatusCode, IdleStatus

LEMMA InitTimely == SysInit => Timely
  BY DEF SysInit, Timely

LEMMA StepTimely ==
  ASSUME MaxGap <= NHid
  PROVE  SysInv /\ Computed /\ Timely /\ SysInv' /\ Computed' /\ [SysNext]_sysVars => Timely'
<1> SUFFICES ASSUME SysInv, Computed, Timely, SysInv', Computed', [SysNext]_sysVars,
                    pc' \in Inside
             PROVE  Timely'
  BY DEF Timely, Inside
<1>1. NHid \in Nat /\ MaxGap \in Nat /\ gap \in 0 .. MaxGap
  BY Layout, PaceTyped DEF SysInv, DriverTyped
<1>2. CASE SysNext /\ LoadPixel
  <2>1. pc' = "poll" /\ gap' = 0 /\ stateReg' = "infLoad"
    BY <1>2, StepsInside DEF LoadPixel, Inside
  <2>2. Left' = NHid + 2  BY <2>1 DEF Left
  <2> QED  BY <1>1, <2>1, <2>2 DEF Timely
<1>3. CASE SysNext /\ ~LoadPixel
  <2>1. /\ pc \in Inside /\ net' = net /\ img' = img
        /\ Pause \/ PollStatus \/ ReadResult \/ KeepResult
        /\ \E m \in Commands : Tick(m)
    BY <1>3, StepsInside
  <2>2. /\ Left \in Int /\ Left' \in Int /\ Left' >= Left - 1
        /\ pc = "poll" /\ waiting => Left' = NHid + 2
    BY <2>1, LeftSteps
  <2>3. Answer' = Answer  BY <2>1 DEF Answer
  <2>4. CASE Pause
    <3>1. pc' = pc /\ gap' = gap + 1 /\ result' = result /\ ~waiting' /\ loaded' = Loaded
      BY <2>4, NoIssueIsTick DEF Pause
    <3>2. Loaded' = Loaded  BY <3>1 DEF Loaded
    <3>3. Left + gap >= NHid + 2 => Left' + gap' >= NHid + 2
      <4>1. gap \in Int /\ gap + 1 \in Int /\ NHid + 2 \in Int  BY <1>1
      <4>2. \A a, b, g, n \in Int : b >= a - 1 /\ a + g >= n => b + (g + 1) >= n
        OBVIOUS
      <4>3. Left + gap >= NHid + 2 => Left' + (gap + 1) >= NHid + 2
        BY <2>2, <4>1, <4>2
      <4> QED  BY <3>1, <4>3
    <3> QED  BY <2>3, <3>1, <3>2, <3>3 DEF Timely
  <2>5. CASE PollStatus
    <3>1. pc = "poll" /\ pc' = "branch" /\ waiting' = TRUE /\ Asks(STATUS)'
      BY <2>5, LoadIsTick DEF PollStatus, Offsets
    <3>2. Left' > 0  BY <1>1, <2>2, <3>1 DEF Timely
    <3>3. Loaded' # IdleStatus
      BY <3>1, <3>2, StatusOfNext
    <3> QED  BY <3>1, <3>3 DEF Timely
  <2>6. CASE ReadResult
    <3>1. pc' = "keep" /\ waiting' = TRUE /\ gap' = 0 /\ Asks(RESULT)'
      BY <2>6, LoadIsTick DEF ReadResult, Offsets
    <3>2. Loaded' = outputReg'
      BY <3>1 DEF Loaded, SlaveData, Asks, Reading, STATUS, RESULT, MEM_READ
    <3>3. CASE stateReg' \in Finishing
      BY <3>1, <3>2, <3>3 DEF Computed, Progress, Stored, Inside, Answer, Timely
    <3>4. CASE stateReg' \notin Finishing
      <4>1. Left' = NHid + 2  BY <3>4 DEF Left, Finishing
      <4> QED  BY <1>1, <3>1, <4>1 DEF Timely
    <3> QED  BY <3>3, <3>4
  <2>7. CASE KeepResult
    <3>1. /\ pc = "keep" /\ pc' = "branch" /\ waiting' = TRUE /\ Asks(STATUS)'
          /\ result' = Loaded
      BY <2>7, LoadIsTick DEF KeepResult, Offsets
    <3>2. CASE Loaded = Answer
      BY <2>3, <3>1, <3>2 DEF Timely
    <3>3. CASE Loaded # Answer
      <4>1. Left' > 0  BY <1>1, <2>2, <3>1, <3>3 DEF Timely
      <4>2. Loaded' # IdleStatus
        BY <3>1, <4>1, StatusOfNext
      <4> QED  BY <3>1, <4>2 DEF Timely
    <3> QED  BY <3>2, <3>3
  <2> QED  BY <2>1, <2>4, <2>5, <2>6, <2>7
<1>4. CASE UNCHANGED sysVars
  BY <1>4 DEF sysVars, driverVars, vars, fsmVars, readRegs, macRegs, Timely, Left, Answer,
     Loaded, SlaveData, Reading
<1> QED  BY <1>2, <1>3, <1>4

\* What the program and the device hold together, when a pause is no longer
\* than the clearing of the hidden nodes.
FullInv == SysInv /\ Computed /\ Timely

LEMMA FullInvariance ==
  ASSUME BlackCorner, MaxGap <= NHid
  PROVE  SysSpec => []FullInv
<1>1. SysInit => FullInv
  BY InitSysInv, InitComputed, InitTimely DEF FullInv
<1>2. FullInv /\ [SysNext]_sysVars => FullInv'
  BY StepSysInv, StepComputed, StepTimely DEF FullInv
<1> QED  BY <1>1, <1>2, PTL DEF SysSpec

-----------------------------------------------------------------------------
(***************************************************************************)
(* The program and the device implement InferenceService.                  *)
(***************************************************************************)
LEMMA ServiceInit == SysInit => Built!Init
  BY DEF SysInit, Built!Init

LEMMA ServiceStep == FullInv /\ [SysNext]_sysVars => [Built!Next]_(Built!svars)
<1> SUFFICES ASSUME FullInv, [SysNext]_sysVars PROVE [Built!Next]_(Built!svars)
  OBVIOUS
<1> USE DEF Built!svars
<1>1. net \in Networks /\ img \in Images /\ None \notin Networks \cup Images
  BY DriverAssumption DEF FullInv, SysInv, DriverTyped
<1>2. CASE Pause \/ Halted \/ UNCHANGED sysVars
  BY <1>2 DEF Pause, Halted, sysVars, driverVars
<1>3. CASE FillStart
  BY <1>3 DEF FillStart
<1>4. CASE FillParam
  <2>1. CASE i = Ref!ParamCount - 1
    BY <1>1, <1>4, <2>1 DEF FillParam, Built!Next, Built!Load
  <2>2. CASE i # Ref!ParamCount - 1
    BY <1>4, <2>2 DEF FillParam
  <2> QED  BY <2>1, <2>2
<1>5. CASE CheckSet \/ CheckRead1 \/ CheckRead2 \/ CheckNext \/ CheckEnd \/ Return
  BY <1>5 DEF CheckSet, CheckRead1, CheckRead2, CheckNext, CheckEnd, Return
<1>6. CASE LoadImg
  BY <1>1, <1>6 DEF LoadImg, Built!Next, Built!Submit
<1>7. CASE LoadPixel \/ PollStatus \/ ReadResult \/ KeepResult
  BY <1>7 DEF LoadPixel, PollStatus, ReadResult, KeepResult
<1>8. CASE Compare
  <2>1. result = Ref!BuiltAnswer(net, img)
    BY <1>8 DEF Compare, FullInv, Timely, Answer
  <2> QED  BY <1>1, <1>8, <2>1 DEF Compare, Built!Next, Built!Report
<1>9. CASE Refill
  BY <1>1, <1>9 DEF Refill, Built!Next, Built!Withdraw
<1> QED  BY <1>2, <1>3, <1>4, <1>5, <1>6, <1>7, <1>8, <1>9 DEF SysNext

\* The verdict the program reports on an image is the class the reference gives
\* that image under the network loaded last, whatever networks and images are
\* loaded in whatever order: no stale answer is kept by the polling loop of
\* accelerator_main.c, nothing of one inference is left for the next.
THEOREM ServesTheReference ==
  ASSUME BlackCorner, MaxGap <= NHid
  PROVE  SysSpec => ServesAsBuilt
<1>1. SysInit => Built!Init
  BY ServiceInit
<1>2. FullInv /\ [SysNext]_sysVars => [Built!Next]_(Built!svars)
  BY ServiceStep
<1>3. SysSpec => []FullInv
  BY FullInvariance
<1> QED  BY <1>1, <1>2, <1>3, PTL DEF SysSpec, ServesAsBuilt, Built!Spec

=============================================================================
