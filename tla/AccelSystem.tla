------------------------------ MODULE AccelSystem ------------------------------
(***************************************************************************)
(* The accelerator under the program of accelerator_main.c: the processor  *)
(* loads a network, checks it back through the debug port, and then for    *)
(* one image after the other loads it, polls the status until the device   *)
(* is idle and keeps the last answer it read.                              *)
(*                                                                         *)
(* The memory stage of the pipeline (patmos/Memory.scala) issues a command *)
(* for one cycle and takes no further step until the device answers it;    *)
(* between two commands it executes other instructions for up to MaxGap    *)
(* cycles.                                                                 *)
(***************************************************************************)
EXTENDS Accelerator, Sequences

CONSTANTS
  Networks,    \* the networks the program may load
  Images,      \* the images it may submit
  None,
  CheckAddrs,  \* the addresses loadNetworkCheck reads back, a sequence
  Rounds,      \* images submitted and networks reloaded (bound of the model)
  MaxGap       \* cycles the program spends between two commands

VARIABLES
  pc,          \* the next command of the program, or where it stands
  i,           \* its loop index
  gap,         \* cycles since the last command was answered
  waiting,     \* mayStallReg: a command has been issued and not answered
  loaded,      \* the word the last load returned
  adjacent,    \* the second debug read was issued right after the first
  net, img,    \* the network and the image being used
  result,      \* the variable result of main
  verdict,     \* the class main reports
  round

driverVars == <<pc, i, gap, waiting, loaded, adjacent, net, img, result, verdict, round>>
sysVars    == <<vars, driverVars>>

Ref == INSTANCE NNReference

\* The command words 0 and 1 and the checked addresses are words of the bus.
ASSUME DriverAssumption ==
  /\ Half > 1
  /\ Networks \subseteq [0 .. Ref!ParamCount - 1 -> Word]
  /\ Images \subseteq [0 .. NPix - 1 -> Word]
  /\ None \notin Networks \cup Images
  /\ MaxGap \in Nat /\ Rounds \in Nat
  /\ CheckAddrs \in
       Seq((WeightAddrZero .. WeightAddrZero + Ref!ParamCount - 1) \cap Word)

\* The value of the last load, as soon as the device drives it.
Loaded   == IF waiting THEN SlaveData ELSE loaded
CanIssue == ~waiting \/ Answered

\* enable: a command goes out for one cycle and the pipeline may stall on it.
Issue(m) ==
  /\ CanIssue
  /\ Tick(m)
  /\ waiting' = TRUE /\ loaded' = Loaded /\ gap' = 0

\* A cycle of other instructions.
NoIssue ==
  /\ CanIssue
  /\ \E d \in BusData : Tick(NoCommand(d))
  /\ waiting' = FALSE /\ loaded' = Loaded

Store(a, d) == Issue(Write(a, d))
Load(a)     == \E d \in BusData : Issue(Read(a, d))

Pause ==
  /\ gap < MaxGap
  /\ pc # "done"
  /\ NoIssue
  /\ gap' = gap + 1
  /\ UNCHANGED <<pc, i, adjacent, net, img, result, verdict, round>>

-----------------------------------------------------------------------------
(***************************************************************************)
(* fillNeuralNetwork: the command 0, then every parameter in the order     *)
(* weights_1, weights_2, biases_1, biases_2.                               *)
(***************************************************************************)
FillStart ==
  /\ pc = "fill"
  /\ Store(INPUT, 0)
  /\ pc' = "params" /\ i' = 0
  /\ UNCHANGED <<adjacent, net, img, result, verdict, round>>

FillParam ==
  /\ pc = "params"
  /\ Store(INPUT, net[i])
  /\ IF i = Ref!ParamCount - 1
       THEN pc' = "check" /\ i' = 1
       ELSE pc' = "params" /\ i' = i + 1
  /\ UNCHANGED <<adjacent, net, img, result, verdict, round>>

(***************************************************************************)
(* loadNetworkCheck: readFromMem for each address, which sets the address  *)
(* and reads the debug port twice, keeping the second word.                *)
(***************************************************************************)
CheckSet ==
  /\ pc = "check" /\ i <= Len(CheckAddrs)
  /\ Store(SET_ADDR, CheckAddrs[i])
  /\ pc' = "read1"
  /\ UNCHANGED <<i, adjacent, net, img, result, verdict, round>>

CheckRead1 ==
  /\ pc = "read1"
  /\ Load(MEM_READ)
  /\ pc' = "read2"
  /\ UNCHANGED <<i, adjacent, net, img, result, verdict, round>>

CheckRead2 ==
  /\ pc = "read2"
  /\ Load(MEM_READ)
  /\ adjacent' = (gap = 0)
  /\ pc' = "checked"
  /\ UNCHANGED <<i, net, img, result, verdict, round>>

CheckNext ==
  /\ pc = "checked"
  /\ NoIssue /\ gap' = 0
  /\ pc' = "check" /\ i' = i + 1
  /\ UNCHANGED <<adjacent, net, img, result, verdict, round>>

CheckEnd ==
  /\ pc = "check" /\ i > Len(CheckAddrs)
  /\ NoIssue /\ gap' = 0
  /\ pc' = "ready"
  /\ UNCHANGED <<i, adjacent, net, img, result, verdict, round>>

(***************************************************************************)
(* main: loadImg, and the polling loop on the status.                      *)
(***************************************************************************)
LoadImg ==
  /\ pc = "ready" /\ round < Rounds
  /\ Store(INPUT, 1)
  /\ img' \in Images
  /\ round' = round + 1
  /\ pc' = "pixels" /\ i' = 0
  /\ UNCHANGED <<adjacent, net, result, verdict>>

LoadPixel ==
  /\ pc = "pixels"
  /\ Store(INPUT, img[i])
  /\ IF i = NPix - 1
       THEN pc' = "poll" /\ i' = 0
       ELSE pc' = "pixels" /\ i' = i + 1
  /\ UNCHANGED <<adjacent, net, img, result, verdict, round>>

PollStatus ==
  /\ pc = "poll"
  /\ Load(STATUS)
  /\ pc' = "branch"
  /\ UNCHANGED <<i, adjacent, net, img, result, verdict, round>>

\* Mutant: the program polls for another state of the device.
PollsForClearing == 14

\* The literal the program compares the status with.
IdleStatus == 2

\* The body of the loop: read the result, and keep it when it arrives.
ReadResult ==
  /\ pc = "branch" /\ Loaded # IdleStatus
  /\ Load(RESULT)
  /\ pc' = "keep"
  /\ UNCHANGED <<i, adjacent, net, img, result, verdict, round>>

KeepResult ==
  /\ pc = "keep"
  /\ result' = Loaded
  /\ Load(STATUS)
  /\ pc' = "branch"
  /\ UNCHANGED <<i, adjacent, net, img, verdict, round>>

\* The loop is left: the result is compared with the label and reported.
Compare ==
  /\ pc = "branch" /\ Loaded = IdleStatus
  /\ NoIssue /\ gap' = 0
  /\ verdict' = result
  /\ pc' = "ready"
  /\ UNCHANGED <<i, adjacent, net, img, result, round>>

\* fillNeuralNetwork again, with any network.
Refill ==
  /\ pc = "ready" /\ round < Rounds
  /\ NoIssue /\ gap' = 0
  /\ net' \in Networks
  /\ round' = round + 1
  /\ pc' = "fill"
  /\ UNCHANGED <<i, adjacent, img, result, verdict>>

Return ==
  /\ pc = "ready" /\ round = Rounds
  /\ NoIssue /\ gap' = 0
  /\ pc' = "done"
  /\ UNCHANGED <<i, adjacent, net, img, result, verdict, round>>

\* The clock goes on after main has returned.
Halted ==
  /\ pc = "done"
  /\ \E d \in BusData : Tick(NoCommand(d))
  /\ UNCHANGED driverVars

-----------------------------------------------------------------------------
NoResult == NOut    \* result is not initialised: no label

SysInit ==
  /\ Init
  /\ pc = "fill" /\ i = 0 /\ gap = 0
  /\ waiting = FALSE /\ loaded = 0 /\ adjacent = FALSE
  /\ net \in Networks /\ img \in Images
  /\ result = NoResult /\ verdict = None
  /\ round = 0

SysNext ==
  \/ Pause \/ Halted
  \/ FillStart \/ FillParam
  \/ CheckSet \/ CheckRead1 \/ CheckRead2 \/ CheckNext \/ CheckEnd
  \/ LoadImg \/ LoadPixel
  \/ PollStatus \/ ReadResult \/ KeepResult \/ Compare
  \/ Refill \/ Return

\* The clock does not stop.
SysSpec == SysInit /\ [][SysNext]_sysVars /\ WF_sysVars(SysNext)

-----------------------------------------------------------------------------
(***************************************************************************)
(* Properties.                                                             *)
(***************************************************************************)
\* While a layer accumulates, the two operands that meet are those of one
\* product of the reference, although addresses set in one state arrive in the
\* next but one and indices move on in between: a pixel and its weight for
\* that node (loadpx and mac0; pixel 0 of node 0 is left out, its weight may be
\* overwritten), a hidden node and its weight for that output (loadNode, mac1).
OperandsMatch ==
  /\ stateReg = "mac0" /\ MorePixels /\ nodeIdx < NHid =>
       LET p == readAddrP - 1
       IN  /\ pReg = img[p]
           /\ p # 0 \/ nodeIdx # 0 => rdData = Ref!Weight1(net, p, nodeIdx)
  /\ stateReg = "mac1" =>
       /\ pReg = Ref!Hidden(net, img)[nodeIdx - 1]
       /\ rdData = Ref!Weight2(net, nodeIdx - 1, outputIdx)

\* The core never stalls for good: a command that is on the bus is answered
\* in the cycle the device sees it.  The device answers no write while it is
\* busy, and the memory stage does not repeat a command: an unanswered one
\* would leave the pipeline without a step for ever.
NeverHung == waiting => Answered

\* The word readFromMem returns is the parameter loaded at that address,
\* when its two reads leave the pipeline in adjacent cycles.
CheckReads ==
  pc = "checked" /\ waiting /\ adjacent =>
    SlaveData = net[CheckAddrs[i] - WeightAddrZero]

\* The program reaches its end.
Returns == <>(pc = "done")

\* The verdicts are those of a service that classifies the submitted image
\* by the loaded network: no stale answer is reported, nothing of one
\* inference leaks into the next, a reload takes effect.
Built ==
  INSTANCE InferenceService WITH
    network  <- IF pc \in {"fill", "params"} THEN None ELSE net,
    image    <- IF pc \in {"pixels", "poll", "branch", "keep"} THEN img ELSE None,
    Classify <- Ref!BuiltAnswer

ServesAsBuilt == Built!Spec

-----------------------------------------------------------------------------
(***************************************************************************)
(* What the comments of the code say and the code does not do.             *)
(***************************************************************************)

\* "adding bias to output nodes": the word added to an output is its bias.
BiasAdded == stateReg = "addb1" => rdData = Ref!Bias2(net, outputIdx)

=============================================================================
