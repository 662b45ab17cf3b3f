--------------------------- MODULE SoftwareInference ---------------------------
(***************************************************************************)
(* calculateNNCPU of neuralNetwork.h: the network computed by the program, *)
(* one call per image.  The arrays layer1 and layer2 are local and not     *)
(* initialised, so that a call accumulates onto whatever the stack holds,  *)
(* what an earlier call left there or anything else.  Sums are machine     *)
(* words after every addition; a product need not be cut by itself.        *)
(***************************************************************************)
EXTENDS NNReference

CONSTANTS
  Networks,   \* parameters, in the order of the C arrays
  Images,
  Stack,      \* words the uninitialised arrays may hold
  None

ASSUME NetworkAssumption ==
  /\ NPix \in Nat \ {0} /\ NHid \in Nat \ {0} /\ NOut \in Nat \ {0} /\ Half \in Nat \ {0}
  /\ Networks \subseteq [0 .. ParamCount - 1 -> Int]
  /\ Images \subseteq [0 .. NPix - 1 -> Int]
  /\ Stack \subseteq Int

VARIABLES
  net, img, answer,
  held          \* what layer1 and layer2 held when the call began

cvars == <<net, img, answer, held>>

\* A sum in an element of an array that holds start.
Accumulate(start, x, w, n) ==
  LET sum[k \in 0 .. n] == IF k = 0 THEN start ELSE ToWord(sum[k - 1] + x[k - 1] * w[k - 1])
  IN  sum[n]

\* weightIndex runs through each array once: node i owns the i-th block.
SumLayer1(w, x, layer1) ==
  [n \in 0 .. NHid - 1 |->
     Accumulate(layer1[n], x, [p \in 0 .. NPix - 1 |-> w[n * NPix + p]], NPix)]

Layer1(w, x, layer1) ==
  LET sum == SumLayer1(w, x, layer1)
      biased == [n \in 0 .. NHid - 1 |-> ToWord(sum[n] + Bias1(w, n))]
  IN  [n \in 0 .. NHid - 1 |-> IF biased[n] <= 0 THEN 0 ELSE biased[n]]

Layer2(w, x, layer1, layer2) ==
  LET hidden == Layer1(w, x, layer1)
      row(o) == [n \in 0 .. NHid - 1 |-> w[NPix * NHid + o * NHid + n]]
  IN  [o \in 0 .. NOut - 1 |->
         ToWord(Accumulate(layer2[o], hidden, row(o), NHid) + Bias2(w, o))]

\* Mutant: the last of equal outputs wins.
FindLastMaximum(v) ==
  LET best[k \in 0 .. NOut - 1] ==
        IF k = 0 THEN 0 ELSE IF v[k] >= v[best[k - 1]] THEN k ELSE best[k - 1]
  IN  best[NOut - 1]

\* resultnum is always the entry of result.
FindMaximum(v) ==
  LET best[k \in 0 .. NOut - 1] ==
        IF k = 0 THEN 0 ELSE IF v[k] > v[best[k - 1]] THEN k ELSE best[k - 1]
  IN  best[NOut - 1]

Init ==
  /\ net \in Networks /\ img \in Images
  /\ answer = None /\ held = None

\* The call for the next image.
CalculateNNCPU ==
  \E x \in Images, layer1 \in [0 .. NHid - 1 -> Stack], layer2 \in [0 .. NOut - 1 -> Stack] :
    /\ img' = x /\ held' = [layer1 |-> layer1, layer2 |-> layer2]
    /\ answer' = FindMaximum(Layer2(net, x, layer1, layer2))
    /\ UNCHANGED net

Next == CalculateNNCPU
Spec == Init /\ [][Next]_cvars

-----------------------------------------------------------------------------
\* The parameters in the layout of the exported arrays, a row of weights for
\* each input, of a network given with a row for each node and each output.
Exported(w) ==
  [k \in 0 .. ParamCount - 1 |->
     LET j == k - NPix * NHid
     IN  CASE j < 0                    -> w[(k % NHid) * NPix + k \div NHid]
           [] j \in 0 .. NHid * NOut - 1 -> w[NPix * NHid + (j % NOut) * NHid + j \div NOut]
           [] OTHER                    -> w[k]]

\* The parameters w with what the arrays of h hold added to the biases.
FromStack(w, h) ==
  [k \in 0 .. ParamCount - 1 |->
     LET j == k - NPix * NHid - NHid * NOut
     IN  CASE j < 0              -> w[k]
           [] j \in 0 .. NHid - 1 -> w[k] + h.layer1[j]
           [] OTHER              -> w[k] + h.layer2[j - NHid]]

\* What the loops of calculateNNCPU compute, ties between outputs and sums that
\* wrap around included: the network that has the weights of the arrays with a
\* row for each node, and as biases those of the arrays and, on top, what the
\* uninitialised arrays held.
RightFromStack == answer # None => answer = TrainedAnswer(Exported(FromStack(net, held)), img)

\* "Calculate neuron values" of the network in the arrays: the answer is that
\* of the parameters as gen_c_arrs.py exports them and the device reads them.
RightAsExported == answer # None => answer = TrainedAnswer(net, img)

=============================================================================
