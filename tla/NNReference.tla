------------------------------ MODULE NNReference ------------------------------
(***************************************************************************)
(* What the network of python/gen_c_arrs.py computes: two dense layers,    *)
(* matmul(X, W) + b, the first under a relu, and the first index of the    *)
(* largest output.  A network is the sequence of words the C arrays hold:  *)
(* weights_1, weights_2 (row-major, one row per input, as save_weights     *)
(* lays them out), biases_1, biases_2.  Sums are exact integers; the       *)
(* machine word is taken once, at the end.                                 *)
(***************************************************************************)
EXTENDS Integers

CONSTANTS NPix, NHid, NOut, Half

ToWord(x) == ((x + Half) % (2 * Half)) - Half

ParamCount == NPix * NHid + NHid * NOut + NHid + NOut

Weight1(net, p, n) == net[p * NHid + n]
Weight2(net, n, o) == net[NPix * NHid + n * NOut + o]
Bias1(net, n)      == net[NPix * NHid + NHid * NOut + n]
Bias2(net, o)      == net[NPix * NHid + NHid * NOut + NHid + o]

\* The sum of x[k] * w[k] for k below n.
Dot(x, w, n) ==
  LET sum[k \in 0 .. n] == IF k = 0 THEN 0 ELSE sum[k - 1] + x[k - 1] * w[k - 1]
  IN  sum[n]

Relu(x) == IF x > 0 THEN x ELSE 0

Hidden(net, img) ==
  [n \in 0 .. NHid - 1 |->
     Relu(ToWord(Dot(img, [p \in 0 .. NPix - 1 |-> Weight1(net, p, n)], NPix)
                 + Bias1(net, n)))]

\* The output layer over the biases b.
Logits(net, img, b) ==
  LET hidden == Hidden(net, img)
  IN  [o \in 0 .. NOut - 1 |->
         ToWord(Dot(hidden, [n \in 0 .. NHid - 1 |-> Weight2(net, n, o)], NHid)
                + b[o])]

\* The index of the first maximum.
FirstMax(v) ==
  CHOOSE i \in DOMAIN v : \A j \in DOMAIN v : v[j] <= v[i] /\ (v[j] = v[i] => i <= j)

\* The network as trained.
TrainedBias(net)        == [o \in 0 .. NOut - 1 |-> Bias2(net, o)]
TrainedAnswer(net, img) == FirstMax(Logits(net, img, TrainedBias(net)))

\* The network as the device evaluates it: node 0 of the hidden layer is
\* stored over the bias of the last output before that bias is read.
BuiltBias(net, img)   == [TrainedBias(net) EXCEPT ![NOut - 1] = Hidden(net, img)[0]]
BuiltAnswer(net, img) == FirstMax(Logits(net, img, BuiltBias(net, img)))

=============================================================================
