------------------------- MODULE MCSoftwareInference -------------------------
(***************************************************************************)
(* Two pixels, two hidden nodes and two outputs; every assignment of two   *)
(* weights, so that outputs tie, relus cut off and sums wrap around; one   *)
(* bias for all, or another; and arrays that hold one thing or another.    *)
(***************************************************************************)
EXTENDS SoftwareInference

Weights    == NPix * NHid + NHid * NOut
MCNetworks == {w \in [0 .. ParamCount - 1 -> {-3, 2}] :
                 \A j, k \in Weights .. ParamCount - 1 : w[j] = w[k]}
MCImages   == {x \in [0 .. NPix - 1 -> {0, 3}] : x[0] = 3}

MCStack  == {0, 7}
MCZeroed == {0}

=============================================================================
