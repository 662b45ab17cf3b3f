----------------------------- MODULE MCAccelSystem -----------------------------
(***************************************************************************)
(* Small networks and images for AccelSystem: three pixels and two hidden  *)
(* nodes, under words of seven bits, so that the sums wrap around.         *)
(***************************************************************************)
EXTENDS AccelSystem

\* A network of spread-out weights, from a multiplier and an offset.
Spread(mul, off) == [k \in 0 .. Ref!ParamCount - 1 |-> ((k * mul + off) % 15) - 7]

MCNetworks == {Spread(4, 3), Spread(7, 5)}

\* Images of MNIST have a black corner: pixel 0 is 0.
Image(a, b, c)   == [p \in 0 .. 2 |-> <<a, b, c>>[p + 1]]
MCDarkCorner     == {Image(0, 5, 60), Image(0, 9, 2)}
MCAnyCorner      == {Image(3, 5, 60), Image(8, 0, 1)}

MCCheckAddrs == <<WeightAddrZero, BiasAddrZero, NodeAddrZero>>

\* Two words for the data lines, one of them a command word of the device.
MCBusData == {0, -13}
MCPowerUp == {21}

MCEither   == BOOLEAN
MCNoWrites == {FALSE}

=============================================================================
