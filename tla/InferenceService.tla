--------------------------- MODULE InferenceService ---------------------------
(***************************************************************************)
(* What the program of accelerator_main.c gets from the accelerator: it    *)
(* loads networks, submits images, and the verdict it reports on an image  *)
(* is the classification of that image, by the network loaded last.        *)
(***************************************************************************)
CONSTANTS
  Networks, Images,
  None,                 \* no network, or no image
  Classify(_, _)        \* the class of an image under a network

VARIABLES
  network,   \* the network loaded, if any
  image,     \* the image submitted and not yet reported on, if any
  verdict    \* the last class reported

svars == <<network, image, verdict>>

Init == network = None /\ image = None /\ verdict = None

\* A network is taken out of service, then one is put into service.
Withdraw == image = None /\ network # None /\ network' = None /\ UNCHANGED <<image, verdict>>
Load     == image = None /\ network = None
              /\ network' \in Networks /\ UNCHANGED <<image, verdict>>

Submit == /\ network # None /\ image = None
          /\ image' \in Images
          /\ UNCHANGED <<network, verdict>>

Report == /\ image # None
          /\ image' = None
          /\ verdict' = Classify(network, image)
          /\ UNCHANGED network

Next == Withdraw \/ Load \/ Submit \/ Report
Spec == Init /\ [][Next]_svars

=============================================================================
