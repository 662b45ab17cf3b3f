--------------------------------- MODULE Stack ---------------------------------
(***************************************************************************)
(* What the stack cache promises: a stack of words that grows towards lower *)
(* addresses.  A program reserves and frees words at its top, and loads and *)
(* stores any word of it.  Where the words are kept, and when they move, is *)
(* not visible.  Nothing is promised once words of it have been lost.       *)
(***************************************************************************)
EXTENDS Integers

CONSTANTS
  Base,      \* the stack is at top .. Base - 1
  Vals       \* contents of a word

VARIABLES
  top,       \* address of the word on top
  words,     \* contents, a function on top .. Base - 1
  answer,    \* what the last load returned
  lost       \* the memory has refused words of the stack

svars == <<top, words, answer, lost>>

Init == /\ top = Base /\ DOMAIN words = Base .. (Base - 1)
        /\ answer \in Vals /\ lost = FALSE

\* The new words hold anything, the old ones are kept.
Reserve == /\ top' \in 0 .. top
           /\ DOMAIN words' = top' .. (Base - 1)
           /\ \A a \in top .. (Base - 1) : words'[a] = words[a]
           /\ UNCHANGED <<answer, lost>>

Free == /\ top' \in top .. Base
        /\ words' = [a \in top' .. (Base - 1) |-> words[a]]
        /\ UNCHANGED <<answer, lost>>

Store == /\ \E a \in top .. (Base - 1), v \in Vals : words' = [words EXCEPT ![a] = v]
         /\ UNCHANGED <<top, answer, lost>>

Load == /\ \E a \in top .. (Base - 1) : answer' = words[a]
        /\ UNCHANGED <<top, words, lost>>

Lose == lost' = TRUE

Next == \/ ~lost /\ (Reserve \/ Free \/ Store \/ Load)
        \/ Lose
Spec == Init /\ [][Next]_svars

=============================================================================
