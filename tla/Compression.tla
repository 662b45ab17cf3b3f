------------------------------ MODULE Compression ------------------------------
(***************************************************************************)
(* The compression of a download: the LZSS encoder of the host, which      *)
(* finds the longest match in search trees over a ring buffer, and the     *)
(* decoder of the boot loader, which rebuilds the ring buffer.  The sizes  *)
(* are parameters: 8, 10, 6 and 2 in the code.                             *)
(***************************************************************************)
EXTENDS Integers, Sequences, SequencesExt

CONSTANTS
  ByteBits, IndexBits, LengthBits, Threshold,
  Symbols,      \* bytes of the text
  Blank,        \* what the buffers start with
  Garbage       \* what the rest of the decoder's buffer holds at first

N    == 2^IndexBits
F    == 2^LengthBits + Threshold
NIL  == N
Byte == 2^ByteBits

VARIABLES
  enc,          \* the encoder, see Encoder
  closed,       \* finish has been called
  line,         \* bytes under way
  dec,          \* the decoder, see decompress_init
  text,         \* history: bytes given to the encoder and not yet received
  got           \* history: the last byte sent and received

compressionVars == <<enc, closed, line, dec, text, got>>

\* Children and parents of the nodes, a node being a position; roots follow.
\* units are the codes of a group that is not full: literals or pairs.
Encoder ==
  [textBuf |-> [i \in 0..N + F - 2 |-> IF i < N - F THEN Blank ELSE 0],
   lchild |-> [i \in 0..N |-> 0], rchild |-> [i \in 0..N + Byte |-> IF i > N THEN NIL ELSE 0],
   parent |-> [i \in 0..N |-> NIL],
   matchPosition |-> 0, matchLength |-> 0, lastMatchLength |-> 0, writeCount |-> 0,
   currLen |-> 0, currPos |-> N - F, killPos |-> 0, units |-> <<>>]

decompress_init ==
  [text_buf |-> [i \in 0..N - 1 |-> IF i < N - F THEN Blank ELSE Garbage],
   write_pos |-> N - F, read_pos |-> N - F, flags |-> 0]

CompressionInit ==
  /\ enc = Encoder /\ closed = FALSE
  /\ line = <<>> /\ dec = decompress_init
  /\ text = <<>> /\ got = <<Blank, Blank>>

-----------------------------------------------------------------------------
(* The search trees. *)

\* Where the strings at r and p differ first, or F.
Common(e, r, p) ==
  LET differ == {i \in 1..F - 1 : e.textBuf[r + i] # e.textBuf[p + i]}
  IN  IF differ = {} THEN F ELSE CHOOSE i \in differ : \A k \in differ : i <= k

\* r takes the place of p.
Replace(e, r, p) ==
  LET t == [e EXCEPT
        !.parent = [@ EXCEPT ![r] = e.parent[p], ![e.lchild[p]] = r, ![e.rchild[p]] = r],
        !.lchild[r] = e.lchild[p], !.rchild[r] = e.rchild[p]]
      q == t.parent[p]
  IN  IF t.rchild[q] = p THEN [t EXCEPT !.rchild[q] = r, !.parent[p] = NIL]
      ELSE [t EXCEPT !.lchild[q] = r, !.parent[p] = NIL]

\* From p to its right child or, for a string that is less, to its left one.
RECURSIVE Descend(_, _, _, _)
Descend(e, r, p, right) ==
  LET child == IF right THEN e.rchild[p] ELSE e.lchild[p]
      i     == Common(e, r, child)
      found == IF i > e.matchLength THEN [e EXCEPT !.matchPosition = child, !.matchLength = i] ELSE e
  IN  IF child = NIL
      THEN IF right THEN [e EXCEPT !.rchild[p] = r, !.parent[r] = p]
           ELSE [e EXCEPT !.lchild[p] = r, !.parent[r] = p]
      ELSE IF i = F THEN Replace(found, r, child)
      ELSE Descend(found, r, child, e.textBuf[r + i] > e.textBuf[child + i])

insertNode(e, r) ==
  Descend([e EXCEPT !.rchild[r] = NIL, !.lchild[r] = NIL, !.matchLength = 0],
          r, N + 1 + e.textBuf[r], TRUE)

\* The rightmost node below q.
RECURSIVE Rightmost(_, _)
Rightmost(e, q) == IF e.rchild[q] = NIL THEN q ELSE Rightmost(e, e.rchild[q])

\* The node q that takes the place of p, with the children it gets.
Successor(e, p) ==
  LET l == e.lchild[p]
      q == Rightmost(e, l)
      lifted == IF q = l THEN e
                ELSE [e EXCEPT !.rchild[e.parent[q]] = e.lchild[q],
                               !.parent = [@ EXCEPT ![e.lchild[q]] = e.parent[q], ![l] = q],
                               !.lchild[q] = l]
  IN  CASE e.rchild[p] = NIL -> [tree |-> e, node |-> l]
        [] e.rchild[p] # NIL /\ l = NIL -> [tree |-> e, node |-> e.rchild[p]]
        [] OTHER -> [tree |-> [lifted EXCEPT !.rchild[q] = e.rchild[p], !.parent[e.rchild[p]] = q],
                     node |-> q]

deleteNode(e, p) ==
  LET s == Successor(e, p)
      t == [s.tree EXCEPT !.parent[s.node] = s.tree.parent[p]]
      q == t.parent[p]
  IN  IF e.parent[p] = NIL THEN e
      ELSE IF t.rchild[q] = p THEN [t EXCEPT !.rchild[q] = s.node, !.parent[p] = NIL]
      ELSE [t EXCEPT !.lchild[q] = s.node, !.parent[p] = NIL]

-----------------------------------------------------------------------------
(* The encoder. *)

Literal(b)   == <<b>>
Pair(pos, n) == << pos % Byte, (pos \div Byte) * 2^LengthBits + (n - (Threshold + 1)) >>

\* Mutant: a match may go beyond the end of the text.
encodeWhole(e) ==
  LET n == e.matchLength
  IN  IF e.currLen = 0 THEN e
      ELSE IF n <= Threshold
      THEN [e EXCEPT !.matchLength = 1, !.lastMatchLength = 1,
                     !.units = Append(@, Literal(e.textBuf[e.currPos]))]
      ELSE [e EXCEPT !.matchLength = n, !.lastMatchLength = n,
                     !.units = Append(@, Pair(e.matchPosition, n))]

encode(e) ==
  LET n == IF e.matchLength > e.currLen THEN e.currLen ELSE e.matchLength
  IN  IF e.currLen = 0 THEN e
      ELSE IF n <= Threshold
      THEN [e EXCEPT !.matchLength = 1, !.lastMatchLength = 1,
                     !.units = Append(@, Literal(e.textBuf[e.currPos]))]
      ELSE [e EXCEPT !.matchLength = n, !.lastMatchLength = n,
                     !.units = Append(@, Pair(e.matchPosition, n))]

\* Flags, one for each literal, and the units.
Group(units) ==
  << FoldLeft(LAMBDA sum, u : sum + IF Len(units[u]) = 1 THEN 2^(u - 1) ELSE 0,
              0, [u \in 1..Len(units) |-> u]) >> \o FlattenSeq(units)

\* A full group is sent, and at the end any that is not empty.
Sends(e, all) ==
  IF Len(e.units) = ByteBits \/ (all /\ e.units # <<>>)
  THEN enc' = [e EXCEPT !.units = <<>>] /\ line' = line \o Group(e.units)
  ELSE enc' = e /\ UNCHANGED line

\* The bytes up to F, and the strings with blanks in front of them.
Filled(b) ==
  LET e == [enc EXCEPT !.textBuf[enc.currPos + enc.currLen] = b, !.currLen = @ + 1]
  IN  IF e.currLen < F THEN e
      ELSE encode(FoldLeft(insertNode, e, [i \in 1..F + 1 |-> IF i > F THEN e.currPos ELSE e.currPos - i]))

\* What was deleted makes room for a byte of the lookahead, which is kept
\* twice near the start of the ring.
Shifted(b) ==
  LET d == deleteNode(enc, enc.killPos)
      k == d.killPos
      e == [d EXCEPT !.textBuf = [i \in DOMAIN @ |-> IF i = k \/ (k < F - 1 /\ i = k + N) THEN b ELSE @[i]],
                     !.killPos = (k + 1) % N, !.currPos = (@ + 1) % N, !.writeCount = @ + 1]
      f == insertNode(e, e.currPos)
  IN  IF f.writeCount = f.lastMatchLength THEN [encode(f) EXCEPT !.writeCount = 0] ELSE f

\* The line is drained before the host goes on: they share nothing else.
Drained == line = <<>> /\ dec.read_pos = dec.write_pos

write(b) ==
  /\ ~closed /\ Drained
  /\ Sends(IF enc.currLen < F THEN Filled(b) ELSE Shifted(b), FALSE)
  /\ text' = Append(text, b)
  /\ UNCHANGED <<closed, dec, got>>

\* The positions of the last match leave the lookahead.
Passed(e) ==
  LET d == deleteNode(e, e.killPos)
      f == [d EXCEPT !.killPos = (@ + 1) % N, !.currPos = (@ + 1) % N, !.currLen = @ - 1]
  IN  IF f.currLen > 0 THEN insertNode(f, f.currPos) ELSE f

finish ==
  /\ Drained /\ (closed => enc.currLen > 0)
  /\ closed' = TRUE
  /\ LET passed == FoldLeft(LAMBDA e, i : Passed(e), enc,
                            [i \in 1..enc.lastMatchLength - enc.writeCount |-> i])
         e == [encode(passed) EXCEPT !.writeCount = 0]
     IN  Sends(e, e.currLen = 0)
  /\ UNCHANGED <<dec, text, got>>

-----------------------------------------------------------------------------
(* The decoder. *)

Put(d, c) == [d EXCEPT !.text_buf[d.write_pos] = c, !.write_pos = (@ + 1) % N]

\* The high bits of flags tell when a group has been used up.
Flagged(d) ==
  LET f == d.flags \div 2
  IN  IF (f \div Byte) % 2 = 0
      THEN [flags |-> Head(line) + (Byte - 1) * Byte, rest |-> Tail(line)]
      ELSE [flags |-> f, rest |-> line]

\* A literal, or the positions a pair stands for, from the first one on: a
\* match may go on into what it writes.
Decoded(d) ==
  LET in == Flagged(d)
      e  == [d EXCEPT !.flags = in.flags]
      i  == in.rest[1] + (in.rest[2] \div 2^LengthBits) * Byte
      j  == (in.rest[2] % 2^LengthBits) + Threshold
  IN  IF in.flags % 2 = 1
      THEN [dec |-> Put(e, Head(in.rest)), line |-> Tail(in.rest)]
      ELSE [dec |-> FoldLeft(LAMBDA f, k : Put(f, f.text_buf[k % N]), e, [m \in 1..j + 1 |-> i + m - 1]),
            line |-> Tail(Tail(in.rest))]

decompress_get_byte ==
  /\ text # <<>> /\ ~Drained
  /\ LET after == IF dec.read_pos = dec.write_pos THEN Decoded(dec) ELSE [dec |-> dec, line |-> line]
     IN  /\ dec' = [after.dec EXCEPT !.read_pos = (@ + 1) % N]
         /\ line' = after.line
         /\ got' = <<Head(text), after.dec.text_buf[dec.read_pos]>>
  /\ text' = Tail(text)
  /\ UNCHANGED <<enc, closed>>

CompressionNext ==
  \/ \E b \in Symbols : write(b)
  \/ finish
  \/ decompress_get_byte

CompressionSpec == CompressionInit /\ [][CompressionNext]_compressionVars

-----------------------------------------------------------------------------
(* Properties. *)

\* Every byte comes out as it went in; in the end there is none that did not
\* come out, and nothing left that would come out.
Lossless ==
  /\ got[1] = got[2]
  /\ text = <<>> => Drained
  /\ closed /\ enc.currLen = 0 /\ Drained => text = <<>>

=============================================================================
