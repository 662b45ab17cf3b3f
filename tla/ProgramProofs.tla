----------------------------- MODULE ProgramProofs -----------------------------
(***************************************************************************)
(* Theorems about the programs of the cores and what brings them there:    *)
(* about calculateNNCPU, for every size of the network, every width of the *)
(* machine word and every set of networks and images; about the boot       *)
(* loader, for every number of slaves; and about the serial line, for      *)
(* every divider, width of a byte and depth of the queues.                 *)
(***************************************************************************)
EXTENDS SoftwareInference, BootLoader, Uart, SequenceTheorems, WellFoundedInduction, TLAPS

-----------------------------------------------------------------------------
(***************************************************************************)
(* Induction on the natural numbers: a set that holds 0 and with every     *)
(* number the next holds all of them, for a least number outside would     *)
(* have a predecessor inside.                                              *)
(***************************************************************************)
LEMMA SetInduction ==
  ASSUME NEW T \in SUBSET Nat, 0 \in T, \A n \in T : n + 1 \in T
  PROVE  T = Nat
<1> DEFINE less == OpToRel(<, Nat)
<1>1. IsWellFoundedOn(less, Nat)
  BY NatLessThanWellFounded
<1>2. \A x, y \in Nat : y < x => <<y, x>> \in less
  BY DEF OpToRel
<1> HIDE DEF less
<1> SUFFICES ASSUME Nat \ T # {} PROVE FALSE
  OBVIOUS
<1>3. PICK x \in Nat \ T : \A y \in Nat \ T : <<y, x>> \notin less
  BY <1>1, WFMin
<1>4. x # 0 /\ x - 1 \in Nat /\ x - 1 < x
  BY <1>3
<1>5. (x - 1) + 1 \in T
  BY <1>2, <1>3, <1>4
<1> QED  BY <1>3, <1>5
-----------------------------------------------------------------------------
(***************************************************************************)
(* The sums of the loops and of the reference.                             *)
(***************************************************************************)
\* The function Dot is read from.
IsSum(f, x, w, n) ==
  f = [k \in 0 .. n |-> IF k = 0 THEN 0 ELSE f[k - 1] + x[k - 1] * w[k - 1]]

LEMMA DotIsSum ==
  ASSUME NEW x, NEW w, NEW n
  PROVE  Dot(x, w, n) = (CHOOSE f : IsSum(f, x, w, n))[n]
  BY DEF Dot, IsSum

LEMMA SumExists ==
  ASSUME NEW x, NEW w, NEW n \in Nat
  PROVE  \E f : IsSum(f, x, w, n)
<1> DEFINE T == {m \in Nat : \E f : IsSum(f, x, w, m)}
<1>1. 0 \in T
  <2>1. IsSum([k \in 0 .. 0 |-> 0], x, w, 0)  BY DEF IsSum
  <2> QED  BY <2>1
<1>2. ASSUME NEW m \in T PROVE m + 1 \in T
  <2>1. PICK f : IsSum(f, x, w, m)  OBVIOUS
  <2> DEFINE g == [k \in 0 .. m + 1 |-> IF k = m + 1 THEN f[m] + x[m] * w[m] ELSE f[k]]
  <2>2. ASSUME NEW k \in 0 .. m + 1
        PROVE  g[k] = IF k = 0 THEN 0 ELSE g[k - 1] + x[k - 1] * w[k - 1]
    BY <2>1 DEF IsSum
  <2>3. IsSum(g, x, w, m + 1)  BY <2>2 DEF IsSum
  <2> QED  BY <2>3
<1> HIDE DEF T
<1>3. T = Nat  BY <1>1, <1>2, SetInduction DEF T
<1> QED  BY <1>3 DEF T

LEMMA SumUnique ==
  ASSUME NEW x, NEW w, NEW n \in Nat, NEW m \in Nat, NEW f, NEW g,
         IsSum(f, x, w, n), IsSum(g, x, w, m), NEW j \in 0 .. n, j <= m
  PROVE  f[j] = g[j]
<1> DEFINE T == {k \in Nat : k <= n /\ k <= m => f[k] = g[k]}
<1>1. 0 \in T  BY DEF IsSum
<1>2. ASSUME NEW k \in T PROVE k + 1 \in T
  <2> SUFFICES ASSUME k + 1 <= n, k + 1 <= m PROVE f[k + 1] = g[k + 1]
    OBVIOUS
  <2>1. f[k] = g[k]  OBVIOUS
  <2> QED  BY <2>1 DEF IsSum
<1> HIDE DEF T
<1>3. T = Nat  BY <1>1, <1>2, SetInduction DEF T
<1> QED  BY <1>3 DEF T

\* What a sum is: nothing, and then one product more.
LEMMA DotSteps ==
  ASSUME NEW x, NEW w
  PROVE  /\ Dot(x, w, 0) = 0
         /\ \A n \in Nat : Dot(x, w, n + 1) = Dot(x, w, n) + x[n] * w[n]
<1> DEFINE S(n) == CHOOSE f : IsSum(f, x, w, n)
<1>1. ASSUME NEW n \in Nat
      PROVE  IsSum(S(n), x, w, n) /\ Dot(x, w, n) = S(n)[n]
  BY SumExists, DotIsSum
<1> HIDE DEF S
<1>2. Dot(x, w, 0) = 0
  BY <1>1 DEF IsSum
<1>3. ASSUME NEW n \in Nat
      PROVE  Dot(x, w, n + 1) = Dot(x, w, n) + x[n] * w[n]
  <2>1. IsSum(S(n), x, w, n) /\ Dot(x, w, n) = S(n)[n]
    BY <1>1
  <2>2. IsSum(S(n + 1), x, w, n + 1) /\ Dot(x, w, n + 1) = S(n + 1)[n + 1]
    BY <1>1
  <2>3. S(n + 1)[n] = S(n)[n]
    BY <2>1, <2>2, SumUnique
  <2>4. S(n + 1)[n + 1] = S(n + 1)[n] + x[n] * w[n]
    BY <2>2 DEF IsSum
  <2> QED  BY <2>1, <2>2, <2>3, <2>4
<1> QED  BY <1>2, <1>3

\* Sums of words are integers.
LEMMA DotIsInt ==
  ASSUME NEW n \in Nat, NEW x \in [0 .. n - 1 -> Int], NEW w \in [0 .. n - 1 -> Int],
         NEW m \in 0 .. n
  PROVE  Dot(x, w, m) \in Int
<1> DEFINE T == {k \in Nat : k <= n => Dot(x, w, k) \in Int}
<1>1. 0 \in T  BY DotSteps
<1>2. ASSUME NEW k \in T PROVE k + 1 \in T
  <2> SUFFICES ASSUME k + 1 <= n PROVE Dot(x, w, k + 1) \in Int
    OBVIOUS
  <2>1. Dot(x, w, k) \in Int /\ x[k] \in Int /\ w[k] \in Int  OBVIOUS
  <2>2. Dot(x, w, k + 1) = Dot(x, w, k) + x[k] * w[k]  BY DotSteps
  <2>3. x[k] * w[k] \in Int  BY <2>1
  <2> QED  BY <2>1, <2>2, <2>3
<1> HIDE DEF T
<1>3. T = Nat  BY <1>1, <1>2, SetInduction DEF T
<1> QED  BY <1>3 DEF T
-----------------------------------------------------------------------------
(***************************************************************************)
(* Words: a sum that is cut to a word after every addition is the exact    *)
(* sum, cut once.                                                          *)
(***************************************************************************)
LEMMA Remainders ==
  ASSUME NEW m \in Nat \ {0}, NEW x \in Int
  PROVE  /\ x \div m \in Int /\ x % m \in 0 .. m - 1
         /\ x = m * (x \div m) + (x % m)
  OBVIOUS

LEMMA MultiplesApart ==
  ASSUME NEW m \in Nat \ {0}, NEW a \in Int, NEW b \in Int, a < b
  PROVE  m * a + m <= m * b
<1>1. m * (a + 1) = m * a + m  OBVIOUS
<1>2. m * (a + 1) <= m * b  OBVIOUS
<1> QED  BY <1>1, <1>2

LEMMA RemainderUnique ==
  ASSUME NEW m \in Nat \ {0}, NEW q \in Int, NEW p \in Int,
         NEW r \in 0 .. m - 1, NEW s \in 0 .. m - 1, m * q + r = m * p + s
  PROVE  r = s
<1>1. ASSUME NEW a \in Int, NEW b \in Int, a < b PROVE m * a + m <= m * b
  BY <1>1, MultiplesApart
<1>2. m * p \in Int /\ m * q \in Int  OBVIOUS
<1>3. CASE q < p
  <2>1. m * q + m <= m * p  BY <1>1, <1>3
  <2> QED  BY <1>2, <2>1
<1>4. CASE p < q
  <2>1. m * p + m <= m * q  BY <1>1, <1>4
  <2> QED  BY <1>2, <2>1
<1>5. CASE p = q
  BY <1>2, <1>5
<1> QED  BY <1>3, <1>4, <1>5

LEMMA Distributes ==
  ASSUME NEW m \in Nat, NEW p \in Int, NEW q \in Int
  PROVE  m * (p + q) = m * p + m * q
  OBVIOUS

LEMMA WordAdd ==
  ASSUME NEW a \in Int, NEW b \in Int
  PROVE  ToWord(ToWord(a) + b) = ToWord(a + b)
<1> DEFINE m == 2 * Half
           x == a + Half
           y == (x % m) + b
           z == x + b
<1>1. m \in Nat \ {0} /\ x \in Int /\ Half \in Int
  BY NetworkAssumption
<1>2. x \div m \in Int /\ x % m \in Int /\ x = m * (x \div m) + (x % m)
  <2> HIDE DEF x, m
  <2> QED  BY <1>1, Remainders
<1>3. y \in Int /\ z \in Int /\ z = m * (x \div m) + y
  BY <1>1, <1>2
<1>4. y \div m \in Int /\ y % m \in 0 .. m - 1 /\ y = m * (y \div m) + (y % m)
  <2> HIDE DEF y, m
  <2> QED  BY <1>1, <1>3, Remainders
<1>5. z \div m \in Int /\ z % m \in 0 .. m - 1 /\ z = m * (z \div m) + (z % m)
  <2> HIDE DEF z, m
  <2> QED  BY <1>1, <1>3, Remainders
<1>6. m * (z \div m) + (z % m) = m * ((x \div m) + (y \div m)) + (y % m)
  <2> HIDE DEF x, y, z, m
  <2>1. m * ((x \div m) + (y \div m)) = m * (x \div m) + m * (y \div m)
    BY <1>1, <1>2, <1>4, Distributes
  <2>2. m * (x \div m) \in Int /\ m * (y \div m) \in Int
    BY <1>1, <1>2, <1>4
  <2> QED  BY <1>1, <1>2, <1>3, <1>4, <1>5, <2>1, <2>2
<1>7. z % m = y % m
  <2>1. (x \div m) + (y \div m) \in Int  BY <1>2, <1>4
  <2> HIDE DEF x, y, z, m
  <2> QED  BY <1>1, <1>4, <1>5, <1>6, <2>1, RemainderUnique
<1>8. ToWord(ToWord(a) + b) = (y % m) - Half
  BY <1>1, <1>2 DEF ToWord
<1>9. ToWord(a + b) = (z % m) - Half
  <2>1. (a + b) + Half = z  BY <1>1
  <2> QED  BY <2>1 DEF ToWord
<1> QED  BY <1>7, <1>8, <1>9

LEMMA WordIsInt == ASSUME NEW a \in Int PROVE ToWord(a) \in Int
<1> DEFINE m == 2 * Half
<1>1. m \in Nat \ {0} /\ Half \in Int /\ a + Half \in Int  BY NetworkAssumption
<1>2. (a + Half) % m \in Int
  <2> HIDE DEF m
  <2> QED  BY <1>1
<1> QED  BY <1>1, <1>2 DEF ToWord

\* What the loops have in an element after every addition: cut to a word each
\* time, it is the exact sum cut once.
LEMMA AccumulateIsDot ==
  ASSUME NEW n \in Nat \ {0}, NEW start \in Int,
         NEW x \in [0 .. n - 1 -> Int], NEW w \in [0 .. n - 1 -> Int]
  PROVE  Accumulate(start, x, w, n) = ToWord(start + Dot(x, w, n))
<1> DEFINE IsAcc(f) ==
             f = [k \in 0 .. n |->
                    IF k = 0 THEN start ELSE ToWord(f[k - 1] + x[k - 1] * w[k - 1])]
           total(k) == start + Dot(x, w, k)
           g == [k \in 0 .. n |-> IF k = 0 THEN start ELSE ToWord(total(k))]
           acc == CHOOSE f : IsAcc(f)
<1>1. Accumulate(start, x, w, n) = acc[n]
  BY DEF Accumulate
<1>2. ASSUME NEW k \in 0 .. n
      PROVE  total(k) \in Int
  <2>1. n \in Nat  OBVIOUS
  <2>2. Dot(x, w, k) \in Int  BY <2>1, DotIsInt
  <2> QED  BY <2>2
<1>3. ASSUME NEW k \in 0 .. n, k # 0
      PROVE  /\ k - 1 \in 0 .. n /\ k - 1 \in Nat /\ x[k - 1] * w[k - 1] \in Int
             /\ total(k) = total(k - 1) + x[k - 1] * w[k - 1]
  <2>1. k - 1 \in 0 .. n /\ k - 1 \in Nat /\ k - 1 \in 0 .. n - 1  BY <1>3
  <2>2. x[k - 1] \in Int /\ w[k - 1] \in Int  BY <2>1
  <2>3. x[k - 1] * w[k - 1] \in Int  BY <2>2
  <2>4. Dot(x, w, (k - 1) + 1) = Dot(x, w, k - 1) + x[k - 1] * w[k - 1]  BY <2>1, DotSteps
  <2>5. (k - 1) + 1 = k  BY <2>1
  <2>6. Dot(x, w, k - 1) \in Int  BY <2>1, DotIsInt
  <2> QED  BY <2>1, <2>3, <2>4, <2>5, <2>6
<1>4. total(0) = start  BY DotSteps
<1> HIDE DEF total
<1>5. ASSUME NEW k \in 0 .. n, k # 0
      PROVE  g[k] = ToWord(g[k - 1] + x[k - 1] * w[k - 1])
  <2>1. k - 1 \in 0 .. n /\ total(k - 1) \in Int /\ x[k - 1] * w[k - 1] \in Int
    BY <1>2, <1>3, <1>5
  <2>2. g[k] = ToWord(total(k - 1) + x[k - 1] * w[k - 1])  BY <1>3, <1>5
  <2>3. CASE k - 1 = 0
    BY <1>4, <2>1, <2>2, <2>3
  <2>4. CASE k - 1 # 0
    <3>1. g[k - 1] = ToWord(total(k - 1))  BY <2>1, <2>4
    <3>2. ToWord(ToWord(total(k - 1)) + x[k - 1] * w[k - 1])
            = ToWord(total(k - 1) + x[k - 1] * w[k - 1])
      BY <2>1, WordAdd
    <3> QED  BY <2>2, <3>1, <3>2
  <2> QED  BY <2>3, <2>4
<1>6. IsAcc(g)
  <2>1. g[0] = start  OBVIOUS
  <2>2. \A k \in 0 .. n : g[k] = IF k = 0 THEN start ELSE ToWord(g[k - 1] + x[k - 1] * w[k - 1])
    BY <1>5, <2>1
  <2> QED  BY <2>2
<1>7. IsAcc(acc)  BY <1>6
<1> DEFINE T == {k \in Nat : k <= n => acc[k] = g[k]}
<1> HIDE DEF acc, g
<1>8. 0 \in T
  <2>1. acc[0] = start  BY <1>7
  <2>2. g[0] = start  BY <1>6
  <2> QED  BY <2>1, <2>2
<1>9. ASSUME NEW k \in T PROVE k + 1 \in T
  <2> SUFFICES ASSUME k + 1 <= n PROVE acc[k + 1] = g[k + 1]
    OBVIOUS
  <2>1. acc[k] = g[k] /\ k + 1 \in 0 .. n /\ k + 1 # 0 /\ (k + 1) - 1 = k  OBVIOUS
  <2>2. acc[k + 1] = ToWord(acc[k] + x[k] * w[k])  BY <1>7, <2>1
  <2>3. g[k + 1] = ToWord(g[k] + x[k] * w[k])  BY <1>6, <2>1
  <2> QED  BY <2>1, <2>2, <2>3
<1> HIDE DEF T
<1>10. T = Nat  BY <1>8, <1>9, SetInduction DEF T
<1>11. acc[n] = g[n]  BY <1>10 DEF T
<1>12. g[n] = ToWord(total(n))  BY DEF g
<1> QED  BY <1>1, <1>11, <1>12 DEF total

-----------------------------------------------------------------------------
(***************************************************************************)
(* The layout: the array that the loops read by rows, one row per node,    *)
(* is the array that the reference reads by columns.                       *)
(***************************************************************************)
LEMMA Shape ==
  /\ NPix \in Nat /\ NHid \in Nat /\ NOut \in Nat /\ NPix > 0 /\ NHid > 0 /\ NOut > 0
  /\ NPix * NHid \in Nat /\ NHid * NOut \in Nat
  /\ NHid * NPix = NPix * NHid /\ NOut * NHid = NHid * NOut
  /\ ParamCount = NPix * NHid + NHid * NOut + NHid + NOut
  /\ ParamCount \in Nat
  BY NetworkAssumption DEF ParamCount

\* A cell of a table of m rows and c columns, counted row by row.
LEMMA Cell ==
  ASSUME NEW m \in Nat \ {0}, NEW c \in Nat \ {0},
         NEW row \in 0 .. m - 1, NEW col \in 0 .. c - 1
  PROVE  /\ row * c + col \in 0 .. m * c - 1
         /\ (row * c + col) % c = col
         /\ (row * c + col) \div c = row
<1> DEFINE x == row * c + col
<1>1. row * c = c * row /\ c * row \in Nat /\ m * c = c * m /\ c * m \in Nat
  OBVIOUS
<1>2. c * (row + 1) = c * row + c  BY Distributes
<1>3. c * (row + 1) <= c * m
  <2>1. PICK d \in Nat : m = (row + 1) + d
    <3>1. m - (row + 1) \in Nat  OBVIOUS
    <3> QED  BY <3>1
  <2>2. c * m = c * (row + 1) + c * d  BY <2>1, Distributes
  <2>3. c * d \in Nat /\ c * (row + 1) \in Nat  BY <2>1
  <2> QED  BY <2>2, <2>3
<1>4. x \in 0 .. m * c - 1  BY <1>1, <1>2, <1>3
<1>5. x \div c \in Int /\ x % c \in 0 .. c - 1 /\ x = c * (x \div c) + (x % c)
  <2>1. x \in Int  BY <1>1
  <2> HIDE DEF x
  <2> QED  BY <2>1, Remainders
<1>6. x = c * row + col  BY <1>1
<1>7. x % c = col
  <2>1. c * (x \div c) + (x % c) = c * row + col /\ row \in Int  BY <1>5, <1>6
  <2> HIDE DEF x
  <2> QED  BY <1>5, <2>1, RemainderUnique
<1>8. c * (x \div c) = c * row /\ c * row \in Int  BY <1>1, <1>5, <1>6, <1>7
<1>9. x \div c = row
  <2> DEFINE q == x \div c
  <2>1. q \in Int /\ row \in Int /\ c * q = c * row  BY <1>5, <1>8
  <2> HIDE DEF q
  <2>2. CASE q < row
    <3>1. c * q + c <= c * row  BY <2>1, <2>2, MultiplesApart
    <3> QED  BY <1>8, <2>1, <3>1
  <2>3. CASE row < q
    <3>1. c * row + c <= c * q  BY <2>1, <2>3, MultiplesApart
    <3> QED  BY <1>8, <2>1, <3>1
  <2> QED  BY <2>1, <2>2, <2>3 DEF q
<1> QED  BY <1>4, <1>7, <1>9

\* The first layer's weights in the exported layout.
LEMMA ExportedRow1 ==
  ASSUME NEW w, NEW p \in 0 .. NPix - 1, NEW n \in 0 .. NHid - 1
  PROVE  /\ Weight1(Exported(w), p, n) = w[n * NPix + p]
         /\ n * NPix + p \in 0 .. ParamCount - 1
<1> DEFINE k == p * NHid + n
<1>1. k \in 0 .. NPix * NHid - 1 /\ k % NHid = n /\ k \div NHid = p
  BY Cell, Shape
<1>2. n * NPix + p \in 0 .. NHid * NPix - 1
  BY Cell, Shape
<1> HIDE DEF k
<1>3. k \in 0 .. ParamCount - 1 /\ k - NPix * NHid < 0
  BY <1>1, Shape
<1>4. Exported(w)[k] = w[(k % NHid) * NPix + k \div NHid]
  BY <1>3 DEF Exported
<1>5. Weight1(Exported(w), p, n) = Exported(w)[k]  BY DEF Weight1, k
<1> QED  BY <1>1, <1>2, <1>4, <1>5, Shape

\* The second layer's.
LEMMA ExportedRow2 ==
  ASSUME NEW w, NEW n \in 0 .. NHid - 1, NEW o \in 0 .. NOut - 1
  PROVE  /\ Weight2(Exported(w), n, o) = w[NPix * NHid + o * NHid + n]
         /\ NPix * NHid + o * NHid + n \in 0 .. ParamCount - 1
<1> DEFINE j == n * NOut + o
           k == NPix * NHid + j
<1>1. j \in 0 .. NHid * NOut - 1 /\ j % NOut = o /\ j \div NOut = n
  BY Cell, Shape
<1>2. o * NHid + n \in 0 .. NOut * NHid - 1 /\ o * NHid \in Nat
  BY Cell, Shape
<1>3. k = NPix * NHid + j /\ Weight2(Exported(w), n, o) = Exported(w)[k]
  <2>1. n * NOut \in Nat  BY Shape
  <2>2. NPix * NHid + n * NOut + o = k  BY <2>1, Shape
  <2> QED  BY <2>2 DEF Weight2
<1> HIDE DEF j, k
<1>4. k \in 0 .. ParamCount - 1 /\ k - NPix * NHid = j /\ ~(j < 0)
  BY <1>1, <1>3, Shape
<1>5. Exported(w)[k] = w[NPix * NHid + (j % NOut) * NHid + j \div NOut]
  BY <1>1, <1>4 DEF Exported
<1> QED  BY <1>1, <1>2, <1>3, <1>5, Shape

\* The biases lie where the loops read them.
LEMMA ExportedBiases ==
  ASSUME NEW w
  PROVE  /\ \A n \in 0 .. NHid - 1 :
              /\ Bias1(Exported(w), n) = Bias1(w, n)
              /\ NPix * NHid + NHid * NOut + n \in 0 .. ParamCount - 1
         /\ \A o \in 0 .. NOut - 1 :
              /\ Bias2(Exported(w), o) = Bias2(w, o)
              /\ NPix * NHid + NHid * NOut + NHid + o \in 0 .. ParamCount - 1
<1>1. ASSUME NEW k \in 0 .. ParamCount - 1, k >= NPix * NHid + NHid * NOut
      PROVE  Exported(w)[k] = w[k]
  <2>1. ~(k - NPix * NHid < 0) /\ k - NPix * NHid \notin 0 .. NHid * NOut - 1
    BY <1>1, Shape
  <2> QED  BY <2>1 DEF Exported
<1>2. ASSUME NEW n \in 0 .. NHid - 1
      PROVE  /\ Bias1(Exported(w), n) = Bias1(w, n)
             /\ NPix * NHid + NHid * NOut + n \in 0 .. ParamCount - 1
  <2>1. NPix * NHid + NHid * NOut + n \in 0 .. ParamCount - 1  BY Shape
  <2>2. NPix * NHid + NHid * NOut + n >= NPix * NHid + NHid * NOut  BY Shape
  <2> QED  BY <1>1, <2>1, <2>2 DEF Bias1
<1>3. ASSUME NEW o \in 0 .. NOut - 1
      PROVE  /\ Bias2(Exported(w), o) = Bias2(w, o)
             /\ NPix * NHid + NHid * NOut + NHid + o \in 0 .. ParamCount - 1
  <2>1. NPix * NHid + NHid * NOut + NHid + o \in 0 .. ParamCount - 1  BY Shape
  <2>2. NPix * NHid + NHid * NOut + NHid + o >= NPix * NHid + NHid * NOut  BY Shape
  <2> QED  BY <1>1, <2>1, <2>2 DEF Bias2
<1> QED  BY <1>2, <1>3

-----------------------------------------------------------------------------
(***************************************************************************)
(* The layers.                                                             *)
(***************************************************************************)
\* A network is a function from the indices of its parameters to integers.
LEMMA NetworkTyped ==
  ASSUME NEW w \in Networks, NEW k \in 0 .. ParamCount - 1
  PROVE  w[k] \in Int
  BY NetworkAssumption

\* What the arrays held, and a network with it on top of the biases.
Held == [layer1 : [0 .. NHid - 1 -> Stack], layer2 : [0 .. NOut - 1 -> Stack]]

LEMMA HeldTyped ==
  ASSUME NEW h \in Held
  PROVE  /\ \A n \in 0 .. NHid - 1 : h.layer1[n] \in Int
         /\ \A o \in 0 .. NOut - 1 : h.layer2[o] \in Int
  BY NetworkAssumption DEF Held

LEMMA FromStackParts ==
  ASSUME NEW w, NEW h
  PROVE  /\ \A k \in 0 .. NPix * NHid + NHid * NOut - 1 : FromStack(w, h)[k] = w[k]
         /\ \A n \in 0 .. NHid - 1 : Bias1(FromStack(w, h), n) = Bias1(w, n) + h.layer1[n]
         /\ \A o \in 0 .. NOut - 1 : Bias2(FromStack(w, h), o) = Bias2(w, o) + h.layer2[o]
<1> DEFINE base == NPix * NHid + NHid * NOut
           F(k) == LET j == k - NPix * NHid - NHid * NOut
                   IN  CASE j < 0                -> w[k]
                         [] j \in 0 .. NHid - 1 -> w[k] + h.layer1[j]
                         [] OTHER                -> w[k] + h.layer2[j - NHid]
<1>1. base \in Nat /\ ParamCount = base + NHid + NOut /\ NPix * NHid \in Nat /\ NHid * NOut \in Nat
  BY Shape
<1>2. FromStack(w, h) = [k \in 0 .. ParamCount - 1 |-> F(k)]
  BY DEF FromStack
<1>3. ASSUME NEW k \in 0 .. base - 1
      PROVE  FromStack(w, h)[k] = w[k]
  <2>1. k \in 0 .. ParamCount - 1 /\ k - NPix * NHid - NHid * NOut < 0  BY <1>1, Shape
  <2>2. F(k) = w[k]  BY <2>1
  <2> QED  BY <1>2, <2>1, <2>2
<1>4. ASSUME NEW n \in 0 .. NHid - 1
      PROVE  Bias1(FromStack(w, h), n) = Bias1(w, n) + h.layer1[n]
  <2> DEFINE k == NPix * NHid + NHid * NOut + n
  <2>1. k \in 0 .. ParamCount - 1 /\ k - NPix * NHid - NHid * NOut = n /\ ~(n < 0)
    BY <1>1, Shape
  <2>2. F(k) = w[k] + h.layer1[n]  BY <2>1
  <2>3. FromStack(w, h)[k] = w[k] + h.layer1[n]  BY <1>2, <2>1, <2>2
  <2> QED  BY <2>3 DEF Bias1
<1>5. ASSUME NEW o \in 0 .. NOut - 1
      PROVE  Bias2(FromStack(w, h), o) = Bias2(w, o) + h.layer2[o]
  <2> DEFINE k == NPix * NHid + NHid * NOut + NHid + o
             j == k - NPix * NHid - NHid * NOut
  <2>1. k \in 0 .. ParamCount - 1 /\ j = NHid + o /\ ~(j < 0)
        /\ j \notin 0 .. NHid - 1 /\ j - NHid = o
    BY <1>1, Shape
  <2>2. F(k) = w[k] + h.layer2[o]  BY <2>1
  <2>3. FromStack(w, h)[k] = w[k] + h.layer2[o]  BY <1>2, <2>1, <2>2
  <2> QED  BY <2>3 DEF Bias2
<1> QED  BY <1>1, <1>3, <1>4, <1>5

\* The first loop nest, the biases and the relu: the hidden layer.
LEMMA Layer1IsHidden ==
  ASSUME NEW w \in Networks, NEW x \in Images, NEW h \in Held
  PROVE  /\ Layer1(w, x, h.layer1) = Hidden(Exported(FromStack(w, h)), x)
         /\ Layer1(w, x, h.layer1) \in [0 .. NHid - 1 -> Int]
<1> DEFINE v == Exported(FromStack(w, h))
           row(n) == [p \in 0 .. NPix - 1 |-> w[n * NPix + p]]
           ref(n) == [p \in 0 .. NPix - 1 |-> Weight1(v, p, n)]
           total(n) == Dot(x, row(n), NPix)
<1>1. ASSUME NEW n \in 0 .. NHid - 1
      PROVE  /\ row(n) = ref(n)
             /\ total(n) \in Int
             /\ Bias1(w, n) \in Int /\ h.layer1[n] \in Int
             /\ Bias1(v, n) = Bias1(w, n) + h.layer1[n]
             /\ SumLayer1(w, x, h.layer1)[n] = ToWord(h.layer1[n] + total(n))
  <2>1. row(n) = ref(n)
    <3> SUFFICES ASSUME NEW p \in 0 .. NPix - 1 PROVE w[n * NPix + p] = Weight1(v, p, n)
      OBVIOUS
    <3>1. n * NPix + p \in 0 .. NHid * NPix - 1  BY Cell, Shape
    <3>2. n * NPix + p \in 0 .. NPix * NHid + NHid * NOut - 1  BY <3>1, Shape
    <3>3. Weight1(v, p, n) = FromStack(w, h)[n * NPix + p]  BY ExportedRow1
    <3> QED  BY <3>2, <3>3, FromStackParts
  <2>2. row(n) \in [0 .. NPix - 1 -> Int]  BY ExportedRow1, NetworkTyped
  <2>3. x \in [0 .. NPix - 1 -> Int]  BY NetworkAssumption
  <2>4. total(n) \in Int
    <3> HIDE DEF row
    <3>1. NPix \in 0 .. NPix /\ NPix \in Nat  BY Shape
    <3> QED  BY <2>2, <2>3, <3>1, DotIsInt
  <2>5. Bias1(w, n) \in Int  BY ExportedBiases, NetworkTyped DEF Bias1
  <2>6. h.layer1[n] \in Int  BY HeldTyped
  <2>7. Bias1(v, n) = Bias1(FromStack(w, h), n)  BY ExportedBiases
  <2>8. Bias1(FromStack(w, h), n) = Bias1(w, n) + h.layer1[n]  BY FromStackParts
  <2>9. SumLayer1(w, x, h.layer1)[n] = Accumulate(h.layer1[n], x, row(n), NPix)
    BY DEF SumLayer1
  <2> HIDE DEF row
  <2>10. NPix \in Nat \ {0}  BY Shape
  <2>11. Accumulate(h.layer1[n], x, row(n), NPix) = ToWord(h.layer1[n] + total(n))
    BY <2>2, <2>3, <2>6, <2>10, AccumulateIsDot
  <2> HIDE DEF v, total, ref
  <2> QED  BY <2>1, <2>4, <2>5, <2>6, <2>7, <2>8, <2>9, <2>11
<1>2. Hidden(v, x) = [n \in 0 .. NHid - 1 |-> Relu(ToWord(Dot(x, ref(n), NPix) + Bias1(v, n)))]
  BY DEF Hidden
<1> DEFINE biased == [n \in 0 .. NHid - 1 |->
                        ToWord(SumLayer1(w, x, h.layer1)[n] + Bias1(w, n))]
<1>3. Layer1(w, x, h.layer1) = [n \in 0 .. NHid - 1 |-> IF biased[n] <= 0 THEN 0 ELSE biased[n]]
  BY DEF Layer1
<1>4. ASSUME NEW n \in 0 .. NHid - 1
      PROVE  /\ biased[n] = ToWord(Dot(x, ref(n), NPix) + Bias1(v, n))
             /\ biased[n] \in Int
  <2>1. biased[n] = ToWord(ToWord(h.layer1[n] + total(n)) + Bias1(w, n))  BY <1>1
  <2>2. total(n) = Dot(x, ref(n), NPix)  BY <1>1
  <2> HIDE DEF biased, total, row, ref, v
  <2>3. h.layer1[n] + total(n) \in Int  BY <1>1
  <2>4. biased[n] = ToWord((h.layer1[n] + total(n)) + Bias1(w, n))
    BY <1>1, <2>1, <2>3, WordAdd
  <2>5. (h.layer1[n] + total(n)) + Bias1(w, n) = total(n) + Bias1(v, n)  BY <1>1
  <2>6. total(n) + Bias1(v, n) \in Int  BY <1>1
  <2> QED  BY <2>2, <2>4, <2>5, <2>6, WordIsInt
<1> HIDE DEF biased, total, row, ref, v
<1>5. ASSUME NEW n \in 0 .. NHid - 1
      PROVE  /\ (IF biased[n] <= 0 THEN 0 ELSE biased[n])
                  = Relu(ToWord(Dot(x, ref(n), NPix) + Bias1(v, n)))
             /\ (IF biased[n] <= 0 THEN 0 ELSE biased[n]) \in Int
  BY <1>4 DEF Relu
<1>6. Layer1(w, x, h.layer1) = Hidden(v, x) /\ Layer1(w, x, h.layer1) \in [0 .. NHid - 1 -> Int]
  BY <1>2, <1>3, <1>5
<1> QED  BY <1>6 DEF v

\* The second loop nest: the outputs.
LEMMA Layer2IsLogits ==
  ASSUME NEW w \in Networks, NEW x \in Images, NEW h \in Held
  PROVE  LET v == Exported(FromStack(w, h))
         IN  /\ Layer2(w, x, h.layer1, h.layer2) = Logits(v, x, TrainedBias(v))
             /\ Layer2(w, x, h.layer1, h.layer2) \in [0 .. NOut - 1 -> Int]
<1> DEFINE v == Exported(FromStack(w, h))
           hidden == Layer1(w, x, h.layer1)
           row(o) == [n \in 0 .. NHid - 1 |-> w[NPix * NHid + o * NHid + n]]
           ref(o) == [n \in 0 .. NHid - 1 |-> Weight2(v, n, o)]
           out(o) == ToWord(Accumulate(h.layer2[o], hidden, row(o), NHid) + Bias2(w, o))
<1>1. hidden = Hidden(v, x) /\ hidden \in [0 .. NHid - 1 -> Int]
  BY Layer1IsHidden
<1>2. Layer2(w, x, h.layer1, h.layer2) = [o \in 0 .. NOut - 1 |-> out(o)]
  BY DEF Layer2
<1>3. Logits(v, x, TrainedBias(v))
        = [o \in 0 .. NOut - 1 |-> ToWord(Dot(hidden, ref(o), NHid) + TrainedBias(v)[o])]
  <2> HIDE DEF v
  <2> QED  BY <1>1 DEF Logits
<1> HIDE DEF hidden
<1>4. ASSUME NEW o \in 0 .. NOut - 1
      PROVE  /\ out(o) = ToWord(Dot(hidden, ref(o), NHid) + TrainedBias(v)[o])
             /\ out(o) \in Int
  <2> DEFINE total == Dot(hidden, row(o), NHid)
  <2>1. row(o) = ref(o)
    <3> SUFFICES ASSUME NEW n \in 0 .. NHid - 1
                 PROVE  w[NPix * NHid + o * NHid + n] = Weight2(v, n, o)
      OBVIOUS
    <3>1. o * NHid + n \in 0 .. NOut * NHid - 1 /\ o * NHid \in Nat  BY Cell, Shape
    <3>2. NPix * NHid + o * NHid + n \in 0 .. NPix * NHid + NHid * NOut - 1  BY <3>1, Shape
    <3>3. Weight2(v, n, o) = FromStack(w, h)[NPix * NHid + o * NHid + n]  BY ExportedRow2
    <3> QED  BY <3>2, <3>3, FromStackParts
  <2>2. row(o) \in [0 .. NHid - 1 -> Int]  BY ExportedRow2, NetworkTyped
  <2>3. Bias2(w, o) \in Int  BY ExportedBiases, NetworkTyped DEF Bias2
  <2>4. h.layer2[o] \in Int  BY HeldTyped
  <2>5. TrainedBias(v)[o] = Bias2(w, o) + h.layer2[o]
    <3>1. TrainedBias(v)[o] = Bias2(v, o)  BY DEF TrainedBias
    <3>2. Bias2(v, o) = Bias2(FromStack(w, h), o)  BY ExportedBiases
    <3>3. Bias2(FromStack(w, h), o) = Bias2(w, o) + h.layer2[o]  BY FromStackParts
    <3> HIDE DEF v
    <3> QED  BY <3>1, <3>2, <3>3
  <2> HIDE DEF row, ref, v
  <2>6. NHid \in 0 .. NHid /\ NHid \in Nat \ {0}  BY Shape
  <2>7. total \in Int  BY <1>1, <2>2, <2>6, DotIsInt
  <2>8. Accumulate(h.layer2[o], hidden, row(o), NHid) = ToWord(h.layer2[o] + total)
    BY <1>1, <2>2, <2>4, <2>6, AccumulateIsDot
  <2>9. total = Dot(hidden, ref(o), NHid)  BY <2>1
  <2> HIDE DEF total
  <2>10. h.layer2[o] + total \in Int  BY <2>4, <2>7
  <2>11. out(o) = ToWord((h.layer2[o] + total) + Bias2(w, o))  BY <2>3, <2>8, <2>10, WordAdd
  <2>12. (h.layer2[o] + total) + Bias2(w, o) = total + TrainedBias(v)[o]
    BY <2>3, <2>4, <2>5, <2>7
  <2>13. total + TrainedBias(v)[o] \in Int  BY <2>3, <2>4, <2>5, <2>7
  <2> QED  BY <2>9, <2>11, <2>12, <2>13, WordIsInt
<1> HIDE DEF row, ref, out, v
<1>5. Layer2(w, x, h.layer1, h.layer2) = Logits(v, x, TrainedBias(v))
  BY <1>2, <1>3, <1>4
<1>6. Layer2(w, x, h.layer1, h.layer2) \in [0 .. NOut - 1 -> Int]
  BY <1>2, <1>4
<1> QED  BY <1>5, <1>6 DEF v

-----------------------------------------------------------------------------
(***************************************************************************)
(* The search for the maximum.                                             *)
(***************************************************************************)
\* The function FindMaximum is read from: the place of the maximum so far.
IsScan(best, v, n) ==
  best = [k \in 0 .. n |->
            IF k = 0 THEN 0 ELSE IF v[k] > v[best[k - 1]] THEN k ELSE best[k - 1]]

LEMMA ScanExists ==
  ASSUME NEW v, NEW n \in Nat
  PROVE  \E best : IsScan(best, v, n)
<1> DEFINE T == {m \in Nat : \E best : IsScan(best, v, m)}
<1>1. 0 \in T
  <2>1. IsScan([k \in 0 .. 0 |-> 0], v, 0)  BY DEF IsScan
  <2> QED  BY <2>1
<1>2. ASSUME NEW m \in T PROVE m + 1 \in T
  <2>1. PICK f : IsScan(f, v, m)  OBVIOUS
  <2> DEFINE g == [k \in 0 .. m + 1 |->
                     IF k = m + 1 THEN IF v[m + 1] > v[f[m]] THEN m + 1 ELSE f[m] ELSE f[k]]
  <2>2. ASSUME NEW k \in 0 .. m + 1
        PROVE  g[k] = IF k = 0 THEN 0 ELSE IF v[k] > v[g[k - 1]] THEN k ELSE g[k - 1]
    <3>1. CASE k = m + 1
      <4>1. g[m] = f[m] /\ k # 0 /\ k - 1 = m  BY <3>1
      <4> QED  BY <3>1, <4>1
    <3>2. CASE k \in 0 .. m
      <4>1. g[k] = f[k] /\ (k # 0 => g[k - 1] = f[k - 1])  BY <3>2
      <4>2. f[k] = IF k = 0 THEN 0 ELSE IF v[k] > v[f[k - 1]] THEN k ELSE f[k - 1]
        BY <2>1, <3>2 DEF IsScan
      <4> QED  BY <4>1, <4>2
    <3> QED  BY <3>1, <3>2
  <2>3. IsScan(g, v, m + 1)  BY <2>2 DEF IsScan
  <2> QED  BY <2>3
<1> HIDE DEF T
<1>3. T = Nat  BY <1>1, <1>2, SetInduction DEF T
<1> QED  BY <1>3 DEF T

\* b is the first place of the largest of v[0], ..., v[k].
First(v, k, b) ==
  b \in 0 .. k /\ \A j \in 0 .. k : v[j] <= v[b] /\ (v[j] = v[b] => b <= j)

LEMMA ScanFindsFirst ==
  ASSUME NEW n \in Nat, NEW v \in [0 .. n -> Int], NEW best, IsScan(best, v, n),
         NEW k \in 0 .. n
  PROVE  First(v, k, best[k])
<1> DEFINE T == {m \in Nat : m <= n => First(v, m, best[m])}
<1>1. 0 \in T  BY DEF IsScan, First
<1>2. ASSUME NEW m \in T PROVE m + 1 \in T
  <2> SUFFICES ASSUME m + 1 <= n PROVE First(v, m + 1, best[m + 1])
    OBVIOUS
  <2>1. First(v, m, best[m])  OBVIOUS
  <2>2. best[m + 1] = IF v[m + 1] > v[best[m]] THEN m + 1 ELSE best[m]
    BY DEF IsScan
  <2>3. m \in Nat /\ \A j \in 0 .. m + 1 : v[j] \in Int /\ (j \in 0 .. m \/ j = m + 1)
    OBVIOUS
  <2> HIDE DEF T
  <2>4. best[m] \in 0 .. m /\ v[m + 1] \in Int /\ v[best[m]] \in Int
    BY <2>1, <2>3 DEF First
  <2>5. CASE v[m + 1] > v[best[m]]
    <3>1. best[m + 1] = m + 1  BY <2>2, <2>5
    <3>2. ASSUME NEW j \in 0 .. m
          PROVE  v[j] < v[m + 1] /\ v[j] \in Int
      <4>1. v[j] <= v[best[m]] /\ v[j] \in Int  BY <2>1, <2>3 DEF First
      <4> QED  BY <2>4, <2>5, <4>1
    <3>3. ASSUME NEW j \in 0 .. m + 1
          PROVE  v[j] <= v[m + 1] /\ (v[j] = v[m + 1] => m + 1 <= j)
      BY <2>3, <2>4, <3>2
    <3> QED  BY <2>3, <3>1, <3>3 DEF First
  <2>6. CASE ~(v[m + 1] > v[best[m]])
    <3>1. best[m + 1] = best[m]  BY <2>2, <2>6
    <3>2. ASSUME NEW j \in 0 .. m + 1
          PROVE  v[j] <= v[best[m]] /\ (v[j] = v[best[m]] => best[m] <= j)
      <4>1. CASE j \in 0 .. m  BY <2>1, <4>1 DEF First
      <4>2. CASE j = m + 1  BY <2>3, <2>4, <2>6, <4>2
      <4> QED  BY <2>3, <4>1, <4>2
    <3> QED  BY <2>3, <2>4, <3>1, <3>2 DEF First
  <2> QED  BY <2>5, <2>6
<1> HIDE DEF T
<1>3. T = Nat  BY <1>1, <1>2, SetInduction DEF T
<1> QED  BY <1>3 DEF T

\* The loop that looks for the maximum returns the first of the largest outputs.
LEMMA ScanIsFirstMax ==
  ASSUME NEW v \in [0 .. NOut - 1 -> Int]
  PROVE  FindMaximum(v) = FirstMax(v)
<1> DEFINE best == CHOOSE f : IsScan(f, v, NOut - 1)
<1>1. NOut - 1 \in Nat  BY Shape
<1>2. FindMaximum(v) = best[NOut - 1]  BY DEF FindMaximum, IsScan
<1>3. IsScan(best, v, NOut - 1)  BY <1>1, ScanExists
<1> HIDE DEF best
<1>4. NOut - 1 \in 0 .. NOut - 1  BY <1>1
<1>5. First(v, NOut - 1, FindMaximum(v))  BY <1>1, <1>2, <1>3, <1>4, ScanFindsFirst
<1>6. FirstMax(v) = CHOOSE m \in 0 .. NOut - 1 :
                      \A j \in 0 .. NOut - 1 : v[j] <= v[m] /\ (v[j] = v[m] => m <= j)
  BY DEF FirstMax
<1>7. First(v, NOut - 1, FirstMax(v))  BY <1>5, <1>6 DEF First
<1>8. ASSUME NEW a, NEW b, First(v, NOut - 1, a), First(v, NOut - 1, b) PROVE a = b
  <2>1. a \in 0 .. NOut - 1 /\ b \in 0 .. NOut - 1  BY <1>8 DEF First
  <2>2. v[a] <= v[b] /\ v[b] <= v[a]  BY <1>8, <2>1 DEF First
  <2>3. v[a] = v[b]  BY <2>1, <2>2
  <2>4. a <= b /\ b <= a  BY <1>8, <2>1, <2>3 DEF First
  <2> QED  BY <2>1, <2>4
<1> QED  BY <1>5, <1>7, <1>8

-----------------------------------------------------------------------------
(***************************************************************************)
(* The theorems.                                                           *)
(***************************************************************************)
\* The loops of calculateNNCPU, on the arrays as they index them and with words
\* cut after every addition, compute what gen_c_arrs.py does with exact sums,
\* whatever the size of the network and whatever the uninitialised arrays hold:
\* the network with the same weights, laid out with a row for each input, and
\* with what the arrays held on top of the biases.
THEOREM LoopsAreTheNetwork ==
  ASSUME NEW w \in Networks, NEW x \in Images, NEW h \in Held
  PROVE  FindMaximum(Layer2(w, x, h.layer1, h.layer2)) = TrainedAnswer(Exported(FromStack(w, h)), x)
  BY Layer2IsLogits, ScanIsFirstMax DEF TrainedAnswer

\* Every answer of the program is that of the network whose biases are those of
\* the arrays plus what the stack held when that call began.
THEOREM SoftwareRight == Spec => []RightFromStack
<1> DEFINE Right == net \in Networks /\ RightFromStack
<1>1. Init => Right
  BY DEF Init, RightFromStack
<1>2. Right /\ [Next]_cvars => Right'
  <2> SUFFICES ASSUME Right, [Next]_cvars PROVE Right'
    OBVIOUS
  <2>1. CASE CalculateNNCPU
    <3>1. PICK x \in Images, layer1 \in [0 .. NHid - 1 -> Stack],
                layer2 \in [0 .. NOut - 1 -> Stack] :
            /\ img' = x /\ held' = [layer1 |-> layer1, layer2 |-> layer2]
            /\ answer' = FindMaximum(Layer2(net, x, layer1, layer2)) /\ net' = net
      BY <2>1 DEF CalculateNNCPU
    <3>2. held' \in Held /\ held'.layer1 = layer1 /\ held'.layer2 = layer2
      BY <3>1 DEF Held
    <3>3. answer' = TrainedAnswer(Exported(FromStack(net, held')), x)
      BY <3>1, <3>2, LoopsAreTheNetwork
    <3> QED  BY <3>1, <3>3 DEF RightFromStack
  <2>2. CASE UNCHANGED cvars
    BY <2>2 DEF cvars, RightFromStack
  <2> QED  BY <2>1, <2>2 DEF Next
<1> QED  BY <1>1, <1>2, PTL DEF Spec

-----------------------------------------------------------------------------
(***************************************************************************)
(* The boot loader, for every number of slaves, whether or not polling     *)
(* sees each status, and every program that joins only threads it has      *)
(* created.  The cores agree through one status each; the invariant says   *)
(* what the status of a slave is at each of its places, and at which of    *)
(* them it can be for each place of the master.                            *)
(***************************************************************************)
Points  == {NULL} \cup {op.thread : op \in Operations}
Results == {-1, 0} \cup Points

Status  == {"NULL", "RETURN", "BOOT", "INIT", "INITDONE"}
Clears  == {"delay", "clear_status", "clear_entrypoint", "clear_slave"}
Serving == {"wait_init", "run", "sync", "start", "main", "created", "returned", "wait_return",
            "wait_slave", "notify_return", "wait_null"}
Places  == Clears \cup Serving \cup
           {"boot", "download", "notify_init", "look_boot", "spin", "ack_init", "synced", "worker",
            "poll_master", "poll_funcpoint", "begin", "respond", "exit", "exit_status", "ended",
            "released", "announce", "look_return", "leave"}

BootTyped ==
  /\ pc \in [Core -> Places] /\ pc[0] \in Booting \cup Serving
  /\ master \in [status : Status, entrypoint : Downloads \cup {NULL}]
  /\ slave \in [Core -> [status : Status, return_val : Results, funcpoint : Points]]
  /\ i \in Nat /\ made \in [Core -> Points]

\* The master: its status and the program are those of its place.
MasterAt ==
  /\ pc[0] \in Booting => master.status \in {"RETURN", "NULL", "BOOT"}
  /\ master.status = "BOOT" => pc[0] \in {"boot", "download", "notify_init"}
  /\ pc[0] \in Serving \ {"wait_null"} => master.status \in {"INIT", "INITDONE"}
  /\ pc[0] = "wait_null" => master.status = "RETURN"
  /\ pc[0] \in Serving \cup {"notify_init"} =>
       master.entrypoint = loaded /\ loaded \in Downloads \cup {NULL}
  /\ pc[0] \in {"sync", "start", "main", "created", "returned"} => loaded # NULL
  /\ pc[0] \in {"wait_init", "sync", "wait_return", "wait_slave", "wait_null"} => i # 0
  /\ pc[0] \in {"run", "notify_return"} => i = 1
  /\ pc[0] \in {"sync", "start"} => loaded.sync /\ todo = loaded.main

\* The thread the master is waiting for has not started.
Starting(c) == pc[0] = "created" /\ Head(todo).core = c

\* The master has not come past c in noc_sync, or in its wait for the end.
BeforeSync(c) == pc[0] \in {"wait_init", "run"} \/ (pc[0] = "sync" /\ i <= c)
BeforeEnd(c)  == pc[0] \in Serving \ {"wait_return", "wait_slave", "notify_return", "wait_null"}
                 \/ (pc[0] \in {"wait_return", "wait_slave"} /\ i <= c)

\* A slave while the master boots.
BootPlace(c) ==
  /\ pc[c] \in Clears \cup {"boot", "look_boot", "spin"}
  /\ pc[c] \in {"boot", "look_boot", "spin"} =>
       slave[c].status \in {"NULL", "BOOT"} /\ slave[c].funcpoint = NULL
  /\ pc[c] = "spin" => pc[0] \in {"boot", "download", "notify_init"}
  /\ pc[0] = "notify_init" => pc[c] = "spin"

Worker == {"run", "worker", "poll_master", "poll_funcpoint", "begin", "respond", "exit",
           "exit_status", "ended", "released"}

\* A slave from then on.
StatusAt(c) ==
  /\ pc[c] \in {"spin", "ack_init", "run", "sync", "synced", "delay"} \cup Worker \cup
               {"returned", "announce", "look_return", "leave"}
  /\ pc[c] \in {"spin", "ack_init"} => slave[c].status \in {"NULL", "BOOT"}
  /\ pc[c] \in {"run", "sync"} => slave[c].status = "INIT"
  /\ pc[c] = "worker" => slave[c].status \in {"INIT", "INITDONE"}
  /\ pc[c] \in {"synced", "exit", "exit_status"} => slave[c].status = "INITDONE"
  /\ pc[c] \in {"poll_master", "poll_funcpoint", "begin", "respond", "ended", "released",
                "returned", "look_return", "leave"} => slave[c].status = "RETURN"
  /\ pc[c] = "announce" => slave[c].status \in {"INIT", "RETURN"}
  /\ pc[c] = "delay" => slave[c].status = "NULL"

Together(c) ==
  /\ pc[c] \in {"spin", "ack_init"} => pc[0] = "wait_init" /\ i <= c
  /\ pc[c] = "run" /\ loaded # NULL /\ loaded.sync => BeforeSync(c)
  /\ pc[c] = "sync" => BeforeSync(c) /\ loaded # NULL /\ loaded.sync
  /\ pc[c] \in {"run", "sync", "synced", "worker", "exit", "exit_status"} => BeforeEnd(c)
  /\ pc[c] = "announce" /\ slave[c].status = "INIT" => BeforeEnd(c)
  /\ pc[c] \in {"returned", "leave", "delay"} => pc[0] = "wait_null"
  /\ pc[c] \in {"announce", "look_return"} => loaded = NULL \/ pc[0] = "wait_null"
  /\ pc[0] = "wait_null" /\ c < i => pc[c] = "delay"

\* What the master wants a slave to do, and what it is doing.
ThreadAt(c) ==
  /\ slave[c].funcpoint # NULL =>
       Starting(c) \/ pc[c] \in {"exit", "exit_status", "ended", "released"}
  /\ pc[c] \in {"begin", "respond"} => Starting(c)
  /\ pc[c] \in {"exit", "exit_status"} => slave[c].funcpoint # NULL
  /\ pc[c] = "exit_status" => slave[c].return_val = slave[c].funcpoint
  /\ Starting(c) => /\ pc[c] \in Worker
                    /\ slave[c].funcpoint = Head(todo).thread /\ slave[c].funcpoint # NULL
                    /\ pc[c] = "worker" => slave[c].status = "INIT"

Stage(c) == StatusAt(c) /\ Together(c) /\ ThreadAt(c)

\* The thread of c is running or has left its result.
Fresh(c) ==
  made[c] # NULL =>
    \/ pc[c] = "exit" /\ slave[c].funcpoint = made[c]
    \/ /\ pc[c] \in {"exit_status", "ended", "released", "poll_master", "poll_funcpoint"}
       /\ slave[c].return_val = made[c]

\* What is left of a program.
Todo ==
  pc[0] \in {"main", "created"} =>
    /\ todo \in Seq(Operations)
    /\ \A k \in DOMAIN todo : todo[k].op = "join" =>
         Fresh(todo[k].core) \/ \E j \in 1 .. k - 1 : Creates(todo[j], todo[k].core)
    /\ pc[0] = "created" => todo # <<>> /\ Head(todo).op = "create"

Joined == joined[1] # NULL => joined[2] = joined[1]

Slaves == \A c \in Slave : IF pc[0] \in Booting THEN BootPlace(c) ELSE Stage(c)

BootInv == BootTyped /\ MasterAt /\ Slaves /\ Todo /\ Joined

-----------------------------------------------------------------------------
(* What slaves do. *)

\* Only slave c moves.
Alone(c) ==
  /\ \A d \in Core \ {c} : pc'[d] = pc[d] /\ slave'[d] = slave[d]
  /\ i' = i /\ todo' = todo /\ loaded' = loaded /\ made' = made /\ joined' = joined

LEMMA Zero ==
  ASSUME BootAssumption
  PROVE  /\ 0 \in Core /\ Slave \subseteq Core /\ Slave \subseteq Nat
         /\ \A c \in Slave : c # 0 /\ c >= 1 /\ c < CoreCnt
         /\ \A c \in Core : c # 0 => c \in Slave
  BY DEF BootAssumption, Core, Slave

LEMMA Steps ==
  ASSUME BootAssumption, NEW seq \in Seq(Operations)
  PROVE  /\ DOMAIN seq = 1 .. Len(seq) /\ Len(seq) \in Nat
         /\ \A k \in DOMAIN seq :
              /\ seq[k] \in Operations /\ seq[k].core \in Slave /\ seq[k].op \in {"create", "join"}
              /\ seq[k].op = "create" => seq[k].thread \in Points \ {NULL}
<1>1. DOMAIN seq = 1 .. Len(seq) /\ Len(seq) \in Nat /\ \A k \in DOMAIN seq : seq[k] \in Operations
  OBVIOUS
<1>2. \A op \in Operations : /\ op.core \in Slave /\ op.op \in {"create", "join"}
                             /\ op.op = "create" => op.thread # NULL
  <2>1. \A op \in Operations : Operates(op)  BY DEF BootAssumption
  <2> QED  BY <2>1 DEF Operates
<1>3. \A op \in Operations : op.thread \in Points  BY DEF Points
<1> QED  BY <1>1, <1>2, <1>3

LEMMA OneSlave ==
  ASSUME BootAssumption, BootInv, NEW c \in Slave, Alone(c), BootTyped', MasterAt', pc'[0] = pc[0],
         pc[0] \in Booting => BootPlace(c)',
         pc[0] \notin Booting => Stage(c)',
         pc[0] \in {"main", "created"} => ~Fresh(c) \/ Fresh(c)' \/ Starting(c)
  PROVE  BootInv'
<1>1. \A d \in Slave : d \in Core /\ d # 0  BY Zero
<1>2. ASSUME NEW d \in Slave, d # c
      PROVE  IF pc'[0] \in Booting THEN BootPlace(d)' ELSE Stage(d)'
  <2>1. /\ pc'[d] = pc[d] /\ slave'[d] = slave[d] /\ pc'[0] = pc[0] /\ i' = i /\ todo' = todo
        /\ loaded' = loaded
    BY <1>1, <1>2 DEF Alone
  <2>2. BootPlace(d)' <=> BootPlace(d)  BY <2>1 DEF BootPlace
  <2>3. Stage(d)' <=> Stage(d)
    BY <2>1 DEF Stage, StatusAt, Together, ThreadAt, Starting, BeforeSync, BeforeEnd
  <2> QED  BY <2>1, <2>2, <2>3 DEF BootInv, Slaves
<1>3. Slaves'  BY <1>2 DEF Slaves
<1>4. Todo'
  <2> SUFFICES ASSUME pc[0] \in {"main", "created"} PROVE Todo'  BY DEF Todo
  <2>1. \A d \in Slave : Fresh(d) => Fresh(d)' \/ Starting(d)
    <3> SUFFICES ASSUME NEW d \in Slave, d # c PROVE Fresh(d) => Fresh(d)'  OBVIOUS
    <3> QED  BY <1>1 DEF Alone, Fresh
  <2>2. todo \in Seq(Operations) /\ todo' = todo  BY DEF BootInv, Todo, Alone
  <2>3. ASSUME NEW k \in DOMAIN todo, todo[k].op = "join", NEW d \in Slave, d = todo[k].core
        PROVE  Fresh(d)' \/ \E j \in 1 .. k - 1 : Creates(todo[j], d)
    <3>1. k \in 1 .. Len(todo)  BY <2>2, <2>3, Steps
    <3>2. CASE Starting(d)
      <4>1. Creates(todo[1], d) /\ todo # <<>>
        BY <2>2, <3>2 DEF Starting, Creates, BootInv, Todo
      <4>2. k # 1  BY <2>3, <4>1 DEF Creates
      <4>3. 1 \in 1 .. k - 1  BY <3>1, <4>2, Steps
      <4> QED  BY <4>1, <4>3
    <3>3. CASE ~Starting(d)
      <4>1. Fresh(d) \/ \E j \in 1 .. k - 1 : Creates(todo[j], d)
        BY <2>3 DEF BootInv, Todo
      <4> QED  BY <2>1, <3>3, <4>1
    <3> QED  BY <3>2, <3>3
  <2>4. \A k \in DOMAIN todo : todo[k].core \in Slave  BY <2>2, Steps
  <2>5. \A k \in DOMAIN todo' : todo'[k].op = "join" =>
          Fresh(todo[k].core)' \/ \E j \in 1 .. k - 1 : Creates(todo'[j], todo'[k].core)
    <3> SUFFICES ASSUME NEW k \in DOMAIN todo, todo[k].op = "join", NEW d \in Slave,
                        d = todo'[k].core
                 PROVE  Fresh(d)' \/ \E j \in 1 .. k - 1 : Creates(todo'[j], d)
      BY <2>2, <2>4
    <3> QED  BY <2>2, <2>3
  <2> QED  BY <2>2, <2>5 DEF BootInv, Todo, Alone
<1>5. Joined'  BY DEF BootInv, Joined, Alone
<1> QED  BY <1>3, <1>4, <1>5 DEF BootInv

Records == [status : Status, return_val : Results, funcpoint : Points]

\* What is known of a slave.
LEMMA SlaveKnown ==
  ASSUME BootAssumption, BootInv, NEW c \in Slave
  PROVE  /\ c \in Core /\ c # 0 /\ c \in Nat /\ pc[c] \in Places /\ slave[c] \in Records
         /\ pc[0] \in Booting \cup Serving
         /\ pc[0] \in Booting => BootPlace(c)
         /\ pc[0] \notin Booting => Stage(c)
  BY Zero DEF BootInv, BootTyped, Slaves, Records

\* Slave c goes on from one place to another and may write its status.
Move(c, from, to, r) ==
  /\ pc[c] = from /\ pc' = [pc EXCEPT ![c] = to] /\ slave' = [slave EXCEPT ![c] = r]
  /\ UNCHANGED <<master, rest>>

Went(c, from, to, r) == pc[c] = from /\ pc'[c] = to /\ slave'[c] = r

LEMMA Moves ==
  ASSUME BootAssumption, BootInv, NEW c \in Slave, NEW from, NEW to \in Places, NEW r \in Records,
         Move(c, from, to, r)
  PROVE  /\ Alone(c) /\ BootTyped' /\ MasterAt' /\ pc'[0] = pc[0]
         /\ Went(c, from, to, r)
         /\ master' = master /\ i' = i /\ todo' = todo /\ loaded' = loaded /\ made' = made
<1>1. c \in Core /\ c # 0 /\ 0 \in Core  BY Zero
<1>2. pc \in [Core -> Places] /\ slave \in [Core -> Records]  BY DEF BootInv, BootTyped, Records
<1>3. pc'[c] = to /\ slave'[c] = r /\ pc'[0] = pc[0]  BY <1>1, <1>2 DEF Move
<1>4. Alone(c)  BY <1>1, <1>2 DEF Alone, Move, rest
<1>5. pc' \in [Core -> Places] /\ slave' \in [Core -> Records]  BY <1>2 DEF Move
<1>6. BootTyped'  BY <1>3, <1>5 DEF BootInv, BootTyped, Records, Move, rest
<1>7. MasterAt'  BY <1>3 DEF BootInv, MasterAt, Move, rest
<1> QED  BY <1>3, <1>4, <1>6, <1>7 DEF Move, Went, rest

LEMMA CoreKnown ==
  ASSUME BootAssumption, BootInv
  PROVE  /\ 0 \in Core /\ pc \in [Core -> Places] /\ slave \in [Core -> Records] /\ i \in Nat
         /\ made \in [Core -> Points]
         /\ master \in [status : Status, entrypoint : Downloads \cup {NULL}]
         /\ pc[0] \in Booting \cup Serving
  BY Zero DEF BootInv, BootTyped, Records

\* A slave shows itself until the master has booted.
LEMMA SlaveBoots ==
  ASSUME BootAssumption, BootInv, NEW c \in Slave, 
         delay(c) \/ boot_slave(c) \/ look_boot(c) \/ spin(c) \/ ack_init(c)
  PROVE  BootInv'
<1> DEFINE s == slave[c]
<1>1. \/ Move(c, "delay", "clear_status", s) /\ pc[0] # "wait_null"
      \/ Move(c, "boot", "look_boot", [s EXCEPT !.status = "BOOT"])
      \/ Move(c, "look_boot", "spin", s) /\ master.status = "BOOT"
      \/ Move(c, "look_boot", "boot", s)
      \/ Move(c, "spin", "ack_init", s) /\ master.status = "INIT"
      \/ Move(c, "ack_init", "run", [s EXCEPT !.status = "INIT"])
  <2>1. CASE delay(c)
    BY <2>1, SlaveKnown, CoreKnown DEF delay, Delayed, Ending, At, Goto, Move, rest
  <2>2. CASE boot_slave(c)
    BY <2>2, SlaveKnown, CoreKnown DEF boot_slave, At, Goto, SetStatus, Move, rest
  <2>3. CASE look_boot(c)
    BY <2>3, SlaveKnown, CoreKnown DEF look_boot, At, Goto, Move, rest
  <2>4. CASE spin(c)
    BY <2>4, SlaveKnown, CoreKnown DEF spin, At, Goto, Move, rest
  <2>5. CASE ack_init(c)
    BY <2>5, SlaveKnown, CoreKnown DEF ack_init, At, Goto, SetStatus, Move, rest
  <2> QED  BY <2>1, <2>2, <2>3, <2>4, <2>5
<1>2. /\ {"clear_status", "look_boot", "spin", "boot", "ack_init", "run"} \subseteq Places
      /\ {s, [s EXCEPT !.status = "BOOT"], [s EXCEPT !.status = "INIT"]} \subseteq Records
  BY SlaveKnown DEF Places, Clears, Serving, Records, Status, Results, Points
<1>3. /\ Alone(c) /\ BootTyped' /\ MasterAt' /\ pc'[0] = pc[0]
      /\ master' = master /\ i' = i /\ todo' = todo /\ loaded' = loaded /\ made' = made
      /\ \/ Went(c, "delay", "clear_status", s) /\ pc[0] # "wait_null"
         \/ Went(c, "boot", "look_boot", [s EXCEPT !.status = "BOOT"])
         \/ Went(c, "look_boot", "spin", s) /\ master.status = "BOOT"
         \/ Went(c, "look_boot", "boot", s)
         \/ Went(c, "spin", "ack_init", s) /\ master.status = "INIT"
         \/ Went(c, "ack_init", "run", [s EXCEPT !.status = "INIT"])
  BY <1>1, <1>2, Moves
<1>4. pc[0] \in Booting => BootPlace(c)'
  BY <1>3, SlaveKnown DEF Went, Records, BootInv, MasterAt, BootPlace, Clears, Booting
<1>5. pc[0] \notin Booting => Stage(c)'
  <2> SUFFICES ASSUME pc[0] \notin Booting PROVE Stage(c)'  OBVIOUS
  <2>1. Stage(c) /\ pc[0] \in Serving /\ s \in Records  BY SlaveKnown
  <2>2. StatusAt(c)'
    BY <1>3, <2>1
       DEF Went, Records, BootInv, MasterAt, Serving, Stage, StatusAt, Together, Worker
  <2>3. Together(c)'
    BY <1>3, <2>1
       DEF Went, Records, BootInv, MasterAt, Serving, Stage, StatusAt, Together, BeforeSync,
           BeforeEnd, ThreadAt, Starting
  <2>4. ThreadAt(c)'
    BY <1>3, <2>1
       DEF Went, Records, BootInv, MasterAt, Serving, Stage, StatusAt, Together, ThreadAt,
           Starting, Worker, BeforeSync
  <2> QED  BY <2>2, <2>3, <2>4 DEF Stage
<1>6. pc[0] \in {"main", "created"} => ~Fresh(c) \/ Fresh(c)' \/ Starting(c)
  <2> SUFFICES ASSUME pc[0] \in {"main", "created"}, Fresh(c), ~Starting(c) PROVE Fresh(c)'
    OBVIOUS
  <2>1. Stage(c) /\ s \in Records  BY SlaveKnown DEF Booting
  <2> QED
    BY <1>3, <2>1
       DEF Went, Records, BootInv, MasterAt, Serving, Fresh, Stage, StatusAt, Together, ThreadAt
<1> QED  BY <1>3, <1>4, <1>5, <1>6, OneSlave

\* It runs the program that was downloaded, with or without a network.
LEMMA SlaveRuns ==
  ASSUME BootAssumption, BootInv, NEW c \in Slave, run(c) \/ noc_sync_slave(c)
  PROVE  BootInv'
<1> DEFINE s == slave[c]
<1>1. \/ Move(c, "run", "announce", s) /\ master.entrypoint = NULL
      \/ Move(c, "run", "sync", s) /\ master.entrypoint # NULL /\ master.entrypoint.sync
      \/ Move(c, "run", "worker", s) /\ master.entrypoint # NULL /\ ~master.entrypoint.sync
      \/ Move(c, "sync", "synced", [s EXCEPT !.status = "INITDONE"])
      \/ Move(c, "synced", "worker", s) /\ master.status = "INITDONE"
  <2>1. CASE run(c)
    BY <2>1, SlaveKnown, CoreKnown DEF run, history, At, Goto, Move, rest
  <2>2. CASE noc_sync_slave(c)
    BY <2>2, SlaveKnown, CoreKnown DEF noc_sync_slave, At, Goto, SetStatus, Move, rest
  <2> QED  BY <2>1, <2>2
<1>2. /\ {"announce", "sync", "worker", "synced"} \subseteq Places
      /\ {s, [s EXCEPT !.status = "INITDONE"]} \subseteq Records
  BY SlaveKnown DEF Places, Clears, Serving, Records, Status, Results, Points
<1>3. /\ Alone(c) /\ BootTyped' /\ MasterAt' /\ pc'[0] = pc[0]
      /\ master' = master /\ i' = i /\ todo' = todo /\ loaded' = loaded /\ made' = made
      /\ \/ Went(c, "run", "announce", s) /\ master.entrypoint = NULL
         \/ Went(c, "run", "sync", s) /\ master.entrypoint # NULL /\ master.entrypoint.sync
         \/ Went(c, "run", "worker", s) /\ master.entrypoint # NULL /\ ~master.entrypoint.sync
         \/ Went(c, "sync", "synced", [s EXCEPT !.status = "INITDONE"])
         \/ Went(c, "synced", "worker", s) /\ master.status = "INITDONE"
  BY <1>1, <1>2, Moves
<1>4. pc[0] \in Booting => BootPlace(c)'
  BY <1>3, SlaveKnown DEF Went, Records, BootInv, MasterAt, BootPlace, Clears, Booting
<1>5. pc[0] \notin Booting => Stage(c)'
  <2> SUFFICES ASSUME pc[0] \notin Booting PROVE Stage(c)'  OBVIOUS
  <2>1. Stage(c) /\ pc[0] \in Serving /\ s \in Records  BY SlaveKnown
  <2>2. StatusAt(c)'
    BY <1>3, <2>1
       DEF Went, Records, BootInv, MasterAt, Serving, Stage, StatusAt, Together, Worker
  <2>3. Together(c)'
    BY <1>3, <2>1
       DEF Went, Records, BootInv, MasterAt, Serving, Stage, StatusAt, Together, BeforeSync,
           BeforeEnd, ThreadAt, Starting
  <2>4. ThreadAt(c)'
    BY <1>3, <2>1
       DEF Went, Records, BootInv, MasterAt, Serving, Stage, StatusAt, Together, ThreadAt,
           Starting, Worker, BeforeSync
  <2> QED  BY <2>2, <2>3, <2>4 DEF Stage
<1>6. pc[0] \in {"main", "created"} => ~Fresh(c) \/ Fresh(c)' \/ Starting(c)
  <2> SUFFICES ASSUME pc[0] \in {"main", "created"}, Fresh(c), ~Starting(c) PROVE Fresh(c)'
    OBVIOUS
  <2>1. Stage(c) /\ s \in Records  BY SlaveKnown DEF Booting
  <2> QED
    BY <1>3, <2>1
       DEF Went, Records, BootInv, MasterAt, Serving, Fresh, Stage, StatusAt, Together, ThreadAt
<1> QED  BY <1>3, <1>4, <1>5, <1>6, OneSlave

\* It waits for a thread, or for the end of the program, and starts the thread.
LEMMA SlaveWorks ==
  ASSUME BootAssumption, BootInv, NEW c \in Slave, corethread_worker(c)
  PROVE  BootInv'
<1> DEFINE s == slave[c]
<1>1. \/ Move(c, "worker", "poll_master", [s EXCEPT !.status = "RETURN"])
      \/ Move(c, "poll_master", "returned", s) /\ master.status = "RETURN"
      \/ Move(c, "poll_master", "poll_funcpoint", s)
      \/ Move(c, "poll_funcpoint", "poll_master", s)
      \/ Move(c, "poll_funcpoint", "begin", s) /\ s.funcpoint # NULL
      \/ Move(c, "begin", "respond", [s EXCEPT !.return_val = -1])
      \/ Move(c, "respond", "exit", [s EXCEPT !.status = "INITDONE"])
      \/ Move(c, "ended", "released", [s EXCEPT !.status = "RETURN"])
      \/ Move(c, "released", "poll_master", s) /\ s.funcpoint = NULL
  <2>1. CASE corethread_worker(c)
    BY <2>1, SlaveKnown, CoreKnown DEF corethread_worker, At, Goto, SetStatus, Move, rest
  <2> QED  BY <2>1
<1>2. /\ {"poll_master", "returned", "poll_funcpoint", "begin", "respond", "exit",
          "released"} \subseteq Places
      /\ {[s EXCEPT !.status = "RETURN"], s, [s EXCEPT !.return_val = -1], [s
          EXCEPT !.status = "INITDONE"]} \subseteq Records
  BY SlaveKnown DEF Places, Clears, Serving, Records, Status, Results, Points
<1>3. /\ Alone(c) /\ BootTyped' /\ MasterAt' /\ pc'[0] = pc[0]
      /\ master' = master /\ i' = i /\ todo' = todo /\ loaded' = loaded /\ made' = made
      /\ \/ Went(c, "worker", "poll_master", [s EXCEPT !.status = "RETURN"])
         \/ Went(c, "poll_master", "returned", s) /\ master.status = "RETURN"
         \/ Went(c, "poll_master", "poll_funcpoint", s)
         \/ Went(c, "poll_funcpoint", "poll_master", s)
         \/ Went(c, "poll_funcpoint", "begin", s) /\ s.funcpoint # NULL
         \/ Went(c, "begin", "respond", [s EXCEPT !.return_val = -1])
         \/ Went(c, "respond", "exit", [s EXCEPT !.status = "INITDONE"])
         \/ Went(c, "ended", "released", [s EXCEPT !.status = "RETURN"])
         \/ Went(c, "released", "poll_master", s) /\ s.funcpoint = NULL
  BY <1>1, <1>2, Moves
<1>4. pc[0] \in Booting => BootPlace(c)'
  BY <1>3, SlaveKnown DEF Went, Records, BootInv, MasterAt, BootPlace, Clears, Booting
<1>5. pc[0] \notin Booting => Stage(c)'
  <2> SUFFICES ASSUME pc[0] \notin Booting PROVE Stage(c)'  OBVIOUS
  <2>1. Stage(c) /\ pc[0] \in Serving /\ s \in Records  BY SlaveKnown
  <2>2. StatusAt(c)'
    BY <1>3, <2>1
       DEF Went, Records, BootInv, MasterAt, Serving, Stage, StatusAt, Together, Worker
  <2>3. Together(c)'
    BY <1>3, <2>1
       DEF Went, Records, BootInv, MasterAt, Serving, Stage, StatusAt, Together, BeforeSync,
           BeforeEnd, ThreadAt, Starting
  <2>4. ThreadAt(c)'
    BY <1>3, <2>1
       DEF Went, Records, BootInv, MasterAt, Serving, Stage, StatusAt, Together, ThreadAt,
           Starting, Worker, BeforeSync
  <2> QED  BY <2>2, <2>3, <2>4 DEF Stage
<1>6. pc[0] \in {"main", "created"} => ~Fresh(c) \/ Fresh(c)' \/ Starting(c)
  <2> SUFFICES ASSUME pc[0] \in {"main", "created"}, Fresh(c), ~Starting(c) PROVE Fresh(c)'
    OBVIOUS
  <2>1. Stage(c) /\ s \in Records  BY SlaveKnown DEF Booting
  <2> QED
    BY <1>3, <2>1
       DEF Went, Records, BootInv, MasterAt, Serving, Fresh, Stage, StatusAt, Together, ThreadAt
<1> QED  BY <1>3, <1>4, <1>5, <1>6, OneSlave

\* The thread leaves its result.
LEMMA ThreadEnds ==
  ASSUME BootAssumption, BootInv, NEW c \in Slave, corethread_exit(c)
  PROVE  BootInv'
<1> DEFINE s == slave[c]
<1>1. \/ Move(c, "exit", "exit_status", [s EXCEPT !.return_val = s.funcpoint])
      \/ Move(c, "exit_status", "ended", [s EXCEPT !.status = "RETURN"])
  <2>1. CASE corethread_exit(c)
    BY <2>1, SlaveKnown, CoreKnown DEF corethread_exit, At, Goto, SetStatus, Move, rest
  <2> QED  BY <2>1
<1>2. /\ {"exit_status", "ended"} \subseteq Places
      /\ {[s EXCEPT !.return_val = s.funcpoint], [s EXCEPT !.status = "RETURN"]} \subseteq Records
  BY SlaveKnown DEF Places, Clears, Serving, Records, Status, Results, Points
<1>3. /\ Alone(c) /\ BootTyped' /\ MasterAt' /\ pc'[0] = pc[0]
      /\ master' = master /\ i' = i /\ todo' = todo /\ loaded' = loaded /\ made' = made
      /\ \/ Went(c, "exit", "exit_status", [s EXCEPT !.return_val = s.funcpoint])
         \/ Went(c, "exit_status", "ended", [s EXCEPT !.status = "RETURN"])
  BY <1>1, <1>2, Moves
<1>4. pc[0] \in Booting => BootPlace(c)'
  BY <1>3, SlaveKnown DEF Went, Records, BootInv, MasterAt, BootPlace, Clears, Booting
<1>5. pc[0] \notin Booting => Stage(c)'
  <2> SUFFICES ASSUME pc[0] \notin Booting PROVE Stage(c)'  OBVIOUS
  <2>1. Stage(c) /\ pc[0] \in Serving /\ s \in Records  BY SlaveKnown
  <2>2. StatusAt(c)'
    BY <1>3, <2>1
       DEF Went, Records, BootInv, MasterAt, Serving, Stage, StatusAt, Together, Worker
  <2>3. Together(c)'
    BY <1>3, <2>1
       DEF Went, Records, BootInv, MasterAt, Serving, Stage, StatusAt, Together, BeforeSync,
           BeforeEnd, ThreadAt, Starting
  <2>4. ThreadAt(c)'
    BY <1>3, <2>1
       DEF Went, Records, BootInv, MasterAt, Serving, Stage, StatusAt, Together, ThreadAt,
           Starting, Worker, BeforeSync
  <2> QED  BY <2>2, <2>3, <2>4 DEF Stage
<1>6. pc[0] \in {"main", "created"} => ~Fresh(c) \/ Fresh(c)' \/ Starting(c)
  <2> SUFFICES ASSUME pc[0] \in {"main", "created"}, Fresh(c), ~Starting(c) PROVE Fresh(c)'
    OBVIOUS
  <2>1. Stage(c) /\ s \in Records  BY SlaveKnown DEF Booting
  <2> QED
    BY <1>3, <2>1
       DEF Went, Records, BootInv, MasterAt, Serving, Fresh, Stage, StatusAt, Together, ThreadAt
<1> QED  BY <1>3, <1>4, <1>5, <1>6, OneSlave

\* The program has returned.
LEMMA SlaveLeaves ==
  ASSUME BootAssumption, BootInv, NEW c \in Slave, 
         returned(c) \/ announce(c) \/ look_return(c) \/ leave(c)
  PROVE  BootInv'
<1> DEFINE s == slave[c]
<1>1. \/ Move(c, "returned", "announce", [s EXCEPT !.return_val = 0])
      \/ Move(c, "announce", "look_return", [s EXCEPT !.status = "RETURN"])
      \/ Move(c, "look_return", "leave", s) /\ master.status = "RETURN"
      \/ Move(c, "look_return", "announce", s)
      \/ Move(c, "leave", "delay", [s EXCEPT !.status = "NULL"])
  <2>1. CASE returned(c)
    BY <2>1, SlaveKnown, CoreKnown DEF returned, history, At, Goto, Move, rest
  <2>2. CASE announce(c)
    BY <2>2, SlaveKnown, CoreKnown DEF announce, At, Goto, SetStatus, Move, rest
  <2>3. CASE look_return(c)
    BY <2>3, SlaveKnown, CoreKnown DEF look_return, At, Goto, Move, rest
  <2>4. CASE leave(c)
    BY <2>4, SlaveKnown, CoreKnown DEF leave, At, Goto, SetStatus, Move, rest
  <2> QED  BY <2>1, <2>2, <2>3, <2>4
<1>2. /\ {"announce", "look_return", "leave", "delay"} \subseteq Places
      /\ {[s EXCEPT !.return_val = 0], [s EXCEPT !.status = "RETURN"], s, [s
          EXCEPT !.status = "NULL"]} \subseteq Records
  BY SlaveKnown DEF Places, Clears, Serving, Records, Status, Results, Points
<1>3. /\ Alone(c) /\ BootTyped' /\ MasterAt' /\ pc'[0] = pc[0]
      /\ master' = master /\ i' = i /\ todo' = todo /\ loaded' = loaded /\ made' = made
      /\ \/ Went(c, "returned", "announce", [s EXCEPT !.return_val = 0])
         \/ Went(c, "announce", "look_return", [s EXCEPT !.status = "RETURN"])
         \/ Went(c, "look_return", "leave", s) /\ master.status = "RETURN"
         \/ Went(c, "look_return", "announce", s)
         \/ Went(c, "leave", "delay", [s EXCEPT !.status = "NULL"])
  BY <1>1, <1>2, Moves
<1>4. pc[0] \in Booting => BootPlace(c)'
  BY <1>3, SlaveKnown DEF Went, Records, BootInv, MasterAt, BootPlace, Clears, Booting
<1>5. pc[0] \notin Booting => Stage(c)'
  <2> SUFFICES ASSUME pc[0] \notin Booting PROVE Stage(c)'  OBVIOUS
  <2>1. Stage(c) /\ pc[0] \in Serving /\ s \in Records  BY SlaveKnown
  <2>2. StatusAt(c)'
    BY <1>3, <2>1
       DEF Went, Records, BootInv, MasterAt, Serving, Stage, StatusAt, Together, Worker
  <2>3. Together(c)'
    BY <1>3, <2>1
       DEF Went, Records, BootInv, MasterAt, Serving, Stage, StatusAt, Together, BeforeSync,
           BeforeEnd, ThreadAt, Starting
  <2>4. ThreadAt(c)'
    BY <1>3, <2>1
       DEF Went, Records, BootInv, MasterAt, Serving, Stage, StatusAt, Together, ThreadAt,
           Starting, Worker, BeforeSync
  <2> QED  BY <2>2, <2>3, <2>4 DEF Stage
<1>6. pc[0] \in {"main", "created"} => ~Fresh(c) \/ Fresh(c)' \/ Starting(c)
  <2> SUFFICES ASSUME pc[0] \in {"main", "created"}, Fresh(c), ~Starting(c) PROVE Fresh(c)'
    OBVIOUS
  <2>1. Stage(c) /\ s \in Records  BY SlaveKnown DEF Booting
  <2> QED
    BY <1>3, <2>1
       DEF Went, Records, BootInv, MasterAt, Serving, Fresh, Stage, StatusAt, Together, ThreadAt
<1> QED  BY <1>3, <1>4, <1>5, <1>6, OneSlave

-----------------------------------------------------------------------------
(* Leftovers are cleared. *)

\* While the master boots only the places of the slaves matter.
LEMMA WhileBooting ==
  ASSUME BootInv, BootTyped', MasterAt', pc'[0] \in Booting, joined' = joined,
         \A d \in Slave : BootPlace(d)'
  PROVE  BootInv'
<1>1. Slaves'  BY DEF Slaves
<1>2. Todo'  BY DEF Todo, Booting
<1> QED  BY <1>1, <1>2 DEF BootInv, Joined

LEMMA ClearsInBooting ==
  ASSUME BootAssumption, BootInv, NEW c \in Core, pc[c] \in Clears \ {"delay"}
  PROVE  /\ pc[0] \in Booting \ {"notify_init"}
         /\ \A d \in Slave : BootPlace(d)
<1>1. CASE c = 0
  BY <1>1, SlaveKnown DEF Clears, Booting
<1>2. CASE c # 0
  <2>1. c \in Slave  BY <1>2, Zero
  <2>2. pc[0] \in Booting  BY <2>1, SlaveKnown DEF Stage, StatusAt, Clears, Worker
  <2> QED  BY <2>1, <2>2, SlaveKnown DEF BootPlace, Clears
<1> QED  BY <1>1, <1>2

LEMMA ClearStatusKeeps ==
  ASSUME BootAssumption, BootInv, NEW c \in Core, clear_status(c)
  PROVE  BootInv'
<1>1. /\ pc[c] = "clear_status" /\ pc' = [pc EXCEPT ![c] = "clear_entrypoint"]
      /\ master' = [master EXCEPT !.status = "NULL"] /\ slave' = slave
      /\ i' = i /\ todo' = todo /\ loaded' = loaded /\ made' = made /\ joined' = joined
  BY DEF clear_status, At, Goto, rest
<1>2. /\ pc[0] \in Booting \ {"notify_init"}
      /\ \A d \in Slave : BootPlace(d)
  BY <1>1, ClearsInBooting DEF Clears
<1>3. pc'[0] \in Booting \ {"notify_init"} /\ \A d \in Core : d # c => pc'[d] = pc[d]
  BY <1>1, <1>2, CoreKnown DEF Booting
<1>4. pc'[c] = "clear_entrypoint" /\ "clear_entrypoint" \in Places
  BY <1>1, CoreKnown DEF Places, Clears
<1>5. BootTyped'
  BY <1>1, <1>3, <1>4, CoreKnown DEF BootInv, BootTyped, Status
<1>6. MasterAt'
  BY <1>1, <1>3, CoreKnown DEF MasterAt, Serving, Booting
<1>7. \A d \in Slave : BootPlace(d)'
  BY <1>1, <1>2, <1>3, <1>4, Zero DEF BootPlace, Clears
<1> QED  BY <1>1, <1>3, <1>5, <1>6, <1>7, WhileBooting

LEMMA ClearEntrypointKeeps ==
  ASSUME BootAssumption, BootInv, NEW c \in Core, clear_entrypoint(c)
  PROVE  BootInv'
<1>1. /\ pc[c] = "clear_entrypoint" /\ pc' = [pc EXCEPT ![c] = "clear_slave"]
      /\ master' = [master EXCEPT !.entrypoint = NULL] /\ slave' = slave
      /\ i' \in {0, i} /\ joined' = joined /\ made' = made
  BY DEF clear_entrypoint, At, Goto, history
<1>2. /\ pc[0] \in Booting \ {"notify_init"}
      /\ \A d \in Slave : BootPlace(d)
  BY <1>1, ClearsInBooting DEF Clears
<1>3. pc'[0] \in Booting \ {"notify_init"} /\ \A d \in Core : d # c => pc'[d] = pc[d]
  BY <1>1, <1>2, CoreKnown DEF Booting
<1>4. pc'[c] = "clear_slave" /\ "clear_slave" \in Places  BY <1>1, CoreKnown DEF Places, Clears
<1>5. BootTyped'
  BY <1>1, <1>3, <1>4, CoreKnown DEF BootInv, BootTyped, Status
<1>6. MasterAt'
  <2>1. master'.status = master.status  BY <1>1, CoreKnown
  <2>2. master.status = "BOOT" => pc'[0] = pc[0] 
    BY <1>1, <1>3, CoreKnown DEF BootInv, MasterAt
  <2> QED  BY <1>2, <1>3, <2>1, <2>2 DEF BootInv, MasterAt, Serving, Booting
<1>7. \A d \in Slave : BootPlace(d)'
  BY <1>1, <1>2, <1>3, <1>4, Zero DEF BootPlace, Clears
<1> QED  BY <1>1, <1>3, <1>5, <1>6, <1>7, WhileBooting

LEMMA ClearSlaveKeeps ==
  ASSUME BootAssumption, BootInv, NEW c \in Core, clear_slave(c)
  PROVE  BootInv'
<1>1. /\ pc[c] = "clear_slave" /\ master' = master /\ joined' = joined /\ made' = made
      /\ pc' = [pc EXCEPT ![c] = "boot"] \/ (pc' = pc /\ c = 0)
      /\ \/ c # 0 /\ pc' = [pc EXCEPT ![c] = "boot"] /\ slave' = [slave EXCEPT ![c] = Cleared]
            /\ i' = i
         \/ c = 0 /\ slave' = [slave EXCEPT ![i] = Cleared] /\ i' = i + 1
  BY DEF clear_slave, At, Goto, history
<1>2. /\ pc[0] \in Booting \ {"notify_init"}
      /\ \A d \in Slave : BootPlace(d)
  BY <1>1, ClearsInBooting DEF Clears
<1>3. pc'[0] \in Booting \ {"notify_init"} /\ \A d \in Core : d # c => pc'[d] = pc[d]
  BY <1>1, <1>2, CoreKnown DEF Booting
<1>4. Cleared \in Records /\ Cleared.status = "NULL" /\ Cleared.funcpoint = NULL
  BY DEF Cleared, Records, Status, Results, Points
<1>5. BootTyped'
  <2>1. pc' \in [Core -> Places]  BY <1>1, CoreKnown DEF Places
  <2>2. slave' \in [Core -> Records]  BY <1>1, <1>4, CoreKnown
  <2>3. i' \in Nat  BY <1>1, CoreKnown
  <2> QED  BY <1>1, <1>3, <2>1, <2>2, <2>3, CoreKnown DEF BootTyped, Records
<1>6. MasterAt'
  <2>1. master.status = "BOOT" => pc'[0] = pc[0] 
    BY <1>1, <1>3, CoreKnown DEF BootInv, MasterAt
  <2> QED  BY <1>1, <1>2, <1>3, <2>1 DEF BootInv, MasterAt, Serving, Booting
<1>7. ASSUME NEW d \in Slave PROVE BootPlace(d)'
  <2>1. d \in Core /\ d # 0 /\ BootPlace(d)  BY <1>2, Zero
  <2>2. slave'[d] = slave[d] \/ slave'[d] = Cleared
    <3>1. slave' = [slave EXCEPT ![c] = Cleared] \/ slave' = [slave EXCEPT ![i] = Cleared]  BY <1>1
    <3> QED  BY <2>1, <3>1, CoreKnown
  <2>3. CASE d # c
    <3>1. pc'[0] = pc[0] \/ pc[0] = "clear_slave"  BY <1>1, CoreKnown
    <3>2. pc'[d] = pc[d]  BY <1>3, <2>1, <2>3
    <3> QED  BY <1>3, <1>4, <2>1, <2>2, <3>1, <3>2 DEF BootPlace
  <2>4. CASE d = c
    <3>1. pc'[d] = "boot" /\ slave'[d] = Cleared  BY <1>1, <2>1, <2>4, CoreKnown
    <3> QED  BY <1>3, <1>4, <3>1 DEF BootPlace
  <2> QED  BY <2>3, <2>4
<1> QED  BY <1>1, <1>3, <1>5, <1>6, <1>7, WhileBooting

LEMMA DelayMasterKeeps ==
  ASSUME BootAssumption, BootInv, delay(0)
  PROVE  BootInv'
<1>1. /\ pc[0] = "delay" /\ pc' = [pc EXCEPT ![0] = "clear_status"]
      /\ master' = master /\ slave' = slave /\ i' = i /\ joined' = joined /\ loaded' = loaded
      /\ made' = made
  BY DEF delay, At, Goto, rest
<1>2. pc'[0] = "clear_status" /\ \A d \in Core : d # 0 => pc'[d] = pc[d]
  BY <1>1, CoreKnown
<1>3. BootTyped'
  BY <1>1, <1>2, CoreKnown DEF BootTyped, Records, Places, Clears, Booting
<1>4. MasterAt'
  BY <1>1, <1>2 DEF BootInv, MasterAt, Serving, Booting
<1>5. \A d \in Slave : BootPlace(d)'
  BY <1>1, <1>2, Zero, SlaveKnown DEF BootPlace, Booting
<1> QED  BY <1>1, <1>2, <1>3, <1>4, <1>5, WhileBooting DEF Booting

-----------------------------------------------------------------------------
(* What the master does until it serves. *)

LEMMA BootMasterKeeps ==
  ASSUME BootAssumption, BootInv, boot_master
  PROVE  BootInv'
<1>1. /\ pc[0] = "boot" /\ (pc' = pc \/ pc' = [pc EXCEPT ![0] = "download"])
      /\ master' = [master EXCEPT !.status = "BOOT"]
      /\ slave' = slave /\ i' = i /\ joined' = joined /\ loaded' = loaded
      /\ made' = made
  BY DEF boot_master, At, Goto, rest
<1>2. pc'[0] \in {"boot", "download"} /\ \A d \in Core : d # 0 => pc'[d] = pc[d]
  BY <1>1, CoreKnown
<1>3. BootTyped'
  BY <1>1, <1>2, CoreKnown, SMTT(30) DEF BootTyped, Records, Places, Status, Booting
<1>4. MasterAt'
  BY <1>1, <1>2, CoreKnown DEF MasterAt, Serving, Booting
<1>5. \A d \in Slave : BootPlace(d)'
  BY <1>1, <1>2, Zero, SlaveKnown DEF BootPlace, Booting
<1> QED  BY <1>1, <1>2, <1>3, <1>4, <1>5, WhileBooting DEF Booting

LEMMA DownloadKeeps ==
  ASSUME BootAssumption, BootInv, download
  PROVE  BootInv'
<1>1. PICK e \in Downloads :
        /\ pc[0] = "download" /\ pc' = [pc EXCEPT ![0] = "notify_init"]
        /\ master' = [master EXCEPT !.entrypoint = e] /\ loaded' = e
        /\ slave' = slave /\ i' = i /\ joined' = joined /\ made' = made
        /\ \A c \in Slave : pc[c] = "spin"
  BY DEF download, At, Goto
<1>2. pc'[0] = "notify_init" /\ \A d \in Core : d # 0 => pc'[d] = pc[d]
  BY <1>1, CoreKnown
<1>3. BootTyped'
  BY <1>1, <1>2, CoreKnown DEF BootTyped, Records, Places, Status, Booting
<1>4. MasterAt'
  BY <1>1, <1>2, CoreKnown DEF BootInv, MasterAt, Serving, Booting
<1>5. \A d \in Slave : BootPlace(d)'
  BY <1>1, <1>2, Zero, SlaveKnown DEF BootPlace, Booting
<1> QED  BY <1>1, <1>2, <1>3, <1>4, <1>5, WhileBooting DEF Booting

-----------------------------------------------------------------------------
(* What the master does while it serves. *)

\* The master goes on, and no slave does.
Leads(to) ==
  /\ pc' = [pc EXCEPT ![0] = to] /\ slave' = slave /\ i' \in Nat
  /\ master' \in [status : Status, entrypoint : Downloads \cup {NULL}]
  /\ made' = made /\ joined' = joined

LEMMA MasterLeads ==
  ASSUME BootAssumption, BootInv, NEW to \in Booting \cup Serving, Leads(to)
  PROVE  /\ pc'[0] = to /\ BootTyped' /\ Joined'
         /\ \A d \in Slave : /\ pc'[d] = pc[d] /\ slave'[d] = slave[d]
                             /\ StatusAt(d) => StatusAt(d)'
<1>1. pc'[0] = to /\ \A d \in Slave : pc'[d] = pc[d] /\ slave'[d] = slave[d]
  BY CoreKnown, Zero DEF Leads
<1>2. to \in Places  BY DEF Places, Booting, Clears
<1>3. BootTyped'  BY <1>1, <1>2, CoreKnown DEF Leads, BootTyped, Records
<1>4. \A d \in Slave : StatusAt(d) => StatusAt(d)'  BY <1>1 DEF StatusAt
<1>5. Joined'  BY DEF BootInv, Joined, Leads
<1> QED  BY <1>1, <1>3, <1>4, <1>5

LEMMA WhileServing ==
  ASSUME BootTyped', MasterAt', pc'[0] \notin Booting, \A d \in Slave : Stage(d)', Todo', Joined'
  PROVE  BootInv'
<1>1. Slaves'  BY DEF Slaves
<1> QED  BY <1>1 DEF BootInv

\* What was downloaded.
LEMMA WhatIsLoaded ==
  ASSUME BootAssumption, BootInv, pc[0] \in Serving, loaded # NULL
  PROVE  loaded.sync \in BOOLEAN /\ loaded.main \in Seq(Operations) /\ JoinsOwn(loaded.main)
  BY DEF BootInv, MasterAt, BootAssumption

LEMMA NotifyInitKeeps ==
  ASSUME BootAssumption, BootInv, notify_init
  PROVE  BootInv'
<1>1. /\ pc[0] = "notify_init" /\ Leads("wait_init") /\ i' = 1 /\ loaded' = loaded /\ todo' = todo
      /\ master'.status = "INIT" /\ master'.entrypoint = master.entrypoint
  BY CoreKnown DEF notify_init, At, Goto, history, Leads, Status
<1>2. /\ pc'[0] = "wait_init" /\ BootTyped' /\ Joined'
      /\ \A d \in Slave : pc'[d] = pc[d] /\ slave'[d] = slave[d]
  BY <1>1, MasterLeads DEF Serving
<1>3. MasterAt'  BY <1>1, <1>2 DEF BootInv, MasterAt, Serving, Booting
<1>4. ASSUME NEW d \in Slave PROVE Stage(d)'
  <2>1. pc[d] = "spin" /\ slave[d].status \in {"NULL", "BOOT"} /\ slave[d].funcpoint = NULL /\ 1 <= d
    BY <1>1, SlaveKnown, Zero DEF BootPlace, Booting
  <2> QED  BY <1>1, <1>2, <2>1 DEF Stage, StatusAt, Together, ThreadAt, Starting
<1>5. Todo'  BY <1>2 DEF Todo
<1> QED  BY <1>2, <1>3, <1>4, <1>5, WhileServing DEF Booting

\* The two steps of a loop over the slaves.
LEMMA EachSteps ==
  ASSUME BootAssumption, BootInv, NEW from, NEW awaited, NEW to, Each(from, awaited, to),
         from \in Booting \cup Serving, pc[0] \in Booting \cup Serving
  PROVE  /\ pc[0] = from /\ master' = master /\ todo' = todo /\ loaded' = loaded
         /\ \/ Leads(from) /\ i' = i + 1 /\ i < CoreCnt /\ slave[i].status \in awaited
            \/ Leads(to) /\ i' = 1 /\ i = CoreCnt
<1>1. /\ pc[0] = from /\ master' = master /\ slave' = slave /\ todo' = todo /\ loaded' = loaded
      /\ made' = made /\ joined' = joined
  BY DEF Each, At, history
<1>2. CASE i < CoreCnt /\ slave[i].status \in awaited /\ i' = i + 1 /\ UNCHANGED pc
  <2>1. pc' = [pc EXCEPT ![0] = from]  BY <1>1, <1>2, CoreKnown
  <2>2. i' \in Nat  BY <1>2, CoreKnown
  <2> QED  BY <1>1, <1>2, <2>1, <2>2, CoreKnown DEF Leads
<1>3. CASE i = CoreCnt /\ i' = 1 /\ Goto(0, to)
  BY <1>1, <1>3, CoreKnown DEF Leads, Goto
<1> QED  BY <1>2, <1>3 DEF Each

LEMMA WaitInitKeeps ==
  ASSUME BootAssumption, BootInv, wait_init
  PROVE  BootInv'
<1>1. /\ pc[0] = "wait_init" /\ master' = master /\ todo' = todo /\ loaded' = loaded
      /\ \/ Leads("wait_init") /\ i' = i + 1 /\ i < CoreCnt /\ slave[i].status = "INIT"
         \/ Leads("run") /\ i' = 1 /\ i = CoreCnt
  BY CoreKnown, EachSteps DEF wait_init, Serving
<1>2. PICK to \in {"wait_init", "run"} :
        /\ Leads(to) /\ pc'[0] = to /\ BootTyped' /\ Joined'
        /\ \A d \in Slave :
           pc'[d] = pc[d] /\ slave'[d] = slave[d] /\ (StatusAt(d) => StatusAt(d)')
  BY <1>1, MasterLeads DEF Serving
<1>3. \/ pc'[0] = "wait_init" /\ i' = i + 1 /\ slave[i].status = "INIT"
      \/ pc'[0] = "run" /\ i' = 1 /\ i = CoreCnt
  BY <1>1, MasterLeads DEF Serving
<1>4. MasterAt'  BY <1>1, <1>3, CoreKnown DEF BootInv, MasterAt, Serving, Booting
<1>5. ASSUME NEW d \in Slave PROVE Stage(d)'
  <2>1. Stage(d) /\ d \in Nat /\ d >= 1 /\ d < CoreCnt /\ i \in Nat
    BY <1>1, SlaveKnown, Zero, CoreKnown DEF Booting
  <2>2. pc[d] \in {"spin", "ack_init"} => pc'[0] = "wait_init" /\ i' <= d
    <3>1. pc[d] \in {"spin", "ack_init"} => i <= d /\ slave[d].status # "INIT"
      BY <2>1 DEF Stage, StatusAt, Together
    <3> QED  BY <1>3, <2>1, <3>1
  <2>3. Together(d)'
    BY <1>1, <1>2, <1>3, <2>1, <2>2 DEF Stage, Together, BeforeSync, BeforeEnd, Serving
  <2>4. ThreadAt(d)'
    BY <1>1, <1>2, <1>3, <2>1 DEF Stage, ThreadAt, Starting
  <2> QED  BY <1>2, <2>1, <2>3, <2>4 DEF Stage
<1>6. Todo'  BY <1>3 DEF Todo
<1> QED  BY <1>2, <1>3, <1>4, <1>5, <1>6, WhileServing DEF Booting


\* The program starts on the master.
LEMMA RunKeeps ==
  ASSUME BootAssumption, BootInv, run(0)
  PROVE  BootInv'
<1>1. /\ pc[0] = "run" /\ master' = master /\ loaded' = loaded /\ i' = i
      /\ \/ Leads("wait_return") /\ master.entrypoint = NULL
         \/ Leads("sync") /\ master.entrypoint # NULL /\ master.entrypoint.sync
         \/ Leads("main") /\ master.entrypoint # NULL /\ ~master.entrypoint.sync
      /\ master.entrypoint # NULL => todo' = master.entrypoint.main
  BY CoreKnown DEF run, At, Goto, history, Leads
<1>2. master.entrypoint = loaded /\ i = 1 /\ pc[0] \notin Booting
  BY <1>1 DEF BootInv, MasterAt, Serving, Booting
<1>3. /\ pc'[0] \in {"wait_return", "sync", "main"} /\ BootTyped' /\ Joined'
      /\ pc'[0] = "wait_return" <=> loaded = NULL
      /\ loaded # NULL => (pc'[0] = "sync" <=> loaded.sync)
      /\ \A d \in Slave :
           pc'[d] = pc[d] /\ slave'[d] = slave[d] /\ (StatusAt(d) => StatusAt(d)')
  BY <1>1, <1>2, MasterLeads DEF Serving
<1>4. MasterAt'
  BY <1>1, <1>2, <1>3, CoreKnown DEF BootInv, MasterAt, Serving, Booting
<1>5. ASSUME NEW d \in Slave PROVE Stage(d)'
  <2>1. Stage(d) /\ d \in Nat /\ d >= 1  BY <1>2, SlaveKnown, Zero
  <2>2. Together(d)'
    BY <1>1, <1>2, <1>3, <2>1 DEF Stage, Together, BeforeSync, BeforeEnd, Serving
  <2>3. ThreadAt(d)'
    BY <1>1, <1>3, <2>1 DEF Stage, ThreadAt, Starting
  <2> QED  BY <1>3, <2>1, <2>2, <2>3 DEF Stage
<1>6. Todo'
  <2> SUFFICES ASSUME pc'[0] = "main" PROVE Todo'  BY <1>3 DEF Todo
  <2>1. todo' = loaded.main /\ loaded.main \in Seq(Operations) /\ JoinsOwn(loaded.main)
    BY <1>1, <1>2, <1>3, WhatIsLoaded DEF Serving
  <2> QED  BY <2>1 DEF Todo, JoinsOwn
<1> QED  BY <1>2, <1>3, <1>4, <1>5, <1>6, WhileServing DEF Booting

LEMMA SyncEachKeeps ==
  ASSUME BootAssumption, BootInv, Each("sync", {"NULL", "INITDONE"}, "start") \/ another_round
  PROVE  BootInv'
<1>1. /\ pc[0] = "sync" /\ master' = master /\ todo' = todo /\ loaded' = loaded
      /\ \/ Leads("sync") /\ i' = i + 1 /\ i < CoreCnt /\ slave[i].status \in {"NULL", "INITDONE"}
         \/ Leads("start") /\ i' = 1 /\ i = CoreCnt
         \/ Leads("sync") /\ i' = 1
  <2>1. CASE Each("sync", {"NULL", "INITDONE"}, "start")
    BY <2>1, CoreKnown, EachSteps DEF Serving
  <2>2. CASE another_round
    BY <2>2, CoreKnown DEF another_round, At, Leads, history
  <2> QED  BY <2>1, <2>2
<1>2. /\ BootTyped' /\ Joined'
      /\ \A d \in Slave :
           pc'[d] = pc[d] /\ slave'[d] = slave[d] /\ (StatusAt(d) => StatusAt(d)')
  BY <1>1, MasterLeads DEF Serving
<1>3. \/ pc'[0] = "sync" /\ i' = i + 1 /\ slave[i].status \in {"NULL", "INITDONE"}
      \/ pc'[0] = "start" /\ i' = 1 /\ i = CoreCnt
      \/ pc'[0] = "sync" /\ i' = 1
  BY <1>1, MasterLeads DEF Serving
<1>4. MasterAt'  BY <1>1, <1>3, CoreKnown DEF BootInv, MasterAt, Serving, Booting
<1>5. ASSUME NEW d \in Slave PROVE Stage(d)'
  <2>1. Stage(d) /\ d \in Nat /\ d >= 1 /\ d < CoreCnt /\ i \in Nat
    BY <1>1, SlaveKnown, Zero, CoreKnown DEF Booting
  <2>2. pc[d] = "sync" \/ (pc[d] = "run" /\ loaded # NULL /\ loaded.sync)
          => pc'[0] = "sync" /\ i' <= d
    <3>1. pc[d] = "sync" \/ (pc[d] = "run" /\ loaded # NULL /\ loaded.sync) =>
            i <= d /\ slave[d].status = "INIT"
      BY <1>1, <2>1 DEF Stage, StatusAt, Together, BeforeSync
    <3> QED  BY <1>3, <2>1, <3>1
  <2>3. Together(d)'
    BY <1>1, <1>2, <1>3, <2>1, <2>2 DEF Stage, Together, BeforeSync, BeforeEnd, Serving
  <2>4. ThreadAt(d)'
    BY <1>1, <1>2, <1>3, <2>1 DEF Stage, ThreadAt, Starting
  <2> QED  BY <1>2, <2>1, <2>3, <2>4 DEF Stage
<1>6. Todo'  BY <1>3 DEF Todo
<1> QED  BY <1>2, <1>3, <1>4, <1>5, <1>6, WhileServing DEF Booting

LEMMA StartKeeps ==
  ASSUME BootAssumption, BootInv, noc_sync, pc[0] = "start"
  PROVE  BootInv'
<1>1. /\ Leads("main") /\ i' = i /\ loaded' = loaded /\ todo' = todo
      /\ master'.status = "INITDONE" /\ master'.entrypoint = master.entrypoint
  BY CoreKnown DEF noc_sync, another_round, Each, At, Goto, rest, Leads, Status
<1>2. /\ pc'[0] = "main" /\ BootTyped' /\ Joined'
      /\ \A d \in Slave :
           pc'[d] = pc[d] /\ slave'[d] = slave[d] /\ (StatusAt(d) => StatusAt(d)')
  BY <1>1, MasterLeads DEF Serving
<1>3. MasterAt'  BY <1>1, <1>2 DEF BootInv, MasterAt, Serving, Booting
<1>4. ASSUME NEW d \in Slave PROVE Stage(d)'
  <2>1. Stage(d)  BY <1>2, SlaveKnown DEF Booting
  <2>2. loaded # NULL /\ loaded.sync  BY DEF BootInv, MasterAt
  <2>3. Together(d)'
    BY <1>1, <1>2, <2>1, <2>2 DEF Stage, Together, BeforeSync, BeforeEnd, Serving
  <2>4. ThreadAt(d)'
    BY <1>1, <1>2, <2>1 DEF Stage, ThreadAt, Starting
  <2> QED  BY <1>2, <2>1, <2>3, <2>4 DEF Stage
<1>5. Todo'
  <2>1. todo' = loaded.main /\ loaded # NULL  BY <1>1 DEF BootInv, MasterAt
  <2>2. loaded.main \in Seq(Operations) /\ JoinsOwn(loaded.main)  BY <2>1, WhatIsLoaded DEF Serving
  <2> QED  BY <1>2, <2>1, <2>2 DEF Todo, JoinsOwn
<1> QED  BY <1>2, <1>3, <1>4, <1>5, WhileServing DEF Booting

LEMMA MainReturnsKeeps ==
  ASSUME BootAssumption, BootInv, main_returns
  PROVE  BootInv'
<1>1. Leads("returned") /\ i' = i /\ loaded' = loaded /\ pc[0] = "main" /\ master' = master
  BY CoreKnown DEF main_returns, At, Goto, rest, Leads
<1>2. /\ pc'[0] = "returned" /\ BootTyped' /\ Joined'
      /\ \A d \in Slave :
           pc'[d] = pc[d] /\ slave'[d] = slave[d] /\ (StatusAt(d) => StatusAt(d)')
  BY <1>1, MasterLeads DEF Serving
<1>3. MasterAt'  BY <1>1, <1>2 DEF BootInv, MasterAt, Serving, Booting
<1>4. ASSUME NEW d \in Slave PROVE Stage(d)'
  <2>1. Stage(d)  BY <1>1, SlaveKnown DEF Booting
  <2>2. Together(d)'
    BY <1>1, <1>2, <2>1 DEF Stage, Together, BeforeSync, BeforeEnd, Serving
  <2>3. ThreadAt(d)'
    BY <1>1, <1>2, <2>1 DEF Stage, ThreadAt, Starting
  <2> QED  BY <1>2, <2>1, <2>2, <2>3 DEF Stage
<1>5. Todo'  BY <1>2 DEF Todo
<1> QED  BY <1>2, <1>3, <1>4, <1>5, WhileServing DEF Booting

LEMMA ReturnedMasterKeeps ==
  ASSUME BootAssumption, BootInv, returned(0)
  PROVE  BootInv'
<1>1. /\ pc[0] = "returned" /\ pc' = [pc EXCEPT ![0] = "wait_return"] /\ master' = master
      /\ slave' = [slave EXCEPT ![0].return_val = 0] /\ i' = 1 /\ loaded' = loaded
      /\ joined' = joined /\ made' = made
  BY DEF returned, At, Goto, history
<1>2. pc'[0] = "wait_return" /\ \A d \in Slave : pc'[d] = pc[d] /\ slave'[d] = slave[d]
  BY <1>1, CoreKnown, Zero
<1>3. BootTyped'
  <2>1. slave' \in [Core -> Records]  BY <1>1, CoreKnown DEF Records, Results
  <2>2. pc' \in [Core -> Places]  BY <1>1, CoreKnown DEF Places, Serving
  <2> QED  BY <1>1, <1>2, <2>1, <2>2, CoreKnown DEF BootTyped, Records, Serving
<1>4. MasterAt'  BY <1>1, <1>2 DEF BootInv, MasterAt, Serving, Booting
<1>5. ASSUME NEW d \in Slave PROVE Stage(d)'
  <2>1. Stage(d) /\ d \in Nat /\ d >= 1  BY <1>1, SlaveKnown, Zero DEF Booting
  <2>2. StatusAt(d)'  BY <1>2, <2>1 DEF Stage, StatusAt
  <2>3. Together(d)'
    BY <1>1, <1>2, <2>1 DEF Stage, Together, BeforeSync, BeforeEnd, Serving
  <2>4. ThreadAt(d)'
    BY <1>1, <1>2, <2>1 DEF Stage, ThreadAt, Starting
  <2> QED  BY <2>2, <2>3, <2>4 DEF Stage
<1>6. Todo' /\ Joined'  BY <1>1, <1>2 DEF Todo, BootInv, Joined
<1> QED  BY <1>2, <1>3, <1>4, <1>5, <1>6, WhileServing DEF Booting

\* Whom the master has come past is at rest.
LEMMA WaitReturnKeeps ==
  ASSUME BootAssumption, BootInv, wait_return
  PROVE  BootInv'
<1>1. /\ pc[0] \in {"wait_return", "wait_slave"} /\ master' = master /\ todo' = todo
      /\ loaded' = loaded
      /\ \/ Leads("wait_return") /\ i' = i + 1 /\ slave[i].status \in {"NULL", "RETURN"}
         \/ Leads("notify_return") /\ i' = 1 /\ i = CoreCnt
         \/ Leads("wait_slave") /\ i' = i
  <2>1. CASE Each("wait_return", {"NULL"}, "notify_return")
    BY <2>1, CoreKnown, EachSteps DEF Serving
  <2>2. CASE pc[0] = "wait_return" /\ Goto(0, "wait_slave") /\ UNCHANGED <<master, slave, rest>>
    BY <2>2, CoreKnown DEF Goto, Leads, rest
  <2>3. CASE /\ pc[0] = "wait_slave" /\ slave[i].status = "RETURN"
             /\ Goto(0, "wait_return") /\ i' = i + 1
             /\ UNCHANGED <<master, slave, todo, history>>
    BY <2>3, CoreKnown DEF Goto, Leads, history
  <2> QED  BY <2>1, <2>2, <2>3 DEF wait_return, At
<1>2. /\ BootTyped' /\ Joined'
      /\ \A d \in Slave :
           pc'[d] = pc[d] /\ slave'[d] = slave[d] /\ (StatusAt(d) => StatusAt(d)')
  BY <1>1, MasterLeads DEF Serving
<1>3. \/ pc'[0] = "wait_return" /\ i' = i + 1 /\ slave[i].status \in {"NULL", "RETURN"}
      \/ pc'[0] = "notify_return" /\ i' = 1 /\ i = CoreCnt
      \/ pc'[0] = "wait_slave" /\ i' = i
  BY <1>1, MasterLeads DEF Serving
<1>4. MasterAt'  BY <1>1, <1>3, CoreKnown DEF BootInv, MasterAt, Serving, Booting
<1>5. ASSUME NEW d \in Slave PROVE Stage(d)'
  <2>1. Stage(d) /\ d \in Nat /\ d >= 1 /\ d < CoreCnt /\ i \in Nat
    BY <1>1, SlaveKnown, Zero, CoreKnown DEF Booting
  <2> DEFINE busy == \/ pc[d] \in {"run", "sync", "synced", "worker", "exit", "exit_status"}
                     \/ pc[d] = "announce" /\ slave[d].status = "INIT"
  <2>2. busy => pc'[0] \in {"wait_return", "wait_slave"} /\ i' <= d
    <3>1. busy => i <= d /\ slave[d].status \in {"INIT", "INITDONE"}
      BY <1>1, <2>1 DEF Stage, StatusAt, Together, BeforeEnd, Serving
    <3> QED  BY <1>3, <2>1, <3>1
  <2>3. Together(d)'
    BY <1>1, <1>2, <1>3, <2>1, <2>2 DEF Stage, Together, BeforeSync, BeforeEnd, Serving
  <2>4. ThreadAt(d)'
    BY <1>1, <1>2, <1>3, <2>1 DEF Stage, ThreadAt, Starting
  <2> QED  BY <1>2, <2>1, <2>3, <2>4 DEF Stage
<1>6. Todo'  BY <1>3 DEF Todo
<1> QED  BY <1>2, <1>3, <1>4, <1>5, <1>6, WhileServing DEF Booting

LEMMA NotifyReturnKeeps ==
  ASSUME BootAssumption, BootInv, notify_return
  PROVE  BootInv'
<1>1. /\ pc[0] = "notify_return" /\ Leads("wait_null") /\ i' = i /\ loaded' = loaded
      /\ master'.status = "RETURN" /\ master'.entrypoint = master.entrypoint
  BY CoreKnown DEF notify_return, At, Goto, rest, Leads, Status
<1>2. /\ pc'[0] = "wait_null" /\ BootTyped' /\ Joined'
      /\ \A d \in Slave :
           pc'[d] = pc[d] /\ slave'[d] = slave[d] /\ (StatusAt(d) => StatusAt(d)')
  BY <1>1, MasterLeads DEF Serving
<1>3. MasterAt'  BY <1>1, <1>2 DEF BootInv, MasterAt, Serving, Booting
<1>4. ASSUME NEW d \in Slave PROVE Stage(d)'
  <2>1. Stage(d) /\ d \in Nat /\ d >= 1 /\ i = 1
    BY <1>1, SlaveKnown, Zero DEF Booting, BootInv, MasterAt
  <2>2. Together(d)'
    BY <1>1, <1>2, <2>1 DEF Stage, Together, BeforeSync, BeforeEnd, Serving
  <2>3. ThreadAt(d)'
    BY <1>1, <1>2, <2>1 DEF Stage, ThreadAt, Starting
  <2> QED  BY <1>2, <2>1, <2>2, <2>3 DEF Stage
<1>5. Todo'  BY <1>2 DEF Todo
<1> QED  BY <1>2, <1>3, <1>4, <1>5, WhileServing DEF Booting

\* The master boots again when every slave has left.
LEMMA WaitNullKeeps ==
  ASSUME BootAssumption, BootInv, wait_null
  PROVE  BootInv'
<1>1. /\ pc[0] = "wait_null" /\ master' = master /\ todo' = todo /\ loaded' = loaded
      /\ \/ Leads("wait_null") /\ i' = i + 1 /\ i < CoreCnt /\ slave[i].status # "RETURN"
         \/ Leads("delay") /\ i' = 1 /\ i = CoreCnt
  BY CoreKnown, EachSteps DEF wait_null, Serving
<1>2. /\ BootTyped' /\ Joined' /\ joined' = joined
      /\ \A d \in Slave :
           pc'[d] = pc[d] /\ slave'[d] = slave[d] /\ (StatusAt(d) => StatusAt(d)')
  BY <1>1, MasterLeads DEF Serving, Booting, Leads
<1>3. \/ pc'[0] = "wait_null" /\ i' = i + 1 /\ slave[i].status # "RETURN"
      \/ pc'[0] = "delay" /\ i' = 1 /\ i = CoreCnt
  BY <1>1, MasterLeads DEF Serving, Booting
<1>4. MasterAt'  BY <1>1, <1>3, CoreKnown DEF BootInv, MasterAt, Serving, Booting
<1>5. ASSUME NEW d \in Slave
      PROVE  /\ Stage(d) /\ d \in Nat /\ d >= 1 /\ d < CoreCnt /\ i \in Nat
             /\ d < i \/ slave[d].status # "RETURN" => pc[d] = "delay"
  <2>1. Stage(d) /\ d \in Nat /\ d >= 1 /\ d < CoreCnt /\ i \in Nat
    BY <1>1, SlaveKnown, Zero, CoreKnown DEF Booting
  <2> QED
    BY <1>1, <2>1 DEF Stage, StatusAt, Together, BeforeSync, BeforeEnd, ThreadAt, Starting, Serving,
           Worker
<1>6. CASE pc'[0] = "wait_null"
  <2>1. ASSUME NEW d \in Slave PROVE Stage(d)'
    <3>1. d < i' => pc[d] = "delay"  BY <1>3, <1>5, <1>6
    <3>2. Together(d)'
      BY <1>1, <1>2, <1>5, <1>6, <3>1 DEF Stage, Together, BeforeSync, BeforeEnd, Serving
    <3>3. ThreadAt(d)'
      BY <1>1, <1>2, <1>5, <1>6 DEF Stage, ThreadAt, Starting
    <3> QED  BY <1>2, <1>5, <3>2, <3>3 DEF Stage
  <2>2. Todo'  BY <1>6 DEF Todo
  <2> QED  BY <1>2, <1>4, <1>6, <2>1, <2>2, WhileServing DEF Booting
<1>7. CASE pc'[0] = "delay" /\ i = CoreCnt
  <2>1. \A d \in Slave : BootPlace(d)'
    BY <1>2, <1>5, <1>7 DEF BootPlace, Clears
  <2> QED  BY <1>2, <1>4, <1>7, <2>1, WhileBooting DEF Booting
<1> QED  BY <1>3, <1>6, <1>7

-----------------------------------------------------------------------------
(* Threads. *)

\* The next step of the program.
LEMMA NextOperation ==
  ASSUME BootAssumption, BootInv, pc[0] \in {"main", "created"}, todo # <<>>
  PROVE  /\ todo \in Seq(Operations) /\ Head(todo) = todo[1] /\ 1 \in DOMAIN todo
         /\ Head(todo).core \in Slave
         /\ Head(todo).op = "create" => Head(todo).thread \in Points \ {NULL}
<1>1. todo \in Seq(Operations)  BY DEF BootInv, Todo
<1>2. Head(todo) = todo[1] /\ 1 \in DOMAIN todo  BY <1>1
<1> QED  BY <1>1, <1>2, Steps

LEMMA TodoGoesOn ==
  ASSUME BootAssumption, BootInv, pc[0] \in {"main", "created"}, todo # <<>>, todo' = Tail(todo),
         pc'[0] = "main", \A d \in Slave : Fresh(d) \/ Creates(Head(todo), d) => Fresh(d)'
  PROVE  Todo'
<1>1. todo \in Seq(Operations) /\ Head(todo) = todo[1]  BY NextOperation
<1>2. /\ Tail(todo) \in Seq(Operations) /\ DOMAIN Tail(todo) = 1 .. Len(todo) - 1
      /\ \A k \in 1 .. Len(todo) - 1 : Tail(todo)[k] = todo[k + 1]
      /\ DOMAIN todo = 1 .. Len(todo) /\ Len(todo) \in Nat
  BY <1>1
<1>3. ASSUME NEW k \in DOMAIN Tail(todo), Tail(todo)[k].op = "join",
             NEW d \in Slave, d = Tail(todo)[k].core
      PROVE  Fresh(d)' \/ \E j \in 1 .. k - 1 : Creates(Tail(todo)[j], d)
  <2>1. k + 1 \in DOMAIN todo /\ todo[k + 1].op = "join" /\ todo[k + 1].core = d /\ k \in Nat
    BY <1>2, <1>3
  <2>2. Fresh(d) \/ \E j \in 1 .. (k + 1) - 1 : Creates(todo[j], d)
    BY <2>1 DEF BootInv, Todo
  <2>3. CASE Fresh(d)  BY <2>3
  <2>4. ASSUME NEW j \in 1 .. (k + 1) - 1, Creates(todo[j], d)
        PROVE  Fresh(d)' \/ \E l \in 1 .. k - 1 : Creates(Tail(todo)[l], d)
    <3>1. CASE j = 1  BY <1>1, <2>4, <3>1
    <3>2. CASE j # 1
      <4>1. j - 1 \in 1 .. k - 1 /\ j - 1 \in 1 .. Len(todo) - 1 /\ (j - 1) + 1 = j
        BY <1>2, <2>1, <3>2
      <4>2. Creates(Tail(todo)[j - 1], d)  BY <1>2, <2>4, <4>1
      <4> QED  BY <4>1, <4>2
    <3> QED  BY <3>1, <3>2
  <2> QED  BY <2>2, <2>3, <2>4
<1>4. \A k \in DOMAIN Tail(todo) : Tail(todo)[k].core \in Slave  BY <1>2, Steps
<1>5. \A k \in DOMAIN todo' : todo'[k].op = "join" =>
        Fresh(todo[k].core)' \/ \E j \in 1 .. k - 1 : Creates(todo'[j], todo'[k].core)
  <2> SUFFICES ASSUME NEW k \in DOMAIN Tail(todo), Tail(todo)[k].op = "join",
                      NEW d \in Slave,
                      d = todo'[k].core
               PROVE  Fresh(d)' \/ \E j \in 1 .. k - 1 : Creates(todo'[j], d)
    BY <1>4
  <2> QED  BY <1>3
<1> QED  BY <1>2, <1>5 DEF Todo

\* A thread is given to a slave that is there.
LEMMA CreateKeeps ==
  ASSUME BootAssumption, BootInv, corethread_create, Available(Head(todo).core)
  PROVE  BootInv'
<1> DEFINE c == Head(todo).core
           t == Head(todo).thread
<1>1. /\ pc[0] = "main" /\ todo # <<>> /\ Head(todo).op = "create"
      /\ slave' = [slave EXCEPT ![c].funcpoint = t] /\ pc' = [pc EXCEPT ![0] = "created"]
      /\ todo' = todo /\ made' = made /\ master' = master /\ i' = i /\ loaded' = loaded
      /\ joined' = joined /\ slave[c].status # "INITDONE" /\ slave[c].funcpoint = NULL
  BY DEF corethread_create, Available, At, Goto
<1>2. c \in Slave /\ t \in Points \ {NULL}  BY <1>1, NextOperation
<1> HIDE DEF c, t
<1>3. /\ pc'[0] = "created" /\ \A d \in Slave : pc'[d] = pc[d]
      /\ slave'[c] = [slave[c] EXCEPT !.funcpoint = t]
      /\ \A d \in Slave : d # c => slave'[d] = slave[d]
      /\ slave' \in [Core -> Records] /\ slave[c] \in Records
  <2>1. c \in Core /\ slave[c] \in Records  BY <1>2, Zero, CoreKnown
  <2>2. slave' = [slave EXCEPT ![c] = [slave[c] EXCEPT !.funcpoint = t]]  BY <1>1, <2>1, CoreKnown
  <2>3. [slave[c] EXCEPT !.funcpoint = t] \in Records  BY <1>2, <2>1 DEF Records
  <2> QED  BY <1>1, <2>1, <2>2, <2>3, CoreKnown, Zero
<1>4. BootTyped'
  BY <1>1, <1>3, CoreKnown DEF BootTyped, Records, Places, Serving
<1>5. MasterAt'  BY <1>1, <1>3 DEF BootInv, MasterAt, Serving, Booting
<1>6. ASSUME NEW d \in Slave PROVE Stage(d)'
  <2>1. Stage(d)  BY <1>1, SlaveKnown DEF Booting
  <2>2. slave'[d].status = slave[d].status /\ slave'[d].return_val = slave[d].return_val
    BY <1>3 DEF Records
  <2>3. StatusAt(d)'  BY <1>3, <2>1, <2>2 DEF Stage, StatusAt
  <2>4. Together(d)'
    BY <1>1, <1>3, <2>1, <2>2 DEF Stage, Together, BeforeSync, BeforeEnd, Serving
  <2>5. ThreadAt(d)'
    <3>1. CASE d # c
      <4>1. ~Starting(d)' /\ ~Starting(d)  BY <1>1, <1>3, <3>1 DEF Starting, c
      <4> QED  BY <1>3, <2>1, <3>1, <4>1 DEF Stage, ThreadAt
    <3>2. CASE d = c
      <4>1. slave'[d].funcpoint = t /\ t # NULL  BY <1>2, <1>3, <3>2 DEF Records
      <4>2. Starting(d)' /\ t = Head(todo').thread /\ ~Starting(d)
        BY <1>1, <1>3, <3>2 DEF Starting, c, t
      <4>3. loaded # NULL  BY <1>1 DEF BootInv, MasterAt
      <4>4. pc[d] \in Worker /\ (pc[d] = "worker" => slave[d].status = "INIT")
            /\ pc[d] \notin {"exit", "exit_status", "begin", "respond"}
        BY <1>1, <2>1, <3>2, <4>2, <4>3
           DEF Stage, StatusAt, Together, ThreadAt, BeforeSync, BeforeEnd, Worker
      <4> QED  BY <1>3, <2>2, <4>1, <4>2, <4>4 DEF ThreadAt
    <3> QED  BY <3>1, <3>2
  <2> QED  BY <2>3, <2>4, <2>5 DEF Stage
<1>7. Todo'
  <2>1. ASSUME NEW d \in Slave PROVE Fresh(d) => Fresh(d)'
    <3>1. slave'[d].return_val = slave[d].return_val /\ pc'[d] = pc[d]  BY <1>3 DEF Records
    <3>2. pc[d] = "exit" => slave'[d] = slave[d]
      BY <1>1, <1>3, SlaveKnown DEF Stage, StatusAt, Booting
    <3> QED  BY <1>1, <3>1, <3>2 DEF Fresh
  <2>2. todo' = todo /\ todo # <<>> /\ Head(todo).op = "create"  BY <1>1
  <2>3. todo \in Seq(Operations) /\ \A k \in DOMAIN todo : todo[k].core \in Slave
    BY <1>1, NextOperation, Steps
  <2>4. ASSUME NEW k \in DOMAIN todo, todo[k].op = "join", NEW d \in Slave, d = todo[k].core
        PROVE  Fresh(d)' \/ \E j \in 1 .. k - 1 : Creates(todo[j], d)
    BY <1>1, <2>1, <2>4 DEF BootInv, Todo
  <2>5. \A k \in DOMAIN todo' : todo'[k].op = "join" =>
          Fresh(todo[k].core)' \/ \E j \in 1 .. k - 1 : Creates(todo'[j], todo'[k].core)
    <3> SUFFICES ASSUME NEW k \in DOMAIN todo, todo[k].op = "join", NEW d \in Slave,
                        d = todo'[k].core
                 PROVE  Fresh(d)' \/ \E j \in 1 .. k - 1 : Creates(todo'[j], d)
      BY <2>2, <2>3
    <3> QED  BY <2>2, <2>4
  <2> QED  BY <2>2, <2>3, <2>5 DEF Todo
<1>8. Joined'  BY <1>1 DEF BootInv, Joined
<1> QED  BY <1>3, <1>4, <1>5, <1>6, <1>7, <1>8, WhileServing DEF Booting

\* Where no slave can take a thread, the call returns an error.
LEMMA CreateFailsKeeps ==
  ASSUME BootAssumption, BootInv, corethread_create, ~Available(Head(todo).core)
  PROVE  BootInv'
<1> DEFINE c == Head(todo).core
<1>1. /\ pc[0] = "main" /\ todo # <<>> /\ todo' = Tail(todo) /\ made' = [made EXCEPT ![c] = NULL]
      /\ pc' = pc /\ slave' = slave /\ master' = master /\ i' = i /\ loaded' = loaded
      /\ joined' = joined
      /\ Head(todo).op = "create"
  BY DEF corethread_create, At
<1>2. c \in Slave /\ c \in Core  BY <1>1, NextOperation, Zero
<1> HIDE DEF c
<1>3. made' \in [Core -> Points] /\ made'[c] = NULL /\ \A d \in Slave : d # c => made'[d] = made[d]
  BY <1>1, <1>2, CoreKnown, Zero DEF Points
<1>4. BootTyped'  BY <1>1, <1>3 DEF BootInv, BootTyped
<1>5. MasterAt'  BY <1>1 DEF BootInv, MasterAt
<1>6. \A d \in Slave : Stage(d)'
  BY <1>1, SlaveKnown
     DEF Stage, StatusAt, Together, ThreadAt, Starting, BeforeSync, BeforeEnd, Booting
<1>7. Todo'
  <2>1. \A d \in Slave : Fresh(d) \/ Creates(Head(todo), d) => Fresh(d)'
    BY <1>1, <1>3 DEF Fresh, Creates, c
  <2> QED  BY <1>1, <2>1, TodoGoesOn
<1>8. Joined'  BY <1>1 DEF BootInv, Joined
<1> QED  BY <1>1, <1>4, <1>5, <1>6, <1>7, <1>8, WhileServing DEF Booting

\* The thread has begun.
LEMMA CreatedKeeps ==
  ASSUME BootAssumption, BootInv, created
  PROVE  BootInv'
<1> DEFINE c == Head(todo).core
           t == Head(todo).thread
<1>1. /\ pc[0] = "created" /\ slave[c].status = "INITDONE" /\ made' = [made EXCEPT ![c] = t]
      /\ todo' = Tail(todo) /\ pc' = [pc EXCEPT ![0] = "main"]
      /\ slave' = slave /\ master' = master /\ i' = i /\ loaded' = loaded /\ joined' = joined
  BY DEF created, At, Goto
<1>2. todo # <<>> /\ Head(todo).op = "create"  BY <1>1 DEF BootInv, Todo
<1>3. c \in Slave /\ c \in Core /\ t \in Points \ {NULL}  BY <1>1, <1>2, NextOperation, Zero
<1> HIDE DEF c, t
<1>4. /\ made' \in [Core -> Points] /\ made'[c] = t /\ \A d \in Slave : d # c => made'[d] = made[d]
      /\ pc'[0] = "main" /\ \A d \in Slave : pc'[d] = pc[d]
  BY <1>1, <1>3, CoreKnown, Zero
<1>5. BootTyped'
  BY <1>1, <1>4, CoreKnown DEF BootInv, BootTyped, Records, Places, Serving
<1>6. MasterAt'  BY <1>1, <1>4 DEF BootInv, MasterAt, Serving, Booting
<1>7. Stage(c) /\ Starting(c) /\ pc[c] \in {"exit", "exit_status"} /\ slave[c].funcpoint = t
  <2>1. Stage(c) /\ Starting(c)  BY <1>1, <1>3, SlaveKnown DEF Booting, Starting, c
  <2>2. slave[c].funcpoint = t  BY <2>1 DEF Stage, ThreadAt, t
  <2> QED  BY <1>1, <2>1, <2>2 DEF Stage, StatusAt, ThreadAt, Worker
<1>8. ASSUME NEW d \in Slave PROVE Stage(d)'
  <2>1. Stage(d)  BY <1>1, SlaveKnown DEF Booting
  <2>2. d # c => ~Starting(d)  BY <1>1 DEF Starting, c
  <2>3. StatusAt(d)'  BY <1>1, <1>4, <2>1 DEF Stage, StatusAt
  <2>4. Together(d)'
    BY <1>1, <1>4, <2>1 DEF Stage, Together, BeforeSync, BeforeEnd, Serving
  <2>5. ThreadAt(d)'
    BY <1>1, <1>4, <1>7, <2>1, <2>2 DEF Stage, ThreadAt, Starting
  <2> QED  BY <2>3, <2>4, <2>5 DEF Stage
<1>9. Todo'
  <2>1. ASSUME NEW d \in Slave, Fresh(d) \/ Creates(Head(todo), d) PROVE Fresh(d)'
    <3>1. CASE d # c
      <4>1. Fresh(d)  BY <2>1, <3>1 DEF Creates, c
      <4> QED  BY <1>1, <1>4, <3>1, <4>1 DEF Fresh
    <3>2. CASE d = c
      BY <1>1, <1>4, <1>7, <3>2 DEF Fresh, Stage, ThreadAt
    <3> QED  BY <3>1, <3>2
  <2> QED  BY <1>1, <1>2, <1>4, <2>1, TodoGoesOn
<1>10. Joined'  BY <1>1 DEF BootInv, Joined
<1> QED  BY <1>4, <1>5, <1>6, <1>8, <1>9, <1>10, WhileServing DEF Booting

\* A thread is joined when it has left its result.
LEMMA JoinKeeps ==
  ASSUME BootAssumption, BootInv, corethread_join
  PROVE  BootInv'
<1> DEFINE c == Head(todo).core
<1>1. /\ pc[0] = "main" /\ todo # <<>> /\ Head(todo).op = "join" /\ slave[c].status = "RETURN"
      /\ joined' = <<made[c], slave[c].return_val>>
      /\ slave' = [slave EXCEPT ![c].funcpoint = NULL]
      /\ todo' = Tail(todo) /\ pc' = pc /\ master' = master /\ i' = i /\ loaded' = loaded
      /\ made' = made
  BY DEF corethread_join, At
<1>2. c \in Slave /\ Head(todo) = todo[1] /\ 1 \in DOMAIN todo  BY <1>1, NextOperation
<1>3. Fresh(c) /\ Stage(c)
  <2>1. Fresh(c) \/ \E j \in 1 .. 0 : Creates(todo[j], c)  BY <1>1, <1>2 DEF BootInv, Todo
  <2> QED  BY <1>1, <1>2, <2>1, SlaveKnown DEF Booting
<1> HIDE DEF c
<1>4. /\ slave'[c] = [slave[c] EXCEPT !.funcpoint = NULL]
      /\ \A d \in Slave : d # c => slave'[d] = slave[d]
      /\ slave' \in [Core -> Records] /\ slave[c] \in Records
  <2>1. c \in Core /\ slave[c] \in Records  BY <1>2, Zero, CoreKnown
  <2>2. slave' = [slave EXCEPT ![c] = [slave[c] EXCEPT !.funcpoint = NULL]]  BY <1>1, <2>1, CoreKnown
  <2>3. [slave[c] EXCEPT !.funcpoint = NULL] \in Records  BY <1>2, <2>1 DEF Records, Points
  <2> QED  BY <2>1, <2>2, <2>3, CoreKnown, Zero
<1>5. BootTyped'
  BY <1>1, <1>4, CoreKnown DEF BootInv, BootTyped, Records
<1>6. MasterAt'  BY <1>1 DEF BootInv, MasterAt, Serving, Booting
<1>7. pc[c] \notin {"exit", "exit_status"}  BY <1>1, <1>3 DEF Stage, StatusAt
<1>8. ASSUME NEW d \in Slave PROVE Stage(d)'
  <2>1. Stage(d)  BY <1>1, SlaveKnown DEF Booting
  <2>2. slave'[d].status = slave[d].status /\ slave'[d].return_val = slave[d].return_val
        /\ (d = c => slave'[d].funcpoint = NULL)
    BY <1>4 DEF Records
  <2>3. StatusAt(d)'  BY <1>1, <2>1, <2>2 DEF Stage, StatusAt
  <2>4. Together(d)'
    BY <1>1, <2>1, <2>2 DEF Stage, Together, BeforeSync, BeforeEnd, Serving
  <2>5. ~Starting(d) /\ ~Starting(d)'  BY <1>1 DEF Starting
  <2>6. ThreadAt(d)'
    BY <1>1, <1>4, <1>7, <2>1, <2>2, <2>5 DEF Stage, ThreadAt
  <2> QED  BY <2>3, <2>4, <2>6 DEF Stage
<1>9. Todo'
  <2>1. ASSUME NEW d \in Slave, Fresh(d) \/ Creates(Head(todo), d) PROVE Fresh(d)'
    <3>1. Fresh(d)  BY <1>1, <2>1 DEF Creates
    <3>2. slave'[d].return_val = slave[d].return_val /\ (pc[d] = "exit" => slave'[d] = slave[d])
      BY <1>4, <1>7 DEF Records
    <3> QED  BY <1>1, <3>1, <3>2 DEF Fresh
  <2> QED  BY <1>1, <2>1, TodoGoesOn
<1>10. Joined'
  <2>1. made[c] # NULL => slave[c].return_val = made[c]  BY <1>3, <1>7 DEF Fresh
  <2> QED  BY <1>1, <2>1 DEF Joined
<1> QED  BY <1>1, <1>5, <1>6, <1>8, <1>9, <1>10, WhileServing DEF Booting

-----------------------------------------------------------------------------
(* All steps. *)

LEMMA BootBegins == ASSUME BootAssumption PROVE BootInit => BootInv
<1> SUFFICES ASSUME BootInit PROVE BootInv  OBVIOUS
<1>1. BootTyped
  BY Zero DEF BootInit, BootTyped, Places, Clears, Booting, Status, Results, Points, Cleared
<1>2. pc[0] = "delay" /\ master.status = "RETURN" /\ joined[1] = NULL /\ \A c \in Slave : pc[c] = "delay"
  BY Zero DEF BootInit
<1>3. MasterAt  BY <1>2 DEF MasterAt, Booting, Serving
<1>4. Slaves  BY <1>2 DEF Slaves, BootPlace, Clears, Booting
<1>5. Todo /\ Joined  BY <1>2 DEF Todo, Joined
<1> QED  BY <1>1, <1>3, <1>4, <1>5 DEF BootInv

LEMMA MasterSteps ==
  ASSUME BootAssumption, BootInv, CoreStep(0)
  PROVE  BootInv'
<1>1. CASE delay(0) \/ clear_status(0) \/ clear_entrypoint(0) \/ clear_slave(0)
  BY <1>1, Zero, DelayMasterKeeps, ClearStatusKeeps, ClearEntrypointKeeps, ClearSlaveKeeps
<1>2. CASE boot_master \/ download \/ notify_init \/ wait_init \/ run(0)
  BY <1>2, BootMasterKeeps, DownloadKeeps, NotifyInitKeeps, WaitInitKeeps, RunKeeps
<1>3. CASE noc_sync
  BY <1>3, SyncEachKeeps, StartKeeps DEF noc_sync, At
<1>4. CASE corethread_create \/ created \/ corethread_join
  BY <1>4, CreateKeeps, CreateFailsKeeps, CreatedKeeps, JoinKeeps
<1>5. CASE main_returns \/ returned(0) \/ wait_return \/ notify_return \/ wait_null
  BY <1>5, MainReturnsKeeps, ReturnedMasterKeeps, WaitReturnKeeps, NotifyReturnKeeps, WaitNullKeeps
<1> QED  BY <1>1, <1>2, <1>3, <1>4, <1>5 DEF CoreStep, MasterStep

LEMMA SlaveSteps ==
  ASSUME BootAssumption, BootInv, NEW c \in Slave, CoreStep(c)
  PROVE  BootInv'
<1>1. c \in Core /\ c # 0  BY Zero
<1> QED
  BY <1>1, ClearStatusKeeps, ClearEntrypointKeeps, ClearSlaveKeeps, SlaveBoots, SlaveRuns, SlaveWorks,
     ThreadEnds, SlaveLeaves
  DEF CoreStep, SlaveStep

LEMMA BootStep == ASSUME BootAssumption PROVE BootInv /\ [BootNext]_bootVars => BootInv'
<1> SUFFICES ASSUME BootInv, [BootNext]_bootVars PROVE BootInv'  OBVIOUS
<1>1. ASSUME NEW c \in Core, CoreStep(c) PROVE BootInv'
  BY <1>1, Zero, MasterSteps, SlaveSteps
<1>2. CASE UNCHANGED bootVars
  <2>1. \A c \in Slave : BootPlace(c)' = BootPlace(c) /\ Stage(c)' = Stage(c)
    BY <1>2
       DEF bootVars, BootPlace, Stage, StatusAt, Together, ThreadAt, Starting, BeforeSync, BeforeEnd
  <2>2. Slaves'  BY <1>2, <2>1 DEF bootVars, BootInv, Slaves
  <2>3. Todo'  BY <1>2 DEF bootVars, BootInv, Todo, Fresh
  <2> QED  BY <1>2, <2>2, <2>3 DEF bootVars, BootInv, BootTyped, MasterAt, Joined
<1> QED  BY <1>1, <1>2 DEF BootNext

LEMMA BootInvariant == ASSUME BootAssumption PROVE BootSpec => []BootInv
<1> QED  BY BootBegins, BootStep, PTL DEF BootSpec

\* Every core that comes to call a program calls the one that was downloaded last.
\* None is in a program while the master is busy with the next download, and a
\* thread that is joined is the one that was created, with its result.
THEOREM OneProgramRuns == ASSUME BootAssumption PROVE BootSpec => []OneProgram
<1>1. ASSUME BootInv PROVE OneProgram
  <2>1. ASSUME NEW c \in Core, pc[c] = "run" PROVE master.entrypoint = loaded
    <3>1. CASE c = 0  BY <1>1, <2>1, <3>1 DEF BootInv, MasterAt, Serving
    <3>2. CASE c \in Slave
      <4>1. pc[0] \in Serving
        BY <1>1, <2>1, <3>2, SlaveKnown DEF BootPlace, Clears
      <4> QED  BY <1>1, <4>1 DEF BootInv, MasterAt
    <3> QED  BY <3>1, <3>2, Zero
  <2>2. pc[0] \in Booting => \A c \in Slave : pc[c] \in Before
    BY <1>1, SlaveKnown DEF BootPlace, Clears, Before, Booting
  <2> QED  BY <1>1, <2>1, <2>2 DEF BootInv, Joined, OneProgram
<1> QED  BY <1>1, BootInvariant, PTL

-----------------------------------------------------------------------------
(***************************************************************************)
(* The serial line.  The clock of the receiver and that of the transmitter *)
(* are counters of the same length; what the proof follows is how far one  *)
(* is ahead of the other.                                                  *)
(***************************************************************************)
\* The levels of the line.
Levels == {0, 1} \cup {Bit(b)[k] : b \in Bytes, k \in 1..Width}

TxType == [baud : 0..Divider + 1, tick : {0, 1}, state : {"idle", "send"},
           buff : Seq(Levels), reg : Levels, count : 0..Width + 2]
RxType == [baud : 0..Divider, tick : {0, 1}, enable : BOOLEAN, buff : Seq(Levels),
           count : 0..Width - 1, state : {"idle", "start", "receive_data", "stop_bit"}]

\* The registers.
LineTyped ==
  /\ tx \in TxType /\ (tx.tick = 1 => tx.baud = 0)
  /\ tx.state = "send" => Len(tx.buff) = Width + 2 - tx.count
  /\ tx.state = "idle" => tx.count = 0
  /\ rx \in RxType /\ Len(rx.buff) = Width
  /\ rxd \in Levels \X Levels \X Levels
  /\ slips \in 0..MaxSlips

Period == Divider + 1

\* How far the bit on the line has come, and how far off the next sample is.
Age    == IF tx.tick = 1 THEN Period ELSE IF tx.baud > Divider THEN Divider ELSE tx.baud
Ahead  == IF rx.tick = 1 THEN 0 ELSE Period - rx.baud

\* From the edge of a bit to its sample.
Delay == Period - HalfBit + 5

Within(x) == -slips <= x /\ x <= slips

\* Bits on the line: 0 is the silence before a frame.
On(b, n) == IF n = 0 THEN 1 ELSE Frame(b)[n]

Slip(step) == IF step = 1 THEN 0 ELSE 1

-----------------------------------------------------------------------------
LEMMA TimesOfLine ==
  ASSUME UartAssumption
  PROVE  /\ Divider \in Nat /\ Width \in Nat /\ Width >= 1 /\ Depth \in Nat /\ Depth >= 1 /\ MaxSlips \in Nat
         /\ HalfBit \in Nat /\ Period \in Nat /\ Delay \in Nat
         /\ Period >= 2 * HalfBit + 1 /\ HalfBit >= MaxSlips + 2
         /\ Delay = Period - HalfBit + 5
         /\ Period = Divider + 1
  BY DEF UartAssumption, HalfBit, Period, Delay

LEMMA BitFacts ==
  ASSUME UartAssumption, NEW b \in Bytes
  PROVE  /\ Bit(b) \in Seq(Levels) /\ Len(Bit(b)) = Width
         /\ \A k \in 1..Width : Bit(b)[k] \in Levels
<1>1. Width \in Nat  BY DEF UartAssumption
<1>2. \A k \in 1..Width : Bit(b)[k] \in Levels  BY DEF Levels
<1>3. \E e : e = Bit(b) /\ e = [k \in 1..Width |-> e[k]]  BY DEF Bit
<1>4. PICK e : e = Bit(b) /\ e = [k \in 1..Width |-> e[k]]  BY <1>3
<1>5. e \in [1..Width -> Levels]  BY <1>2, <1>4
<1> HIDE DEF Levels
<1>6. e \in Seq(Levels) /\ Len(e) = Width  BY <1>1, <1>4, <1>5
<1> QED  BY <1>2, <1>4, <1>6

LEMMA FrameFacts ==
  ASSUME UartAssumption, NEW b \in Bytes
  PROVE  /\ Frame(b) \in Seq(Levels) /\ Len(Frame(b)) = Width + 2
         /\ Frame(b)[1] = 0 /\ Frame(b)[Width + 2] = 1
         /\ \A k \in 1..Width : Frame(b)[k + 1] = Bit(b)[k]
         /\ \A k \in 1..Width + 2 : Frame(b)[k] \in Levels
<1>1. Width \in Nat  BY DEF UartAssumption
<1>2. 0 \in Levels /\ 1 \in Levels  BY DEF Levels
<1> DEFINE B == Bit(b)
<1>3. B \in Seq(Levels) /\ Len(B) = Width  BY BitFacts
<1> HIDE DEF B
<1> DEFINE F == <<0>> \o B
<1>4. /\ F \in Seq(Levels) /\ Len(F) = Width + 1 /\ F[1] = 0
      /\ \A k \in 1..Width : F[k + 1] = B[k]
  <2>1. <<0>> \in Seq(Levels) /\ Len(<<0>>) = 1 /\ <<0>>[1] = 0  BY <1>2
  <2>2. /\ F \in Seq(Levels) /\ Len(F) = 1 + Width
        /\ \A j \in 1 .. 1 + Width : F[j] = IF j <= 1 THEN <<0>>[j] ELSE B[j - 1]
    BY <1>3, <2>1, ConcatProperties
  <2> HIDE DEF F
  <2> QED  BY <1>1, <2>1, <2>2
<1> HIDE DEF F
<1>5. <<1>> \in Seq(Levels) /\ Len(<<1>>) = 1 /\ <<1>>[1] = 1  BY <1>2
<1>6. /\ F \o <<1>> \in Seq(Levels) /\ Len(F \o <<1>>) = Width + 1 + 1
      /\ \A j \in 1 .. Width + 1 + 1 : (F \o <<1>>)[j] = IF j <= Width + 1 THEN F[j] ELSE <<1>>[j - (Width + 1)]
  BY <1>4, <1>5, ConcatProperties
<1> DEFINE G == F \o <<1>>
<1>7. Frame(b) = G  BY DEF F, B, Frame
<1> HIDE DEF G
<1>8. /\ G \in Seq(Levels) /\ Len(G) = Width + 2 /\ G[1] = 0 /\ G[Width + 2] = 1
      /\ \A k \in 1..Width : G[k + 1] = B[k]
  BY <1>1, <1>4, <1>5, <1>6 DEF G
<1>9. \A k \in 1..Width + 2 : G[k] \in Levels  BY <1>8
<1> QED  BY <1>7, <1>8, <1>9 DEF B

-----------------------------------------------------------------------------
(* The times of sender and receiver. *)

\* By how many bits the sender is ahead of the receiver, in cycles.
Lag(n, m) == IF m = n - 1 THEN 0 ELSE IF m = n THEN -Period ELSE Period

\* The age a of bit n, the cycles q to the sample of bit m and the number d of
\* registers that bit n has reached, after s slips.
Aligned(a, q, d, n, m, s) ==
  /\ n - 2 <= m /\ m <= n
  /\ -s <= a + q - Delay + Lag(n, m) /\ a + q - Delay + Lag(n, m) <= s
  /\ d + 1 + q - Delay + Lag(n, m) <= s
  /\ d < 3 => -s <= d + 1 + q - Delay + Lag(n, m)

LEMMA AtEdge ==
  ASSUME UartAssumption, NEW q \in Nat, NEW d \in 0..3, NEW n \in Int, NEW m \in Int,
         NEW s \in 0..MaxSlips, Aligned(Period, q, d, n, m, s)
  PROVE  /\ d = 3
         /\ m = n - 1 \/ m = n
         /\ m = n - 1 => q <= 3
         /\ m = n => q > 0
  BY TimesOfLine, SMTT(30) DEF Aligned, Lag

LEMMA AtSample ==
  ASSUME UartAssumption, NEW a \in 0..Period, NEW d \in 0..3, NEW n \in Int, NEW m \in Int,
         NEW s \in 0..MaxSlips, Aligned(a, 0, d, n, m, s)
  PROVE  /\ m = n - 1 \/ m = n - 2
         /\ m = n - 1 => d = 3
         /\ m = n - 2 => d < 3 /\ a < Period
  BY TimesOfLine, SMTT(30) DEF Aligned, Lag

LEMMA CountDown ==
  ASSUME UartAssumption, NEW a \in 0..Period, NEW q \in Nat, NEW d \in 0..3, NEW n \in Int, NEW m \in Int,
         NEW s \in 0..MaxSlips, Aligned(a, q, d, n, m, s), q > 0,
         NEW step \in 0..2
  PROVE  \A e \in 0..3 : e = (IF d < 3 THEN d + 1 ELSE 3) =>
           \A x \in Nat : x = a + 1 \/ (step # 1 /\ (x = a \/ x = a + 2)) =>
             Aligned(x, q - 1, e, n, m, s + Slip(step))
  BY TimesOfLine, SMTT(30) DEF Aligned, Lag, Slip

LEMMA NextBit ==
  ASSUME UartAssumption, NEW q \in Nat, NEW d \in 0..3, NEW n \in Int, NEW m \in Int,
         NEW s \in 0..MaxSlips, Aligned(Period, q, d, n, m, s), q > 0,
         NEW step \in 0..2
  PROVE  Aligned(step, q - 1, 0, n + 1, m, s + Slip(step))
  BY TimesOfLine, AtEdge, SMTT(30) DEF Aligned, Lag, Slip

LEMMA NextSample ==
  ASSUME UartAssumption, NEW a \in 0..Period, NEW d \in 0..3, NEW n \in Int, NEW m \in Int,
         NEW s \in 0..MaxSlips, Aligned(a, 0, d, n, m, s),
         NEW step \in 0..2
  PROVE  \A e \in 0..3 : e = (IF d < 3 THEN d + 1 ELSE 3) =>
           \A x \in Nat : x = a + 1 \/ (step # 1 /\ (x = a \/ x = a + 2)) =>
             Aligned(x, Divider, e, n, m + 1, s + Slip(step))
  BY TimesOfLine, AtSample, SMTT(30) DEF Aligned, Lag, Slip

LEMMA NextBoth ==
  ASSUME UartAssumption, NEW d \in 0..3, NEW n \in Int, NEW m \in Int,
         NEW s \in 0..MaxSlips, Aligned(Period, 0, d, n, m, s),
         NEW step \in 0..2
  PROVE  Aligned(step, Divider, 0, n + 1, m + 1, s + Slip(step))
  BY TimesOfLine, AtEdge, SMTT(30) DEF Aligned, Lag, Slip

\* The receiver sees the start bit in the cycle in which its third register does.
LEMMA AtStart ==
  ASSUME UartAssumption, NEW a \in 0..Period, NEW s \in 0..MaxSlips, -s <= a - 4, a - 4 <= s,
         NEW step \in 0..2
  PROVE  /\ a < Period
         /\ \A x \in Nat : x = a + 1 \/ (step # 1 /\ (x = a \/ x = a + 2)) =>
              Aligned(x, Period - HalfBit, 3, 1, 0, s + Slip(step))
  BY TimesOfLine, SMTT(30) DEF Aligned, Lag, Slip
\* The start bit is on the line for less than a bit before the receiver sees it.
LEMMA BeforeStart ==
  ASSUME UartAssumption, NEW a \in 0..Period, NEW d \in 0..3, NEW s \in 0..MaxSlips,
         -s <= a - (d + 1), a - (d + 1) <= s, NEW step \in 0..2
  PROVE  /\ a < Period
         /\ \A x \in Nat : x = a + 1 \/ (step # 1 /\ (x = a \/ x = a + 2)) =>
              -(s + Slip(step)) <= x - ((d + 1) + 1) /\ x - ((d + 1) + 1) <= s + Slip(step)
  BY TimesOfLine, SMTT(30) DEF Slip

-----------------------------------------------------------------------------
(* The transmitter. *)
LEMMA TxBaudFacts ==
  ASSUME UartAssumption, LineTyped, NEW step \in 0..2, NEW t, t = TxBaud(step)
  PROVE  /\ t \in TxType /\ (t.tick = 1 => t.baud = 0)
         /\ t.state = tx.state /\ t.buff = tx.buff /\ t.reg = tx.reg /\ t.count = tx.count
         /\ tx.tick = 1 => t.tick = 0 /\ t.baud = step
<1>1. tx \in TxType /\ (tx.tick = 1 => tx.baud = 0) BY DEF LineTyped
<1>2. Divider \in Nat /\ Divider > 2  BY TimesOfLine
<1>3. t \in TxType /\ (t.tick = 1 => t.baud = 0)
  <2>1. CASE tx.baud >= Divider /\ step > 0
    <3>1. t = [tx EXCEPT !.baud = 0, !.tick = 1]  BY <2>1 DEF TxBaud
    <3>2. t.tick = 1 => t.baud = 0  BY <1>1, <3>1 DEF TxType
    <3>3. 0 \in 0..Divider + 1  BY <1>2
    <3>4. t \in TxType  BY <1>1, <3>1, <3>3 DEF TxType
    <3> QED  BY <3>2, <3>4
  <2>2. CASE ~(tx.baud >= Divider /\ step > 0)
    <3>1. t = [tx EXCEPT !.baud = @ + step, !.tick = 0]  BY <2>2 DEF TxBaud
    <3>2. tx.baud + step \in 0..Divider + 1  BY <1>1, <1>2, <2>2 DEF TxType
    <3>3. t.tick = 0  BY <1>1, <3>1 DEF TxType
    <3>4. t \in TxType  BY <1>1, <3>1, <3>2 DEF TxType
    <3> QED  BY <3>3, <3>4
  <2> QED  BY <2>1, <2>2
<1>4. t.state = tx.state /\ t.buff = tx.buff /\ t.reg = tx.reg /\ t.count = tx.count
  BY <1>1 DEF TxType, TxBaud
<1>5. tx.tick = 1 => t.tick = 0 /\ t.baud = step
  BY <1>1, <1>2 DEF TxType, TxBaud
<1> QED  BY <1>3, <1>4, <1>5

LEMMA TxClock ==
  ASSUME UartAssumption, LineTyped, NEW step \in 0..2, Transmit(step)
  PROVE  tx'.baud = TxBaud(step).baud /\ tx'.tick = TxBaud(step).tick
<1> DEFINE t == TxBaud(step)
<1>1. t \in TxType  BY TxBaudFacts
<1>2. Transmit(step) OBVIOUS
<1> QED  BY <1>1, <1>2 DEF Transmit, TxType

LEMMA AgeNext ==
  ASSUME UartAssumption, LineTyped, NEW step \in 0..2, Transmit(step)
  PROVE  /\ Age \in 0..Period /\ Age' \in Nat
         /\ Age = Period <=> tx.tick = 1
         /\ tx.tick = 1 => Age' = step
         /\ tx.tick # 1 => Age' = Age + 1 \/ (step # 1 /\ (Age' = Age \/ Age' = Age + 2))
<1>1. tx \in TxType /\ (tx.tick = 1 => tx.baud = 0) BY DEF LineTyped
<1>2. Divider \in Nat /\ Divider > 2 /\ Period = Divider + 1  BY TimesOfLine
<1> DEFINE t == TxBaud(step)
<1>3. tx'.baud = t.baud /\ tx'.tick = t.tick  BY TxClock
<1>4. t.baud \in 0..Divider + 1 /\ t.tick \in {0, 1}  BY TxBaudFacts DEF TxType
<1>5. /\ tx.baud \in 0..Divider + 1 /\ tx.tick \in {0, 1}  BY <1>1 DEF TxType
<1>6. /\ t.tick = 1 <=> tx.baud >= Divider /\ step > 0
      /\ t.tick # 1 => t.baud = tx.baud + step
  BY <1>1, <1>2 DEF TxBaud, TxType
<1> HIDE DEF t
<1>7. /\ Age' = IF t.tick = 1 THEN Period ELSE IF t.baud > Divider THEN Divider ELSE t.baud
      /\ Age = IF tx.tick = 1 THEN Period ELSE IF tx.baud > Divider THEN Divider ELSE tx.baud
  BY <1>3 DEF Age, Period
<1> QED  BY <1>1, <1>2, <1>4, <1>5, <1>6, <1>7

LEMMA TxForms ==
  ASSUME UartAssumption, LineTyped, NEW step \in 0..2, Transmit(step), NEW t, t = TxBaud(step)
  PROVE  \/ tx.state = "idle" /\ ~TxTakes /\ tx' = t
         \/ tx.state = "idle" /\ TxTakes /\ tx' = [t EXCEPT !.buff = Frame(Head(txQueue)), !.state = "send"]
         \/ tx.state = "send" /\ tx.tick # 1 /\ ~TxTakes /\ tx' = t
         \/ /\ tx.state = "send" /\ tx.tick = 1 /\ tx.count # FrameEnd /\ ~TxTakes
            /\ tx' = [t EXCEPT !.buff = Tail(@), !.reg = Head(tx.buff), !.count = @ + 1]
         \/ /\ tx.state = "send" /\ tx.tick = 1 /\ tx.count = FrameEnd /\ ~TxTakes
            /\ tx' = [t EXCEPT !.reg = 1, !.count = 0, !.state = "idle"]
         \/ /\ tx.state = "send" /\ tx.tick = 1 /\ tx.count = FrameEnd /\ TxTakes
            /\ tx' = [t EXCEPT !.buff = Tail(Frame(Head(txQueue))), !.reg = 0, !.count = 1]
<1> DEFINE F == Frame(Head(txQueue))
           next == [t EXCEPT !.buff = Tail(@), !.reg = Head(tx.buff), !.count = @ + 1]
<1>1. tx' = CASE tx.state = "idle" /\ TxTakes -> [t EXCEPT !.buff = F, !.state = "send"]
              [] tx.state = "send" /\ tx.tick = 1 /\ tx.count # FrameEnd -> next
              [] tx.state = "send" /\ TxTakes ->
                   [t EXCEPT !.buff = Tail(F), !.reg = 0, !.count = 1]
              [] tx.state = "send" /\ tx.tick = 1 /\ tx.count = FrameEnd /\ txQueue = <<>> ->
                   [t EXCEPT !.reg = 1, !.count = 0, !.state = "idle"]
              [] OTHER -> t
  BY Zenon DEF Transmit
<1>2. tx.state \in {"idle", "send"}  BY DEF LineTyped, TxType
<1>3. TxTakes <=> txQueue # <<>> /\ (tx.state = "idle" \/ (tx.tick = 1 /\ tx.count = FrameEnd))
  BY DEF TxTakes
<1> HIDE DEF F, next
<1>4. CASE tx.state = "idle" /\ ~TxTakes  BY <1>1, <1>4
<1>5. CASE tx.state = "idle" /\ TxTakes
  <2>1. tx' = [t EXCEPT !.buff = F, !.state = "send"]  BY <1>1, <1>5
  <2> QED  BY <1>5, <2>1 DEF F
<1>6. CASE tx.state = "send" /\ tx.tick # 1  BY <1>1, <1>3, <1>6
<1>7. CASE tx.state = "send" /\ tx.tick = 1 /\ tx.count # FrameEnd
  <2>1. ~TxTakes  BY <1>3, <1>7
  <2>2. tx.state # "idle"  BY <1>7
  <2>3. tx' = next  BY <1>1, <1>7, <2>1, <2>2
  <2> QED  BY <1>7, <2>1, <2>3 DEF next
<1>8. CASE tx.state = "send" /\ tx.tick = 1 /\ tx.count = FrameEnd /\ ~TxTakes
  <2>1. tx' = [t EXCEPT !.reg = 1, !.count = 0, !.state = "idle"]  BY <1>1, <1>3, <1>8
  <2> QED  BY <1>8, <2>1
<1>9. CASE tx.state = "send" /\ tx.tick = 1 /\ tx.count = FrameEnd /\ TxTakes
  <2>1. tx' = [t EXCEPT !.buff = Tail(F), !.reg = 0, !.count = 1]  BY <1>1, <1>3, <1>9
  <2> QED  BY <1>9, <2>1 DEF F
<1> QED  BY <1>2, <1>4, <1>5, <1>6, <1>7, <1>8, <1>9, Zenon

LEMMA TxCases ==
  ASSUME UartAssumption, LineTyped, NEW step \in 0..2, Transmit(step)
  PROVE  \/ /\ tx.state = "idle" /\ ~TxTakes
            /\ tx'.state = "idle" /\ tx'.buff = tx.buff /\ tx'.reg = tx.reg /\ tx'.count = tx.count
         \/ /\ tx.state = "idle" /\ TxTakes
            /\ tx'.state = "send" /\ tx'.buff = Frame(Head(txQueue)) /\ tx'.reg = tx.reg /\ tx'.count = tx.count
         \/ /\ tx.state = "send" /\ tx.tick # 1 /\ ~TxTakes
            /\ tx'.state = "send" /\ tx'.buff = tx.buff /\ tx'.reg = tx.reg /\ tx'.count = tx.count
         \/ /\ tx.state = "send" /\ tx.tick = 1 /\ tx.count # FrameEnd /\ ~TxTakes
            /\ tx'.state = "send" /\ tx'.buff = Tail(tx.buff) /\ tx'.reg = Head(tx.buff) /\ tx'.count = tx.count + 1
         \/ /\ tx.state = "send" /\ tx.tick = 1 /\ tx.count = FrameEnd /\ ~TxTakes
            /\ tx'.state = "idle" /\ tx'.buff = tx.buff /\ tx'.reg = 1 /\ tx'.count = 0
         \/ /\ tx.state = "send" /\ tx.tick = 1 /\ tx.count = FrameEnd /\ TxTakes
            /\ tx'.state = "send" /\ tx'.buff = Tail(Frame(Head(txQueue))) /\ tx'.reg = 0 /\ tx'.count = 1
<1> DEFINE t == TxBaud(step)
<1>1. t \in TxType /\ t.state = tx.state /\ t.buff = tx.buff /\ t.reg = tx.reg /\ t.count = tx.count
  BY TxBaudFacts
<1> HIDE DEF t
<1>2. DOMAIN t = {"baud", "tick", "state", "buff", "reg", "count"}  BY <1>1 DEF TxType
<1>3. CASE tx.state = "idle" /\ ~TxTakes /\ tx' = t  BY <1>1, <1>3
<1>4. CASE tx.state = "idle" /\ TxTakes /\ tx' = [t EXCEPT !.buff = Frame(Head(txQueue)), !.state = "send"]
  BY <1>1, <1>2, <1>4
<1>5. CASE tx.state = "send" /\ tx.tick # 1 /\ ~TxTakes /\ tx' = t  BY <1>1, <1>5
<1>6. CASE /\ tx.state = "send" /\ tx.tick = 1 /\ tx.count # FrameEnd /\ ~TxTakes
           /\ tx' = [t EXCEPT !.buff = Tail(@), !.reg = Head(tx.buff), !.count = @ + 1]
  <2>1. /\ tx'.state = t.state /\ tx'.buff = Tail(t.buff) /\ tx'.reg = Head(tx.buff) /\ tx'.count = t.count + 1
    BY <1>2, <1>6
  <2> QED  BY <1>1, <1>6, <2>1
<1>7. CASE /\ tx.state = "send" /\ tx.tick = 1 /\ tx.count = FrameEnd /\ ~TxTakes
           /\ tx' = [t EXCEPT !.reg = 1, !.count = 0, !.state = "idle"]
  BY <1>1, <1>2, <1>7
<1>8. CASE /\ tx.state = "send" /\ tx.tick = 1 /\ tx.count = FrameEnd /\ TxTakes
           /\ tx' = [t EXCEPT !.buff = Tail(Frame(Head(txQueue))), !.reg = 0, !.count = 1]
  BY <1>1, <1>2, <1>8
<1> QED  BY <1>3, <1>4, <1>5, <1>6, <1>7, <1>8, TxForms, Zenon DEF t

TxIdle == tx.state = "idle" /\ tx.count = 0 /\ tx.reg = 1

SendsBit(b, n) ==
  /\ tx.state = "send" /\ tx.count = n /\ tx.reg = On(b, n)
  /\ \A k \in 1..Width + 2 - n : tx.buff[k] = Frame(b)[n + k]

LEMMA IdleNext ==
  ASSUME UartAssumption, LineTyped, NEW step \in 0..2, Transmit(step), TxIdle, txQueue \in Seq(Bytes)
  PROVE  /\ TxTakes => \A c : c = Head(txQueue) => SendsBit(c, 0)'
         /\ ~TxTakes => TxIdle'
<1>1. CASE ~TxTakes  BY <1>1, TxCases DEF TxIdle
<1>2. CASE TxTakes
  <2> SUFFICES ASSUME NEW c, c = Head(txQueue) PROVE SendsBit(c, 0)'
    BY <1>2
  <2>1. tx'.state = "send" /\ tx'.buff = Frame(c) /\ tx'.reg = 1 /\ tx'.count = 0
    BY <1>2, TxCases DEF TxIdle
  <2>2. Width \in Nat  BY TimesOfLine
  <2> QED  BY <2>1, <2>2 DEF SendsBit, On
<1> QED  BY <1>1, <1>2

LEMMA SendsNext ==
  ASSUME UartAssumption, LineTyped, NEW step \in 0..2, Transmit(step),
         NEW b \in Bytes, NEW n \in 0..Width + 2, SendsBit(b, n), tx.tick = 1 => n < Width + 2
  PROVE  /\ ~TxTakes
         /\ tx.tick # 1 => SendsBit(b, n)'
         /\ tx.tick = 1 => SendsBit(b, n + 1)'
<1>1. Width \in Nat  BY TimesOfLine
<1>2. tx.state = "send" /\ tx.count = n /\ ~TxTakes
  BY <1>1 DEF SendsBit, TxTakes, FrameEnd
<1>3. CASE tx.tick # 1
  <2>1. tx'.state = "send" /\ tx'.buff = tx.buff /\ tx'.reg = tx.reg /\ tx'.count = tx.count
    BY <1>2, <1>3, TxCases
  <2> QED  BY <1>2, <1>3, <2>1 DEF SendsBit, On, Frame, Bit
<1>4. CASE tx.tick = 1
  <2>1. tx'.state = "send" /\ tx'.buff = Tail(tx.buff) /\ tx'.reg = Head(tx.buff) /\ tx'.count = n + 1
    BY <1>1, <1>2, <1>4, TxCases DEF FrameEnd
  <2>2. tx.buff \in Seq(Levels) /\ Len(tx.buff) = Width + 2 - n
    BY <1>2 DEF LineTyped, TxType
  <2>3. tx.buff # <<>>  BY <1>1, <1>4, <2>2
  <2>4. /\ Head(tx.buff) = tx.buff[1]
        /\ \A k \in 1..Width + 1 - n : Tail(tx.buff)[k] = tx.buff[k + 1]
    BY <1>1, <2>2, <2>3
  <2>5. \A k \in 1..Width + 2 - n : tx.buff[k] = Frame(b)[n + k]  BY DEF SendsBit
  <2>6. tx'.reg = On(b, n + 1)
    BY <1>1, <1>4, <2>1, <2>4, <2>5 DEF On
  <2>7. \A k \in 1..Width + 2 - (n + 1) : tx'.buff[k] = Frame(b)[n + 1 + k]
    <3> SUFFICES ASSUME NEW k \in 1..Width + 2 - (n + 1) PROVE tx'.buff[k] = Frame(b)[n + 1 + k]
      OBVIOUS
    <3>1. k \in 1..Width + 1 - n /\ k + 1 \in 1..Width + 2 - n /\ n + (k + 1) = n + 1 + k  BY <1>1
    <3> QED  BY <2>1, <2>4, <2>5, <3>1
  <2> QED  BY <1>4, <1>2, <2>1, <2>6, <2>7 DEF SendsBit, On, Frame, Bit
<1> QED  BY <1>2, <1>3, <1>4

LEMMA SendsEnd ==
  ASSUME UartAssumption, LineTyped, NEW step \in 0..2, Transmit(step),
         NEW b \in Bytes, SendsBit(b, Width + 2), tx.tick = 1, txQueue \in Seq(Bytes)
  PROVE  /\ TxTakes => \A c : c = Head(txQueue) => SendsBit(c, 1)'
         /\ ~TxTakes => TxIdle'
<1>1. tx.state = "send" /\ tx.count = FrameEnd  BY DEF SendsBit, FrameEnd
<1>2. CASE ~TxTakes  BY <1>1, <1>2, TxCases DEF TxIdle
<1>3. CASE TxTakes
  <2> SUFFICES ASSUME NEW c, c = Head(txQueue) PROVE SendsBit(c, 1)'
    BY <1>3
  <2>1. tx'.state = "send" /\ tx'.buff = Tail(Frame(c)) /\ tx'.reg = 0 /\ tx'.count = 1
    BY <1>1, <1>3, TxCases
  <2>2. Width \in Nat /\ c \in Bytes
    <3>1. txQueue # <<>>  BY <1>3 DEF TxTakes
    <3>2. c \in Bytes  BY <3>1
    <3> QED  BY <3>2, TimesOfLine
  <2>3. /\ Frame(c) \in Seq(Levels) /\ Len(Frame(c)) = Width + 2 /\ Frame(c)[1] = 0
    BY <2>2, FrameFacts
  <2>4. \A k \in 1..Width + 1 : Tail(Frame(c))[k] = Frame(c)[k + 1]
    BY <2>2, <2>3
  <2>5. \A k \in 1..Width + 2 - 1 : tx'.buff[k] = Frame(c)[1 + k]
    <3> SUFFICES ASSUME NEW k \in 1..Width + 2 - 1 PROVE tx'.buff[k] = Frame(c)[1 + k]
      OBVIOUS
    <3>1. k \in 1..Width + 1 /\ k + 1 = 1 + k  BY <2>2
    <3> QED  BY <2>1, <2>4, <3>1
  <2> QED  BY <2>1, <2>3, <2>5 DEF SendsBit, On, Frame, Bit
<1> QED  BY <1>2, <1>3

LEMMA TxTyped ==
  ASSUME UartAssumption, LineTyped, NEW step \in 0..2, Transmit(step), txQueue \in Seq(Bytes)
  PROVE  /\ tx' \in TxType /\ (tx'.tick = 1 => tx'.baud = 0)
         /\ tx'.state = "send" => Len(tx'.buff) = Width + 2 - tx'.count
         /\ tx'.state = "idle" => tx'.count = 0
<1> DEFINE t == TxBaud(step)
<1>1. t \in TxType /\ (t.tick = 1 => t.baud = 0)  BY TxBaudFacts
<1>3. Width \in Nat /\ Width >= 1 BY TimesOfLine
<1>4. 0 \in Levels /\ 1 \in Levels  BY DEF Levels
<1>5. /\ tx.state \in {"idle", "send"} /\ tx.buff \in Seq(Levels) /\ tx.reg \in Levels /\ tx.count \in 0..Width + 2
      /\ tx.state = "send" => Len(tx.buff) = Width + 2 - tx.count
      /\ tx.state = "idle" => tx.count = 0
  BY DEF LineTyped, TxType
<1>6. TxTakes => LET F == Frame(Head(txQueue))
                 IN  F \in Seq(Levels) /\ Len(F) = Width + 2 /\ Tail(F) \in Seq(Levels) /\ Len(Tail(F)) = Width + 1
  <2> SUFFICES ASSUME TxTakes, NEW b, b = Head(txQueue)
               PROVE  LET F == Frame(b)
                      IN  F \in Seq(Levels) /\ Len(F) = Width + 2 /\ Tail(F) \in Seq(Levels) /\ Len(Tail(F)) = Width + 1
    OBVIOUS
  <2>1. b \in Bytes  BY DEF TxTakes
  <2>2. Frame(b) \in Seq(Levels) /\ Len(Frame(b)) = Width + 2  BY <2>1, FrameFacts
  <2> QED  BY <1>3, <2>2
<1>7. tx.state = "send" /\ tx.count # FrameEnd => tx.buff # <<>> /\ Head(tx.buff) \in Levels
                                                 /\ Tail(tx.buff) \in Seq(Levels) /\ Len(Tail(tx.buff)) = Len(tx.buff) - 1
  BY <1>3, <1>5 DEF FrameEnd
<1>8. /\ tx'.state \in {"idle", "send"} /\ tx'.buff \in Seq(Levels) /\ tx'.reg \in Levels /\ tx'.count \in 0..Width + 2
      /\ tx'.state = "send" => Len(tx'.buff) = Width + 2 - tx'.count
      /\ tx'.state = "idle" => tx'.count = 0
  <2>1. CASE tx.state = "idle" /\ TxTakes
    <3>1. tx'.state = "send" /\ tx'.buff = Frame(Head(txQueue)) /\ tx'.reg = tx.reg /\ tx'.count = tx.count
      BY <2>1, TxCases
    <3>2. tx.count = 0  BY <2>1 DEF LineTyped
    <3> QED  BY <1>3, <1>5, <1>6, <2>1, <3>1, <3>2
  <2>2. CASE tx.state = "send" /\ tx.tick = 1 /\ tx.count # FrameEnd
    <3>1. tx'.state = "send" /\ tx'.buff = Tail(tx.buff) /\ tx'.reg = Head(tx.buff) /\ tx'.count = tx.count + 1
      BY <2>2, TxCases
    <3>2. tx.count # Width + 2  BY <2>2 DEF FrameEnd
    <3>5. tx.count \in 0..Width + 1
      <4>1. tx.count \in 0..Width + 2  BY <1>5
      <4> QED  BY <1>3, <3>2, <4>1
    <3>6. Len(tx.buff) = Width + 2 - tx.count  BY <1>5, <2>2
    <3>7. Len(Tail(tx.buff)) = Len(tx.buff) - 1  BY <1>7, <2>2
    <3>3. Len(tx'.buff) = Width + 2 - tx'.count  BY <1>3, <3>1, <3>5, <3>6, <3>7
    <3>4. tx'.buff \in Seq(Levels) /\ tx'.reg \in Levels  BY <1>7, <2>2, <3>1
    <3>8. tx'.count \in 0..Width + 2  BY <1>3, <3>1, <3>5
    <3> QED  BY <3>1, <3>3, <3>4, <3>8
  <2>3. CASE tx.state = "send" /\ tx.tick = 1 /\ tx.count = FrameEnd /\ TxTakes
    <3>1. tx'.state = "send" /\ tx'.buff = Tail(Frame(Head(txQueue))) /\ tx'.reg = 0 /\ tx'.count = 1
      BY <2>3, TxCases
    <3> QED  BY <1>3, <1>4, <1>6, <2>3, <3>1
  <2>4. CASE tx.state = "send" /\ tx.tick = 1 /\ tx.count = FrameEnd /\ ~TxTakes
    <3>1. tx'.state = "idle" /\ tx'.buff = tx.buff /\ tx'.reg = 1 /\ tx'.count = 0
      BY <2>4, TxCases
    <3> QED  BY <1>3, <1>4, <1>5, <3>1
  <2>5. CASE (tx.state = "idle" /\ ~TxTakes) \/ (tx.state = "send" /\ tx.tick # 1)
    <3>1. tx'.state = tx.state /\ tx'.buff = tx.buff /\ tx'.reg = tx.reg /\ tx'.count = tx.count
      BY <2>5, TxCases DEF TxTakes
    <3> QED  BY <1>5, <3>1
  <2> QED  BY <1>5, <2>1, <2>2, <2>3, <2>4, <2>5
<1>9. tx'.baud = t.baud /\ tx'.tick = t.tick  BY TxClock
<1>10. tx' \in TxType
  <2> DEFINE F == Frame(Head(txQueue))
             G == Tail(F)
             next == [t EXCEPT !.buff = Tail(@), !.reg = Head(tx.buff), !.count = @ + 1]
  <2>1. t.state = tx.state /\ t.buff = tx.buff /\ t.reg = tx.reg /\ t.count = tx.count
    BY TxBaudFacts
  <2>2. \/ tx' = t \/ (TxTakes /\ tx' = [t EXCEPT !.buff = F, !.state = "send"])
        \/ (tx.state = "send" /\ tx.count # FrameEnd /\ tx' = next)
        \/ tx' = [t EXCEPT !.reg = 1, !.count = 0, !.state = "idle"]
        \/ (TxTakes /\ tx' = [t EXCEPT !.buff = G, !.reg = 0, !.count = 1])
    BY TxForms, Zenon
  <2>3. TxTakes => F \in Seq(Levels) /\ G \in Seq(Levels)  BY <1>6
  <2> HIDE DEF t, F, G
  <2>4. CASE tx' = t  BY <1>1, <2>4
  <2>5. CASE TxTakes /\ tx' = [t EXCEPT !.buff = F, !.state = "send"]
    BY <1>1, <2>3, <2>5 DEF TxType
  <2>6. CASE tx.state = "send" /\ tx.count # FrameEnd /\ tx' = next
    <3> DEFINE g == Tail(t.buff)
               l == Head(tx.buff)
    <3>1. g \in Seq(Levels) /\ l \in Levels  BY <1>7, <2>1, <2>6
    <3>2. t.count + 1 \in 0..Width + 2  BY <1>3, <1>5, <2>1, <2>6 DEF FrameEnd
    <3>3. tx' = [t EXCEPT !.buff = g, !.reg = l, !.count = t.count + 1]
      BY <1>1, <2>6 DEF TxType
    <3> HIDE DEF g, l
    <3> QED  BY <1>1, <3>1, <3>2, <3>3 DEF TxType
  <2>7. CASE tx' = [t EXCEPT !.reg = 1, !.count = 0, !.state = "idle"]
    <3>1. 0 \in 0..Width + 2  BY <1>3
    <3> QED  BY <1>1, <1>4, <2>7, <3>1 DEF TxType
  <2>8. CASE TxTakes /\ tx' = [t EXCEPT !.buff = G, !.reg = 0, !.count = 1]
    <3>1. 1 \in 0..Width + 2  BY <1>3
    <3>2. tx' = [t EXCEPT !.buff = G, !.reg = 0, !.count = 1]  BY <2>8
    <3> QED  BY <1>1, <1>4, <2>3, <2>8, <3>1, <3>2 DEF TxType
  <2> HIDE DEF next
  <2> QED  BY <2>2, <2>4, <2>5, <2>6, <2>7, <2>8, Zenon
<1> QED  BY <1>1, <1>8, <1>9, <1>10
-----------------------------------------------------------------------------
(* The receiver. *)

Resting == rx.state = "idle" /\ ~rx.enable /\ rx.tick = 0 /\ rx.count = 0

\* The receiver waits for bit m of b, the start bit being bit 0.
Receives(b, m) ==
  /\ rx.enable /\ (rx.tick = 1 <=> rx.baud = 0)
  /\ \/ m = 0 /\ rx.state = "start" /\ rx.count = 0
     \/ m \in 1..Width /\ rx.state = "receive_data" /\ rx.count = m - 1
     \/ m = Width + 1 /\ rx.state = "stop_bit" /\ rx.count = 0
  /\ \A k \in 1..m - 1 : rx.buff[Width - (m - 1) + k] = Bit(b)[k]

LEMMA RxForms ==
  ASSUME LineTyped, Receive, NEW r, r = RxBaud
  PROVE  \/ /\ rx.state = "idle" /\ Sampled = 0
            /\ rx' = [r EXCEPT !.state = "start", !.baud = HalfBit, !.enable = TRUE]
         \/ /\ rx.state = "start" /\ rx.tick = 1
            /\ rx' = [r EXCEPT !.state = IF Sampled = 0 THEN "receive_data" ELSE "idle"]
         \/ /\ rx.state = "receive_data" /\ rx.tick = 1
            /\ rx' = [r EXCEPT !.state = IF rx.count = Width - 1 THEN "stop_bit" ELSE @,
                               !.count = (@ + 1) % Width, !.buff = Append(Tail(@), Sampled)]
         \/ /\ rx.state = "stop_bit" /\ rx.tick = 1
            /\ rx' = [r EXCEPT !.state = "idle", !.enable = FALSE]
         \/ ~(rx.state = "idle" /\ Sampled = 0) /\ ~(rx.state # "idle" /\ rx.tick = 1) /\ rx' = r
<1> DEFINE start == [r EXCEPT !.state = "start", !.baud = HalfBit, !.enable = TRUE]
           first == [r EXCEPT !.state = IF Sampled = 0 THEN "receive_data" ELSE "idle"]
           next  == [r EXCEPT !.state = IF rx.count = Width - 1 THEN "stop_bit" ELSE @,
                               !.count = (@ + 1) % Width, !.buff = Append(Tail(@), Sampled)]
           stop  == [r EXCEPT !.state = "idle", !.enable = FALSE]
           low   == Sampled = 0
           tick  == rx.tick = 1
<1>1. rx' = CASE rx.state = "idle" /\ low -> start
              [] rx.state = "start" /\ tick -> first
              [] rx.state = "receive_data" /\ tick -> next
              [] rx.state = "stop_bit" /\ tick -> stop
              [] OTHER -> r
  BY Zenon DEF Receive
<1>2. rx.state \in {"idle", "start", "receive_data", "stop_bit"}  BY DEF LineTyped, RxType
<1>3. low \in BOOLEAN /\ tick \in BOOLEAN  OBVIOUS
<1> HIDE DEF start, first, next, stop, low, tick
<1>4. CASE rx.state = "idle"
  <2>1. rx' = IF low THEN start ELSE r  BY <1>1, <1>3, <1>4
  <2> QED  BY <1>4, <2>1 DEF low, start
<1>5. CASE rx.state = "start"
  <2>1. rx' = IF tick THEN first ELSE r  BY <1>1, <1>3, <1>5
  <2> QED  BY <1>5, <2>1 DEF tick, first
<1>6. CASE rx.state = "receive_data"
  <2>1. rx' = IF tick THEN next ELSE r  BY <1>1, <1>3, <1>6
  <2>2. CASE tick
    <3>1. rx' = next  BY <2>1, <2>2
    <3> QED  BY <1>6, <2>2, <3>1 DEF tick, next
  <2>3. CASE ~tick
    <3>1. rx' = r  BY <2>1, <2>3
    <3> QED  BY <1>6, <2>3, <3>1 DEF tick
  <2> QED  BY <2>2, <2>3
<1>7. CASE rx.state = "stop_bit"
  <2>1. rx' = IF tick THEN stop ELSE r  BY <1>1, <1>3, <1>7
  <2> QED  BY <1>7, <2>1 DEF tick, stop
<1> QED  BY <1>2, <1>4, <1>5, <1>6, <1>7, Zenon

LEMMA RxBaudFacts ==
  ASSUME UartAssumption, LineTyped, NEW r, r = RxBaud
  PROVE  /\ r \in RxType
         /\ r.state = rx.state /\ r.buff = rx.buff /\ r.enable = rx.enable /\ r.count = rx.count
         /\ ~rx.enable => r.tick = rx.tick /\ r.baud = rx.baud
         /\ rx.enable => IF rx.baud = Divider THEN r.baud = 0 /\ r.tick = 1
                                              ELSE r.baud = rx.baud + 1 /\ r.tick = 0
<1>1. rx \in RxType /\ Divider \in Nat  BY TimesOfLine DEF LineTyped
<1>2. CASE ~rx.enable  BY <1>1, <1>2 DEF RxBaud
<1>3. CASE rx.enable /\ rx.baud = Divider
  <2>1. r = [rx EXCEPT !.baud = 0, !.tick = 1]  BY <1>3 DEF RxBaud
  <2>2. 0 \in 0..Divider  BY <1>1
  <2>3. r \in RxType  BY <1>1, <2>1, <2>2 DEF RxType
  <2> QED  BY <1>1, <1>3, <2>1, <2>3 DEF RxType
<1>4. CASE rx.enable /\ rx.baud # Divider
  <2>1. r = [rx EXCEPT !.baud = @ + 1, !.tick = 0]  BY <1>4 DEF RxBaud
  <2>2. rx.baud + 1 \in 0..Divider  BY <1>1, <1>4 DEF RxType
  <2>3. r \in RxType  BY <1>1, <2>1, <2>2 DEF RxType
  <2> QED  BY <1>1, <1>4, <2>1, <2>3 DEF RxType
<1> QED  BY <1>2, <1>3, <1>4

LEMMA SampledType ==
  ASSUME LineTyped
  PROVE  Sampled \in Levels
  BY DEF LineTyped, Sampled

LEMMA CountFacts ==
  ASSUME UartAssumption, NEW c \in 0..Width - 1
  PROVE  /\ (c + 1) % Width = IF c = Width - 1 THEN 0 ELSE c + 1
         /\ (c + 1) % Width \in 0..Width - 1
  BY TimesOfLine

LEMMA ShiftFacts ==
  ASSUME UartAssumption, NEW s \in Seq(Levels), Len(s) = Width, NEW e \in Levels
  PROVE  /\ Append(Tail(s), e) \in Seq(Levels) /\ Len(Append(Tail(s), e)) = Width
         /\ \A k \in 1..Width - 1 : Append(Tail(s), e)[k] = s[k + 1]
         /\ Append(Tail(s), e)[Width] = e
<1>1. Width \in Nat /\ Width >= 1  BY TimesOfLine
<1> DEFINE t == Tail(s)
<1>2. t \in Seq(Levels) /\ Len(t) = Width - 1 /\ \A k \in 1..Width - 1 : t[k] = s[k + 1]
  BY <1>1
<1> HIDE DEF t
<1>3. /\ Append(t, e) \in Seq(Levels) /\ Len(Append(t, e)) = Len(t) + 1
      /\ \A k \in 1..Len(t) : Append(t, e)[k] = t[k]
      /\ Append(t, e)[Len(t) + 1] = e
  BY <1>2
<1> QED  BY <1>1, <1>2, <1>3 DEF t

LEMMA RxTyped ==
  ASSUME UartAssumption, LineTyped, Receive
  PROVE  rx' \in RxType /\ Len(rx'.buff) = Width
<1> DEFINE r == RxBaud
<1>1. r \in RxType /\ r.state = rx.state /\ r.buff = rx.buff /\ r.count = rx.count
  BY RxBaudFacts
<1>2. Len(r.buff) = Width /\ r.buff \in Seq(Levels)  BY <1>1 DEF LineTyped, RxType
<1>3. Width \in Nat /\ HalfBit \in 0..Divider  BY TimesOfLine
<1> HIDE DEF r
<1>4. CASE rx' = [r EXCEPT !.state = "start", !.baud = HalfBit, !.enable = TRUE]
  BY <1>1, <1>2, <1>3, <1>4 DEF RxType
<1>5. CASE rx' = [r EXCEPT !.state = IF Sampled = 0 THEN "receive_data" ELSE "idle"]
  BY <1>1, <1>2, <1>5 DEF RxType
<1>6. CASE rx' = [r EXCEPT !.state = IF rx.count = Width - 1 THEN "stop_bit" ELSE @,
                           !.count = (@ + 1) % Width, !.buff = Append(Tail(@), Sampled)]
  <2> DEFINE st == IF rx.count = Width - 1 THEN "stop_bit" ELSE r.state
             co == (r.count + 1) % Width
             bu == Append(Tail(r.buff), Sampled)
  <2>1. st \in {"idle", "start", "receive_data", "stop_bit"}  BY <1>1 DEF RxType
  <2>2. co \in 0..Width - 1  BY <1>1, CountFacts DEF RxType
  <2>3. bu \in Seq(Levels) /\ Len(bu) = Width  BY <1>2, ShiftFacts, SampledType
  <2>4. rx' = [r EXCEPT !.state = st, !.count = co, !.buff = bu]
    BY <1>1, <1>6 DEF RxType
  <2> HIDE DEF st, co, bu
  <2> QED  BY <1>1, <2>1, <2>2, <2>3, <2>4 DEF RxType
<1>7. CASE rx' = [r EXCEPT !.state = "idle", !.enable = FALSE]
  BY <1>1, <1>2, <1>7 DEF RxType
<1>8. CASE rx' = r
  BY <1>1, <1>2, <1>8
<1> QED  BY <1>4, <1>5, <1>6, <1>7, <1>8, RxForms DEF r

LEMMA AheadFacts ==
  ASSUME UartAssumption, LineTyped
  PROVE  /\ Ahead \in Nat /\ (Ahead = 0 <=> rx.tick = 1)
         /\ rx.tick # 1 => Ahead = Period - rx.baud
<1>1. rx.baud \in 0..Divider  BY DEF LineTyped, RxType
<1>2. Divider \in Nat /\ Period = Divider + 1  BY TimesOfLine
<1> QED  BY <1>1, <1>2 DEF Ahead

LEMMA RxRest ==
  ASSUME UartAssumption, LineTyped, Receive, Resting, Sampled # 0
  PROVE  Resting' /\ ~Complete
<1>1. rx' = RxBaud  BY RxForms DEF Resting
<1>2. rx' = rx  BY <1>1 DEF RxBaud, Resting
<1> QED  BY <1>2 DEF Resting, Complete

LEMMA RxStart ==
  ASSUME UartAssumption, LineTyped, Receive, Resting, Sampled = 0, NEW b \in Bytes
  PROVE  Receives(b, 0)' /\ Ahead' = Period - HalfBit /\ ~Complete
<1> DEFINE r == RxBaud
<1>1. rx \in RxType /\ r = rx  BY DEF LineTyped, Resting, RxBaud
<1>2. rx' = [rx EXCEPT !.state = "start", !.baud = HalfBit, !.enable = TRUE]
  BY <1>1, RxForms DEF Resting
<1>3. /\ rx'.state = "start" /\ rx'.baud = HalfBit /\ rx'.enable = TRUE
      /\ rx'.tick = 0 /\ rx'.count = 0
  BY <1>1, <1>2 DEF RxType, Resting
<1>4. HalfBit > 0  BY TimesOfLine
<1>5. Ahead' = Period - HalfBit  BY <1>3 DEF Ahead, Period, HalfBit
<1>6. Receives(b, 0)'  BY <1>3, <1>4 DEF Receives, HalfBit
<1> QED  BY <1>5, <1>6 DEF Resting, Complete

LEMMA RxClock ==
  ASSUME UartAssumption, LineTyped, Receive, rx.enable, rx.tick = 1 <=> rx.baud = 0, rx.state # "idle"
  PROVE  /\ rx'.baud = RxBaud.baud /\ rx'.tick = RxBaud.tick
         /\ rx'.tick = 1 <=> rx'.baud = 0
         /\ Ahead > 0 => Ahead' = Ahead - 1
         /\ Ahead = 0 => Ahead' = Divider /\ rx'.tick = 0
<1> DEFINE r == RxBaud
<1>1. r \in RxType  BY RxBaudFacts
<1>2. rx'.baud = r.baud /\ rx'.tick = r.tick
  <2> HIDE DEF r
  <2>1. CASE rx' = [r EXCEPT !.state = IF Sampled = 0 THEN "receive_data" ELSE "idle"]
    BY <1>1, <2>1 DEF RxType
  <2>2. CASE rx' = [r EXCEPT !.state = IF rx.count = Width - 1 THEN "stop_bit" ELSE @,
                             !.count = (@ + 1) % Width, !.buff = Append(Tail(@), Sampled)]
    BY <1>1, <2>2 DEF RxType
  <2>3. CASE rx' = [r EXCEPT !.state = "idle", !.enable = FALSE]
    BY <1>1, <2>3 DEF RxType
  <2>4. CASE rx' = r  BY <2>4
  <2> QED  BY <2>1, <2>2, <2>3, <2>4, RxForms DEF r
<1>3. IF rx.baud = Divider THEN r.baud = 0 /\ r.tick = 1
                           ELSE r.baud = rx.baud + 1 /\ r.tick = 0
  BY RxBaudFacts
<1> HIDE DEF r
<1>4. rx.baud \in 0..Divider /\ rx.tick \in {0, 1}  BY DEF LineTyped, RxType
<1>5. Divider \in Nat /\ Divider > 2 /\ Period = Divider + 1  BY TimesOfLine
<1>6. Ahead = IF rx.tick = 1 THEN 0 ELSE Period - rx.baud  BY DEF Ahead
<1>7. Ahead' = IF rx'.tick = 1 THEN 0 ELSE Period - rx'.baud  BY DEF Ahead, Period
<1>8. rx'.tick = 1 <=> rx'.baud = 0  BY <1>2, <1>3, <1>4, <1>5
<1>9. CASE rx.tick = 1  BY <1>2, <1>3, <1>4, <1>5, <1>6, <1>7, <1>8, <1>9 DEF r
<1>10. CASE rx.tick = 0  BY <1>2, <1>3, <1>4, <1>5, <1>6, <1>7, <1>8, <1>10 DEF r
<1> QED  BY <1>4, <1>9, <1>10

LEMMA RxWait ==
  ASSUME UartAssumption, LineTyped, Receive, NEW b \in Bytes, NEW m \in 0..Width + 1, Receives(b, m), Ahead > 0
  PROVE  Receives(b, m)' /\ Ahead' = Ahead - 1 /\ ~Complete
<1>1. rx.enable /\ (rx.tick = 1 <=> rx.baud = 0) /\ rx.state # "idle"  BY DEF Receives
<1>2. Ahead' = Ahead - 1 /\ (rx'.tick = 1 <=> rx'.baud = 0)  BY <1>1, RxClock
<1>3. rx.tick # 1  BY AheadFacts
<1>4. rx' = RxBaud  BY <1>1, <1>3, RxForms
<1>5. rx'.state = rx.state /\ rx'.buff = rx.buff /\ rx'.enable = rx.enable /\ rx'.count = rx.count
  BY <1>4, RxBaudFacts
<1>6. Receives(b, m)'  BY <1>1, <1>2, <1>5 DEF Receives, Bit
<1> QED  BY <1>2, <1>3, <1>6 DEF Complete

LEMMA RxSample ==
  ASSUME UartAssumption, LineTyped, Receive, NEW b \in Bytes, NEW m \in 0..Width, Receives(b, m),
         Ahead = 0, Sampled = Frame(b)[m + 1]
  PROVE  Receives(b, m + 1)' /\ Ahead' = Divider /\ ~Complete
<1>1. rx.enable /\ (rx.tick = 1 <=> rx.baud = 0) /\ rx.state # "idle"  BY DEF Receives
<1>2. Ahead' = Divider /\ (rx'.tick = 1 <=> rx'.baud = 0)  BY <1>1, RxClock
<1>3. rx.tick = 1  BY AheadFacts
<1>4. Width \in Nat /\ Width >= 1  BY TimesOfLine
<1> DEFINE r == RxBaud
<1>5. /\ r \in RxType /\ r.state = rx.state /\ r.buff = rx.buff /\ r.enable = rx.enable /\ r.count = rx.count
  BY RxBaudFacts
<1>6. Frame(b)[1] = 0 /\ \A k \in 1..Width : Frame(b)[k + 1] = Bit(b)[k]  BY FrameFacts
<1> HIDE DEF r
<1>7. CASE m = 0
  <2>1. rx.state = "start" /\ rx.count = 0 /\ Sampled = 0  BY <1>4, <1>6, <1>7 DEF Receives
  <2>2. rx' = [r EXCEPT !.state = "receive_data"]  BY <1>3, <2>1, RxForms DEF r
  <2>3. rx'.state = "receive_data" /\ rx'.enable /\ rx'.count = 0  BY <1>1, <1>5, <2>1, <2>2 DEF RxType
  <2>4. Receives(b, 1)'  BY <1>2, <1>4, <2>3 DEF Receives
  <2> QED  BY <1>2, <1>7, <2>1, <2>4 DEF Complete
<1>8. CASE m > 0
  <2>1. rx.state = "receive_data" /\ rx.count = m - 1  BY <1>4, <1>8 DEF Receives
  <2> DEFINE st == IF rx.count = Width - 1 THEN "stop_bit" ELSE r.state
             co == (r.count + 1) % Width
             bu == Append(Tail(r.buff), Sampled)
  <2>2. rx' = [r EXCEPT !.state = IF rx.count = Width - 1 THEN "stop_bit" ELSE @,
                         !.count = (@ + 1) % Width, !.buff = Append(Tail(@), Sampled)]
    BY <1>3, <2>1, RxForms DEF r
  <2>3. rx' = [r EXCEPT !.state = st, !.count = co, !.buff = bu]  BY <1>5, <2>2 DEF RxType
  <2>4. co = IF m = Width THEN 0 ELSE m
    BY <1>4, <1>5, <1>8, <2>1, CountFacts
  <2>5. st = IF m = Width THEN "stop_bit" ELSE "receive_data"
    BY <1>4, <1>5, <1>8, <2>1
  <2>6. /\ \A k \in 1..Width - 1 : bu[k] = rx.buff[k + 1]
        /\ bu[Width] = Sampled
    <3>1. rx.buff \in Seq(Levels) /\ Len(rx.buff) = Width  BY DEF LineTyped, RxType
    <3> QED  BY <1>5, <3>1, SampledType, ShiftFacts
  <2> HIDE DEF st, co, bu
  <2>7. rx'.state = st /\ rx'.enable /\ rx'.count = co /\ rx'.buff = bu
    BY <1>1, <1>5, <2>3 DEF RxType
  <2>8. ASSUME NEW k \in 1..(m + 1) - 1 PROVE bu[Width - ((m + 1) - 1) + k] = Bit(b)[k]
    <3>1. k \in 1..m /\ Width - ((m + 1) - 1) + k = Width - m + k  BY <1>4
    <3>2. CASE k = m
      <4>1. bu[Width] = Bit(b)[m]  BY <1>4, <1>6, <1>8, <2>6
      <4>2. Width - m + k = Width  BY <1>4, <3>2
      <4> QED  BY <3>1, <3>2, <4>1, <4>2
    <3>3. CASE k # m
      <4>1. k \in 1..m - 1 /\ Width - m + k \in 1..Width - 1 /\ (Width - m + k) + 1 = Width - (m - 1) + k
        BY <1>4, <3>1, <3>3
      <4>2. bu[Width - m + k] = rx.buff[Width - (m - 1) + k]  BY <2>6, <4>1
      <4>3. rx.buff[Width - (m - 1) + k] = Bit(b)[k]  BY <4>1 DEF Receives
      <4> QED  BY <3>1, <4>2, <4>3
    <3> QED  BY <3>2, <3>3
  <2>9. Receives(b, m + 1)'
    <3>1. \A k \in 1..(m + 1) - 1 : rx'.buff[Width - ((m + 1) - 1) + k] = Bit(b)[k]
      BY <2>7, <2>8
    <3>2. \/ m + 1 \in 1..Width /\ rx'.state = "receive_data" /\ rx'.count = (m + 1) - 1
          \/ m + 1 = Width + 1 /\ rx'.state = "stop_bit" /\ rx'.count = 0
      BY <1>4, <2>4, <2>5, <2>7
    <3> QED  BY <1>2, <2>7, <3>1, <3>2 DEF Receives, Bit
  <2> QED  BY <1>2, <2>1, <2>9 DEF Complete
<1> QED  BY <1>4, <1>7, <1>8

LEMMA RxStop ==
  ASSUME UartAssumption, LineTyped, Receive, NEW b \in Bytes, Receives(b, Width + 1), Ahead = 0, Sampled = 1
  PROVE  Resting' /\ Complete /\ Value(rx.buff) = b
<1>1. rx.enable /\ (rx.tick = 1 <=> rx.baud = 0) /\ rx.state = "stop_bit" /\ rx.count = 0
  BY TimesOfLine DEF Receives
<1>2. rx'.tick = 0  BY <1>1, RxClock
<1>3. rx.tick = 1  BY AheadFacts
<1>4. Width \in Nat /\ Width >= 1  BY TimesOfLine
<1> DEFINE r == RxBaud
<1>5. r \in RxType /\ r.count = rx.count  BY RxBaudFacts
<1>6. rx' = [r EXCEPT !.state = "idle", !.enable = FALSE]  BY <1>1, <1>3, RxForms
<1> HIDE DEF r
<1>7. rx'.state = "idle" /\ ~rx'.enable /\ rx'.count = 0  BY <1>1, <1>5, <1>6 DEF RxType
<1>8. rx.buff = Bit(b)
  <2>1. rx.buff \in Seq(Levels) /\ Len(rx.buff) = Width  BY DEF LineTyped, RxType
  <2>2. Bit(b) \in Seq(Levels) /\ Len(Bit(b)) = Width  BY BitFacts
  <2>3. \A k \in 1..Width : rx.buff[k] = Bit(b)[k]
    <3>1. \A k \in 1..(Width + 1) - 1 : rx.buff[Width - ((Width + 1) - 1) + k] = Bit(b)[k]
      BY DEF Receives
    <3> SUFFICES ASSUME NEW k \in 1..Width PROVE rx.buff[k] = Bit(b)[k]
      OBVIOUS
    <3>2. k \in 1..(Width + 1) - 1 /\ Width - ((Width + 1) - 1) + k = k  BY <1>4
    <3> QED  BY <3>1, <3>2
  <2> QED  BY <2>1, <2>2, <2>3, SeqEqual
<1>9. Value(rx.buff) = b  BY <1>8 DEF UartAssumption
<1> QED  BY <1>1, <1>2, <1>3, <1>7, <1>9 DEF Resting, Complete
-----------------------------------------------------------------------------
(* The line between them. *)

\* The registers before the receiver: the last d cycles brought a new level.
Filtered(d, new, old) ==
  /\ rxd[1] = (IF d >= 1 THEN new ELSE old)
  /\ rxd[2] = (IF d >= 2 THEN new ELSE old)
  /\ rxd[3] = (IF d >= 3 THEN new ELSE old)

Quiet == rxd[1] = 1 /\ rxd[2] = 1 /\ rxd[3] = 1

\* What is left of the last frame: nothing, or the end of its stop bit.
Earlier(f, soon) ==
  \/ Resting /\ f = <<>>
  \/ \E b \in Bytes : f = <<b>> /\ Receives(b, Width + 1) /\ Ahead <= soon

\* No byte on the line, or one before its start bit.
Idle(fl)   == Quiet /\ TxIdle /\ Earlier(fl, 2)
Soon(fl)   == Quiet /\ \E c \in Bytes, f \in Seq(Bytes) : fl = Append(f, c) /\ SendsBit(c, 0) /\ Earlier(f, 2)
Closing(fl) == Quiet /\ Resting /\ fl = <<>> /\ \E c \in Bytes : SendsBit(c, Width + 2)

\* The start bit is on the line and not yet at the receiver.
Edge(fl) ==
  \E c \in Bytes, d \in 0..3, f \in Seq(Bytes) :
    /\ fl = Append(f, c) /\ SendsBit(c, 1) /\ Filtered(d, 0, 1) /\ Within(Age - (d + 1))
    /\ Earlier(f, 2 - d)

\* The receiver is in the frame.
InFrame(fl) ==
  \E b \in Bytes, n \in 1..Width + 2, m \in 0..Width + 1, d \in 0..3 :
    /\ fl = <<b>> /\ SendsBit(b, n) /\ Receives(b, m)
    /\ Filtered(d, On(b, n), On(b, n - 1))
    /\ Aligned(Age, Ahead, d, n, m, slips)

OnLine(fl) == Idle(fl) \/ Soon(fl) \/ Closing(fl) \/ Edge(fl) \/ InFrame(fl)

\* A cycle, but for the queues and the programs.
Signals(step) ==
  /\ Transmit(step) /\ Receive /\ rxd' = <<tx.reg, rxd[1], rxd[2]>>
  /\ slips' = (IF TxTakes THEN 0 ELSE slips) + Slip(step)

\* The oldest of the bytes f on the line is handed over, or none; g are left.
Hands(f, g) ==
  \/ ~Complete /\ g = f
  \/ Complete /\ f # <<>> /\ g = Tail(f) /\ Value(rx.buff) = Head(f)

LEMMA HandsAppend ==
  ASSUME NEW f \in Seq(Bytes), NEW g \in Seq(Bytes), NEW c \in Bytes, Hands(f, g)
  PROVE  Hands(Append(f, c), Append(g, c))
<1>1. CASE ~Complete  BY <1>1 DEF Hands
<1>2. CASE Complete
  <2>1. f # <<>> /\ g = Tail(f) /\ Value(rx.buff) = Head(f)  BY <1>2 DEF Hands
  <2>2. Head(Append(f, c)) = Head(f) /\ Tail(Append(f, c)) = Append(g, c)
    BY <2>1, HeadTailAppend
  <2>3. Append(f, c) # <<>>  BY AppendProperties
  <2> QED  BY <1>2, <2>1, <2>2, <2>3 DEF Hands
<1> QED  BY <1>1, <1>2

LEMMA SingleFacts ==
  ASSUME NEW b \in Bytes
  PROVE  <<b>> \in Seq(Bytes) /\ <<b>> # <<>> /\ Tail(<<b>>) = <<>> /\ Head(<<b>>) = b
         /\ Append(<<>>, b) = <<b>>
  OBVIOUS

LEMMA FilteredOn ==
  ASSUME NEW d, NEW b, NEW n, NEW k, NEW new, NEW old, new = On(b, n), old = On(b, k), Filtered(d, new, old)'
  PROVE  Filtered(d, On(b, n), On(b, k))'
  BY Zenon DEF Filtered

LEMMA QuietNext ==
  ASSUME NEW step, Signals(step), Quiet, tx.reg = 1
  PROVE  Quiet' /\ Filtered(0, 0, 1)' /\ Sampled = 1
  BY DEF Quiet, Filtered, Signals, Sampled

LEMMA FilteredNext ==
  ASSUME NEW step, Signals(step), NEW d \in 0..3, NEW new, NEW old, Filtered(d, new, old), tx.reg = new
  PROVE  /\ Sampled = IF d = 3 THEN new ELSE old
         /\ d < 3 => Filtered(d + 1, new, old)'
         /\ d = 3 => Filtered(3, new, old)' /\ \A x : Filtered(0, x, new)'
<1>1. Sampled = IF d = 3 THEN new ELSE old  BY DEF Filtered, Sampled
<1>2. rxd'[1] = new /\ rxd'[2] = rxd[1] /\ rxd'[3] = rxd[2]  BY DEF Signals
<1>3. d < 3 => Filtered(d + 1, new, old)'  BY <1>2 DEF Filtered
<1>4. d = 3 => Filtered(3, new, old)' /\ \A x : Filtered(0, x, new)'  BY <1>2 DEF Filtered
<1> QED  BY <1>1, <1>3, <1>4

LEMMA EarlierNext ==
  ASSUME UartAssumption, LineTyped, NEW step, Signals(step), Sampled = 1,
         NEW f \in Seq(Bytes), NEW soon \in Int, Earlier(f, soon)
  PROVE  \E g \in Seq(Bytes) : Earlier(g, soon - 1)' /\ Earlier(g, soon)' /\ Hands(f, g)
<1>1. Receive /\ Ahead \in Nat  BY AheadFacts DEF Signals
<1>2. CASE Resting /\ f = <<>>
  <2>1. Resting' /\ ~Complete  BY <1>1, <1>2, RxRest
  <2>2. Earlier(f, soon - 1)' /\ Earlier(f, soon)'  BY <1>2, <2>1 DEF Earlier
  <2> QED  BY <2>1, <2>2 DEF Hands
<1>3. ASSUME NEW b \in Bytes, f = <<b>>, Receives(b, Width + 1), Ahead <= soon
      PROVE  \E g \in Seq(Bytes) : Earlier(g, soon - 1)' /\ Earlier(g, soon)' /\ Hands(f, g)
  <2>1. CASE Ahead = 0
    <3>1. Resting' /\ Complete /\ Value(rx.buff) = b  BY <1>1, <1>3, <2>1, RxStop
    <3>2. Earlier(<<>>, soon - 1)' /\ Earlier(<<>>, soon)'  BY <3>1 DEF Earlier
    <3>3. Hands(f, <<>>)  BY <1>3, <3>1, SingleFacts DEF Hands
    <3>4. <<>> \in Seq(Bytes)  OBVIOUS
    <3> QED  BY <3>2, <3>3, <3>4
  <2>2. CASE Ahead > 0
    <3>1. Width + 1 \in 0..Width + 1
      <4>1. Width \in Nat  BY TimesOfLine
      <4> QED  BY <4>1
    <3>2. Receives(b, Width + 1)' /\ Ahead' = Ahead - 1 /\ ~Complete
      BY <1>1, <1>3, <2>2, <3>1, RxWait
    <3>3. Ahead' <= soon - 1 /\ Ahead' <= soon  BY <1>1, <1>3, <3>2
    <3>4. Earlier(f, soon - 1)' /\ Earlier(f, soon)'  BY <1>3, <3>2, <3>3 DEF Earlier
    <3> QED  BY <3>2, <3>4 DEF Hands
  <2> QED  BY <1>1, <2>1, <2>2
<1> QED  BY <1>2, <1>3 DEF Earlier

\* The bytes on the line after the transmitter.
LEMMA IdleLine ==
  ASSUME UartAssumption, LineTyped, NEW step \in 0..2, Signals(step), txQueue \in Seq(Bytes),
         NEW fl \in Seq(Bytes), Idle(fl)
  PROVE  \E g \in Seq(Bytes) : OnLine(g)' /\ Hands(IF TxTakes THEN Append(fl, Head(txQueue)) ELSE fl, g)
<1>1. Quiet /\ TxIdle /\ Earlier(fl, 2) /\ tx.reg = 1  BY DEF Idle, TxIdle
<1>2. Quiet' /\ Sampled = 1  BY <1>1, QuietNext
<1>3. PICK g \in Seq(Bytes) : Earlier(g, 2)' /\ Hands(fl, g)  BY <1>1, <1>2, EarlierNext
<1>4. CASE ~TxTakes
  <2>1. TxIdle'  BY <1>1, <1>4, IdleNext DEF Signals
  <2>2. OnLine(g)'  BY <1>2, <1>3, <2>1 DEF OnLine, Idle
  <2> QED  BY <1>3, <1>4, <2>2
<1>5. CASE TxTakes
  <2>1. PICK c \in Bytes : c = Head(txQueue)  BY <1>5 DEF TxTakes
  <2>2. SendsBit(c, 0)'  BY <1>1, <1>5, <2>1, IdleNext DEF Signals
  <2>3. Append(g, c) \in Seq(Bytes) /\ Hands(Append(fl, c), Append(g, c))
    BY <1>3, HandsAppend, AppendProperties
  <2>4. OnLine(Append(g, c))'  BY <1>2, <1>3, <2>2 DEF OnLine, Soon
  <2> QED  BY <1>5, <2>1, <2>3, <2>4
<1> QED  BY <1>4, <1>5

LEMMA SoonLine ==
  ASSUME UartAssumption, LineTyped, NEW step \in 0..2, Signals(step), txQueue \in Seq(Bytes),
         NEW fl \in Seq(Bytes), Soon(fl)
  PROVE  \E g \in Seq(Bytes) : OnLine(g)' /\ Hands(IF TxTakes THEN Append(fl, Head(txQueue)) ELSE fl, g)
<1>1. PICK c \in Bytes, f \in Seq(Bytes) : Quiet /\ fl = Append(f, c) /\ SendsBit(c, 0) /\ Earlier(f, 2)
  BY DEF Soon
<1>2. tx.reg = 1  BY <1>1 DEF SendsBit, On
<1>3. Quiet' /\ Filtered(0, 0, 1)' /\ Sampled = 1  BY <1>1, <1>2, QuietNext
<1>4. PICK g \in Seq(Bytes) : Earlier(g, 2)' /\ Hands(f, g)  BY <1>1, <1>3, EarlierNext
<1>5. Append(g, c) \in Seq(Bytes) /\ Hands(fl, Append(g, c))
  BY <1>1, <1>4, HandsAppend, AppendProperties
<1>6. Width \in Nat  BY TimesOfLine
<1>7. /\ ~TxTakes
      /\ tx.tick # 1 => SendsBit(c, 0)'
      /\ tx.tick = 1 => SendsBit(c, 1)'
  <2>1. 0 \in 0..Width + 2 /\ 0 < Width + 2  BY <1>6
  <2>2. Transmit(step)  BY DEF Signals
  <2> QED  BY <1>1, <2>1, <2>2, SendsNext
<1>8. CASE tx.tick # 1
  <2>1. OnLine(Append(g, c))'  BY <1>3, <1>4, <1>7, <1>8 DEF OnLine, Soon
  <2> QED  BY <1>5, <1>7, <2>1
<1>9. CASE tx.tick = 1
  <2>1. Age' = step /\ Age' \in Nat  BY <1>9, AgeNext DEF Signals
  <2>2. slips \in 0..MaxSlips /\ slips' = slips + Slip(step)  BY <1>7 DEF Signals, LineTyped
  <2>3. -slips' <= Age' - 1 /\ Age' - 1 <= slips'  BY <2>1, <2>2, TimesOfLine DEF Slip
  <2>4. Within(Age - (0 + 1))'  BY <2>1, <2>3 DEF Within
  <2>5. Earlier(g, 2 - 0)'  BY <1>4
  <2>6. Edge(Append(g, c))'  BY <1>3, <1>4, <1>7, <1>9, <2>4, <2>5 DEF Edge
  <2> QED  BY <1>5, <1>7, <2>6 DEF OnLine
<1> QED  BY <1>8, <1>9
\* The end of a frame on a line that is quiet for the receiver: f is what it
\* has not handed over, the next frame follows at once or there is silence.
LEMMA FrameOver ==
  ASSUME UartAssumption, LineTyped, NEW step \in 0..2, Signals(step), txQueue \in Seq(Bytes),
         NEW b \in Bytes, SendsBit(b, Width + 2), tx.tick = 1, Quiet,
         NEW f \in Seq(Bytes), NEW g \in Seq(Bytes), Hands(f, g), Earlier(g, 2)'
  PROVE  \E h \in Seq(Bytes) : OnLine(h)' /\ Hands(IF TxTakes THEN Append(f, Head(txQueue)) ELSE f, h)
<1>1. tx.reg = 1
  <2>1. Width \in Nat  BY TimesOfLine
  <2>2. On(b, Width + 2) = 1  BY <2>1, FrameFacts DEF On
  <2> QED  BY <2>2 DEF SendsBit
<1>2. Quiet' /\ Filtered(0, 0, 1)'  BY <1>1, QuietNext
<1>3. CASE ~TxTakes
  <2>1. TxIdle'  BY <1>3, SendsEnd DEF Signals
  <2>2. OnLine(g)'  BY <1>2, <2>1 DEF OnLine, Idle
  <2> QED  BY <1>3, <2>2
<1>4. CASE TxTakes
  <2>1. PICK c \in Bytes : c = Head(txQueue)  BY <1>4 DEF TxTakes
  <2>2. SendsBit(c, 1)'  BY <1>4, <2>1, SendsEnd DEF Signals
  <2>3. Append(g, c) \in Seq(Bytes) /\ Hands(Append(f, c), Append(g, c))
    BY HandsAppend, AppendProperties
  <2>4. Age' = step /\ Age' \in Nat  BY AgeNext DEF Signals
  <2>5. slips' = Slip(step)  BY <1>4 DEF Signals, Slip
  <2>6. -slips' <= Age' - 1 /\ Age' - 1 <= slips'  BY <2>4, <2>5 DEF Slip
  <2>7. Within(Age - (0 + 1))'  BY <2>4, <2>6 DEF Within
  <2>8. Earlier(g, 2 - 0)'  OBVIOUS
  <2>9. Edge(Append(g, c))'  BY <1>2, <2>2, <2>7, <2>8 DEF Edge
  <2> QED  BY <1>4, <2>1, <2>3, <2>9 DEF OnLine
<1> QED  BY <1>3, <1>4

LEMMA ClosingLine ==
  ASSUME UartAssumption, LineTyped, NEW step \in 0..2, Signals(step), txQueue \in Seq(Bytes),
         NEW fl \in Seq(Bytes), Closing(fl)
  PROVE  \E g \in Seq(Bytes) : OnLine(g)' /\ Hands(IF TxTakes THEN Append(fl, Head(txQueue)) ELSE fl, g)
<1>1. PICK b \in Bytes : Quiet /\ Resting /\ fl = <<>> /\ SendsBit(b, Width + 2)
  BY DEF Closing
<1>2. Width \in Nat  BY TimesOfLine
<1>3. tx.reg = 1
  <2>1. On(b, Width + 2) = 1  BY <1>2, FrameFacts DEF On
  <2> QED  BY <1>1, <2>1 DEF SendsBit
<1>4. Quiet' /\ Sampled = 1  BY <1>1, <1>3, QuietNext
<1>5. Resting' /\ ~Complete  BY <1>1, <1>4, RxRest DEF Signals
<1>6. CASE tx.tick = 1
  <2>1. Earlier(fl, 2)'  BY <1>1, <1>5 DEF Earlier
  <2>2. Hands(fl, fl)  BY <1>5 DEF Hands
  <2> QED  BY <1>1, <1>6, <2>1, <2>2, FrameOver
<1>7. CASE tx.tick # 1
  <2>1. Width + 2 \in 0..Width + 2  BY <1>2
  <2>2. ~TxTakes /\ SendsBit(b, Width + 2)'  BY <1>1, <1>7, <2>1, SendsNext DEF Signals
  <2>3. Closing(fl)'  BY <1>1, <1>4, <1>5, <2>2 DEF Closing
  <2> QED  BY <1>5, <2>2, <2>3 DEF OnLine, Hands
<1> QED  BY <1>6, <1>7

LEMMA EdgeLine ==
  ASSUME UartAssumption, LineTyped, NEW step \in 0..2, Signals(step), txQueue \in Seq(Bytes),
         NEW fl \in Seq(Bytes), Edge(fl)
  PROVE  \E g \in Seq(Bytes) : OnLine(g)' /\ Hands(IF TxTakes THEN Append(fl, Head(txQueue)) ELSE fl, g)
<1>1. PICK c \in Bytes, d \in 0..3, f \in Seq(Bytes) :
        /\ fl = Append(f, c) /\ SendsBit(c, 1) /\ Filtered(d, 0, 1) /\ Within(Age - (d + 1))
        /\ Earlier(f, 2 - d)
  BY DEF Edge
<1>2. Width \in Nat /\ Width >= 1  BY TimesOfLine
<1>3. On(c, 1) = 0 /\ On(c, 0) = 1  BY <1>2, FrameFacts DEF On
<1>4. tx.reg = 0  BY <1>1, <1>3 DEF SendsBit
<1>5. slips \in 0..MaxSlips  BY DEF LineTyped
<1>6. /\ Age \in 0..Period /\ Age' \in Nat /\ (Age = Period <=> tx.tick = 1)
      /\ tx.tick # 1 => Age' = Age + 1 \/ (step # 1 /\ (Age' = Age \/ Age' = Age + 2))
  BY AgeNext DEF Signals
<1>7. -slips <= Age - (d + 1) /\ Age - (d + 1) <= slips  BY <1>1 DEF Within
<1>8. tx.tick # 1
  <2>1. Age < Period  BY <1>5, <1>6, <1>7, BeforeStart
  <2>2. Age \in Nat /\ Period \in Nat  BY <1>6, TimesOfLine
  <2> QED  BY <1>6, <2>1, <2>2
<1>9. ~TxTakes /\ SendsBit(c, 1)'
  <2>1. 1 \in 0..Width + 2  BY <1>2
  <2> QED  BY <1>1, <1>8, <2>1, SendsNext DEF Signals
<1>10. slips' = slips + Slip(step)  BY <1>9 DEF Signals
<1>11. CASE d < 3
  <2>1. Sampled = 1 /\ Filtered(d + 1, 0, 1)'  BY <1>1, <1>4, <1>11, FilteredNext
  <2>2. PICK g \in Seq(Bytes) : Earlier(g, (2 - d) - 1)' /\ Hands(f, g)
    <3>1. 2 - d \in Int  OBVIOUS
    <3> QED  BY <1>1, <2>1, <3>1, EarlierNext
  <2>3. Append(g, c) \in Seq(Bytes) /\ Hands(fl, Append(g, c))
    BY <1>1, <2>2, HandsAppend, AppendProperties
  <2>4. -slips' <= Age' - ((d + 1) + 1) /\ Age' - ((d + 1) + 1) <= slips'
    BY <1>5, <1>6, <1>7, <1>8, <1>10, BeforeStart
  <2>5. Within(Age - ((d + 1) + 1))'  BY <2>4 DEF Within
  <2>6. Earlier(g, 2 - (d + 1))'
    <3>1. (2 - d) - 1 = 2 - (d + 1)  OBVIOUS
    <3> QED  BY <2>2, <3>1
  <2>7. d + 1 \in 0..3  BY <1>11
  <2>8. Edge(Append(g, c))'  BY <1>9, <2>1, <2>5, <2>6, <2>7 DEF Edge
  <2> QED  BY <1>9, <2>3, <2>8 DEF OnLine
<1>12. CASE d = 3
  <2>1. Sampled = 0 /\ Filtered(3, 0, 1)'  BY <1>1, <1>4, <1>12, FilteredNext
  <2>2. Resting /\ f = <<>>  BY <1>1, <1>12, AheadFacts DEF Earlier
  <2>3. Receives(c, 0)' /\ Ahead' = Period - HalfBit /\ ~Complete
    BY <2>1, <2>2, RxStart DEF Signals
  <2>4. Aligned(Age', Period - HalfBit, 3, 1, 0, slips + Slip(step))
    BY <1>5, <1>6, <1>7, <1>8, <1>12, AtStart
  <2>5. Aligned(Age', Ahead', 3, 1, 0, slips')  BY <1>10, <2>3, <2>4
  <2>6. Aligned(Age, Ahead, 3, 1, 0, slips)'  BY <2>5 DEF Aligned
  <2>7. Filtered(3, On(c, 1), On(c, 1 - 1))'
    <3>1. 1 - 1 = 0  OBVIOUS
    <3>2. 0 = On(c, 1) /\ 1 = On(c, 1 - 1)  BY <1>3, <3>1
    <3> QED  BY <2>1, <3>2, FilteredOn
  <2>8. fl = <<c>>  BY <1>1, <2>2, SingleFacts
  <2>9. InFrame(fl)'
    <3>1. 1 \in 1..Width + 2 /\ 0 \in 0..Width + 1  BY <1>2
    <3> QED  BY <1>9, <2>3, <2>6, <2>7, <2>8, <3>1 DEF InFrame
  <2> QED  BY <1>9, <2>3, <2>9 DEF OnLine, Hands
<1> QED  BY <1>11, <1>12

LEMMA InFrameNext ==
  ASSUME NEW b \in Bytes, NEW n \in 1..Width + 2, NEW m \in 0..Width + 1, NEW d \in 0..3,
         SendsBit(b, n)', Receives(b, m)', Filtered(d, On(b, n), On(b, n - 1))',
         Aligned(Age', Ahead', d, n, m, slips')
  PROVE  InFrame(<<b>>)'
<1>1. Aligned(Age, Ahead, d, n, m, slips)'  BY DEF Aligned
<1> QED  BY <1>1 DEF InFrame

\* The state of the line and the receiver in a frame.
InBit(b, n, m, d) ==
  /\ SendsBit(b, n) /\ Receives(b, m) /\ Filtered(d, On(b, n), On(b, n - 1))
  /\ Aligned(Age, Ahead, d, n, m, slips)

LEMMA SampledBit ==
  ASSUME UartAssumption, LineTyped, NEW step, Signals(step),
         NEW b \in Bytes, NEW n \in 1..Width + 2, NEW m \in 0..Width + 1, NEW d \in 0..3,
         InBit(b, n, m, d), Ahead = 0, Age \in 0..Period
  PROVE  /\ Sampled = Frame(b)[m + 1]
         /\ m = n - 1 => d = 3
         /\ m = Width + 1 => n = Width + 2 /\ m = n - 1
         /\ n = Width + 2 /\ Age = Period => m = Width + 1
<1>1. slips \in 0..MaxSlips /\ Width \in Nat  BY TimesOfLine DEF LineTyped
<1>2. Aligned(Age, 0, d, n, m, slips)  BY DEF InBit
<1>3. /\ m = n - 1 \/ m = n - 2
      /\ m = n - 1 => d = 3
      /\ m = n - 2 => d < 3 /\ Age < Period
  <2>1. n \in Int /\ m \in Int  BY <1>1
  <2> QED  BY <1>1, <1>2, <2>1, AtSample
<1>4. Sampled = IF d = 3 THEN On(b, n) ELSE On(b, n - 1)
  <2>1. tx.reg = On(b, n) /\ Filtered(d, On(b, n), On(b, n - 1))  BY DEF InBit, SendsBit
  <2> QED  BY <2>1, FilteredNext
<1>5. CASE m = n - 1
  <2>1. On(b, n) = Frame(b)[m + 1]
    <3>1. n = m + 1 /\ n # 0  BY <1>1, <1>5
    <3> QED  BY <3>1 DEF On
  <2> QED  BY <1>1, <1>3, <1>4, <1>5, <2>1
<1>6. CASE m = n - 2
  <2>1. n - 1 = m + 1 /\ n - 1 # 0 /\ m # n - 1 /\ m < Width + 1  BY <1>1, <1>6
  <2>2. On(b, n - 1) = Frame(b)[m + 1]  BY <2>1 DEF On
  <2>3. Age # Period  BY <1>3, <1>6, TimesOfLine
  <2> QED  BY <1>1, <1>3, <1>4, <1>6, <2>1, <2>2, <2>3
<1> QED  BY <1>3, <1>5, <1>6

\* Within a bit.
LEMMA SameBit ==
  ASSUME UartAssumption, LineTyped, NEW step \in 0..2, Signals(step),
         NEW b \in Bytes, NEW n \in 1..Width + 2, NEW m \in 0..Width + 1, NEW d \in 0..3,
         InBit(b, n, m, d), tx.tick # 1
  PROVE  \E g \in Seq(Bytes) : OnLine(g)' /\ Hands(<<b>>, g) /\ ~TxTakes
<1>1. slips \in 0..MaxSlips /\ Width \in Nat /\ n \in 0..Width + 2  BY TimesOfLine DEF LineTyped
<1>2. ~TxTakes /\ SendsBit(b, n)'  BY <1>1, SendsNext DEF Signals, InBit
<1>3. slips' = slips + Slip(step)  BY <1>2 DEF Signals
<1>4. /\ Age \in 0..Period /\ Age' \in Nat
      /\ Age' = Age + 1 \/ (step # 1 /\ (Age' = Age \/ Age' = Age + 2))
  BY AgeNext DEF Signals
<1>5. Ahead \in Nat /\ Receive /\ Receives(b, m)  BY AheadFacts DEF Signals, InBit
<1> DEFINE e == IF d < 3 THEN d + 1 ELSE 3
<1>6. e \in 0..3  OBVIOUS
<1>7. tx.reg = On(b, n) /\ Filtered(d, On(b, n), On(b, n - 1))  BY DEF InBit, SendsBit
<1>8. Filtered(e, On(b, n), On(b, n - 1))'
  <2> DEFINE new == On(b, n)
             old == On(b, n - 1)
  <2>1. PICK x, y : x = new /\ y = old  OBVIOUS
  <2>2. Filtered(d, x, y) /\ tx.reg = x  BY <1>7, <2>1
  <2>3. Filtered(e, x, y)'  BY <2>2, FilteredNext
  <2> HIDE DEF e
  <2> QED  BY <2>1, <2>3, FilteredOn
<1> HIDE DEF e
<1>9. Aligned(Age, Ahead, d, n, m, slips)  BY DEF InBit
<1>10. n \in Int /\ m \in Int  BY <1>1
<1>11. CASE Ahead > 0
  <2>1. Receives(b, m)' /\ Ahead' = Ahead - 1 /\ ~Complete  BY <1>5, <1>11, RxWait
  <2>2. Aligned(Age', Ahead - 1, e, n, m, slips + Slip(step))
    BY <1>1, <1>4, <1>5, <1>6, <1>9, <1>10, <1>11, CountDown DEF e
  <2>3. Aligned(Age', Ahead', e, n, m, slips')  BY <1>3, <2>1, <2>2
  <2>4. InFrame(<<b>>)'  BY <1>2, <1>6, <1>8, <2>1, <2>3, InFrameNext
  <2> QED  BY <1>2, <2>1, <2>4, SingleFacts DEF OnLine, Hands
<1>12. CASE Ahead = 0 /\ m <= Width
  <2>1. Sampled = Frame(b)[m + 1]  BY <1>4, <1>12, SampledBit
  <2>2. m \in 0..Width /\ m + 1 \in 0..Width + 1  BY <1>1, <1>12
  <2>3. Receives(b, m + 1)' /\ Ahead' = Divider /\ ~Complete  BY <1>5, <1>12, <2>1, <2>2, RxSample
  <2>4. Aligned(Age', Divider, e, n, m + 1, slips + Slip(step))
    BY <1>1, <1>4, <1>6, <1>9, <1>10, <1>12, NextSample DEF e
  <2>5. Aligned(Age', Ahead', e, n, m + 1, slips')  BY <1>3, <2>3, <2>4
  <2>6. InFrame(<<b>>)'  BY <1>2, <1>6, <1>8, <2>2, <2>3, <2>5, InFrameNext
  <2> QED  BY <1>2, <2>3, <2>6, SingleFacts DEF OnLine, Hands
<1>13. CASE Ahead = 0 /\ m = Width + 1
  <2>1. n = Width + 2 /\ d = 3 /\ Sampled = Frame(b)[Width + 2]
    <3>1. (Width + 1) + 1 = Width + 2  BY <1>1
    <3> QED  BY <1>4, <1>13, <3>1, SampledBit
  <2>2. Sampled = 1 /\ On(b, n) = 1  BY <1>1, <2>1, FrameFacts DEF On
  <2>3. Resting' /\ Complete /\ Value(rx.buff) = b  BY <1>5, <1>13, <2>2, RxStop
  <2>4. Quiet'  BY <1>7, <2>1, <2>2 DEF Quiet, Filtered, Signals
  <2>5. Closing(<<>>)'  BY <1>2, <2>1, <2>3, <2>4 DEF Closing
  <2>6. Hands(<<b>>, <<>>)  BY <2>3, SingleFacts DEF Hands
  <2>7. <<>> \in Seq(Bytes)  OBVIOUS
  <2> QED  BY <1>2, <2>5, <2>6, <2>7 DEF OnLine
<1>14. m <= Width \/ m = Width + 1  BY <1>1
<1> QED  BY <1>5, <1>11, <1>12, <1>13, <1>14

\* From a bit to the next.
LEMMA ToNextBit ==
  ASSUME UartAssumption, LineTyped, NEW step \in 0..2, Signals(step),
         NEW b \in Bytes, NEW n \in 1..Width + 2, NEW m \in 0..Width + 1, NEW d \in 0..3,
         InBit(b, n, m, d), tx.tick = 1, n < Width + 2
  PROVE  \E g \in Seq(Bytes) : OnLine(g)' /\ Hands(<<b>>, g) /\ ~TxTakes
<1>1. slips \in 0..MaxSlips /\ Width \in Nat /\ n \in 0..Width + 2 /\ n + 1 \in 1..Width + 2
  <2>1. slips \in 0..MaxSlips  BY DEF LineTyped
  <2>2. Width \in Nat  BY TimesOfLine
  <2> QED  BY <2>1, <2>2
<1>2. ~TxTakes /\ SendsBit(b, n + 1)'  BY <1>1, SendsNext DEF Signals, InBit
<1>3. slips' = slips + Slip(step)  BY <1>2 DEF Signals
<1>4. Age = Period /\ Age \in 0..Period /\ Age' = step  BY AgeNext DEF Signals
<1>5. Ahead \in Nat /\ Receive /\ Receives(b, m)  BY AheadFacts DEF Signals, InBit
<1>6. n \in Int /\ m \in Int  BY <1>1
<1>7. Aligned(Period, Ahead, d, n, m, slips)  BY <1>4 DEF InBit
<1>8. d = 3 /\ (m = n - 1 \/ m = n) /\ (m = n => Ahead > 0)
  BY <1>1, <1>5, <1>6, <1>7, AtEdge
<1>9. tx.reg = On(b, n) /\ Filtered(d, On(b, n), On(b, n - 1))  BY DEF InBit, SendsBit
<1>10. Filtered(0, On(b, n + 1), On(b, (n + 1) - 1))'
  <2>1. PICK x, y, z : x = On(b, n) /\ y = On(b, n - 1) /\ z = On(b, n + 1)  OBVIOUS
  <2>2. Filtered(0, z, x)'  BY <1>8, <1>9, <2>1, FilteredNext
  <2>3. (n + 1) - 1 = n  BY <1>6
  <2> QED  BY <2>1, <2>2, <2>3, FilteredOn
<1>11. CASE Ahead > 0
  <2>1. Receives(b, m)' /\ Ahead' = Ahead - 1 /\ ~Complete  BY <1>5, <1>11, RxWait
  <2>2. Aligned(step, Ahead - 1, 0, n + 1, m, slips + Slip(step))
    BY <1>1, <1>5, <1>6, <1>7, <1>11, NextBit
  <2>3. Aligned(Age', Ahead', 0, n + 1, m, slips')  BY <1>3, <1>4, <2>1, <2>2
  <2>4. InFrame(<<b>>)'  BY <1>1, <1>2, <1>10, <2>1, <2>3, InFrameNext
  <2> QED  BY <1>2, <2>1, <2>4, SingleFacts DEF OnLine, Hands
<1>12. CASE Ahead = 0
  <2>1. m = n - 1  BY <1>8, <1>12
  <2>2. m \in 0..Width /\ m + 1 \in 0..Width + 1  BY <1>1, <2>1
  <2>3. Sampled = Frame(b)[m + 1]  BY <1>4, <1>12, SampledBit
  <2>4. Receives(b, m + 1)' /\ Ahead' = Divider /\ ~Complete  BY <1>5, <1>12, <2>2, <2>3, RxSample
  <2>5. Aligned(step, Divider, 0, n + 1, m + 1, slips + Slip(step))
    BY <1>1, <1>6, <1>7, <1>12, NextBoth
  <2>6. Aligned(Age', Ahead', 0, n + 1, m + 1, slips')  BY <1>3, <1>4, <2>4, <2>5
  <2>7. InFrame(<<b>>)'  BY <1>1, <1>2, <1>10, <2>2, <2>4, <2>6, InFrameNext
  <2> QED  BY <1>2, <2>4, <2>7, SingleFacts DEF OnLine, Hands
<1> QED  BY <1>5, <1>11, <1>12

LEMMA InFrameLine ==
  ASSUME UartAssumption, LineTyped, NEW step \in 0..2, Signals(step), txQueue \in Seq(Bytes),
         NEW fl \in Seq(Bytes), InFrame(fl)
  PROVE  \E g \in Seq(Bytes) : OnLine(g)' /\ Hands(IF TxTakes THEN Append(fl, Head(txQueue)) ELSE fl, g)
<1>1. PICK b \in Bytes, n \in 1..Width + 2, m \in 0..Width + 1, d \in 0..3 :
        fl = <<b>> /\ InBit(b, n, m, d)
  BY DEF InFrame, InBit
<1>2. Width \in Nat  BY TimesOfLine
<1>3. CASE tx.tick # 1
  <2>1. PICK g \in Seq(Bytes) : OnLine(g)' /\ Hands(<<b>>, g) /\ ~TxTakes
    BY <1>1, <1>3, SameBit
  <2> QED  BY <1>1, <2>1
<1>4. CASE tx.tick = 1 /\ n < Width + 2
  <2>1. PICK g \in Seq(Bytes) : OnLine(g)' /\ Hands(<<b>>, g) /\ ~TxTakes
    BY <1>1, <1>4, ToNextBit
  <2> QED  BY <1>1, <2>1
<1>5. CASE tx.tick = 1 /\ n = Width + 2
  <2>1. slips \in 0..MaxSlips /\ Ahead \in Nat /\ Receive  BY AheadFacts DEF LineTyped, Signals
  <2>2. Age = Period /\ Age \in 0..Period  BY <1>5, AgeNext DEF Signals
  <2>3. n \in Int /\ m \in Int  BY <1>2
  <2>4. Aligned(Period, Ahead, d, n, m, slips)  BY <1>1, <2>2 DEF InBit
  <2>5. d = 3 /\ (m = n - 1 \/ m = n) /\ (m = n - 1 => Ahead <= 3)
    BY <2>1, <2>3, <2>4, AtEdge
  <2>6. m = Width + 1 /\ Ahead <= 3  BY <1>2, <1>5, <2>5
  <2>7. On(b, n) = 1  BY <1>2, <1>5, FrameFacts DEF On
  <2>8. Quiet /\ Sampled = 1  BY <1>1, <2>5, <2>7 DEF InBit, Filtered, Quiet, Sampled
  <2>9. Earlier(fl, 3)  BY <1>1, <2>6 DEF Earlier, InBit
  <2>10. PICK g \in Seq(Bytes) : Earlier(g, 3 - 1)' /\ Hands(fl, g)
    BY <2>8, <2>9, EarlierNext
  <2>11. Earlier(g, 2)'
    <3>1. 3 - 1 = 2  OBVIOUS
    <3> QED  BY <2>10, <3>1
  <2>12. SendsBit(b, Width + 2)  BY <1>1, <1>5 DEF InBit
  <2> QED  BY <1>5, <2>8, <2>10, <2>11, <2>12, FrameOver
<1> QED  BY <1>2, <1>3, <1>4, <1>5

LEMMA LineNext ==
  ASSUME UartAssumption, LineTyped, NEW step \in 0..2, Signals(step), txQueue \in Seq(Bytes),
         NEW fl \in Seq(Bytes), OnLine(fl)
  PROVE  \E g \in Seq(Bytes) : OnLine(g)' /\ Hands(IF TxTakes THEN Append(fl, Head(txQueue)) ELSE fl, g)
  BY IdleLine, SoonLine, ClosingLine, EdgeLine, InFrameLine DEF OnLine
-----------------------------------------------------------------------------
(* The queues. *)
LEMMA TakenBytes ==
  ASSUME NEW f \in Seq(Bytes), NEW t \in Seq(Bytes), t # <<>>
  PROVE  /\ Head(t) \in Bytes /\ Tail(t) \in Seq(Bytes) /\ Append(f, Head(t)) \in Seq(Bytes)
         /\ Append(f, Head(t)) \o Tail(t) = f \o t
<1>1. Head(t) \in Bytes /\ Tail(t) \in Seq(Bytes) /\ Len(Tail(t)) = Len(t) - 1
      /\ \A j \in 1..Len(Tail(t)) : Tail(t)[j] = t[j + 1]
  BY HeadTailProperties
<1>2. Head(t) = t[1] /\ Len(t) \in Nat /\ Len(t) > 0  OBVIOUS
<1> DEFINE h == Head(t)
           u == Tail(t)
           a == Append(f, h)
<1>3. /\ a \in Seq(Bytes) /\ Len(a) = Len(f) + 1 /\ a[Len(f) + 1] = h
      /\ \A j \in 1..Len(f) : a[j] = f[j]
  BY <1>1, AppendProperties
<1>4. Len(f) \in Nat  OBVIOUS
<1> HIDE DEF a, h, u
<1>5. u \in Seq(Bytes) /\ Len(u) = Len(t) - 1 /\ h = t[1] /\ \A j \in 1..Len(u) : u[j] = t[j + 1]
  BY <1>1, <1>2 DEF u, h
<1>6. /\ a \o u \in Seq(Bytes) /\ Len(a \o u) = Len(a) + Len(u)
      /\ \A j \in 1..Len(a) + Len(u) : (a \o u)[j] = IF j <= Len(a) THEN a[j] ELSE u[j - Len(a)]
  BY <1>3, <1>5, ConcatProperties
<1>7. /\ f \o t \in Seq(Bytes) /\ Len(f \o t) = Len(f) + Len(t)
      /\ \A j \in 1..Len(f) + Len(t) : (f \o t)[j] = IF j <= Len(f) THEN f[j] ELSE t[j - Len(f)]
  BY ConcatProperties
<1>8. Len(a \o u) = Len(f \o t)  BY <1>2, <1>3, <1>4, <1>5, <1>6, <1>7
<1>9. ASSUME NEW j \in 1..Len(a \o u) PROVE (a \o u)[j] = (f \o t)[j]
  <2>1. j \in 1..Len(a) + Len(u) /\ j \in 1..Len(f) + Len(t) /\ j \in Nat  BY <1>6, <1>7, <1>8, <1>2, <1>4
  <2>2. CASE j <= Len(f)  BY <1>2, <1>3, <1>4, <1>6, <1>7, <2>1, <2>2
  <2>3. CASE j = Len(f) + 1
    <3>1. (a \o u)[j] = h  BY <1>3, <1>4, <1>6, <2>1, <2>3
    <3>2. j - Len(f) = 1 /\ ~(j <= Len(f))  BY <1>4, <2>3
    <3>3. (f \o t)[j] = t[1]  BY <1>7, <2>1, <3>2
    <3> QED  BY <1>5, <3>1, <3>3
  <2>4. CASE j > Len(f) + 1
    <3>1. /\ ~(j <= Len(a)) /\ ~(j <= Len(f)) /\ j - Len(a) \in 1..Len(u)
          /\ (j - Len(a)) + 1 = j - Len(f)
      BY <1>2, <1>3, <1>4, <1>5, <2>1, <2>4
    <3> QED  BY <1>5, <1>6, <1>7, <2>1, <3>1
  <2> QED  BY <1>4, <2>1, <2>2, <2>3, <2>4
<1>10. a \o u = f \o t  BY <1>6, <1>7, <1>8, <1>9, SeqEqual
<1> QED  BY <1>1, <1>3, <1>10 DEF a, h, u

LEMMA FirstOfBytes ==
  ASSUME NEW f \in Seq(Bytes), f # <<>>
  PROVE  /\ Head(f) \in Bytes /\ Tail(f) \in Seq(Bytes) /\ <<Head(f)>> \in Seq(Bytes)
         /\ <<Head(f)>> \o Tail(f) = f
<1>1. <<>> \in Seq(Bytes)  OBVIOUS
<1>2. Append(<<>>, Head(f)) \o Tail(f) = <<>> \o f /\ Head(f) \in Bytes /\ Tail(f) \in Seq(Bytes)
  BY <1>1, TakenBytes
<1>3. Append(<<>>, Head(f)) = <<Head(f)>> /\ <<Head(f)>> \in Seq(Bytes)  BY <1>2, SingleFacts
<1>4. <<>> \o f = f  BY ConcatEmptySeq
<1> QED  BY <1>2, <1>3, <1>4

\* The equations are named for the provers to treat each as a whole.
Associates(a, b, c) == (a \o b) \o c = a \o (b \o c)
Regroups(a, b, c, d) == (a \o (b \o c)) \o d = (a \o b) \o (c \o d)

LEMMA BytesAssociative == \A a, b, c \in Seq(Bytes) : Associates(a, b, c)
<1> SUFFICES ASSUME NEW a \in Seq(Bytes), NEW b \in Seq(Bytes), NEW c \in Seq(Bytes)
             PROVE  Associates(a, b, c)
  OBVIOUS
<1> QED  BY DEF Associates

LEMMA BytesRegrouped == \A a, b, c, d \in Seq(Bytes) : Regroups(a, b, c, d)
<1> SUFFICES ASSUME NEW a \in Seq(Bytes), NEW b \in Seq(Bytes), NEW c \in Seq(Bytes), NEW d \in Seq(Bytes)
             PROVE  Regroups(a, b, c, d)
  OBVIOUS
<1>1. PICK y \in Seq(Bytes), z \in Seq(Bytes) : y = b \o c /\ z = c \o d  BY ConcatProperties
<1>2. Associates(a, y, d) /\ Associates(b, c, d) /\ Associates(a, b, z)
  BY BytesAssociative, Zenon
<1> QED  BY <1>1, <1>2, Zenon DEF Regroups, Associates

LEMMA ReadBytes ==
  ASSUME NEW r \in Seq(Bytes), NEW x \in Seq(Bytes), r # <<>>
  PROVE  Head(r \o x) = Head(r) /\ Tail(r \o x) = Tail(r) \o x
<1> DEFINE h == Head(r)
           u == Tail(r)
<1>1. h \in Bytes /\ u \in Seq(Bytes) /\ <<h>> \in Seq(Bytes) /\ <<h>> \o u = r
  BY FirstOfBytes
<1> HIDE DEF h, u
<1>2. r \o x = <<h>> \o (u \o x)
  <2> DEFINE a == <<h>>
  <2>1. a \in Seq(Bytes) /\ a \o u = r  BY <1>1
  <2> HIDE DEF a
  <2>2. Associates(a, u, x)  BY <1>1, <2>1, BytesAssociative, Zenon
  <2>3. r \o x = a \o (u \o x)  BY <2>1, <2>2, Zenon DEF Associates
  <2> QED  BY <2>3 DEF a
<1> DEFINE y == u \o x
<1>3. y \in Seq(Bytes)  BY <1>1, ConcatProperties
<1> HIDE DEF y
<1>4. /\ <<h>> \o y \in Seq(Bytes) /\ Len(<<h>> \o y) = 1 + Len(y)
      /\ \A j \in 1..1 + Len(y) : (<<h>> \o y)[j] = IF j <= 1 THEN h ELSE y[j - 1]
  <2>1. Len(<<h>>) = 1 /\ <<h>>[1] = h  OBVIOUS
  <2>2. /\ <<h>> \o y \in Seq(Bytes) /\ Len(<<h>> \o y) = 1 + Len(y)
        /\ \A j \in 1..1 + Len(y) : (<<h>> \o y)[j] = IF j <= 1 THEN <<h>>[j] ELSE y[j - 1]
    BY <1>1, <1>3, <2>1, ConcatProperties
  <2> QED  BY <2>1, <2>2
<1> DEFINE z == <<h>> \o y
<1>5. z \in Seq(Bytes) /\ Len(z) = 1 + Len(y) /\ \A j \in 1..1 + Len(y) : z[j] = IF j <= 1 THEN h ELSE y[j - 1]
  BY <1>4
<1> HIDE DEF z
<1>6. Len(y) \in Nat  BY <1>3
<1>7. z # <<>> /\ Head(z) = h
  <2>1. z # <<>>  BY <1>5, <1>6
  <2> QED  BY <1>5, <1>6, <2>1
<1>8. Tail(z) = y
  <2>1. Tail(z) \in Seq(Bytes) /\ Len(Tail(z)) = Len(y) /\ \A j \in 1..Len(Tail(z)) : Tail(z)[j] = z[j + 1]
    BY <1>5, <1>6, <1>7, HeadTailProperties
  <2>2. ASSUME NEW j \in 1..Len(Tail(z)) PROVE Tail(z)[j] = y[j]
    <3>1. j + 1 \in 1..1 + Len(y) /\ ~(j + 1 <= 1) /\ (j + 1) - 1 = j  BY <1>6, <2>1
    <3> QED  BY <1>5, <2>1, <3>1
  <2> QED  BY <1>3, <2>1, <2>2, SeqEqual
<1> QED  BY <1>2, <1>7, <1>8 DEF h, u, y, z

LEMMA LostBytes ==
  ASSUME NEW r \in Seq(Bytes), NEW x \in Seq(Bytes), NEW c \in Bytes
  PROVE  RemoveAt(r \o (<<c>> \o x), Len(r) + 1) = r \o x
<1> DEFINE n == Len(r)
           y == <<c>> \o x
           z == r \o y
<1>1. n \in Nat /\ Len(x) \in Nat  OBVIOUS
<1>2. <<c>> \in Seq(Bytes) /\ Len(<<c>>) = 1  OBVIOUS
<1>3. /\ y \in Seq(Bytes) /\ Len(y) = 1 + Len(x)
      /\ \A j \in 1..1 + Len(x) : y[j] = IF j <= 1 THEN <<c>>[j] ELSE x[j - 1]
  BY <1>2, ConcatProperties
<1> HIDE DEF y
<1>4. /\ z \in Seq(Bytes) /\ Len(z) = n + Len(y)
      /\ \A j \in 1..n + Len(y) : z[j] = IF j <= n THEN r[j] ELSE y[j - n]
  BY <1>3, ConcatProperties
<1> HIDE DEF n, z
<1>5. SubSeq(z, 1, (n + 1) - 1) = r
  <2>1. (n + 1) - 1 = n  BY <1>1
  <2>2. \A j \in 1..n : z[j] = r[j] /\ r[j] \in Bytes  BY <1>1, <1>3, <1>4 DEF n
  <2>3. /\ SubSeq(z, 1, n) \in Seq(Bytes) /\ Len(SubSeq(z, 1, n)) = n
        /\ \A j \in 1..n : SubSeq(z, 1, n)[j] = z[j]
    <3>1. 1 \in Int /\ n \in Int /\ \A j \in 1..n : z[j] \in Bytes  BY <1>1, <2>2
    <3>2. /\ SubSeq(z, 1, n) \in Seq(Bytes) /\ Len(SubSeq(z, 1, n)) = IF 1 <= n THEN n - 1 + 1 ELSE 0
          /\ \A j \in 1..n - 1 + 1 : SubSeq(z, 1, n)[j] = z[1 + j - 1]
      BY <3>1, SubSeqProperties
    <3>3. n - 1 + 1 = n /\ \A j \in 1..n : 1 + j - 1 = j  BY <1>1
    <3> QED  BY <1>1, <3>2, <3>3
  <2> DEFINE q == SubSeq(z, 1, n)
  <2>4. q \in Seq(Bytes) /\ Len(q) = Len(r) /\ \A j \in 1..Len(q) : q[j] = r[j]
    BY <2>2, <2>3 DEF n
  <2> HIDE DEF q
  <2>5. q = r  BY <2>4, SeqEqual
  <2> QED  BY <2>1, <2>5 DEF q
<1>6. SubSeq(z, (n + 1) + 1, Len(z)) = x
  <2> DEFINE q == SubSeq(z, n + 2, Len(z))
  <2>1. Len(z) = n + 1 + Len(x)  BY <1>1, <1>3, <1>4
  <2>2. \A j \in n + 2..Len(z) : z[j] = x[j - n - 1] /\ z[j] \in Bytes
    <3> SUFFICES ASSUME NEW j \in n + 2..Len(z) PROVE z[j] = x[j - n - 1] /\ z[j] \in Bytes
      OBVIOUS
    <3>1. /\ j \in 1..n + Len(y) /\ ~(j <= n) /\ j - n \in 1..1 + Len(x) /\ ~(j - n <= 1)
          /\ (j - n) - 1 = j - n - 1 /\ j - n - 1 \in 1..Len(x)
      BY <1>1, <1>3, <2>1
    <3> QED  BY <1>3, <1>4, <3>1
  <2>3. /\ q \in Seq(Bytes) /\ Len(q) = Len(x)
        /\ \A j \in 1..Len(x) : q[j] = z[n + 2 + j - 1]
    <3>1. n + 2 \in Int /\ Len(z) \in Int  BY <1>1, <2>1
    <3>2. /\ q \in Seq(Bytes) /\ Len(q) = IF n + 2 <= Len(z) THEN Len(z) - (n + 2) + 1 ELSE 0
          /\ \A j \in 1..Len(z) - (n + 2) + 1 : q[j] = z[n + 2 + j - 1]
      BY <2>2, <3>1, SubSeqProperties
    <3>3. Len(z) - (n + 2) + 1 = Len(x)  BY <1>1, <2>1
    <3>4. ~(n + 2 <= Len(z)) => Len(x) = 0  BY <1>1, <2>1
    <3> QED  BY <3>2, <3>3, <3>4
  <2> HIDE DEF q
  <2>4. ASSUME NEW j \in 1..Len(q) PROVE q[j] = x[j]
    <3>1. j \in 1..Len(x) /\ n + 2 + j - 1 \in n + 2..Len(z) /\ (n + 2 + j - 1) - n - 1 = j
      BY <1>1, <2>1, <2>3
    <3> QED  BY <2>2, <2>3, <3>1
  <2>5. q = x  BY <2>3, <2>4, SeqEqual
  <2>6. (n + 1) + 1 = n + 2  BY <1>1
  <2> QED  BY <2>5, <2>6 DEF q
<1>7. RemoveAt(z, n + 1) = SubSeq(z, 1, (n + 1) - 1) \o SubSeq(z, (n + 1) + 1, Len(z))
  BY DEF RemoveAt
<1> QED  BY <1>5, <1>6, <1>7 DEF y, z, n
-----------------------------------------------------------------------------
(* The inductive invariant. *)

\* Between a look at the status and the access the queue is not at its limit.
Programs ==
  /\ writer \in {"poll", "access"} /\ reader \in {"poll", "access"}
  /\ txQueue \in Seq(Bytes) /\ rxQueue \in Seq(Bytes)
  /\ Len(txQueue) <= Depth /\ Len(rxQueue) <= Depth
  /\ writer = "access" => Len(txQueue) < Depth
  /\ reader = "access" => rxQueue # <<>>

\* What was written and not read is in the queues and on the line.
Kept == \E fl \in Seq(Bytes) : OnLine(fl) /\ sent = rxQueue \o (fl \o txQueue)

LineInv == LineTyped /\ Programs /\ got[1] = got[2] /\ Kept

LEMMA SignalsOfCycle ==
  ASSUME NEW step, NEW new, NEW on, Cycle(step, new, on)
  PROVE  Signals(step)
  BY DEF Cycle, Signals, Slip

LEMMA TypedNext ==
  ASSUME UartAssumption, LineTyped, txQueue \in Seq(Bytes), NEW step \in 0..2, Signals(step),
         step # 1 => slips < MaxSlips
  PROVE  LineTyped'
<1>1. /\ tx' \in TxType /\ (tx'.tick = 1 => tx'.baud = 0)
      /\ tx'.state = "send" => Len(tx'.buff) = Width + 2 - tx'.count
      /\ tx'.state = "idle" => tx'.count = 0
  BY TxTyped DEF Signals
<1>2. rx' \in RxType /\ Len(rx'.buff) = Width  BY RxTyped DEF Signals
<1>3. rxd' \in Levels \X Levels \X Levels
  <2>1. rxd' = <<tx.reg, rxd[1], rxd[2]>>  BY DEF Signals
  <2>2. tx.reg \in Levels /\ rxd \in Levels \X Levels \X Levels  BY DEF LineTyped, TxType
  <2> QED  BY <2>1, <2>2
<1>4. slips' \in 0..MaxSlips
  <2>1. slips \in 0..MaxSlips /\ MaxSlips \in Nat  BY TimesOfLine DEF LineTyped
  <2>2. slips' = (IF TxTakes THEN 0 ELSE slips) + Slip(step)  BY DEF Signals
  <2> QED  BY <2>1, <2>2 DEF Slip
<1> DEFINE T(t, r, d, n) ==
      /\ t \in TxType /\ (t.tick = 1 => t.baud = 0)
      /\ t.state = "send" => Len(t.buff) = Width + 2 - t.count
      /\ t.state = "idle" => t.count = 0
      /\ r \in RxType /\ Len(r.buff) = Width
      /\ d \in Levels \X Levels \X Levels
      /\ n \in 0..MaxSlips
<1>5. T(tx', rx', rxd', slips')  BY <1>1, <1>2, <1>3, <1>4
<1> QED  BY <1>5 DEF LineTyped, TxType, RxType, Levels, Bit

\* The bytes from the queue of the sender to the one of the receiver.
LEMMA BytesNext ==
  ASSUME UartAssumption, LineInv, NEW step, NEW new \in Seq(Bytes), NEW on, Cycle(step, new, on),
         NEW fl \in Seq(Bytes), NEW g \in Seq(Bytes),
         sent = rxQueue \o (fl \o txQueue),
         Hands(IF TxTakes THEN Append(fl, Head(txQueue)) ELSE fl, g)
  PROVE  /\ sent' = rxQueue' \o (g \o txQueue')
         /\ Reads(on) => Head(sent) = Head(rxQueue)
         /\ txQueue' = (IF TxTakes THEN Tail(txQueue) ELSE txQueue) \o (IF Writes(new) THEN new ELSE <<>>)
         /\ rxQueue' \in Seq(Bytes) /\ txQueue' \in Seq(Bytes) /\ Arrived \in Seq(Bytes)
<1> DEFINE r == rxQueue
           t == txQueue
           f == IF TxTakes THEN Append(fl, Head(t)) ELSE fl
           t1 == IF TxTakes THEN Tail(t) ELSE t
           a == Arrived
           w == IF Writes(new) THEN new ELSE <<>>
           kept == IF Lost THEN RemoveAt(sent, Depth + 1) ELSE sent
           r1 == IF Reads(on) THEN Tail(r) ELSE r
           x == g \o t1
<1>1. /\ r \in Seq(Bytes) /\ t \in Seq(Bytes) /\ Len(r) <= Depth /\ Len(t) <= Depth
      /\ Writes(new) => Len(t) < Depth
      /\ Reads(on) => r # <<>>
      /\ TxTakes => t # <<>>
  BY DEF LineInv, Programs, Writes, Reads, TxTakes
<1>2. <<>> \in Seq(Bytes)  OBVIOUS
<1>3. f \in Seq(Bytes) /\ t1 \in Seq(Bytes) /\ f \o t1 = fl \o t
  BY <1>1, TakenBytes
<1>4. w \in Seq(Bytes) /\ w = Entered(new)  BY <1>1, <1>2 DEF Entered
<1>5. /\ sent' = (IF Reads(on) THEN Tail(kept) ELSE kept) \o w
      /\ txQueue' = t1 \o Entered(new) /\ rxQueue' = r1 \o a
  BY DEF Cycle
<1>6. Hands(f, g) /\ sent = r \o (fl \o t)  OBVIOUS
<1> HIDE DEF r, t, f, t1, w, kept, r1
<1>7. sent = r \o (f \o t1)  BY <1>3, <1>6
<1>8. x \in Seq(Bytes)  BY <1>3, ConcatProperties
<1>9. a \in Seq(Bytes) /\ kept = r \o (a \o x)
  <2>1. CASE ~Complete
    <3>1. g = f /\ a = <<>> /\ kept = sent  BY <2>1, <1>6 DEF Hands, Arrived, kept, Lost
    <3>2. <<>> \o x = x  BY <1>8, ConcatEmptySeq
    <3> QED  BY <1>2, <1>7, <3>1, <3>2
  <2>2. CASE Complete
    <3> DEFINE c == Head(f)
    <3>1. f # <<>> /\ g = Tail(f) /\ Value(rx.buff) = c  BY <2>2, <1>6 DEF Hands
    <3>2. c \in Bytes /\ <<c>> \in Seq(Bytes) /\ <<c>> \o g = f  BY <1>3, <3>1, FirstOfBytes
    <3> HIDE DEF c
    <3> DEFINE s == <<c>>
    <3>3. s \in Seq(Bytes) /\ s \o g = f  BY <3>2
    <3>4. f \o t1 = s \o x
      <4> HIDE DEF s
      <4>1. (s \o g) \o t1 = s \o (g \o t1)
        <5>1. t1 \in Seq(Bytes) /\ s \in Seq(Bytes) /\ g \in Seq(Bytes)  BY <1>3, <3>3
        <5>2. Associates(s, g, t1)  BY <5>1, BytesAssociative, Zenon
        <5> QED  BY <5>2, Zenon DEF Associates
      <4> QED  BY <3>3, <4>1 DEF x
    <3>5. sent = r \o (s \o x)  BY <1>7, <3>4
    <3>6. CASE Lost
      <4>1. a = <<>> /\ kept = RemoveAt(sent, Len(r) + 1)  BY <3>6 DEF Arrived, kept, Lost, r
      <4>2. RemoveAt(r \o (<<c>> \o x), Len(r) + 1) = r \o x
        <5>1. r \in Seq(Bytes) /\ x \in Seq(Bytes) /\ c \in Bytes  BY <1>1, <1>8, <3>2
        <5> QED  BY <5>1, LostBytes
      <4>3. <<>> \o x = x  BY <1>8, ConcatEmptySeq
      <4> QED  BY <1>2, <3>5, <4>1, <4>2, <4>3
    <3>7. CASE ~Lost
      <4>1. a = s /\ kept = sent  BY <2>2, <3>1, <3>7 DEF Arrived, kept
      <4> HIDE DEF s
      <4> QED  BY <3>3, <3>5, <4>1
    <3> QED  BY <3>6, <3>7
  <2> QED  BY <2>1, <2>2
<1> HIDE DEF a, x
<1>10. a \o x \in Seq(Bytes)  BY <1>8, <1>9, ConcatProperties
<1>11. r1 \in Seq(Bytes) /\ (IF Reads(on) THEN Tail(kept) ELSE kept) = r1 \o (a \o x)
  <2>1. CASE ~Reads(on)  BY <1>1, <1>9, <2>1 DEF r1
  <2>2. CASE Reads(on)
    <3>1. r1 = Tail(r) /\ r # <<>>  BY <1>1, <2>2 DEF r1
    <3>2. Tail(r) \in Seq(Bytes)  BY <1>1, <3>1, HeadTailProperties
    <3>3. Tail(kept) = Tail(r) \o (a \o x)  BY <1>1, <1>9, <1>10, <3>1, ReadBytes
    <3> QED  BY <2>2, <3>1, <3>2, <3>3
  <2> QED  BY <2>1, <2>2
<1>12. Reads(on) => Head(sent) = Head(r)
  <2>1. fl \o t \in Seq(Bytes)  BY <1>1, ConcatProperties
  <2> QED  BY <1>1, <1>6, <2>1, ReadBytes
<1>13. (r1 \o (a \o x)) \o w = (r1 \o a) \o (g \o (t1 \o w))
  <2>1. r1 \in Seq(Bytes) /\ a \in Seq(Bytes) /\ w \in Seq(Bytes) /\ t1 \in Seq(Bytes)
    BY <1>3, <1>4, <1>9, <1>11
  <2>2. Associates(g, t1, w)  BY <2>1, BytesAssociative, Zenon
  <2>3. Regroups(r1, a, x, w)  BY <1>8, <2>1, BytesRegrouped, Zenon
  <2>4. x \o w = g \o (t1 \o w)  BY <2>2, Zenon DEF Associates, x
  <2> QED  BY <2>3, <2>4, Zenon DEF Regroups
<1>14. sent' = rxQueue' \o (g \o txQueue')  BY <1>4, <1>5, <1>11, <1>13
<1>15. rxQueue' \in Seq(Bytes) /\ txQueue' \in Seq(Bytes)
  BY <1>3, <1>4, <1>5, <1>9, <1>11, ConcatProperties
<1> QED  BY <1>4, <1>5, <1>9, <1>12, <1>14, <1>15 DEF r, t, t1, w, a

LEMMA ProgramsNext ==
  ASSUME UartAssumption, Programs, NEW step, NEW new, new \in {<<>>} \cup {<<b>> : b \in Bytes},
         NEW on \in BOOLEAN, Cycle(step, new, on),
         txQueue' \in Seq(Bytes), rxQueue' \in Seq(Bytes), Arrived \in Seq(Bytes)
  PROVE  Programs'
<1>1. /\ writer \in {"poll", "access"} /\ reader \in {"poll", "access"}
      /\ txQueue \in Seq(Bytes) /\ rxQueue \in Seq(Bytes)
      /\ Len(txQueue) <= Depth /\ Len(rxQueue) <= Depth /\ Depth \in Nat
      /\ writer = "access" => Len(txQueue) < Depth
      /\ reader = "access" => rxQueue # <<>>
  BY TimesOfLine DEF Programs
<1> DEFINE t1 == IF TxTakes THEN Tail(txQueue) ELSE txQueue
           r1 == IF Reads(on) THEN Tail(rxQueue) ELSE rxQueue
           e == Entered(new)
           a == Arrived
<1>2. /\ t1 \in Seq(Bytes) /\ Len(t1) <= Len(txQueue)
  BY <1>1 DEF TxTakes
<1>3. r1 \in Seq(Bytes) /\ Len(r1) <= Len(rxQueue) /\ (~Reads(on) => r1 = rxQueue)
  BY <1>1 DEF Reads
<1>4. /\ e \in Seq(Bytes) /\ Len(e) \in {0, 1} /\ (Len(e) = 1 => Len(txQueue) < Depth)
      /\ ~Writes(new) => Len(e) = 0
  <2>1. e \in {<<>>} \cup {<<b>> : b \in Bytes}  BY DEF Entered
  <2>2. \A b \in Bytes : <<b>> \in Seq(Bytes) /\ Len(<<b>>) = 1  OBVIOUS
  <2>3. ~(Writes(new) /\ Len(txQueue) < Depth) => e = <<>>  BY DEF Entered
  <2> HIDE DEF e
  <2>4. Len(<<>>) = 0 /\ <<>> \in Seq(Bytes)  OBVIOUS
  <2>5. CASE e = <<>>  BY <2>4, <2>5
  <2>6. CASE e # <<>>
    <3>1. PICK b \in Bytes : e = <<b>>  BY <2>1, <2>6
    <3>2. e \in Seq(Bytes) /\ Len(e) = 1  BY <2>2, <3>1
    <3>3. Writes(new) /\ Len(txQueue) < Depth  BY <2>3, <2>6
    <3> QED  BY <3>2, <3>3
  <2> QED  BY <2>5, <2>6
<1>5. a \in Seq(Bytes) /\ Len(a) \in {0, 1} /\ (Len(a) = 1 => Len(rxQueue) # Depth)
  BY DEF Arrived, Lost
<1>6. /\ txQueue' = t1 \o e /\ rxQueue' = r1 \o a
      /\ writer' = IF Writes(new) THEN "poll" ELSE Looks(writer, Len(txQueue) < Depth)
      /\ reader' = IF Reads(on) THEN "poll" ELSE IF on THEN Looks(reader, rxQueue # <<>>) ELSE reader
  BY DEF Cycle
<1> HIDE DEF t1, r1, e, a
<1>7. Len(txQueue') = Len(t1) + Len(e) /\ Len(rxQueue') = Len(r1) + Len(a)
  BY <1>2, <1>3, <1>4, <1>5, <1>6, ConcatProperties
<1>8. Len(t1) \in Nat /\ Len(r1) \in Nat /\ Len(txQueue) \in Nat /\ Len(rxQueue) \in Nat
  BY <1>1, <1>2, <1>3
<1>9. Len(txQueue') <= Depth /\ Len(rxQueue') <= Depth
  <2>1. Depth \in Nat /\ Len(txQueue) <= Depth /\ Len(rxQueue) <= Depth  BY <1>1
  <2>2. \A n, k, m \in Nat : k <= n /\ n <= Depth /\ (m = 0 \/ (m = 1 /\ n # Depth)) => k + m <= Depth
    BY <2>1
  <2>3. Len(e) = 0 \/ (Len(e) = 1 /\ Len(txQueue) # Depth)
    <3>1. Len(txQueue) < Depth => Len(txQueue) # Depth  BY <1>8, <2>1
    <3> QED  BY <1>4, <3>1
  <2>4. Len(a) = 0 \/ (Len(a) = 1 /\ Len(rxQueue) # Depth)  BY <1>5
  <2>5. Len(e) \in Nat /\ Len(a) \in Nat  BY <1>4, <1>5
  <2>6. Len(t1) + Len(e) <= Depth  BY <1>2, <1>8, <2>1, <2>2, <2>3, <2>5
  <2>7. Len(r1) + Len(a) <= Depth  BY <1>3, <1>8, <2>1, <2>2, <2>4, <2>5
  <2> QED  BY <1>7, <2>6, <2>7
<1>10. writer' \in {"poll", "access"} /\ (writer' = "access" => Len(txQueue') < Depth)
  <2>1. CASE Writes(new)  BY <1>6, <2>1
  <2>2. CASE ~Writes(new)
    <3>1. writer' = "access" => Len(txQueue) < Depth  BY <1>1, <1>6, <2>2 DEF Looks
    <3>2. Len(txQueue') <= Len(txQueue)  BY <1>2, <1>4, <1>7, <1>8, <2>2
    <3>3. writer' \in {"poll", "access"}  BY <1>1, <1>6, <2>2 DEF Looks
    <3>4. Len(txQueue') \in Nat  OBVIOUS
    <3> QED  BY <1>1, <1>8, <3>1, <3>2, <3>3, <3>4
  <2> QED  BY <2>1, <2>2
<1>11. reader' \in {"poll", "access"} /\ (reader' = "access" => rxQueue' # <<>>)
  <2>1. CASE Reads(on)  BY <1>6, <2>1
  <2>2. CASE ~Reads(on)
    <3>1. reader' = "access" => rxQueue # <<>>  BY <1>1, <1>6, <2>2 DEF Looks
    <3>2. rxQueue # <<>> => Len(rxQueue') > 0  BY <1>1, <1>3, <1>5, <1>7, <1>8, <2>2
    <3>3. reader' \in {"poll", "access"}  BY <1>1, <1>6, <2>2 DEF Looks
    <3> QED  BY <3>1, <3>2, <3>3
  <2> QED  BY <2>1, <2>2
<1> QED  BY <1>9, <1>10, <1>11 DEF Programs

LEMMA LineStep ==
  ASSUME UartAssumption, LineInv, NEW on \in BOOLEAN, Clock(on)
  PROVE  LineInv'
<1>1. PICK new \in {<<>>} \cup {<<b>> : b \in Bytes}, step \in 0..2 :
        Cycle(step, new, on) /\ (step # 1 => slips < MaxSlips)
  BY DEF Clock
<1>2. LineTyped /\ Programs /\ txQueue \in Seq(Bytes) /\ got[1] = got[2]  BY DEF LineInv, Programs
<1>3. Signals(step)  BY <1>1, SignalsOfCycle
<1>4. LineTyped'  BY <1>1, <1>2, <1>3, TypedNext
<1>5. PICK fl \in Seq(Bytes) : OnLine(fl) /\ sent = rxQueue \o (fl \o txQueue)
  BY DEF LineInv, Kept
<1>6. PICK g \in Seq(Bytes) : OnLine(g)' /\ Hands(IF TxTakes THEN Append(fl, Head(txQueue)) ELSE fl, g)
  BY <1>2, <1>3, <1>5, LineNext
<1>7. new \in Seq(Bytes)
  <2>1. <<>> \in Seq(Bytes) /\ \A b \in Bytes : <<b>> \in Seq(Bytes)  OBVIOUS
  <2> QED  BY <1>1, <2>1
<1>8. /\ sent' = rxQueue' \o (g \o txQueue')
      /\ Reads(on) => Head(sent) = Head(rxQueue)
      /\ rxQueue' \in Seq(Bytes) /\ txQueue' \in Seq(Bytes) /\ Arrived \in Seq(Bytes)
  BY <1>1, <1>5, <1>6, <1>7, BytesNext
<1>9. Programs'  BY <1>1, <1>2, <1>8, ProgramsNext
<1>10. got'[1] = got'[2]
  <2>1. got' = IF Reads(on) THEN <<Head(sent), Head(rxQueue)>> ELSE got  BY <1>1 DEF Cycle
  <2> QED  BY <1>2, <1>8, <2>1
<1>11. Kept'  BY <1>6, <1>8 DEF Kept
<1> QED  BY <1>4, <1>9, <1>10, <1>11 DEF LineInv

LEMMA LineStutter ==
  ASSUME LineInv, UNCHANGED uartVars
  PROVE  LineInv'
<1>1. /\ tx' = tx /\ txQueue' = txQueue /\ rxd' = rxd /\ rx' = rx /\ rxQueue' = rxQueue
      /\ writer' = writer /\ reader' = reader /\ slips' = slips /\ sent' = sent /\ got' = got
  BY DEF uartVars
<1>2. LineTyped'  BY <1>1 DEF LineInv, LineTyped, TxType, RxType, Levels, Bit
<1>3. Programs'  BY <1>1 DEF LineInv, Programs
<1>4. ASSUME NEW fl \in Seq(Bytes), OnLine(fl) PROVE OnLine(fl)'
  <2>1. \A f, soon : Earlier(f, soon) => Earlier(f, soon)'
    BY <1>1 DEF Earlier, Resting, Receives, Ahead, Period, Bit
  <2>2. \A b, n : SendsBit(b, n) => SendsBit(b, n)'
    BY <1>1 DEF SendsBit, On, Frame, Bit
  <2>3. \A d, new, old : Filtered(d, new, old) => Filtered(d, new, old)'
    BY <1>1 DEF Filtered
  <2>4. (Quiet => Quiet') /\ (TxIdle => TxIdle') /\ (Resting => Resting') /\ Age' = Age /\ Ahead' = Ahead
    BY <1>1 DEF Quiet, TxIdle, Resting, Age, Ahead, Period
  <2>5. \A x : Within(x) => -slips' <= x /\ x <= slips'
    BY <1>1 DEF Within
  <2>6. CASE Idle(fl)  BY <2>1, <2>4, <2>6 DEF OnLine, Idle
  <2>7. CASE Soon(fl)  BY <2>1, <2>2, <2>4, <2>7 DEF OnLine, Soon
  <2>8. CASE Closing(fl)  BY <2>2, <2>4, <2>8 DEF OnLine, Closing
  <2>9. CASE Edge(fl)
    <3>1. PICK c \in Bytes, d \in 0..3, f \in Seq(Bytes) :
            /\ fl = Append(f, c) /\ SendsBit(c, 1) /\ Filtered(d, 0, 1) /\ Within(Age - (d + 1))
            /\ Earlier(f, 2 - d)
      BY <2>9 DEF Edge
    <3>2. Within(Age - (d + 1))'  BY <2>4, <2>5, <3>1 DEF Within
    <3>3. Earlier(f, 2 - d)' /\ Filtered(d, 0, 1)' /\ SendsBit(c, 1)'  BY <2>1, <2>2, <2>3, <3>1
    <3> QED  BY <3>1, <3>2, <3>3 DEF OnLine, Edge
  <2>10. CASE InFrame(fl)
    <3>1. PICK b \in Bytes, n \in 1..Width + 2, m \in 0..Width + 1, d \in 0..3 :
            /\ fl = <<b>> /\ SendsBit(b, n) /\ Receives(b, m)
            /\ Filtered(d, On(b, n), On(b, n - 1))
            /\ Aligned(Age, Ahead, d, n, m, slips)
      BY <2>10 DEF InFrame
    <3>2. SendsBit(b, n)'  BY <2>2, <3>1
    <3>3. Receives(b, m)'  BY <1>1, <3>1 DEF Receives, Bit
    <3>4. Filtered(d, On(b, n), On(b, n - 1))'
      <4>1. PICK x, y : x = On(b, n) /\ y = On(b, n - 1)  OBVIOUS
      <4>2. Filtered(d, x, y)'  BY <2>3, <3>1, <4>1
      <4> QED  BY <4>1, <4>2, FilteredOn
    <3>5. Aligned(Age', Ahead', d, n, m, slips')  BY <1>1, <2>4, <3>1
    <3> QED  BY <3>1, <3>2, <3>3, <3>4, <3>5, InFrameNext DEF OnLine
  <2>11. Idle(fl) \/ Soon(fl) \/ Closing(fl) \/ Edge(fl) \/ InFrame(fl)  BY <1>4 DEF OnLine
  <2> QED  BY <2>6, <2>7, <2>8, <2>9, <2>10, <2>11
<1>5. Kept'  BY <1>1, <1>4 DEF LineInv, Kept
<1> QED  BY <1>1, <1>2, <1>3, <1>5 DEF LineInv

LEMMA LineStart ==
  ASSUME UartAssumption, UartInit
  PROVE  LineInv
<1>1. Divider \in Nat /\ Width \in Nat /\ Width >= 1 /\ Depth \in Nat /\ MaxSlips \in Nat
  BY TimesOfLine
<1>2. 0 \in Levels /\ 1 \in Levels  BY DEF Levels
<1>3. PICK b \in 0..Divider :
        tx = [baud |-> b, tick |-> 0, state |-> "idle", buff |-> <<>>, reg |-> 1, count |-> 0]
  BY DEF UartInit
<1>4. tx \in TxType /\ tx.tick = 0 /\ tx.state = "idle" /\ tx.count = 0 /\ tx.reg = 1
  BY <1>1, <1>2, <1>3 DEF TxType
<1>5. rx \in RxType /\ Len(rx.buff) = Width /\ Resting
  <2> DEFINE z == [k \in 1..Width |-> 0]
  <2>1. z \in Seq(Levels) /\ Len(z) = Width  BY <1>1, <1>2
  <2>2. rx = [baud |-> 0, tick |-> 0, enable |-> FALSE, buff |-> z, count |-> 0, state |-> "idle"]
    BY DEF UartInit
  <2> HIDE DEF z
  <2> QED  BY <1>1, <2>1, <2>2 DEF RxType, Resting
<1>6. rxd = <<1, 1, 1>> /\ txQueue = <<>> /\ rxQueue = <<>> /\ writer = "poll" /\ reader = "poll"
      /\ slips = 0 /\ sent = <<>> /\ got = <<0, 0>>
  BY DEF UartInit
<1>7. LineTyped  BY <1>1, <1>2, <1>4, <1>5, <1>6 DEF LineTyped
<1>8. Programs  BY <1>1, <1>6 DEF Programs
<1>9. Kept
  <2>1. OnLine(<<>>)  BY <1>4, <1>5, <1>6 DEF OnLine, Idle, Quiet, TxIdle, Earlier
  <2>2. <<>> \in Seq(Bytes) /\ <<>> = <<>> \o (<<>> \o <<>>)  OBVIOUS
  <2> QED  BY <1>6, <2>1, <2>2 DEF Kept
<1> QED  BY <1>6, <1>7, <1>8, <1>9 DEF LineInv

LEMMA BytesOnLine ==
  ASSUME NEW fl \in Seq(Bytes), OnLine(fl)
  PROVE  Len(fl) <= 2
<1>1. ASSUME NEW f \in Seq(Bytes), NEW soon, Earlier(f, soon) PROVE Len(f) <= 1
  <2>1. Len(<<>>) = 0 /\ \A b \in Bytes : Len(<<b>>) = 1  OBVIOUS
  <2>2. f = <<>> \/ \E b \in Bytes : f = <<b>>  BY <1>1 DEF Earlier
  <2>3. Len(f) = 0 \/ Len(f) = 1  BY <2>1, <2>2, Zenon
  <2>4. Len(f) \in Nat /\ \A n \in Nat : n = 0 \/ n = 1 => n <= 1  OBVIOUS
  <2> QED  BY <2>3, <2>4
<1>2. ASSUME NEW f \in Seq(Bytes), NEW soon, NEW c \in Bytes, Earlier(f, soon) PROVE Len(Append(f, c)) <= 2
  <2>1. Len(f) <= 1  BY <1>1, <1>2
  <2>2. Len(Append(f, c)) = Len(f) + 1 /\ Len(f) \in Nat  BY AppendProperties
  <2> QED  BY <2>1, <2>2
<1>3. CASE Idle(fl)
  <2>1. Len(fl) <= 1 /\ Len(fl) \in Nat  BY <1>1, <1>3 DEF Idle
  <2> QED  BY <2>1
<1>4. CASE Soon(fl)  BY <1>2, <1>4 DEF Soon
<1>5. CASE Closing(fl)  BY <1>5 DEF Closing
<1>6. CASE Edge(fl)  BY <1>2, <1>6 DEF Edge
<1>7. CASE InFrame(fl)
  <2>1. PICK b \in Bytes : fl = <<b>>  BY <1>7 DEF InFrame
  <2> QED  BY <2>1
<1> QED  BY <1>3, <1>4, <1>5, <1>6, <1>7 DEF OnLine

\* Bytes are read as they were written and in their order, but for those that find
\* the queue full: the receiver, which counts from the edge of the start bit it sees
\* three registers late, samples every bit between its edges, and is back at rest
\* before the next edge, however the clocks slip (Uart.scala, rx_baud_counter).
THEOREM LineHandsOver ==
  ASSUME UartAssumption
  PROVE  UartSpec => []IsLine
<1>1. UartInit => LineInv  BY LineStart
<1>2. LineInv /\ [UartNext]_uartVars => LineInv'
  <2>1. ASSUME LineInv, UartNext PROVE LineInv'  BY <2>1, LineStep DEF UartNext
  <2> QED  BY <2>1, LineStutter
<1>3. LineInv => IsLine
  <2> SUFFICES ASSUME LineInv PROVE IsLine  OBVIOUS
  <2>1. Programs /\ got[1] = got[2]  BY DEF LineInv
  <2>2. PICK fl \in Seq(Bytes) : OnLine(fl) /\ sent = rxQueue \o (fl \o txQueue)
    BY DEF LineInv, Kept
  <2>3. Len(fl) <= 2 /\ Len(fl) \in Nat  BY <2>2, BytesOnLine
  <2>4. /\ rxQueue \in Seq(Bytes) /\ txQueue \in Seq(Bytes)
        /\ Len(rxQueue) <= Depth /\ Len(txQueue) <= Depth
    BY <2>1 DEF Programs
  <2>5. fl \o txQueue \in Seq(Bytes) /\ Len(fl \o txQueue) = Len(fl) + Len(txQueue)
    BY <2>4, ConcatProperties
  <2>6. Len(sent) = Len(rxQueue) + (Len(fl) + Len(txQueue))
    <3> DEFINE z == fl \o txQueue
    <3>1. z \in Seq(Bytes) /\ Len(z) = Len(fl) + Len(txQueue) /\ sent = rxQueue \o z  BY <2>2, <2>5
    <3> HIDE DEF z
    <3>2. Len(rxQueue \o z) = Len(rxQueue) + Len(z)  BY <2>4, <3>1, ConcatProperties
    <3> QED  BY <3>1, <3>2, Zenon
  <2>7. Len(rxQueue) \in Nat /\ Len(txQueue) \in Nat /\ Depth \in Nat
    <3>1. Len(rxQueue) \in Nat /\ Len(txQueue) \in Nat  BY <2>4
    <3> QED  BY <3>1, TimesOfLine
  <2>8. Len(sent) <= 2 * Depth + 2  BY <2>3, <2>4, <2>6, <2>7
  <2> QED  BY <2>1, <2>8 DEF IsLine
<1> QED  BY <1>1, <1>2, <1>3, PTL DEF UartSpec

================================================================================
