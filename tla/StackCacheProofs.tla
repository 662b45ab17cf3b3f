--------------------------- MODULE StackCacheProofs ---------------------------
(***************************************************************************)
(* Theorems about the stack cache, for every size of the cache and of the  *)
(* bursts, every stack and every bus: the two tops stay in order, a spill  *)
(* touches words of the stack only, and the cache implements Stack.        *)
(***************************************************************************)
EXTENDS StackCache, TLAPS

-----------------------------------------------------------------------------
(* Remainders *)

LEMMA Division ==
  ASSUME NEW m \in Nat \ {0}, NEW x \in Nat
  PROVE  /\ x \div m \in Nat /\ x % m \in 0 .. (m - 1)
         /\ x = m * (x \div m) + (x % m)
  OBVIOUS

LEMMA Multiples ==
  ASSUME NEW m \in Nat \ {0}, NEW p \in Nat, NEW q \in Nat, p < q
  PROVE  m * p + m <= m * q
<1>1. m * (p + 1) = m * p + m  OBVIOUS
<1>2. m * (p + 1) <= m * q  OBVIOUS
<1> QED  BY <1>1, <1>2

\* A remainder is unique.
LEMMA Remainder ==
  ASSUME NEW m \in Nat \ {0}, NEW q \in Nat, NEW r \in 0 .. (m - 1),
         NEW x \in Nat, x = m * q + r
  PROVE  x % m = r
<1> DEFINE p == x \div m
<1>1. p \in Nat /\ x % m \in 0 .. (m - 1) /\ x = m * p + (x % m)  BY Division
<1>2. m * p \in Nat /\ m * q \in Nat  BY <1>1
<1>3. CASE p < q
  <2>1. m * p + m <= m * q  BY <1>1, <1>3, Multiples
  <2> QED  BY <1>1, <1>2, <2>1
<1>4. CASE q < p
  <2>1. m * q + m <= m * p  BY <1>1, <1>4, Multiples
  <2> QED  BY <1>1, <1>2, <2>1
<1>5. CASE p = q
  <2>1. m * p = m * q  BY <1>5
  <2> HIDE DEF p
  <2> QED  BY <1>1, <1>2, <1>5, <2>1
<1> QED  BY <1>1, <1>3, <1>4, <1>5

\* Counting words of a burst.
LEMMA NextRemainder ==
  ASSUME NEW m \in Nat \ {0}, NEW x \in Nat
  PROVE  (x + 1) % m = IF x % m = m - 1 THEN 0 ELSE (x % m) + 1
<1> DEFINE q == x \div m
           y == x + 1
<1>1. q \in Nat /\ x % m \in 0 .. (m - 1) /\ x = m * q + (x % m)  BY Division
<1>2. m * (q + 1) = m * q + m /\ m * q \in Nat  BY <1>1
<1>3. CASE x % m = m - 1
  <2> DEFINE k == q + 1
  <2>1. y \in Nat /\ k \in Nat /\ y = m * k + 0 /\ 0 \in 0 .. (m - 1)
    <3> HIDE DEF q
    <3> QED  BY <1>1, <1>2, <1>3
  <2> HIDE DEF y, k
  <2>2. y % m = 0  BY <2>1, Remainder
  <2> QED  BY <1>3, <2>2 DEF y
<1>4. CASE x % m # m - 1
  <2> DEFINE s == (x % m) + 1
  <2>1. y \in Nat /\ s \in 0 .. (m - 1) /\ y = m * q + s
    <3> HIDE DEF q
    <3> QED  BY <1>1, <1>2, <1>4
  <2>2. y % m = s
    <3> HIDE DEF q, y, s
    <3> QED  BY <1>1, <2>1, Remainder
  <2> QED  BY <1>4, <2>2
<1> QED  BY <1>3, <1>4

LEMMA AlignedRemainder ==
  ASSUME NEW m \in Nat \ {0}, NEW a \in Nat
  PROVE  (a - (a % m)) % m = 0
<1> DEFINE p == a \div m
           y == a - (a % m)
<1>1. p \in Nat /\ a % m \in 0 .. (m - 1) /\ a = m * p + (a % m)  BY Division
<1> HIDE DEF p
<1>2. y \in Nat /\ y = m * p + 0 /\ 0 \in 0 .. (m - 1)  BY <1>1
<1>3. y % m = 0
  <2> HIDE DEF y
  <2> QED  BY <1>1, <1>2, Remainder
<1> QED  BY <1>3

\* Addresses less than the size of the cache apart have places of their own.
LEMMA OwnPlace ==
  ASSUME NEW m \in Nat \ {0}, NEW a \in Nat, NEW b \in Nat, a < b, b - a < m
  PROVE  a % m # b % m
<1> DEFINE p == a \div m
           q == b \div m
<1>1. p \in Nat /\ a % m \in 0 .. (m - 1) /\ a = m * p + (a % m)  BY Division
<1>2. q \in Nat /\ b % m \in 0 .. (m - 1) /\ b = m * q + (b % m)  BY Division
<1> HIDE DEF p, q
<1>3. m * p \in Nat /\ m * q \in Nat  BY <1>1, <1>2
<1>4. CASE p < q
  <2>1. m * p + m <= m * q  BY <1>1, <1>2, <1>4, Multiples
  <2> QED  BY <1>1, <1>2, <1>3, <2>1
<1>5. CASE q < p
  <2>1. m * q + m <= m * p  BY <1>1, <1>2, <1>5, Multiples
  <2> QED  BY <1>1, <1>2, <1>3, <2>1
<1>6. CASE p = q
  <2>1. m * p = m * q  BY <1>6
  <2> QED  BY <1>1, <1>2, <1>3, <2>1
<1> QED  BY <1>1, <1>2, <1>4, <1>5, <1>6

-----------------------------------------------------------------------------
(* The operators of the model *)

LEMMA AlignFacts ==
  ASSUME NEW a \in Nat
  PROVE  /\ Align(a) \in Nat /\ Align(a) % Burst = 0
         /\ Align(a) <= a /\ a < Align(a) + Burst
         /\ Align(a + 1) = IF a % Burst = Burst - 1 THEN a + 1 ELSE Align(a)
         /\ (a + 1) % Burst = 0 <=> a % Burst = Burst - 1
         /\ a % Burst = 0 => Align(a) = a
<1>1. Burst \in Nat \ {0} /\ Burst > 1  BY StackAssumption
<1>2. a % Burst \in 0 .. (Burst - 1) /\ a % Burst <= a
  <2>1. a % Burst \in 0 .. (Burst - 1)  BY <1>1
  <2>2. CASE a < Burst
    <3>1. a = Burst * 0 + a /\ a \in 0 .. (Burst - 1)  BY <1>1, <2>2
    <3>2. a % Burst = a  BY <1>1, <3>1, Remainder
    <3> QED  BY <2>1, <3>2
  <2>3. CASE a >= Burst  BY <1>1, <2>1, <2>3
  <2> QED  BY <1>1, <2>2, <2>3
<1>3. (a + 1) % Burst = IF a % Burst = Burst - 1 THEN 0 ELSE (a % Burst) + 1
  BY <1>1, NextRemainder
<1>4. Align(a) % Burst = 0  BY <1>1, AlignedRemainder DEF Align
<1> QED  BY <1>1, <1>2, <1>3, <1>4 DEF Align

LEMMA IndexType == \A a \in Nat : Index(a) \in 0 .. (Size - 1)
  BY StackAssumption DEF Index

LEMMA IndexApart ==
  ASSUME NEW a \in Nat, NEW b \in Nat, a # b, a - b < Size, b - a < Size
  PROVE  Index(a) # Index(b)
<1>1. Size \in Nat \ {0}  BY StackAssumption
<1>2. CASE a < b  BY <1>1, <1>2, OwnPlace DEF Index
<1>3. CASE b < a  BY <1>1, <1>3, OwnPlace DEF Index
<1> QED  BY <1>2, <1>3

\* The difference of two registers is exact when it is not negative.
LEMMA MinusExact ==
  ASSUME NEW a \in Addr, NEW b \in Addr, b <= a
  PROVE  Minus(a, b) = a - b
<1> DEFINE d == a - b
<1>1. Words \in Nat \ {0} /\ d \in 0 .. (Words - 1)
  BY StackAssumption DEF Addr
<1>2. d \in Nat /\ d = Words * 0 + d  BY <1>1
<1> HIDE DEF d
<1>3. d % Words = d  BY <1>1, <1>2, Remainder
<1> QED  BY <1>3 DEF Minus, d

-----------------------------------------------------------------------------
(* The inductive invariant *)

Spilling == stateReg \in {"holdSpill", "spill", "waitSpill"}
Filling  == stateReg \in {"fill", "waitFill", "error"}

\* The tops are in order from the moment both are set.
OrderInv ==
  /\ ~Ready => stateReg = "idle"
  /\ ~Ready /\ "s6" \in configured => stackTopReg = Base
  /\ ~Ready /\ "s5" \in configured => memTopReg = Base
  /\ Ready => stackTopReg <= memTopReg
  /\ memTopReg <= Base /\ stackTopReg <= Base /\ newMemTopReg <= Base

\* What fits into the cache, and where a transfer is to take memTopReg.
RoomInv ==
  /\ stateReg = "idle" /\ Ready /\ ~lost => memTopReg <= stackTopReg + Size
  /\ Filling => memTopReg <= newMemTopReg /\ newMemTopReg <= stackTopReg + Size
  /\ Spilling => stackTopReg <= Target /\ Target <= memTopReg
  /\ Spilling /\ ~isReserveReg /\ ~lost => memTopReg <= stackTopReg + Size
  /\ refused => \/ stateReg \in {"waitFill", "error"}
                \/ stateReg \in {"spill", "waitSpill"} /\ lost

\* A burst begins at an aligned address and at most a burst beyond the stack.
BurstInv ==
  /\ stateReg \in {"fill", "holdSpill", "waitSpill"} => transferAddrReg % Burst = 0
  /\ stateReg = "waitFill" /\ refused => transferAddrReg % Burst = 0
  /\ stateReg = "idle" => transferAddrReg <= Base + Size + Burst
  /\ stateReg = "waitSpill" => transferAddrReg <= Base + Burst
  /\ stateReg \in {"fill", "waitFill", "error", "holdSpill", "spill"}
       => Align(transferAddrReg) <= Base

\* The words already transferred are in both places.
CopyInv ==
  /\ Spilling => rdAddrReg = Index(transferAddrReg)
  /\ Spilling /\ ~lost =>
       \A a \in Target .. (memTopReg - 1) :
          a < transferAddrReg => mem[a] = memoryBlock[Index(a)]
  /\ stateReg \in {"fill", "waitFill"} =>
       \A a \in memTopReg .. (newMemTopReg - 1) :
          a < transferAddrReg => memoryBlock[Index(a)] = mem[a]

IInv == TypeOK /\ OrderInv /\ RoomInv /\ BurstInv /\ CopyInv

LEMMA InitIInv == Init => IInv
<1> SUFFICES ASSUME Init PROVE IInv  OBVIOUS
<1>1. TypeOK
  <2>1. PICK v \in Vals : /\ memoryBlock = [i \in 0 .. (Size - 1) |-> v]
                          /\ mem = [a \in 0 .. (MemWords - 1) |-> v]
                          /\ answer = v
    BY DEF Init
  <2>2. /\ memoryBlock \in [0 .. (Size - 1) -> Vals] /\ answer \in Vals
        /\ mem \in [0 .. (MemWords - 1) -> Vals]
    BY <2>1
  <2>3. 0 \in Addr /\ 0 .. Base \subseteq Addr /\ 0 \in 0 .. (Size - 1)
    BY StackAssumption DEF Addr
  <2> QED  BY <2>2, <2>3 DEF Init, TypeOK, States
<1>2. ~Ready /\ configured = {}
  BY DEF Init, Ready
<1>3. stateReg = "idle" /\ OrderInv
  BY <1>2, StackAssumption DEF Init, OrderInv
<1>4. RoomInv /\ CopyInv
  BY <1>2, <1>3 DEF Init, RoomInv, CopyInv, Spilling, Filling
<1>5. BurstInv
  BY <1>3, StackAssumption DEF Init, BurstInv
<1> QED  BY <1>1, <1>3, <1>4, <1>5 DEF IInv

-----------------------------------------------------------------------------
(* The tops *)

\* What the invariant says in numbers.
LEMMA Numbers ==
  ASSUME TypeOK
  PROVE  /\ stackTopReg \in Nat /\ memTopReg \in Nat
         /\ transferAddrReg \in Nat /\ newMemTopReg \in Nat
         /\ Size \in Nat /\ Size > 0 /\ Burst \in Nat /\ Burst > 1
         /\ Base \in Nat /\ Floor \in Nat /\ Target \in Nat
  BY StackAssumption DEF TypeOK, Addr, Target

\* The comparisons of the code, free of wrap-around.
LEMMA Comparisons ==
  ASSUME IInv, Ready, NEW n \in Nat
  PROVE  /\ StackAboveMem(n) <=> memTopReg < stackTopReg + n
         /\ n <= stackTopReg =>
              (NeedsSpill(stackTopReg - n) <=> stackTopReg - n + Size < memTopReg)
<1>1. stackTopReg \in Addr /\ memTopReg \in Addr /\ stackTopReg <= memTopReg
  BY DEF IInv, TypeOK, OrderInv
<1>2. Minus(memTopReg, stackTopReg) = memTopReg - stackTopReg
  BY <1>1, MinusExact
<1>3. ASSUME n <= stackTopReg
      PROVE  Minus(memTopReg, stackTopReg - n) = memTopReg - (stackTopReg - n)
  <2> DEFINE b == stackTopReg - n
  <2>1. b \in Addr /\ b <= memTopReg  BY <1>1, <1>3, StackAssumption DEF Addr
  <2> HIDE DEF b
  <2>2. Minus(memTopReg, b) = memTopReg - b  BY <1>1, <2>1, MinusExact
  <2> QED  BY <2>2 DEF b
<1>4. stackTopReg \in Nat /\ memTopReg \in Nat /\ Size \in Nat
  BY Numbers DEF IInv
<1> QED  BY <1>2, <1>3, <1>4 DEF StackAboveMem, NeedsSpill

LEMMA OrderKept == ASSUME IInv, Next PROVE OrderInv'
<1> USE DEF IInv, OrderInv, Ready
<1>1. CASE SetStackTop \/ SetMemTop
  BY <1>1, Numbers, SMTT(30) DEF SetStackTop, SetMemTop, ports, env, TypeOK
<1>2. ASSUME NEW n \in 0 .. Size, Ensure(n) \/ Reserve(n) \/ Spill(n) PROVE OrderInv'
  BY <1>2, Numbers DEF Ensure, Reserve, Spill, Running, StartAt, tops, env
<1>3. ASSUME NEW n \in 0 .. Base, Free(n) PROVE OrderInv'
  BY <1>3, Numbers, Comparisons DEF Free, Running, ports, env
<1>4. ASSUME NEW off \in 0 .. (Size - 1), Load(off) \/ \E v \in Vals : Store(off, v)
      PROVE  OrderInv'
  BY <1>4 DEF Load, Store, Running, tops, env
<1>5. CASE HoldSpill \/ SpillWord \/ Fill \/ FillError \/ AwaitEnd
  BY <1>5 DEF HoldSpill, SpillWord, Fill, FillError, AwaitEnd, SendWord, tops, ports, env
<1>6. CASE FillWord
  BY <1>6, Numbers DEF FillWord, RoomInv, Filling, env, FillingDone
<1>7. ASSUME NEW b \in BOOLEAN, WaitSpill(b) PROVE OrderInv'
  BY <1>7, Numbers DEF WaitSpill, RoomInv, Spilling, ports, env
<1> QED  BY <1>1, <1>2, <1>3, <1>4, <1>5, <1>6, <1>7 DEF Next, Program, Transfer

LEMMA RoomKept == ASSUME IInv, Next PROVE RoomInv'
<1> USE DEF IInv, RoomInv, Ready, Spilling, Filling, Target
<1>1. CASE SetStackTop \/ SetMemTop
  BY <1>1, Numbers DEF SetStackTop, SetMemTop, ports, env, OrderInv
<1>2. ASSUME NEW n \in 0 .. Size, Ensure(n) PROVE RoomInv'
  BY <1>2, Numbers, Comparisons DEF Ensure, Running, tops, env
<1>3. ASSUME NEW n \in 0 .. Size, Reserve(n) PROVE RoomInv'
  <2>1. n \in Nat /\ n <= stackTopReg  BY <1>3, Numbers DEF Reserve
  <2>2. NeedsSpill(stackTopReg - n) <=> stackTopReg - n + Size < memTopReg
    BY <1>3, <2>1, Comparisons DEF Reserve, Running
  <2> QED  BY <1>3, <2>1, <2>2, Numbers DEF Reserve, Running, env
<1>4. ASSUME NEW n \in 0 .. Size, Spill(n) PROVE RoomInv'
  BY <1>4, Numbers DEF Spill, Running, tops, env
<1>5. ASSUME NEW n \in 0 .. Base, Free(n) PROVE RoomInv'
  BY <1>5, Numbers, Comparisons DEF Free, Running, ports, env
<1>6. ASSUME NEW off \in 0 .. (Size - 1), Load(off) \/ \E v \in Vals : Store(off, v)
      PROVE  RoomInv'
  BY <1>6 DEF Load, Store, Running, tops, env
<1>7. CASE HoldSpill \/ SpillWord
  <2>1. (lost => lost') /\ (refused' => lost')
    <3>1. CASE HoldSpill  BY <3>1 DEF HoldSpill
    <3>2. CASE SpillWord  BY <3>2 DEF SpillWord, env
    <3> QED  BY <1>7, <3>1, <3>2
  <2>2. /\ Spilling /\ stateReg' \in {"spill", "waitSpill"}
        /\ UNCHANGED <<tops, isReserveReg, newMemTopReg>>
    BY <1>7 DEF HoldSpill, SpillWord
  <2> QED  BY <2>1, <2>2 DEF tops
<1>8. CASE Fill \/ FillError
  BY <1>8 DEF Fill, FillError, tops, ports, env
<1>9. CASE AwaitEnd
  <2>1. refused' => stateReg' = "error"  BY <1>9 DEF AwaitEnd
  <2> QED  BY <1>9, <2>1, Numbers DEF AwaitEnd, tops
<1>10. CASE FillWord
  BY <1>10, Numbers DEF FillWord, env, FillingDone
<1>11. ASSUME NEW b \in BOOLEAN, WaitSpill(b) PROVE RoomInv'
  <2>1. /\ Spilling /\ stateReg' \in {"waitSpill", "idle", "holdSpill"}
        /\ stateReg' = "idle" => SpillingDone \/ refused
        /\ refused' => refused /\ stateReg' = "waitSpill"
        /\ memTopReg' = IF SpillingDone THEN Target ELSE memTopReg
        /\ UNCHANGED <<stackTopReg, ports, lost>>
    BY <1>11 DEF WaitSpill
  <2> QED  BY <2>1, Numbers DEF ports
<1> QED  BY <1>1, <1>2, <1>3, <1>4, <1>5, <1>6, <1>7, <1>8, <1>9, <1>10, <1>11
            DEF Next, Program, Transfer

-----------------------------------------------------------------------------
(* The bursts *)

LEMMA BurstKept == ASSUME IInv, Next PROVE BurstInv'
<1> DEFINE t == transferAddrReg
<1>1. t \in Nat /\ Size \in Nat /\ Burst \in Nat /\ Burst > 1 /\ Base \in Nat
  BY Numbers DEF IInv
<1>2. /\ Align(t) \in Nat /\ Align(t) <= t /\ t < Align(t) + Burst
      /\ Align(t + 1) = IF Last THEN t + 1 ELSE Align(t)
      /\ (t + 1) % Burst = 0 <=> Last
      /\ t % Burst = 0 => Align(t) = t /\ ~Last
  <2>1. Last <=> t % Burst = Burst - 1  BY DEF Last
  <2> HIDE DEF t
  <2>2. t % Burst = 0 => t % Burst # Burst - 1  BY <1>1
  <2> QED  BY <1>1, <2>1, <2>2, AlignFacts
<1>3. CASE SetStackTop \/ SetMemTop
  BY <1>3 DEF SetStackTop, SetMemTop, ports, IInv, BurstInv
<1>4. ASSUME NEW a \in Nat, a <= Base + Size, transferAddrReg' = Align(a),
             stateReg' \in {"idle", "fill", "holdSpill"},
             stateReg' # "idle" => a <= Base
      PROVE  BurstInv'
  <2>1. Align(a) \in Nat /\ Align(a) <= a /\ Align(a) % Burst = 0  BY <1>4, AlignFacts
  <2>2. Align(Align(a)) = Align(a)  BY <2>1, AlignFacts
  <2> QED  BY <1>1, <1>4, <2>1, <2>2 DEF BurstInv
<1>5. ASSUME NEW n \in 0 .. Size, Ensure(n) PROVE BurstInv'
  <2>1. memTopReg \in Nat /\ memTopReg <= Base  BY Numbers DEF IInv, OrderInv
  <2>2. /\ transferAddrReg' = Align(memTopReg) /\ stateReg' \in {"idle", "fill", "holdSpill"}
    BY <1>5 DEF Ensure
  <2> QED  BY <1>1, <1>4, <2>1, <2>2
<1>6. ASSUME NEW n \in 0 .. Size, Reserve(n) PROVE BurstInv'
  <2> DEFINE a == stackTopReg - n + Size
  <2>1. /\ stackTopReg \in Nat /\ memTopReg \in Nat /\ stackTopReg <= Base /\ memTopReg <= Base
        /\ Ready /\ n \in Nat /\ n <= stackTopReg
    BY <1>6, Numbers DEF IInv, OrderInv, Reserve, Running, Ready
  <2>2. NeedsSpill(stackTopReg - n) <=> a < memTopReg
    BY <2>1, Comparisons
  <2>3. transferAddrReg' = Align(a) /\ stateReg' \in {"idle", "fill", "holdSpill"}
        /\ (stateReg' # "idle" => NeedsSpill(stackTopReg - n))
    BY <1>6 DEF Reserve, StartAt
  <2>4. a \in Nat /\ a <= Base + Size /\ (a < memTopReg => a <= Base)
    BY <1>1, <2>1
  <2> HIDE DEF a
  <2> QED  BY <1>4, <2>2, <2>3, <2>4
<1>7. ASSUME NEW n \in 0 .. Size, Spill(n) PROVE BurstInv'
  <2> DEFINE a == memTopReg - n
  <2>1. a \in Nat /\ a <= Base
    BY <1>7, Numbers DEF IInv, OrderInv, Spill
  <2>2. transferAddrReg' = Align(a) /\ stateReg' = "holdSpill"
    BY <1>7 DEF Spill, StartAt
  <2> HIDE DEF a
  <2> QED  BY <1>1, <1>4, <2>1, <2>2
<1>8. ASSUME NEW n \in 0 .. Base, Free(n) PROVE BurstInv'
  BY <1>8 DEF Free, Running, ports, env, IInv, BurstInv
<1>9. ASSUME NEW off \in 0 .. (Size - 1), Load(off) \/ \E v \in Vals : Store(off, v)
      PROVE  BurstInv'
  BY <1>9 DEF Load, Store, Running, env, IInv, BurstInv
<1>10. CASE HoldSpill
  BY <1>1, <1>2, <1>10 DEF HoldSpill, SendWord, IInv, BurstInv
<1>11. CASE SpillWord
  BY <1>1, <1>2, <1>11 DEF SpillWord, SendWord, IInv, BurstInv
<1>12. ASSUME NEW b \in BOOLEAN, WaitSpill(b) PROVE BurstInv'
  <2>1. memTopReg \in Nat /\ memTopReg <= Base  BY Numbers DEF IInv, OrderInv
  <2> QED  BY <1>1, <1>2, <1>12, <2>1 DEF WaitSpill, SpillingDone, ports, IInv, BurstInv
<1>13. CASE Fill
  BY <1>1, <1>2, <1>13 DEF Fill, ports, IInv, BurstInv
<1>14. CASE FillWord
  <2>1. newMemTopReg \in Nat /\ newMemTopReg <= Base  BY Numbers DEF IInv, OrderInv
  <2> QED  BY <1>1, <1>2, <1>14, <2>1 DEF FillWord, FillingDone, env, IInv, BurstInv
<1>15. CASE FillError
  BY <1>1, <1>2, <1>15 DEF FillError, env, IInv, BurstInv
<1>16. CASE AwaitEnd
  BY <1>1, <1>2, <1>16 DEF AwaitEnd, ErrorDone, IInv, BurstInv
<1> QED  BY <1>3, <1>5, <1>6, <1>7, <1>8, <1>9, <1>10, <1>11, <1>12, <1>13, <1>14, <1>15, <1>16
            DEF Next, Program, Transfer

-----------------------------------------------------------------------------
(* The types *)

LEMMA TypeKept == ASSUME IInv, Next PROVE TypeOK'
<1> DEFINE t == transferAddrReg
<1>1. /\ OrderInv' /\ RoomInv' /\ BurstInv'  BY OrderKept, RoomKept, BurstKept
<1>2. /\ stackTopReg \in Nat /\ memTopReg \in Nat /\ t \in Nat /\ newMemTopReg \in Nat
      /\ Target \in Nat
      /\ Size \in Nat /\ Size > 0 /\ Base \in Nat /\ Burst \in Nat
  BY Numbers DEF IInv
<1>3. ASSUME NEW a \in Nat PROVE Align(a) \in Nat /\ Index(a) \in 0 .. (Size - 1)
  BY <1>3, AlignFacts, IndexType
<1>4. \A a \in Nat : Align(a) \in Nat /\ Index(Align(a)) \in 0 .. (Size - 1)
  BY <1>3
<1>5. TypeOK  BY DEF IInv
\* Registers of the controller, addresses, and words.
<1> DEFINE Control == /\ stateReg' \in States /\ isReserveReg' \in BOOLEAN
                      /\ configured' \subseteq {"s5", "s6"}
                      /\ refused' \in BOOLEAN /\ lost' \in BOOLEAN
           Numeric == /\ stackTopReg' \in Nat /\ memTopReg' \in Nat
                      /\ transferAddrReg' \in Nat /\ newMemTopReg' \in Nat
                      /\ rdAddrReg' \in 0 .. (Size - 1)
           Stored  == /\ memoryBlock' \in [0 .. (Size - 1) -> Vals]
                      /\ mem' \in [0 .. (MemWords - 1) -> Vals]
                      /\ answer' \in Vals
           Typed == Control /\ Numeric /\ Stored
<1> USE DEF tops, ports, data, env
<1>6. ASSUME SetStackTop \/ SetMemTop PROVE Typed
  BY <1>2, <1>5, <1>6 DEF SetStackTop, SetMemTop, TypeOK
<1>7. ASSUME NEW n \in 0 .. Size, Ensure(n) PROVE Typed
  <2>1. stackTopReg + n \in Nat /\ Align(memTopReg) \in Nat  BY <1>2, <1>4
  <2>2. stateReg' \in States  BY <1>7 DEF Ensure, States
  <2> QED  BY <1>5, <1>2, <1>7, <2>1, <2>2 DEF Ensure, TypeOK
<1>8. ASSUME NEW n \in 0 .. Base, Free(n) PROVE Typed
  BY <1>2, <1>5, <1>8 DEF Free, TypeOK
<1>9. ASSUME NEW n \in 0 .. Size, Reserve(n) PROVE Typed
  <2>1. stackTopReg - n \in Nat /\ stackTopReg - n + Size \in Nat
    BY <1>2, <1>9, StackAssumption DEF Reserve
  <2> QED  BY <1>4, <1>5, <1>9, <1>2, <2>1 DEF Reserve, StartAt, TypeOK, States
<1>10. ASSUME NEW n \in 0 .. Size, Spill(n) PROVE Typed
  <2>1. memTopReg - n \in Nat  BY <1>2, <1>10 DEF Spill
  <2> QED  BY <1>4, <1>5, <1>10, <1>2, <2>1 DEF Spill, StartAt, TypeOK, States
<1>11. ASSUME NEW off \in 0 .. (Size - 1), Load(off) PROVE Typed
  <2>1. RelAddr(off) \in 0 .. (Size - 1)  BY <1>2, <1>3 DEF RelAddr
  <2> QED  BY <1>2, <1>5, <1>11, <2>1 DEF Load, TypeOK
<1>12. ASSUME NEW off \in 0 .. (Size - 1), NEW v \in Vals, Store(off, v) PROVE Typed
  <2>1. RelAddr(off) \in 0 .. (Size - 1)  BY <1>2, <1>3 DEF RelAddr
  <2> QED  BY <1>2, <1>5, <1>12, <2>1 DEF Store, TypeOK
<1>13. ASSUME SendWord PROVE transferAddrReg' \in Nat /\ rdAddrReg' \in 0 .. (Size - 1) /\ Stored
  <2>1. t + 1 \in Nat /\ Index(t + 1) \in 0 .. (Size - 1)  BY <1>2, <1>3
  <2>2. memoryBlock[rdAddrReg] \in Vals  BY <1>5 DEF TypeOK
  <2> QED  BY <1>5, <1>13, <2>1, <2>2 DEF SendWord, TypeOK
<1>14. ASSUME HoldSpill PROVE Typed
  <2>1. refused' \in BOOLEAN /\ lost' \in BOOLEAN
    BY <1>14, StackAssumption DEF HoldSpill, Accept
  <2> QED  BY <1>2, <1>5, <1>13, <1>14, <2>1 DEF HoldSpill, TypeOK, States
<1>15. ASSUME SpillWord PROVE Typed
  BY <1>2, <1>5, <1>13, <1>15 DEF SpillWord, TypeOK, States
<1>16. ASSUME NEW b \in BOOLEAN, WaitSpill(b) PROVE Typed
  <2>1. refused' \in BOOLEAN  BY <1>16 DEF WaitSpill
  <2>2. memTopReg' \in Nat  BY <1>2, <1>16 DEF WaitSpill
  <2> QED  BY <1>2, <1>5, <1>16, <2>1, <2>2 DEF WaitSpill, TypeOK, States
<1>17. ASSUME Fill PROVE Typed
  BY <1>2, <1>5, <1>17, StackAssumption DEF Fill, Accept, TypeOK, States
<1>18. ASSUME FillWord PROVE Typed
  <2>1. Index(t) \in 0 .. (Size - 1) /\ t + 1 \in Nat  BY <1>2, <1>3
  <2>2. ~FillingDone => mem[t] \in Vals
    BY <1>2, <1>5, StackAssumption DEF TypeOK, FillingDone, IInv, OrderInv
  <2>3. Stored  BY <1>5, <1>18, <2>1, <2>2 DEF FillWord, TypeOK
  <2> QED  BY <1>2, <1>5, <1>18, <2>1, <2>3 DEF FillWord, TypeOK, States
<1>19. ASSUME FillError PROVE Typed
  BY <1>2, <1>5, <1>19 DEF FillError, TypeOK, States
<1>20. ASSUME AwaitEnd PROVE Typed
  <2>1. refused' \in BOOLEAN  BY <1>20 DEF AwaitEnd
  <2> QED  BY <1>2, <1>5, <1>20, <2>1 DEF AwaitEnd, TypeOK, States
<1>21. Typed
  BY <1>6, <1>7, <1>8, <1>9, <1>10, <1>11, <1>12, <1>14, <1>15, <1>16, <1>17, <1>18, <1>19, <1>20
     DEF Next, Program, Transfer
<1>22. ASSUME NEW a \in Nat, a <= Base + Size + Burst PROVE a \in Addr
  BY <1>22, StackAssumption DEF Addr
<1>23. stackTopReg' \in Addr /\ memTopReg' \in Addr /\ newMemTopReg' \in Addr
  BY <1>1, <1>2, <1>21, <1>22 DEF OrderInv
<1>24. transferAddrReg' \in Addr
  <2> DEFINE u == transferAddrReg'
  <2>1. u \in Nat  BY <1>21
  <2>2. Align(u) \in Nat /\ u < Align(u) + Burst  BY <2>1, AlignFacts
  <2>3. Align(transferAddrReg)' = Align(u)  BY DEF Align
  <2>4. u <= Base + Size + Burst
    BY <1>1, <1>2, <1>21, <2>1, <2>2, <2>3 DEF BurstInv, States
  <2> QED  BY <1>22, <2>1, <2>4
<1> QED  BY <1>21, <1>23, <1>24 DEF TypeOK

-----------------------------------------------------------------------------
(* The copies *)

LEMMA CopyKept == ASSUME IInv, Next PROVE CopyInv'
<1> DEFINE t == transferAddrReg
<1>1. /\ stackTopReg \in Nat /\ memTopReg \in Nat /\ t \in Nat /\ newMemTopReg \in Nat
      /\ Size \in Nat /\ Size > 0 /\ Base \in Nat /\ Target \in Nat
  BY Numbers DEF IInv
<1>2. \A a \in Nat : Align(a) \in Nat /\ Align(a) <= a  BY AlignFacts
<1> USE DEF IInv, CopyInv, Spilling, Filling
<1>3. ASSUME stateReg' = "idle" PROVE CopyInv'  BY <1>3
<1>4. ASSUME NEW n \in 0 .. Size, Ensure(n) PROVE CopyInv'
  <2>1. transferAddrReg' <= memTopReg' /\ transferAddrReg' \in Nat
    BY <1>1, <1>2, <1>4 DEF Ensure, tops
  <2> QED  BY <1>1, <1>4, <2>1 DEF Ensure, tops
<1>5. ASSUME NEW n \in 0 .. Size, Reserve(n) \/ Spill(n) PROVE CopyInv'
  <2>1. /\ transferAddrReg' <= Target' /\ transferAddrReg' \in Nat /\ Target' \in Nat
        /\ rdAddrReg' = Index(transferAddrReg')
    BY <1>1, <1>2, <1>5, StackAssumption DEF Reserve, Spill, StartAt, Target
  <2>2. stateReg' \in {"idle", "holdSpill"} /\ memTopReg' = memTopReg
    BY <1>5 DEF Reserve, Spill, tops
  <2> QED  BY <1>1, <2>1, <2>2 DEF Index
<1>6. ASSUME SendWord, stateReg \in {"holdSpill", "spill"}, stateReg' \in {"spill", "waitSpill"},
             lost => lost', refused' => lost',
             UNCHANGED <<tops, isReserveReg, newMemTopReg>>
      PROVE  CopyInv'
  <2>1. rdAddrReg' = Index(transferAddrReg')  BY <1>6 DEF SendWord, Index
  <2>2. Target' = Target /\ memTopReg' = memTopReg /\ t = transferAddrReg
    BY <1>6 DEF Target, tops
  <2>3. ASSUME ~lost', NEW a \in Target .. (memTopReg - 1), a < t + 1
        PROVE  mem'[a] = memoryBlock'[Index(a)]
    <3>1. a \in 0 .. (MemWords - 1)
      BY <1>1, <2>3, StackAssumption DEF OrderInv
    <3>2. CASE a = t
      <4>1. WriteEnable  BY <1>1, <2>3, <3>2 DEF WriteEnable
      <4>2. mem' = [mem EXCEPT ![t] = memoryBlock[Index(t)]] /\ memoryBlock' = memoryBlock
        BY <1>6, <2>3, <4>1 DEF SendWord
      <4> QED  BY <3>1, <3>2, <4>2 DEF TypeOK
    <3>3. CASE a # t
      <4>1. mem'[a] = mem[a] /\ memoryBlock' = memoryBlock
        BY <1>6, <3>1, <3>3 DEF SendWord, TypeOK
      <4>2. a < t  BY <1>1, <2>3, <3>3
      <4> QED  BY <1>6, <2>3, <4>1, <4>2
    <3> QED  BY <3>2, <3>3
  <2>4. transferAddrReg' = t + 1  BY <1>6 DEF SendWord
  <2> QED  BY <1>6, <2>1, <2>2, <2>3, <2>4
<1>7. ASSUME HoldSpill PROVE CopyInv'
  BY <1>6, <1>7 DEF HoldSpill
<1>8. ASSUME SpillWord PROVE CopyInv'
  <2>1. refused' => lost'  BY <1>8 DEF SpillWord, RoomInv, env
  <2> QED  BY <1>6, <1>8, <2>1 DEF SpillWord, env
<1>9. ASSUME NEW b \in BOOLEAN, WaitSpill(b) PROVE CopyInv'
  <2>1. /\ Target' = Target /\ UNCHANGED <<ports, data, lost>>
        /\ memTopReg' \in {memTopReg, Target} /\ stateReg = "waitSpill"
        /\ stateReg' \in {"idle", "waitSpill", "holdSpill"}
    BY <1>9 DEF WaitSpill, Target, ports
  <2> QED  BY <1>1, <2>1 DEF ports, data, Index
<1>10. ASSUME Fill PROVE CopyInv'
  BY <1>10 DEF Fill, tops, ports, data
<1>11. ASSUME FillWord, stateReg' # "idle" PROVE CopyInv'
  <2>1. /\ newMemTopReg <= stackTopReg + Size /\ stackTopReg <= memTopReg
        /\ newMemTopReg <= Base /\ stateReg = "waitFill"
    BY <1>11 DEF FillWord, RoomInv, OrderInv
  <2>2. CASE FillingDone
    BY <1>1, <1>11, <2>2 DEF FillWord, FillingDone
  <2>3. ASSUME ~FillingDone, NEW a \in memTopReg .. (newMemTopReg - 1), a < t + 1
        PROVE  memoryBlock'[Index(a)] = mem'[a]
    <3>1. mem' = mem  BY <1>11 DEF FillWord
    <3>2. a \in Nat /\ Index(a) \in 0 .. (Size - 1) /\ Index(t) \in 0 .. (Size - 1)
      BY <1>1, IndexType
    <3>3. CASE a = t
      <4>1. memoryBlock' = [memoryBlock EXCEPT ![Index(t)] = mem[t]]
        BY <1>1, <1>11, <2>3, <3>3 DEF FillWord
      <4> QED  BY <3>1, <3>2, <3>3, <4>1 DEF TypeOK
    <3>4. CASE a # t
      <4>1. a < t /\ t < newMemTopReg  BY <1>1, <2>3, <3>4 DEF FillingDone
      <4>2. Index(a) # Index(t)
        BY <1>1, <2>1, <3>2, <3>4, <4>1, IndexApart
      <4>3. memoryBlock'[Index(a)] = memoryBlock[Index(a)]
        BY <1>11, <3>2, <4>2 DEF FillWord, TypeOK
      <4> QED  BY <2>1, <2>3, <3>1, <4>1, <4>3
    <3> QED  BY <3>3, <3>4
  <2>4. ASSUME ~FillingDone
        PROVE  /\ memTopReg' = memTopReg /\ newMemTopReg' = newMemTopReg
               /\ transferAddrReg' = t + 1 /\ stateReg' \in {"waitFill", "fill"}
    BY <1>11, <2>4 DEF FillWord
  <2> QED  BY <2>2, <2>3, <2>4
<1>12. ASSUME FillError \/ AwaitEnd PROVE CopyInv'
  BY <1>12 DEF FillError, AwaitEnd
<1>13. ASSUME SetStackTop \/ SetMemTop \/ (\E n \in 0 .. Base : Free(n))
                \/ (\E off \in 0 .. (Size - 1) : Load(off) \/ \E v \in Vals : Store(off, v))
       PROVE  stateReg' = "idle"
  BY <1>13 DEF SetStackTop, SetMemTop, Free, Load, Store, Running
<1> QED  BY <1>3, <1>4, <1>5, <1>7, <1>8, <1>9, <1>10, <1>11, <1>12, <1>13
            DEF Next, Program, Transfer

-----------------------------------------------------------------------------
(* Theorems *)

LEMMA StepIInv == IInv /\ [Next]_vars => IInv'
<1> SUFFICES ASSUME IInv, [Next]_vars PROVE IInv'  OBVIOUS
<1>1. CASE Next
  BY <1>1, TypeKept, OrderKept, RoomKept, BurstKept, CopyKept DEF IInv
<1>2. CASE UNCHANGED vars
  BY <1>2 DEF vars, tops, ports, data, env, IInv, TypeOK, OrderInv, RoomInv, BurstInv, CopyInv,
              Ready, Spilling, Filling, Target, Align, Index
<1> QED  BY <1>1, <1>2

LEMMA Invariant == Spec => []IInv
  BY InitIInv, StepIInv, PTL DEF Spec

\* No register of the cache leaves its range, transferAddrReg included, which
\* runs ahead of the stack by up to a burst.
THEOREM TypeCorrect == Spec => []TypeOK
<1>1. IInv => TypeOK  BY DEF IInv
<1> QED  BY <1>1, Invariant, PTL

\* Between operations the tops are in order and what is between them fits
\* into the cache, whatever the program reserved, freed, spilled and ensured.
THEOREM OrderedTops == Spec => []TopsOrdered
<1>1. IInv => TopsOrdered
  BY DEF IInv, OrderInv, RoomInv, TopsOrdered, Running, Ready
<1> QED  BY <1>1, Invariant, PTL

\* A spill changes words between the tops only.
THEOREM SpillsOwnWords == Spec => OwnWordsOnly
<1> DEFINE Own == \A a \in 0 .. (MemWords - 1) :
                     mem'[a] # mem[a] => stackTopReg <= a /\ a < memTopReg
<1>1. ASSUME IInv, Next PROVE Own
  <2>1. CASE mem' = mem  BY <2>1
  <2>2. CASE mem' # mem
    <3>1. SendWord /\ stateReg \in {"holdSpill", "spill"}
      BY <1>1, <2>2 DEF Next, Program, Transfer, SetStackTop, SetMemTop, Ensure, Reserve, Spill,
           Free, Load, Store, WaitSpill, Fill, FillWord, FillError, AwaitEnd, data,
           HoldSpill, SpillWord
    <3>2. /\ WriteEnable
          /\ mem' = [mem EXCEPT ![transferAddrReg] = memoryBlock[rdAddrReg]]
      BY <2>2, <3>1 DEF SendWord
    <3>3. stackTopReg <= Target  BY <1>1, <3>1 DEF IInv, RoomInv, Spilling
    <3>4. stackTopReg <= transferAddrReg /\ transferAddrReg < memTopReg
      BY <1>1, <3>2, <3>3, Numbers DEF IInv, WriteEnable
    <3> QED  BY <1>1, <3>2, <3>4 DEF IInv, TypeOK
  <2> QED  BY <2>1, <2>2
<1>2. IInv /\ [Next]_vars => [Own]_vars  BY <1>1
<1> QED  BY <1>2, Invariant, PTL DEF Spec, OwnWordsOnly

-----------------------------------------------------------------------------
(* The cache implements a stack *)

LEMMA StackInit == Init => Plain!Init
  BY StackAssumption DEF Init, Plain!Init, Ready

\* What the program finds depends on the tops and on the two memories only.
LEMMA Unseen ==
  ASSUME UNCHANGED <<tops, memoryBlock, mem, answer, configured, lost>>
  PROVE  [Plain!Next]_(Plain!svars)
  BY DEF tops, Plain!svars, Contents, Ready, Index

\* The same for a transfer of words, which changes these but not the contents.
LEMMA Moved ==
  ASSUME IInv, Ready, UNCHANGED <<stackTopReg, answer, configured, lost>>,
         \A a \in stackTopReg .. (Base - 1) : Contents'[a] = Contents[a]
  PROVE  [Plain!Next]_(Plain!svars)
<1>1. Contents' = Contents  BY DEF Contents
<1>2. Ready'  BY DEF Ready
<1> QED  BY <1>1, <1>2 DEF Plain!svars

LEMMA StackStep == ASSUME IInv, Next PROVE [Plain!Next]_(Plain!svars)
<1>a. CASE lost'  BY <1>a DEF Plain!Next, Plain!Lose
<1> SUFFICES ASSUME ~lost' PROVE [Plain!Next]_(Plain!svars)  BY <1>a
<1>0. ~lost
  <2>1. lost => lost'
    BY DEF Next, Program, Transfer, SetStackTop, SetMemTop, Ensure, Reserve, Spill, Free, Load,
         Store, WaitSpill, Fill, FillWord, FillError, AwaitEnd, HoldSpill, SpillWord, env
  <2> QED  BY <2>1
<1> USE DEF IInv
<1>1. /\ stackTopReg \in Nat /\ memTopReg \in Nat /\ transferAddrReg \in Nat
      /\ newMemTopReg \in Nat /\ Target \in Nat /\ Size \in Nat /\ Size > 0 /\ Base \in Nat
  BY Numbers
<1>2. ~Ready => stateReg = "idle"  BY DEF OrderInv
<1>3. CASE SetStackTop \/ SetMemTop
  <2>1. ~Ready /\ UNCHANGED <<answer, lost>>
    BY <1>3 DEF SetStackTop, SetMemTop, Ready, data
  <2>2. CASE ~Ready'
    BY <2>1, <2>2 DEF Plain!svars
  <2>3. CASE Ready'
    <3>1. stackTopReg' = Base
      BY <1>3, <2>1, <2>3 DEF SetStackTop, SetMemTop, OrderInv, Ready
    <3>2. Contents' = [a \in Base .. (Base - 1) |-> 0]
      BY <1>1, <3>1 DEF Contents
    <3> QED  BY <2>1, <2>3, <3>1, <3>2 DEF Plain!svars
  <2> QED  BY <2>2, <2>3
<1>4. ASSUME NEW n \in 0 .. Size, Ensure(n) \/ Spill(n) PROVE [Plain!Next]_(Plain!svars)
  BY <1>4, Unseen DEF Ensure, Spill, data, env
<1>5. ASSUME NEW n \in 0 .. Size, Reserve(n) PROVE [Plain!Next]_(Plain!svars)
  <2>1. /\ Ready /\ Ready' /\ UNCHANGED <<memTopReg, data, lost, answer>>
        /\ stackTopReg' = stackTopReg - n /\ Floor <= stackTopReg - n
    BY <1>5 DEF Reserve, Running, Ready, env, data
  <2>2. stackTopReg' \in 0 .. stackTopReg
    BY <1>1, <2>1, StackAssumption
  <2>3. DOMAIN Contents' = stackTopReg' .. (Base - 1)  BY DEF Contents
  <2>4. \A a \in stackTopReg .. (Base - 1) : Contents'[a] = Contents[a]
    BY <1>1, <2>1, <2>2 DEF Contents, data, Index
  <2> QED  BY <2>1, <2>2, <2>3, <2>4 DEF Plain!Next, Plain!Reserve
<1>6. ASSUME NEW n \in 0 .. Base, Free(n) PROVE [Plain!Next]_(Plain!svars)
  <2>1. /\ Ready /\ Ready' /\ UNCHANGED <<memoryBlock, mem, answer, lost>>
        /\ stackTopReg' = stackTopReg + n /\ stackTopReg + n <= Base
    BY <1>6 DEF Free, Running, Ready, env, data
  <2>2. memTopReg' = IF memTopReg < stackTopReg + n THEN stackTopReg + n ELSE memTopReg
    BY <1>6, <2>1, Comparisons DEF Free
  <2>3. stackTopReg' \in stackTopReg .. Base  BY <1>1, <2>1
  <2>4. Contents' = [a \in stackTopReg' .. (Base - 1) |-> Contents[a]]
    BY <1>1, <2>1, <2>2, <2>3 DEF Contents, Index
  <2> QED  BY <2>1, <2>3, <2>4 DEF Plain!Next, Plain!Free
<1>7. ASSUME NEW off \in 0 .. (Size - 1), Load(off) PROVE [Plain!Next]_(Plain!svars)
  <2> DEFINE a == stackTopReg + off
  <2>1. /\ Ready /\ Ready' /\ UNCHANGED <<tops, memoryBlock, mem, lost>>
        /\ a < memTopReg /\ answer' = memoryBlock[Index(a)]
    BY <1>7 DEF Load, Running, Ready, Cached, RelAddr, tops, env
  <2>2. a \in stackTopReg .. (Base - 1)  BY <1>1, <2>1 DEF OrderInv
  <2>3. answer' = Contents[a]  BY <2>1, <2>2 DEF Contents
  <2>4. Contents' = Contents /\ stackTopReg' = stackTopReg
    BY <2>1 DEF Contents, tops, Index
  <2> QED  BY <2>1, <2>2, <2>3, <2>4 DEF Plain!Next, Plain!Load
<1>8. ASSUME NEW off \in 0 .. (Size - 1), NEW v \in Vals, Store(off, v)
      PROVE  [Plain!Next]_(Plain!svars)
  <2> DEFINE a == stackTopReg + off
  <2>1. /\ Ready /\ Ready' /\ UNCHANGED <<tops, mem, answer, lost>> /\ stateReg = "idle"
        /\ a < memTopReg /\ memoryBlock' = [memoryBlock EXCEPT ![Index(a)] = v]
    BY <1>8 DEF Store, Running, Ready, Cached, RelAddr, tops, env
  <2>2. a \in stackTopReg .. (Base - 1) /\ a \in Nat  BY <1>1, <2>1 DEF OrderInv
  <2>3. memTopReg <= stackTopReg + Size  BY <1>0, <2>1 DEF RoomInv
  <2>4. ASSUME NEW b \in stackTopReg .. (Base - 1), b # a PROVE Contents'[b] = Contents[b]
    <3>1. CASE b < memTopReg
      <4>1. Index(b) # Index(a)  BY <1>1, <2>1, <2>2, <2>3, <2>4, <3>1, IndexApart
      <4>2. memoryBlock'[Index(b)] = memoryBlock[Index(b)]
        BY <1>1, <2>1, <4>1, IndexType DEF TypeOK
      <4> QED  BY <2>1, <4>2, <3>1 DEF Contents, tops, Index
    <3>2. CASE ~(b < memTopReg)
      BY <2>1, <3>2 DEF Contents, tops
    <3> QED  BY <3>1, <3>2
  <2>5. Contents'[a] = v
    BY <1>1, <2>1, <2>2, IndexType DEF Contents, tops, Index, TypeOK
  <2>6. Contents' = [Contents EXCEPT ![a] = v]
    BY <2>1, <2>2, <2>4, <2>5 DEF Contents, tops
  <2>7. stackTopReg' = stackTopReg  BY <2>1 DEF tops
  <2> QED  BY <2>1, <2>2, <2>6, <2>7 DEF Plain!Next, Plain!Store
<1>9. ASSUME SendWord, UNCHANGED <<tops, configured, lost>>, Ready
      PROVE  [Plain!Next]_(Plain!svars)
  <2>1. \A a \in stackTopReg .. (Base - 1) : Contents'[a] = Contents[a]
    <3>1. \A a \in memTopReg .. (Base - 1) : mem'[a] = mem[a]
      BY <1>1, <1>9, StackAssumption DEF SendWord, WriteEnable, TypeOK
    <3> QED  BY <1>1, <1>9, <3>1 DEF SendWord, Contents, tops, Index
  <2> QED  BY <1>9, <2>1, Moved DEF SendWord, tops
<1>10. CASE HoldSpill \/ SpillWord
  <2>1. lost' = lost  BY <1>0, TypeKept DEF TypeOK
  <2>2. SendWord /\ Ready /\ UNCHANGED <<tops, configured>>
    BY <1>2, <1>10 DEF HoldSpill, SpillWord, env
  <2> QED  BY <1>9, <2>1, <2>2
<1>11. ASSUME NEW b \in BOOLEAN, WaitSpill(b) PROVE [Plain!Next]_(Plain!svars)
  <2>1. /\ Spilling /\ Ready /\ UNCHANGED <<stackTopReg, memoryBlock, mem, answer, configured, lost>>
        /\ memTopReg' = memTopReg \/ (SpillingDone /\ memTopReg' = Target)
    BY <1>2, <1>11 DEF WaitSpill, Spilling, data
  <2>2. ASSUME NEW a \in stackTopReg .. (Base - 1), SpillingDone, memTopReg' = Target
        PROVE  Contents'[a] = Contents[a]
    <3>1. Target <= memTopReg  BY <2>1 DEF RoomInv
    <3>2. CASE a \in Target .. (memTopReg - 1)
      <4>1. a < transferAddrReg  BY <1>1, <2>2, <3>2 DEF SpillingDone
      <4>2. mem[a] = memoryBlock[Index(a)]  BY <1>0, <2>1, <3>2, <4>1 DEF CopyInv
      <4> QED  BY <1>1, <2>1, <2>2, <3>2, <4>2 DEF Contents, Index
    <3>3. CASE a \notin Target .. (memTopReg - 1)
      BY <1>1, <2>1, <2>2, <3>1, <3>3 DEF Contents, Index
    <3> QED  BY <3>2, <3>3
  <2>3. ASSUME NEW a \in stackTopReg .. (Base - 1), memTopReg' = memTopReg
        PROVE  Contents'[a] = Contents[a]
    BY <2>1, <2>3 DEF Contents, Index
  <2> QED  BY <2>1, <2>2, <2>3, Moved
<1>12. CASE Fill \/ FillError \/ AwaitEnd
  BY <1>12, Unseen DEF Fill, FillError, AwaitEnd, data, env
<1>13. CASE FillWord
  <2>1. /\ stateReg = "waitFill" /\ Ready /\ UNCHANGED <<stackTopReg, mem, answer, configured, lost>>
        /\ stackTopReg <= memTopReg /\ memTopReg <= newMemTopReg
        /\ newMemTopReg <= stackTopReg + Size
    BY <1>2, <1>13 DEF FillWord, env, OrderInv, RoomInv, Filling
  <2>2. CASE FillingDone
    <3>1. memTopReg' = newMemTopReg /\ memoryBlock' = memoryBlock
      BY <1>13, <2>2 DEF FillWord
    <3>2. \A a \in stackTopReg .. (Base - 1) : Contents'[a] = Contents[a]
      BY <1>1, <2>1, <2>2, <3>1 DEF Contents, CopyInv, FillingDone, Index
    <3> QED  BY <2>1, <3>2, Moved
  <2>3. CASE ~FillingDone
    <3> DEFINE t == transferAddrReg
    <3>1. memTopReg' = memTopReg /\ t < newMemTopReg
      BY <1>1, <1>13, <2>3 DEF FillWord, FillingDone
    <3>2. ASSUME NEW a \in stackTopReg .. (memTopReg - 1)
          PROVE  memoryBlock'[Index(a)] = memoryBlock[Index(a)]
      <4>1. CASE memTopReg <= t
        <5>1. a \in Nat /\ a # t /\ a - t < Size /\ t - a < Size
          BY <1>1, <2>1, <3>1, <4>1
        <5>2. Index(a) # Index(t) /\ Index(a) \in 0 .. (Size - 1)
          BY <1>1, <5>1, IndexApart, IndexType
        <5> QED  BY <1>13, <2>3, <4>1, <5>2 DEF FillWord, TypeOK
      <4>2. CASE ~(memTopReg <= t)
        BY <1>13, <4>2 DEF FillWord
      <4> QED  BY <4>1, <4>2
    <3>3. \A a \in stackTopReg .. (Base - 1) : Contents'[a] = Contents[a]
      BY <1>1, <2>1, <3>1, <3>2 DEF Contents, Index
    <3> QED  BY <2>1, <3>3, Moved
  <2> QED  BY <2>2, <2>3
<1> QED  BY <1>3, <1>4, <1>5, <1>6, <1>7, <1>8, <1>10, <1>11, <1>12, <1>13
            DEF Next, Program, Transfer

\* Under the mapping Contents, every step of the cache is a step of a stack or
\* invisible: loads return what was stored, however often the words moved.
THEOREM CacheIsStack == Spec => IsStack
<1>1. ASSUME IInv, [Next]_vars PROVE [Plain!Next]_(Plain!svars)
  <2>1. CASE Next  BY <1>1, <2>1, StackStep
  <2>2. CASE UNCHANGED vars
    BY <2>2, Unseen DEF vars, tops, data, env
  <2> QED  BY <1>1, <2>1, <2>2
<1>2. IInv /\ [Next]_vars => [Plain!Next]_(Plain!svars)  BY <1>1
<1> QED  BY <1>2, StackInit, Invariant, PTL DEF Spec, IsStack, Plain!Spec

=============================================================================
