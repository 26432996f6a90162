-------------------------- MODULE ObscureStrProofs --------------------------
(* Proofs about ObscureStr, for every seed, literal and value of __COUNTER__. *)
EXTENDS ObscureStr, TLAPS

Pair == Nat \X Nat
Zero == <<0, 0>>

(***************************************************************************)
(* The generator never falls to 0 (lines 57-64).                           *)
(***************************************************************************)
LEMMA DivMod ==
  ASSUME NEW n \in Nat, NEW d \in Nat \ {0}
  PROVE  /\ n \div d \in Nat /\ n % d \in Nat
         /\ n = d * (n \div d) + (n % d)
BY SMT

LEMMA Sum3NotZero ==
  ASSUME NEW lo \in Nat, NEW hi \in Nat
  PROVE  /\ Sum3(lo, hi) \in Pair
         /\ Sum3(lo, hi) = Zero => lo = 0 /\ hi = 0
<1> DEFINE low == (lo % 65536) + (hi % 65536)
           up == (lo \div 65536) + (hi % 32768) + (hi \div 65536) + (low \div 65536)
<1>0. /\ lo \div 65536 \in Nat /\ lo % 65536 \in Nat /\ lo = 65536 * (lo \div 65536) + (lo % 65536)
      /\ hi \div 65536 \in Nat /\ hi % 65536 \in Nat /\ hi = 65536 * (hi \div 65536) + (hi % 65536)
      /\ hi % 32768 \in Nat
  BY DivMod
<1>1. low \in Nat
  BY <1>0
<1>2. low \div 65536 \in Nat /\ low % 65536 \in Nat /\ low = 65536 * (low \div 65536) + (low % 65536)
  <2> HIDE DEF low
  <2> QED BY <1>1, DivMod
<1>3. up \in Nat
  BY <1>0, <1>2
<1>4. Sum3(lo, hi) = <<up, low % 65536>>
  BY DEF Sum3
<1>5. ASSUME up = 0, low % 65536 = 0 PROVE lo = 0 /\ hi = 0
  <2>1. lo \div 65536 = 0 /\ hi \div 65536 = 0 /\ low \div 65536 = 0
    BY <1>0, <1>2, <1>5
  <2>2. low = 0
    <3> HIDE DEF low
    <3> QED BY <1>1, <1>2, <1>5, <2>1
  <2>3. lo % 65536 = 0 /\ hi % 65536 = 0
    BY <1>0, <2>2
  <2> QED BY <1>0, <2>1, <2>3
<1> QED BY <1>2, <1>3, <1>4, <1>5 DEF Pair, Zero

LEMMA ValueNotZero ==
  ASSUME NEW w \in Pair, w # Zero
  PROVE  value(w) \in Pair /\ value(w) # Zero
<1>1. PICK x \in Nat, y \in Nat : w = <<x, y>> /\ (x # 0 \/ y # 0)
  BY DEF Pair, Zero
<1>2. a * y \in Nat /\ a * x \in Nat /\ (a * x = 0 => x = 0) /\ (a * y = 0 => y = 0)
  BY DEF a
<1>3. Sum3(a * y, a * x) \in Pair /\ Sum3(a * y, a * x) # Zero
  BY <1>1, <1>2, Sum3NotZero
<1>4. PICK u \in Nat, v \in Nat : Sum3(a * y, a * x) = <<u, v>>
  BY <1>3 DEF Pair
<1>5. value(w) = Reduced(<<u, v>>)
  BY <1>1, <1>4 DEF value
<1>6. Reduced(<<u, v>>) \in Pair /\ Reduced(<<u, v>>) # Zero
  <2>1. CASE u < 32768
    BY <1>3, <1>4, <2>1 DEF Reduced, Pair, Zero
  <2>2. CASE u >= 32768 /\ v = 65535
    BY <2>2 DEF Reduced, Pair, Zero
  <2>3. CASE u >= 32768 /\ v # 65535
    BY <2>3 DEF Reduced, Pair, Zero
  <2> QED BY <2>1, <2>2, <2>3
<1> QED BY <1>5, <1>6

LEMMA SeedNotZero ==
  ASSUME NEW t \in Nat
  PROVE  Seed(t) \in Pair /\ (Seed(t) = Zero => t = 0)
BY DivMod DEF Seed, Pair, Zero

(***************************************************************************)
(* Bytes: exclusive or is its own inverse, and the key read by the loop    *)
(* after n rotations is the one ByteShifter picks for byte n.              *)
(***************************************************************************)
LEMMA XorTwice ==
  ASSUME NEW x, NEW y
  PROVE  Xor(Xor(x, y), y) = x
BY DEF Xor

LEMMA BytesDomain ==
  ASSUME NEW w
  PROVE  Bytes(w) = [k \in 0 .. 3 |-> Bytes(w)[k]]
BY DEF Bytes

LEMMA Mod4 ==
  ASSUME NEW n \in Nat, NEW k \in 0 .. 3
  PROVE  /\ (k + 1) % 4 \in 0 .. 3
         /\ (n + ((k + 1) % 4)) % 4 = ((n + 1) + k) % 4
         /\ n % 4 \in 0 .. 3 /\ (n + 0) % 4 = n % 4 /\ (0 + k) % 4 = k
BY SMT

(***************************************************************************)
(* The inductive invariant.                                                *)
(***************************************************************************)
Shape == /\ p \in Nat /\ seed \in Nat /\ s \in Pair
         /\ DOMAIN str = DOMAIN plain /\ str = [k \in DOMAIN plain |-> str[k]]
         /\ \E n \in Nat : DOMAIN plain = 0 .. n
KeyInStep == key = [k \in 0 .. 3 |-> ByteShifter(s, p + k)]
IInv == /\ Shape /\ (~included => Done) /\ (~Done => KeyInStep)
        /\ Restored /\ ClearOnlyAtMidnight

LEMMA InitIInv == Init => IInv
<1> SUFFICES ASSUME Init PROVE IInv
  OBVIOUS
<1> USE DEF Init
<1>1. seed \in Nat
  BY ObscureAssumption DEF ObscureAssumption, Day
<1>2. s \in Pair /\ ClearOnlyAtMidnight
  BY <1>1, SeedNotZero DEF ClearOnlyAtMidnight, Zero
<1>3. DOMAIN plain = 0 .. 0 /\ DOMAIN str = DOMAIN plain /\ str = [k \in DOMAIN plain |-> str[k]]
  <2>1. 0 .. 0 = {0}
    BY SMT
  <2> QED BY <2>1
<1>4. Shape
  BY <1>1, <1>2, <1>3 DEF Shape
<1>5. Done /\ Restored
  BY <1>3 DEF Done, Restored
<1> QED BY <1>2, <1>4, <1>5 DEF IInv

\* A draw keeps the key a word that is not 0.
LEMMA DrawnKey ==
  ASSUME IInv, s' = value(s), seed' = seed
  PROVE  s' \in Pair /\ ClearOnlyAtMidnight'
<1>1. CASE s = Zero
  <2>1. seed' = 0
    BY <1>1 DEF IInv, ClearOnlyAtMidnight, Zero
  <2>2. s' \in Pair
    <3>1. a * 0 = 0
      BY DEF a
    <3>2. Sum3(0, 0) \in Pair
      BY Sum3NotZero
    <3>3. PICK u \in Nat, v \in Nat : Sum3(0, 0) = <<u, v>>
      BY <3>2 DEF Pair
    <3>4. Reduced(<<u, v>>) \in Pair
      BY DEF Reduced, Pair
    <3> QED BY <1>1, <3>1, <3>3, <3>4 DEF value, Zero
  <2> QED BY <2>1, <2>2 DEF ClearOnlyAtMidnight
<1>2. CASE s # Zero
  <2>1. s' \in Pair /\ s' # Zero
    BY <1>2, ValueNotZero DEF IInv, Shape
  <2> QED BY <2>1 DEF ClearOnlyAtMidnight, Zero
<1> QED BY <1>1, <1>2

\* Before the header has been read there is no string that is still obscured.
LEMMA DrawIInv ==
  ASSUME IInv, CountElsewhere \/ Include
  PROVE  IInv'
<1>1. ~included /\ s' = value(s) /\ UNCHANGED <<seed, plain, str, key, p>>
  BY DEF CountElsewhere, Include
<1>2. s' \in Pair /\ ClearOnlyAtMidnight'
  BY <1>1, DrawnKey
<1>3. Done /\ Done'
  BY <1>1 DEF IInv, Done
<1>4. \A k \in DOMAIN str : k < p
  <2>1. PICK n \in Nat : DOMAIN str = 0 .. n
    BY DEF IInv, Shape
  <2> QED BY <1>3, <2>1 DEF Done, IInv, Shape
<1>5. Restored'
  BY <1>1, <1>4 DEF Restored, IInv
<1>6. Shape'
  BY <1>1, <1>2 DEF IInv, Shape
<1> QED BY <1>2, <1>3, <1>5, <1>6 DEF IInv

LEMMA ObscureIInv ==
  ASSUME IInv, Obscure
  PROVE  IInv'
<1> USE DEF Obscure
<1>1. \E n \in Nat : plain' \in [0 .. n -> Byte]
  BY ObscureAssumption DEF ObscureAssumption, Day
<1>2. ClearOnlyAtMidnight'
  BY DEF IInv, ClearOnlyAtMidnight
<1>3. Shape'
  BY <1>1 DEF IInv, Shape
<1>4. KeyInStep'
  <2>1. \A k \in 0 .. 3 : p' + k = k /\ k % 4 = k
    BY SMT
  <2> QED BY <2>1, BytesDomain DEF KeyInStep, ByteShifter
<1>5. Restored'
  <2>1. \A k \in DOMAIN str' : ~(k < p')
    BY <1>1
  <2> QED BY <2>1 DEF Restored, ByteShifter
<1> QED BY <1>2, <1>3, <1>4, <1>5 DEF IInv

LEMMA DeobscureIInv ==
  ASSUME IInv, Deobscure
  PROVE  IInv'
<1> USE DEF Deobscure
<1>1. PICK n \in Nat : DOMAIN plain = 0 .. n
  BY DEF IInv, Shape
<1>2. p \in 0 .. n /\ KeyInStep
  BY <1>1 DEF IInv, Shape, Done
<1>3. Shape'
  <2>1. Shape
    BY DEF IInv
  <2>2. DOMAIN str' = DOMAIN plain /\ str' = [k \in DOMAIN plain |-> str'[k]]
    BY <2>1 DEF Shape
  <2>3. p' \in Nat /\ UNCHANGED <<seed, s, plain>>
    BY <2>1 DEF Shape
  <2> QED BY <1>1, <2>1, <2>2, <2>3 DEF Shape
<1>4. key[0] = ByteShifter(s, p)
  BY <1>2 DEF KeyInStep
<1>5. KeyInStep'
  <2>1. ASSUME NEW k \in 0 .. 3
        PROVE  key[(k + 1) % 4] = ByteShifter(s, (p + 1) + k)
    BY <1>2, Mod4 DEF KeyInStep, ByteShifter
  <2> QED BY <2>1 DEF KeyInStep, RotatedKey, ByteShifter
<1>6. Restored'
  <2> SUFFICES ASSUME NEW k \in 0 .. n
               PROVE  str'[k] = IF k < p + 1 THEN plain[k] ELSE Xor(plain[k], ByteShifter(s, k))
    BY <1>1 DEF IInv, Shape, Restored, ByteShifter
  <2>1. str[k] = IF k < p THEN plain[k] ELSE Xor(plain[k], ByteShifter(s, k))
    BY <1>1 DEF IInv, Shape, Restored
  <2>2. CASE k = p
    <3>1. str'[k] = Xor(str[k], key[0])
      BY <1>1, <2>2 DEF IInv, Shape
    <3>2. str[k] = Xor(plain[k], ByteShifter(s, k))
      BY <1>2, <2>1, <2>2
    <3> QED BY <1>2, <1>4, <2>2, <3>1, <3>2, XorTwice
  <2>3. CASE k # p
    <3>1. str'[k] = str[k]
      BY <1>1, <2>3 DEF IInv, Shape
    <3>2. k < p + 1 <=> k < p
      BY <1>2, <2>3
    <3> QED BY <2>1, <3>1, <3>2
  <2> QED BY <2>2, <2>3
<1>7. ClearOnlyAtMidnight'
  BY DEF IInv, ClearOnlyAtMidnight
<1>8. included'
  BY DEF IInv
<1> QED BY <1>3, <1>5, <1>6, <1>7, <1>8 DEF IInv

LEMMA StutterIInv ==
  ASSUME IInv, UNCHANGED vars
  PROVE  IInv'
BY DEF IInv, Shape, Done, KeyInStep, Restored, ClearOnlyAtMidnight, ByteShifter, vars

LEMMA InductiveIInv == Spec => []IInv
<1>1. IInv /\ [Next]_vars => IInv'
  BY DrawIInv, ObscureIInv, DeobscureIInv, StutterIInv DEF Next
<1> QED BY InitIInv, <1>1, PTL DEF Spec

\* Every byte is turned back with the key byte that obscured it, for literals
\* of every length (lines 94-100 and 112-113).
THEOREM SpecRestored == Spec => []Restored
<1>1. IInv => Restored
  BY DEF IInv
<1> QED BY InductiveIInv, <1>1, PTL

\* However often __COUNTER__ was used before, only a unit compiled at midnight sharp
\* draws the key 0 (lines 57-69 and 80-81).
THEOREM SpecClearOnlyAtMidnight == Spec => []ClearOnlyAtMidnight
<1>1. IInv => ClearOnlyAtMidnight
  BY DEF IInv
<1> QED BY InductiveIInv, <1>1, PTL
=============================================================================
