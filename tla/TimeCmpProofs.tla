----------------------------- MODULE TimeCmpProofs -----------------------------
(***************************************************************************)
(* Proofs about TimeCmp, for every number of timer bits and every word     *)
(* that a timer fits in.  The inductive invariant is that a timer and the  *)
(* time it stands for leave the same remainder: masking, the width of the  *)
(* word and a constructor that does not mask all preserve just that.       *)
(***************************************************************************)
EXTENDS TimeCmp, TLAPS

-----------------------------------------------------------------------------
(* Remainders *)

\* Division with remainder.
LEMMA Quotient ==
  ASSUME NEW n \in Nat \ {0}, NEW a \in Int
  PROVE  /\ a % n \in 0 .. n - 1
         /\ \E q \in Int : a = q * n + (a % n)
  <1>1. a \div n \in Int  OBVIOUS
  <1>2. a = (a \div n) * n + (a % n)  OBVIOUS
  <1>3. a % n \in 0 .. n - 1  OBVIOUS
  <1> QED  BY <1>1, <1>2, <1>3

\* The remainder is the only number below n that differs by a multiple of n.
LEMMA Remainder ==
  ASSUME NEW n \in Nat \ {0}, NEW q \in Int, NEW r \in 0 .. n - 1
  PROVE  (q * n + r) % n = r
  <1>1. q * n \in Int  OBVIOUS
  <1> DEFINE a == q * n + r
  <1>2. a \in Int  BY <1>1
  <1>3. PICK p \in Int : a = p * n + (a % n)  BY <1>2, Quotient
  <1>4. a % n \in 0 .. n - 1  BY <1>2, Quotient
  <1>5. (p - q) * n = r - (a % n)  BY <1>3, <1>4, <1>1
  <1>6. p = q
    <2>1. CASE p - q >= 1
      <3>1. (p - q) * n >= n  BY <2>1
      <3> QED  BY <3>1, <1>5, <1>4
    <2>2. CASE q - p >= 1
      <3>1. (q - p) * n >= n  BY <2>2
      <3>2. (p - q) * n = -((q - p) * n)  OBVIOUS
      <3> QED  BY <3>1, <3>2, <1>5, <1>4
    <2> QED  BY <2>1, <2>2
  <1> QED  BY <1>5, <1>6, <1>3, <1>4, <1>1

\* A multiple of n does not change the remainder.
LEMMA RemainderOfSum ==
  ASSUME NEW n \in Nat \ {0}, NEW a \in Int, NEW k \in Int
  PROVE  (a + k * n) % n = a % n
  <1>1. PICK q \in Int : a = q * n + (a % n)  BY Quotient
  <1>2. a % n \in 0 .. n - 1  BY Quotient
  <1>3. a + k * n = (q + k) * n + (a % n)  BY <1>1, <1>2
  <1>4. q + k \in Int  OBVIOUS
  <1>5. ((q + k) * n + (a % n)) % n = a % n  BY <1>2, <1>4, Remainder
  <1> QED  BY <1>3, <1>5

-----------------------------------------------------------------------------
(* Masked words *)

\* A masked time is one of the timer's values.
LEMMA MaskedType ==
  ASSUME NEW a \in Int
  PROVE  Masked(a) \in 0 .. Values - 1
  BY Quotient, TimeAssumption DEF Masked, TimeAssumption

\* Whole roll-overs do not show in the masked bits.
LEMMA MaskedShift ==
  ASSUME NEW a \in Int, NEW k \in Int
  PROVE  Masked(a + k * Values) = Masked(a)
  BY RemainderOfSum, TimeAssumption DEF Masked, TimeAssumption

\* Times with the same masked bits differ by whole roll-overs.
LEMMA MaskedDifference ==
  ASSUME NEW a \in Int, NEW b \in Int, Masked(a) = Masked(b)
  PROVE  \E k \in Int : a = b + k * Values
  <1>1. PICK p \in Int : a = p * Values + Masked(a)
    BY Quotient, TimeAssumption DEF Masked, TimeAssumption
  <1>2. PICK q \in Int : b = q * Values + Masked(b)
    BY Quotient, TimeAssumption DEF Masked, TimeAssumption
  <1>3. Masked(b) \in Int  BY MaskedType
  <1>4. Values \in Int  BY TimeAssumption DEF TimeAssumption
  <1>5. a = b + (p - q) * Values  BY <1>1, <1>2, <1>3, <1>4
  <1> QED  BY <1>5

\* The word is a whole number of roll-overs wide, so that its own overflow does
\* not show in the masked bits.
LEMMA MaskedWord ==
  ASSUME NEW a \in Int
  PROVE  a % Word \in 0 .. Word - 1 /\ Masked(a % Word) = Masked(a)
  <1>1. Word \in Nat \ {0} /\ Values \in Nat \ {0} /\ Word % Values = 0
    BY TimeAssumption DEF TimeAssumption
  <1>2. Word \in Int  BY <1>1
  <1>3. a % Word \in 0 .. Word - 1  BY <1>1, Quotient
  <1>4. a % Word \in Int  BY <1>1, <1>3
  <1>5. PICK p \in Int : a = p * Word + (a % Word)  BY <1>1, Quotient
  <1>6. PICK c \in Int : Word = c * Values + (Word % Values)  BY <1>1, <1>2, Quotient
  <1>7. PICK k \in Int : k = p * c  OBVIOUS
  <1>8. Word = c * Values  BY <1>1, <1>6
  <1>9. p * Word = k * Values  BY <1>7, <1>8, <1>1
  <1>10. a = (a % Word) + k * Values  BY <1>4, <1>5, <1>9, <1>1
  <1>11. Masked((a % Word) + k * Values) = Masked(a % Word)  BY <1>4, MaskedShift
  <1> QED  BY <1>3, <1>10, <1>11

\* Sums and differences of two times that are known only after masking.
LEMMA MaskedSum ==
  ASSUME NEW a \in Int, NEW b \in Int, NEW x \in Int, NEW y \in Int,
         Masked(a) = Masked(x), Masked(b) = Masked(y)
  PROVE  Plus(a, b) \in Int /\ Masked(Plus(a, b)) = Masked(x + y)
  <1>1. PICK p \in Int : a = x + p * Values  BY MaskedDifference
  <1>2. PICK q \in Int : b = y + q * Values  BY MaskedDifference
  <1>3. Values \in Int /\ Word \in Nat \ {0}  BY TimeAssumption DEF TimeAssumption
  <1>4. a + b = (x + y) + (p + q) * Values  BY <1>1, <1>2, <1>3
  <1>5. Masked(a + b) = Masked(x + y)  BY <1>4, MaskedShift
  <1>6. PICK c \in Int : c = a + b  OBVIOUS
  <1>7. c % Word \in 0 .. Word - 1 /\ Masked(c % Word) = Masked(c)  BY MaskedWord
  <1>8. c % Word \in Int  BY <1>7, <1>3
  <1> QED  BY <1>5, <1>6, <1>7, <1>8 DEF Plus

\* The same for differences.
LEMMA MaskedDiff ==
  ASSUME NEW a \in Int, NEW b \in Int, NEW x \in Int, NEW y \in Int,
         Masked(a) = Masked(x), Masked(b) = Masked(y)
  PROVE  Minus(a, b) \in Int /\ Masked(Minus(a, b)) = Masked(x - y)
  <1>1. PICK p \in Int : a = x + p * Values  BY MaskedDifference
  <1>2. PICK q \in Int : b = y + q * Values  BY MaskedDifference
  <1>3. Values \in Int /\ Word \in Nat \ {0}  BY TimeAssumption DEF TimeAssumption
  <1>4. a - b = (x - y) + (p - q) * Values  BY <1>1, <1>2, <1>3
  <1>5. Masked(a - b) = Masked(x - y)  BY <1>4, MaskedShift
  <1>6. PICK c \in Int : c = a - b  OBVIOUS
  <1>7. c % Word \in 0 .. Word - 1 /\ Masked(c % Word) = Masked(c)  BY MaskedWord
  <1>8. c % Word \in Int  BY <1>7, <1>3
  <1> QED  BY <1>5, <1>6, <1>7, <1>8 DEF Minus

\* Masking twice is masking once.
LEMMA MaskedTwice ==
  ASSUME NEW a \in Int
  PROVE  Masked(Masked(a)) = Masked(a)
  <1>1. Masked(a) \in 0 .. Values - 1  BY MaskedType
  <1>2. Values \in Nat \ {0}  BY TimeAssumption DEF TimeAssumption
  <1>3. (0 * Values + Masked(a)) % Values = Masked(a)  BY <1>1, <1>2, Remainder
  <1> QED  BY <1>1, <1>2, <1>3 DEF Masked

-----------------------------------------------------------------------------
(* The inductive invariant *)

\* A timer is a word: it fits its type.
TypeOK ==
  /\ time_ \in [Timers -> 0 .. Word - 1]
  /\ at \in [Timers -> -MaxTime .. MaxTime]

SameRest == \A t \in Timers : Masked(time_[t]) = Masked(at[t])

TimeInv == TypeOK /\ SameRest

\* What every operation does: it makes one timer a word with the right remainder.
LEMMA BecomesInv ==
  ASSUME TimeInv, NEW t \in Timers, NEW m \in 0 .. Word - 1, NEW n \in Int,
         Masked(m) = Masked(n), Becomes(t, m, n)
  PROVE  TimeInv'
  <1>1. TypeOK'  BY DEF TimeInv, TypeOK, Becomes
  <1>2. SameRest'
    <2> SUFFICES ASSUME NEW u \in Timers
                 PROVE  Masked(time_'[u]) = Masked(at'[u])
      BY DEF SameRest, Masked
    <2>1. CASE u = t
      <3>1. time_'[u] = m /\ at'[u] = n  BY <2>1 DEF TimeInv, TypeOK, Becomes
      <3> QED  BY <3>1
    <2>2. CASE u # t
      <3>1. time_'[u] = time_[u] /\ at'[u] = at[u]
        BY <2>2 DEF TimeInv, TypeOK, Becomes
      <3>2. Masked(time_[u]) = Masked(at[u])  BY DEF TimeInv, SameRest
      <3> QED  BY <3>1, <3>2
    <2> QED  BY <2>1, <2>2
  <1> QED  BY <1>1, <1>2 DEF TimeInv

\* Integers everywhere, and a masked value is a word.
LEMMA TimeTypes ==
  ASSUME TimeInv, NEW t \in Timers
  PROVE  /\ time_[t] \in 0 .. Word - 1 /\ time_[t] \in Int /\ at[t] \in Int
         /\ Masked(time_[t]) = Masked(at[t])
  <1>1. Word \in Nat \ {0} /\ MaxTime \in Nat  BY TimeAssumption DEF TimeAssumption
  <1> QED  BY <1>1 DEF TimeInv, TypeOK, SameRest

\* A masked value fits the word.
LEMMA MaskedIsWord ==
  ASSUME NEW a \in Int
  PROVE  Masked(a) \in 0 .. Word - 1
  <1>1. Word \in Nat \ {0} /\ Values \in Nat \ {0} /\ Word % Values = 0
    BY TimeAssumption DEF TimeAssumption
  <1>2. Values - 1 =< Word - 1
    <2>1. Word \in Int  BY <1>1
    <2>2. PICK c \in Int : Word = c * Values + (Word % Values)  BY <1>1, <2>1, Quotient
    <2>3. Word = c * Values  BY <1>1, <2>2
    <2>4. c >= 1
      <3>1. CASE c =< 0
        <4>1. c * Values =< 0  BY <3>1, <1>1
        <4> QED  BY <4>1, <2>3, <1>1
      <3> QED  BY <3>1
    <2>5. c * Values >= Values  BY <2>4, <1>1
    <2> QED  BY <2>3, <2>5, <1>1
  <1>3. Masked(a) \in 0 .. Values - 1  BY MaskedType
  <1> QED  BY <1>1, <1>2, <1>3

\* Every operation of RollingTime preserves the invariant (timecmp.hpp:80-120).
LEMMA StepInv ==
  ASSUME TimeInv, NEW t \in Timers,
         \/ Construct(t) \/ Copy(t) \/ Assign(t) \/ Add(t) \/ AddTimer(t)
         \/ Subtract(t) \/ SubtractTimer(t)
  PROVE  TimeInv'
  <1>s. \A n \in Steps : n \in Int /\ n \in 0 .. Word - 1
    <2>1. Word \in Nat \ {0} /\ Steps \subseteq 0 .. Word - 1
      BY TimeAssumption DEF TimeAssumption
    <2> QED  BY <2>1
  <1>t. \A u \in Timers : /\ time_[u] \in 0 .. Word - 1 /\ time_[u] \in Int
                          /\ at[u] \in Int /\ Masked(time_[u]) = Masked(at[u])
    BY TimeTypes
  <1>m. ASSUME NEW a \in Int
        PROVE  Masked(a) \in 0 .. Word - 1 /\ Masked(Masked(a)) = Masked(a)
    BY MaskedIsWord, MaskedTwice
  <1>1. CASE Construct(t)
    <2>1. PICK n \in Steps : Becomes(t, n, n)  BY <1>1 DEF Construct
    <2> QED  BY <2>1, <1>s, BecomesInv
  <1>2. CASE Copy(t)
    <2>1. PICK u \in Timers : Becomes(t, time_[u], at[u])  BY <1>2 DEF Copy
    <2> QED  BY <2>1, <1>t, BecomesInv
  <1>3. CASE Assign(t)
    <2>1. PICK n \in Steps : Becomes(t, Masked(n), n)  BY <1>3 DEF Assign
    <2> QED  BY <2>1, <1>s, <1>m, BecomesInv
  <1>4. CASE Add(t)
    <2>1. PICK n \in Steps :
            Becomes(t, Masked(Plus(time_[t], n)), at[t] + n)
      BY <1>4 DEF Add
    <2>2. /\ time_[t] \in Int /\ at[t] \in Int /\ Masked(time_[t]) = Masked(at[t])
          /\ n \in Int /\ n \in Int /\ Masked(n) = Masked(n)
      BY <1>s, <1>t
    <2>3. /\ Plus(time_[t], n) \in Int
          /\ Masked(Plus(time_[t], n)) = Masked(at[t] + n)
      BY <2>2, MaskedSum
    <2>4. at[t] + n \in Int  BY <2>2
    <2> QED  BY <2>1, <2>3, <2>4, <1>m, BecomesInv
  <1>5. CASE AddTimer(t)
    <2>1. PICK u \in Timers :
            Becomes(t, Masked(Plus(time_[t], time_[u])), at[t] + at[u])
      BY <1>5 DEF AddTimer
    <2>2. /\ time_[t] \in Int /\ at[t] \in Int /\ Masked(time_[t]) = Masked(at[t])
          /\ time_[u] \in Int /\ at[u] \in Int /\ Masked(time_[u]) = Masked(at[u])
      BY <1>s, <1>t
    <2>3. /\ Plus(time_[t], time_[u]) \in Int
          /\ Masked(Plus(time_[t], time_[u])) = Masked(at[t] + at[u])
      BY <2>2, MaskedSum
    <2>4. at[t] + at[u] \in Int  BY <2>2
    <2> QED  BY <2>1, <2>3, <2>4, <1>m, BecomesInv
  <1>6. CASE Subtract(t)
    <2>1. PICK n \in Steps :
            Becomes(t, Masked(Minus(time_[t], n)), at[t] - n)
      BY <1>6 DEF Subtract
    <2>2. /\ time_[t] \in Int /\ at[t] \in Int /\ Masked(time_[t]) = Masked(at[t])
          /\ n \in Int /\ n \in Int /\ Masked(n) = Masked(n)
      BY <1>s, <1>t
    <2>3. /\ Minus(time_[t], n) \in Int
          /\ Masked(Minus(time_[t], n)) = Masked(at[t] - n)
      BY <2>2, MaskedDiff
    <2>4. at[t] - n \in Int  BY <2>2
    <2> QED  BY <2>1, <2>3, <2>4, <1>m, BecomesInv
  <1>7. CASE SubtractTimer(t)
    <2>1. PICK u \in Timers :
            Becomes(t, Masked(Minus(time_[t], time_[u])), at[t] - at[u])
      BY <1>7 DEF SubtractTimer
    <2>2. /\ time_[t] \in Int /\ at[t] \in Int /\ Masked(time_[t]) = Masked(at[t])
          /\ time_[u] \in Int /\ at[u] \in Int /\ Masked(time_[u]) = Masked(at[u])
      BY <1>s, <1>t
    <2>3. /\ Minus(time_[t], time_[u]) \in Int
          /\ Masked(Minus(time_[t], time_[u])) = Masked(at[t] - at[u])
      BY <2>2, MaskedDiff
    <2>4. at[t] - at[u] \in Int  BY <2>2
    <2> QED  BY <2>1, <2>3, <2>4, <1>m, BecomesInv
  <1> QED  BY <1>1, <1>2, <1>3, <1>4, <1>5, <1>6, <1>7

\* The invariant holds in every reachable state.
THEOREM RemaindersAgree == Spec => []TimeInv
  <1>1. Init => TimeInv
    <2>1. Word \in Nat \ {0} /\ MaxTime \in Nat  BY TimeAssumption DEF TimeAssumption
    <2> QED  BY <2>1 DEF Init, TimeInv, TypeOK, SameRest
  <1>2. TimeInv /\ [Next]_vars => TimeInv'
    <2> SUFFICES ASSUME TimeInv, [Next]_vars
                 PROVE  TimeInv'
      OBVIOUS
    <2>1. CASE Next  BY <2>1, StepInv DEF Next
    <2>2. CASE UNCHANGED vars
      BY <2>2 DEF vars, TimeInv, TypeOK, SameRest, Masked
    <2> QED  BY <2>1, <2>2
  <1> QED  BY <1>1, <1>2, PTL DEF Spec

-----------------------------------------------------------------------------
(* The comparisons *)

\* Timers less than half a roll-over apart are ordered like the times they
\* stand for (timecmp.hpp:87-98, timecmp.h:57-110).
THEOREM OrderCorrect == Spec => []OrderIsRight
  <1>1. TimeInv => OrderIsRight
    <2> SUFFICES ASSUME TimeInv, NEW t \in Timers, NEW u \in Timers,
                        -msb < at[t] - at[u], at[t] - at[u] < msb
                 PROVE  /\ timeIsAfter(time_[t], time_[u])    <=> at[t] > at[u]
                        /\ timeIsBefore(time_[t], time_[u])   <=> at[t] < at[u]
                        /\ timeIsAfterEq(time_[t], time_[u])  <=> at[t] >= at[u]
                        /\ timeIsBeforeEq(time_[t], time_[u]) <=> at[t] =< at[u]
      BY DEF OrderIsRight
    <2> DEFINE d == at[t] - at[u]
    <2>1. /\ time_[t] \in Int /\ time_[u] \in Int /\ at[t] \in Int /\ at[u] \in Int
          /\ Masked(time_[t]) = Masked(at[t]) /\ Masked(time_[u]) = Masked(at[u])
      BY TimeTypes
    <2>2. /\ Masked(Minus(time_[t], time_[u])) = Masked(at[t] - at[u])
          /\ Masked(Minus(time_[u], time_[t])) = Masked(at[u] - at[t])
      BY <2>1, MaskedDiff
    <2>3. Values \in Nat \ {0} /\ Values = 2 * msb /\ msb \in Nat
      BY TimeAssumption DEF TimeAssumption, msb
    <2>4. ASSUME NEW e \in Int, -msb < e, e < msb
          PROVE  Masked(e) = IF e >= 0 THEN e ELSE e + Values
      <3>1. CASE e >= 0
        <4>1. e \in 0 .. Values - 1  BY <3>1, <2>3, <2>4
        <4>2. (0 * Values + e) % Values = e  BY <4>1, <2>3, Remainder
        <4> QED  BY <3>1, <4>2, <2>3 DEF Masked
      <3>2. CASE e < 0
        <4>1. e + Values \in 0 .. Values - 1  BY <3>2, <2>3, <2>4
        <4>2. ((-1) * Values + (e + Values)) % Values = e + Values
          BY <4>1, <2>3, Remainder
        <4>3. (-1) * Values + (e + Values) = e  BY <2>3
        <4> QED  BY <3>2, <4>2, <4>3 DEF Masked
      <3> QED  BY <3>1, <3>2
    <2>5. /\ Masked(at[t] - at[u]) = IF d >= 0 THEN d ELSE d + Values
          /\ Masked(at[u] - at[t]) = IF -d >= 0 THEN -d ELSE -d + Values
      <3>1. d \in Int /\ -d \in Int /\ at[u] - at[t] = -d /\ -msb < -d /\ -d < msb
        BY <2>1, <2>3
      <3> QED  BY <3>1, <2>4
    <2> QED
      BY <2>1, <2>2, <2>3, <2>5
      DEF timeIsAfter, timeIsBefore, timeIsAfterEq, timeIsBeforeEq
  <1> QED  BY <1>1, RemaindersAgree, PTL

\* The number of increments from one timer to another is the masked difference.
LEMMA AheadIsDifference ==
  ASSUME NEW a \in Int, NEW b \in Int
  PROVE  Ahead(a, b) = Masked(Minus(b, a))
  <1> DEFINE k0 == Masked(Minus(b, a))
  <1>1. Values \in Nat \ {0}  BY TimeAssumption DEF TimeAssumption
  <1>2. Minus(b, a) \in Int /\ k0 = Masked(b - a)  BY MaskedDiff
  <1>3. k0 \in 0 .. Values - 1 /\ k0 \in Int  BY <1>1, <1>2, MaskedType
  <1>4. b - a \in Int /\ Masked(k0) = Masked(b - a)  BY <1>2, MaskedTwice
  <1>5. PICK p \in Int : k0 = (b - a) + p * Values  BY <1>3, <1>4, MaskedDifference
  <1>6. a + k0 = b + p * Values  BY <1>1, <1>3, <1>5
  <1>7. Masked(a + k0) = Masked(b)  BY <1>6, MaskedShift
  <1>8. ASSUME NEW k \in 0 .. Values - 1, Masked(a + k) = Masked(b)
        PROVE  k = k0
    <2>1. k \in Int /\ a + k \in Int  BY <1>1
    <2>2. PICK q \in Int : a + k = b + q * Values  BY <1>8, <2>1, MaskedDifference
    <2>3. PICK n \in Int : n = q - p  OBVIOUS
    <2>4. k = k0 + n * Values  BY <1>1, <1>3, <1>6, <2>1, <2>2, <2>3
    <2>5. Masked(k) = Masked(k0)  BY <1>3, <2>4, MaskedShift
    <2>6. (0 * Values + k) % Values = k  BY <1>1, Remainder
    <2>7. Masked(k) = k  BY <1>1, <2>1, <2>6 DEF Masked
    <2>8. Masked(k0) = k0  BY <1>2, MaskedTwice
    <2> QED  BY <2>5, <2>7, <2>8
  <1> HIDE DEF k0
  <1>9. Ahead(a, b) = k0  BY <1>3, <1>7, <1>8 DEF Ahead
  <1> QED  BY <1>9 DEF k0

\* "Less than" goes with the shorter way round, and half-way nothing holds (README
\* of timecmp, test-cpp.cpp:48-60).
THEOREM NearerCorrect == Spec => []NearerWayRound
  <1>1. TimeInv => NearerWayRound
    <2> SUFFICES ASSUME TimeInv, NEW t \in Timers, NEW u \in Timers
                 PROVE  LET up == Ahead(time_[t], time_[u])
                            down == Ahead(time_[u], time_[t]) IN
                          /\ timeIsBefore(time_[t], time_[u]) <=> up < down
                          /\ timeIsAfter(time_[t], time_[u])  <=> down < up
                          /\ timeIsBeforeEq(time_[t], time_[u]) <=> up < down \/ up = 0
                          /\ timeIsAfterEq(time_[t], time_[u])  <=> down < up \/ up = 0
      BY DEF NearerWayRound
    <2>1. time_[t] \in Int /\ time_[u] \in Int  BY TimeTypes
    <2>2. PICK a \in Int, b \in Int : a = time_[t] /\ b = time_[u]  BY <2>1
    <2>3. PICK up, down : up = Masked(Minus(b, a)) /\ down = Masked(Minus(a, b))
      OBVIOUS
    <2>4. Ahead(a, b) = up /\ Ahead(b, a) = down  BY <2>3, AheadIsDifference
    <2>5. Values \in Nat \ {0} /\ Values = 2 * msb /\ msb \in Nat
      BY TimeAssumption DEF TimeAssumption, msb
    <2>6. up = Masked(b - a) /\ down = Masked(a - b)  BY <2>3, MaskedDiff
    <2>7. up \in 0 .. Values - 1 /\ down \in 0 .. Values - 1  BY <2>6, MaskedType
    <2>8. down = IF up = 0 THEN 0 ELSE Values - up
      <3>1. PICK c \in Int : c = b - a  OBVIOUS
      <3>2. up = Masked(c) /\ up \in Int  BY <2>5, <2>6, <2>7, <3>1
      <3>3. Masked(up) = Masked(c)  BY <3>2, MaskedTwice
      <3>4. PICK p \in Int : up = c + p * Values  BY <3>2, <3>3, MaskedDifference
      <3>5. a - b = p * Values - up  BY <2>5, <3>1, <3>2, <3>4
      <3>6. CASE up = 0
        <4>1. a - b = p * Values + 0  BY <2>5, <3>5, <3>6
        <4>2. 0 \in 0 .. Values - 1  BY <2>5
        <4>3. (p * Values + 0) % Values = 0  BY <2>5, <4>2, Remainder
        <4> QED  BY <2>6, <3>6, <4>1, <4>3 DEF Masked
      <3>7. CASE up # 0
        <4>1. PICK q \in Int : q = p - 1  OBVIOUS
        <4>2. PICK r \in 0 .. Values - 1 : r = Values - up  BY <2>5, <2>7, <3>7
        <4>3. a - b = q * Values + r  BY <2>5, <3>2, <3>5, <4>1, <4>2
        <4>4. (q * Values + r) % Values = r  BY <2>5, Remainder
        <4> QED  BY <2>6, <3>7, <4>2, <4>3, <4>4 DEF Masked
      <3> QED  BY <3>6, <3>7
    <2>9. /\ timeIsAfter(a, b) <=> up > msb
          /\ timeIsBefore(a, b) <=> down > msb
          /\ timeIsAfterEq(a, b) <=> ~(down >= msb)
          /\ timeIsBeforeEq(a, b) <=> ~(up >= msb)
      BY <2>3 DEF timeIsAfter, timeIsBefore, timeIsAfterEq, timeIsBeforeEq
    <2>10. /\ up > msb <=> down < up
           /\ down > msb <=> up < down
           /\ ~(down >= msb) <=> (down < up \/ up = 0)
           /\ ~(up >= msb) <=> (up < down \/ up = 0)
      BY <2>5, <2>7, <2>8
    <2> QED  BY <2>2, <2>4, <2>9, <2>10
  <1> QED  BY <1>1, RemaindersAgree, PTL
=============================================================================
