----------------------------- MODULE ObscureStr -----------------------------
(***************************************************************************)
(* obscurestr/obscurestr.hpp: the key a translation unit draws for its     *)
(* string literals while it is compiled, the obscured bytes that go into   *)
(* the binary, and the loop that turns them back when the program runs.    *)
(*                                                                         *)
(* __COUNTER__ stands in the body of a function template, where it is      *)
(* expanded once, when the header is read: every literal of the unit is    *)
(* obscured with the same key.                                             *)
(*                                                                         *)
(* A byte is the set of its bits.  A random number is a pair of halves of  *)
(* 16 bits, <<upper, lower>>, so that no value here exceeds 31 bits.       *)
(***************************************************************************)
EXTENDS Integers

CONSTANTS
  Seeds,      \* __TIME__ of the compilation, in seconds
  Texts,      \* string literals, the terminating nul included
  MaxCounter  \* bound on the uses of __COUNTER__ ahead of the header's

Day  == {t \in Nat : t < 86400}
Byte == SUBSET (0 .. 7)
Half == 0 .. 65535
Word == Half \X Half

ASSUME ObscureAssumption ==
  /\ Seeds \subseteq Day
  /\ \A t \in Texts : \E n \in DOMAIN t : n \in Nat /\ t \in [0 .. n -> Byte]
  /\ MaxCounter \in Nat

VARIABLES
  seed, counter,      \* the unit's seed, and __COUNTER__ until the header is read
  s,                  \* the random number of the last __COUNTER__: once the header
                      \* has been read, KEY::value
  included,           \* the header has been read
  plain, str,         \* the literal, and the member str_ of its object
  key, p              \* the loop's key, as four bytes, and its position

-----------------------------------------------------------------------------
(* MetaRandomGenerator *)

a == 16807

\* Mutant: the minutes and hours are left out.
SeedOfSeconds(t) == <<0, t % 60>>

Seed(t) == <<t \div 65536, t % 65536>>

\* lo2 + hi as halves: what carries out of the lower one goes to the upper.
\* lo2 is lo with the lower 15 bits of hi added to its upper half.
Sum3(lo, hi) ==
  LET low == (lo % 65536) + (hi % 65536)
  IN  <<(lo \div 65536) + (hi % 32768) + (hi \div 65536) + (low \div 65536), low % 65536>>

\* lo3 > m ? lo3 - m : lo3, where m is 2^31 - 1.
Reduced(w) ==
  IF w[1] < 32768 THEN w
  ELSE IF w[2] = 65535 THEN <<w[1] - 32767, 0>> ELSE <<w[1] - 32768, w[2] + 1>>

value(w) == Reduced(Sum3(a * w[2], a * w[1]))

-----------------------------------------------------------------------------
(* ObscureStr *)

Xor(x, y) == (x \ y) \cup (y \ x)
Bits(n) == {k \in 0 .. 7 : (n \div 2 ^ k) % 2 = 1}

\* The four bytes of a word, the lowest first.
Bytes(w) == [k \in 0 .. 3 |-> LET half == w[IF k < 2 THEN 2 ELSE 1]
                              IN  Bits(IF k % 2 = 0 THEN half % 256 ELSE half \div 256)]

\* Byte SHIFT % 4 of the key.
ByteShifter(w, shift) == Bytes(w)[shift % 4]

\* The loop has come to str + str_size.
Done == p \notin DOMAIN str

\* Another header takes a value of __COUNTER__ before this one does.
CountElsewhere ==
  /\ ~included /\ counter < MaxCounter
  /\ counter' = counter + 1 /\ s' = value(s)
  /\ UNCHANGED <<seed, included, plain, str, key, p>>

\* The compiler reads obscureStr, with MetaRandomGenerator<__COUNTER__> in it.
Include ==
  /\ ~included
  /\ included' = TRUE /\ s' = value(s)
  /\ UNCHANGED <<seed, counter, plain, str, key, p>>

\* An obscureStr(...) in the source: the bytes it puts into the binary, and the call
\* of deobscure that meets them.
Obscure ==
  /\ included /\ Done
  /\ plain' \in Texts
  /\ str' = [k \in DOMAIN plain' |-> Xor(plain'[k], ByteShifter(s, k))]
  /\ key' = Bytes(s) /\ p' = 0
  /\ UNCHANGED <<seed, counter, s, included>>

\* Mutant: the key is shifted, not rotated.
ShiftedKey == [k \in 0 .. 3 |-> IF k = 3 THEN {} ELSE key[k + 1]]

\* (conversion_key << 24) | (key >> 8)
RotatedKey == [k \in 0 .. 3 |-> key[(k + 1) % 4]]

\* One round of the loop in deobscure.
Deobscure ==
  /\ ~Done
  /\ str' = [str EXCEPT ![p] = Xor(@, key[0])]
  /\ key' = RotatedKey
  /\ p' = p + 1
  /\ UNCHANGED <<seed, counter, s, included, plain>>

vars == <<seed, counter, s, included, plain, str, key, p>>

\* Before the first string: one of a single nul, already turned back.
Init ==
  /\ seed \in Seeds /\ counter = 0 /\ s = Seed(seed) /\ included = FALSE
  /\ plain = [k \in {0} |-> {}] /\ str = plain
  /\ key = Bytes(s) /\ p = 1

Next == CountElsewhere \/ Include \/ Obscure \/ Deobscure
Spec == Init /\ [][Next]_vars

-----------------------------------------------------------------------------
(* Properties *)

\* The running key meets every byte with the very key byte it was obscured
\* with, whatever the length of the string: when the loop has passed a byte it
\* is the literal's, and before that it is obscured (lines 94-100 and 111-113).
Restored ==
  \A k \in DOMAIN str :
    str[k] = IF k < p THEN plain[k] ELSE Xor(plain[k], ByteShifter(s, k))

\* The key is 0, and the strings in clear in the binary, only for a unit that was
\* compiled at midnight sharp, whatever the value of __COUNTER__ (lines 57-69, 80-81).
ClearOnlyAtMidnight == s = <<0, 0>> => seed = 0
=============================================================================
