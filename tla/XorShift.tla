------------------------------ MODULE XorShift ------------------------------
(***************************************************************************)
(* The generator behind the shuffles: xorshift64 on 64-bit words, a word   *)
(* being the set of the places, 0 (lowest) to 63, whose bit is 1.          *)
(***************************************************************************)
EXTENDS Integers, Sequences, SequencesExt

Bits   == 64
Places == 0..(Bits - 1)

\* The word that a sequence of hexadecimal digits, highest first, spells.
Word(digits) ==
  {i \in Places : /\ i \div 4 < Len(digits)
                  /\ (digits[Len(digits) - i \div 4] \div 2^(i % 4)) % 2 = 1}

Xor(x, y) == (x \ y) \cup (y \ x)
Shl(x, n) == {i \in Places : i - n \in x}
Shr(x, n) == {i \in Places : i + n \in x}

\* wrapping_add: a carry begins at a place where both bits are 1 and goes on
\* through the places where one of them is.
WrappingAdd(x, y) ==
  LET carries == {i \in Places : \E j \in 0..i : /\ j \in x /\ j \in y
                                                /\ \A k \in (j + 1)..i : k \in x \cup y}
  IN  Xor(Xor(x, y), Shl(carries, 1))

\* The remainder of a word, byte by byte from the highest.
Byte(x, k) == FoldLeft(LAMBDA n, i : 2 * n + (IF 8 * k + 8 - i \in x THEN 1 ELSE 0),
                       0, [i \in 1..8 |-> i])
Remainder(x, m) ==
  FoldLeft(LAMBDA r, k : (256 * r + Byte(x, 8 - k)) % m, 0, [k \in 1..8 |-> k])

xorshift64(x) ==
  LET a == Xor(x, Shl(x, 13))
      b == Xor(a, Shr(a, 7))
  IN  Xor(b, Shl(b, 17))

\* What is added to the seed from one stage of the clustering to the next.
Golden == Word(<<9, 14, 3, 7, 7, 9, 11, 9, 7, 15, 4, 10, 7, 12, 1, 5>>)

\* The seed of generator s < 64 of a run: seed + s * Golden, added bit by bit of
\* s.  A generator never starts at zero.
SeedOf(seed, s) ==
  FoldLeft(LAMBDA x, i : IF (s \div 2^(i - 1)) % 2 = 1
                         THEN WrappingAdd(x, Shl(Golden, i - 1)) ELSE x,
           seed, [i \in 1..6 |-> i])
StateOf(seed, s) ==
  LET x == SeedOf(seed, s) IN IF x = {} THEN Word(<<1>>) ELSE x

\* The first n numbers of generator s.
Numbers(seed, s, n) ==
  FoldLeft(LAMBDA xs, t :
             Append(xs, xorshift64(IF xs = << >> THEN StateOf(seed, s) ELSE Last(xs))),
           << >>, [t \in 1..n |-> t])
=============================================================================
