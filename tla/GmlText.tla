------------------------------ MODULE GmlText ------------------------------
(***************************************************************************)
(* The lexer of GML files in front of their parser.  The text is read one  *)
(* character per step and every token goes to the parser as it ends; the   *)
(* reader stops where the parser does.  A run of letters is one character  *)
(* here, except that an e in front stands by itself: behind digits it      *)
(* would belong to the number.                                             *)
(***************************************************************************)
EXTENDS Gml

CONSTANTS
  Words,  \* runs of letters that do not begin with e
  MaxI64  \* the largest integer of i64, cut down

ASSUME TextAssumption == MaxI64 \in Nat

DigitOf == [d \in {"0", "1", "2", "3", "4", "5", "6", "7", "8", "9"} |->
              CHOOSE n \in 0..9 : ToString(n) = d]
Digits == DOMAIN DigitOf
Signs  == {"-", "+"}
Space  == {" ", "\t", "\r", "\n"}

\* inside: "gap", "comment", "string", "number" or "ident"; raw: what has been
\* read of a number or an identifier.
StartText == [inside |-> "gap", raw |-> << >>, parser |-> Start]

Enter(r, where, raw) == [r EXCEPT !.inside = where, !.raw = raw]
Reject(r) == [r EXCEPT !.parser = Fail(@)]
Emit(r, token) == [Enter(r, "gap", << >>) EXCEPT !.parser = Step(@, token)]

Token(tok) == [tok |-> tok, key |-> "", int |-> 0]

-----------------------------------------------------------------------------
(* Numbers.                                                                *)

Unsigned(raw) == IF raw # << >> /\ Head(raw) \in Signs THEN Tail(raw) ELSE raw
Plainly(seq)  == Range(seq) \subseteq Digits
Has(raw, S)   == Range(raw) \cap S # {}

\* Mutant: a number ends only at white space.
TillSpace(raw, c) == c \notin Space

\* The greedy run: digits, one point before any exponent, one exponent, and a
\* sign just behind it.
Continues(raw, c) ==
  \/ c \in Digits
  \/ c = "." /\ ~Has(raw, {".", "e"})
  \/ c = "e" /\ ~Has(raw, {"e"})
  \/ c \in Signs /\ Last(raw) = "e"

IntValue(raw) ==
  LET n == FoldLeft(LAMBDA v, d : IF v > MaxI64 THEN MaxI64 + 2 ELSE 10 * v + DigitOf[d],
                    0, Unsigned(raw))
  IN  IF Head(raw) = "-" THEN -n ELSE n

\* str::parse::<i64>.
IsInt(raw) == /\ Plainly(Unsigned(raw)) /\ Unsigned(raw) # << >>
              /\ IntValue(raw) \in (-MaxI64 - 1)..MaxI64

\* str::parse::<f64>: digits before or behind the point, and in the exponent.
IsFloat(raw) ==
  LET at       == SelectInSeq(raw, LAMBDA c : c = "e")
      mantissa == Unsigned(IF at = 0 THEN raw ELSE SubSeq(raw, 1, at - 1))
      exponent == IF at = 0 THEN << >> ELSE SubSeq(raw, at + 1, Len(raw))
  IN  Has(mantissa, Digits) /\ (at # 0 => Has(exponent, Digits))

EndNumber(r) ==
  IF IsInt(r.raw) THEN Emit(r, [Token("int") EXCEPT !.int = IntValue(r.raw)])
  ELSE IF IsFloat(r.raw) THEN Emit(r, Token("scalar"))
  ELSE Reject(r)

-----------------------------------------------------------------------------

Letters == Words \cup {"e", "_"}

\* Of the keys that count only edge begins with e; no other has several parts.
EndIdent(r) ==
  Emit(r, [Token("key") EXCEPT !.key = IF r.raw = <<"e", "dge">> THEN "edge"
                                       ELSE IF Len(r.raw) = 1 THEN r.raw[1] ELSE "_"])

\* The first character of a token, or one between tokens.
InGap(r, c) ==
  CASE c \in Space -> r
    [] c = "#" -> Enter(r, "comment", << >>)
    [] c \in {"[", "]"} -> Emit(r, Token(c))
    [] c = "\"" -> Enter(r, "string", << >>)
    [] c \in Signs \cup Digits -> Enter(r, "number", <<c>>)
    [] c \in Letters -> Enter(r, "ident", <<c>>)
    [] OTHER -> Reject(r)

Over(r) == r.parser.status \in {"done", "failed"}

\* The end of a token that c is not part of, then c itself.
After(r, c) == IF Over(r) THEN r ELSE InGap(r, c)

Feed(r, c) ==
  CASE r.inside = "gap" -> InGap(r, c)
    [] r.inside = "comment" -> IF c = "\n" THEN Enter(r, "gap", << >>) ELSE r
    [] r.inside = "string" -> IF c = "\"" THEN Emit(r, Token("scalar")) ELSE r
    [] r.inside = "number" ->
         IF Continues(r.raw, c) THEN [r EXCEPT !.raw = Append(@, c)]
         ELSE After(EndNumber(r), c)
    [] r.inside = "ident" ->
         IF c \in Letters \cup Digits THEN [r EXCEPT !.raw = Append(@, c)]
         ELSE After(EndIdent(r), c)

RECURSIVE ReadText(_, _)
ReadText(r, text) ==
  IF Over(r) \/ text = << >> THEN r ELSE ReadText(Feed(r, Head(text)), Tail(text))
=============================================================================
