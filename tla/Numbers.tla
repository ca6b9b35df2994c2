------------------------------- MODULE Numbers --------------------------------
(***************************************************************************)
(* The numbers of requests (src/internal/apiinput/number.go): JSON numbers *)
(* or arithmetic in a string, some rounded to integers.                    *)
(*                                                                         *)
(* A float64 is counted in halves, which is enough to tell how it rounds.  *)
(* An expression is one operation on two literals; what nests is evaluated *)
(* from the inside out in the same way.  Results are <<v>>, or Bad for an  *)
(* error.  An int has Width bits.                                          *)
(***************************************************************************)
EXTENDS Integers, Sequences

CONSTANTS
  Width,  \* bits of an int
  Beyond  \* int(f) for the float64 2^(Width-1), which no int is

ASSUME WidthAssumption == Width \in Nat \ {0}

Top == 2^(Width - 1)

\* The least int on amd64, the greatest on arm64.
ASSUME BeyondAssumption == Beyond \in {-Top, Top - 1}

\* Two's complement.
Wrapped(n) == ((n + Top) % (2 * Top)) - Top

Bad == <<>>
Nil == <<"nil", "nil">>

\* What a field may hold.  A literal is <<is an INT, halves>>.
Unset      == <<"unset">>
Null       == <<"null">>
Num(h)     == <<"num", h>>
Calc(o, a, b) == <<"calc", o, a, b>>
Text       == <<"text">>  \* no arithmetic: a name, %, a shift, nothing at all
Lit(n)     == <<TRUE, 2 * n>>
Half(h)    == <<FALSE, h>>

Numerals ==
  {Unset, Null, Text} \cup ({"num"} \X Int)
  \cup ({"calc"} \X {"+", "-", "*", "/"} \X (BOOLEAN \X Int) \X (BOOLEAN \X Int))

Abs(n) == IF n < 0 THEN -n ELSE n

\* Division towards zero.
Quotient(a, b) ==
  LET q == Abs(a) \div Abs(b) IN IF (a < 0) = (b < 0) THEN q ELSE -q

------------------------------------------------------------------------------
\* UnmarshalJSON and Set.
Set(n) == n \notin {Unset, Null}

\* evalExpression.  Constants are untyped: two integers divide to an
\* integer, and a division by zero is no expression.
Evaluated(o, a, b) ==
  CASE o = "+" -> <<a[2] + b[2]>>
    [] o = "-" -> <<a[2] - b[2]>>
    [] o = "*" -> <<Quotient(a[2] * b[2], 2)>>
    [] o = "/" /\ b[2] = 0 -> Bad
    [] o = "/" /\ b[2] # 0 /\ a[1] /\ b[1] -> <<2 * Quotient(a[2], b[2])>>
    [] OTHER -> <<Quotient(2 * a[2], b[2])>>

\* parseValue, validateExpression.
Value(n) ==
  CASE n[1] = "num"  -> <<n[2]>>
    [] n[1] = "calc" -> Evaluated(n[2], n[3], n[4])
    [] n[1] = "text" -> Bad

\* An unset number is 0.
Float64(n) == IF Set(n) THEN Value(n) ELSE <<0>>

RequiredFloat64(n) == IF Set(n) THEN Value(n) ELSE Bad

\* math.Round: halves go away from zero.
Rounded(h) == IF h >= 0 THEN (h + 1) \div 2 ELSE -((1 - h) \div 2)

\* roundInt, and RoundCoordinate of the desktop package: the bounds are
\* float64, and that of maxInt is 2^(Width-1).
RoundInt(h) ==
  LET r == Rounded(h) IN
  CASE r < -Top \/ r > Top -> Bad
    [] r = Top -> <<Beyond>>
    [] OTHER -> <<r>>

IntOf(n) == IF Float64(n) = Bad THEN Bad ELSE RoundInt(Float64(n)[1])

OptionalInt(n) == IF Set(n) THEN IntOf(n) ELSE Nil

==============================================================================
