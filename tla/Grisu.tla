--------------------------------- MODULE Grisu ---------------------------------
(***************************************************************************)
(* How the JSON library prints a floating-point number (Grisu2): the       *)
(* shortest digits it finds in the interval that reads back as the number. *)
(* The interval is scaled by a cached power of ten, digits of its upper    *)
(* end are generated until what is left of them is smaller than the        *)
(* interval, and the last digit is moved towards the number.               *)
(*                                                                         *)
(* The widths are constants: a float has P bits of precision, a diyfp Q    *)
(* (53 and 64 in the code), and the cached powers, which the code lists,   *)
(* are computed for Q bits.  g is one conversion; Step is one iteration.   *)
(***************************************************************************)
EXTENDS Integers, Sequences, SequencesExt

CONSTANTS
  P, Q,                 \* the precision of a float and of a diyfp
  ExponentBias          \* the exponent of a float is E - ExponentBias

Diyfp(f, e) == [f |-> f, e |-> e]

Sub(x, y) == Diyfp(x.f - y.f, x.e)

\* The upper Q bits of the product, rounded.
Mul(x, y) == Diyfp((x.f * y.f + 2^(Q - 1)) \div 2^Q, x.e + y.e + Q)

Normalize(x) ==
  LET s == CHOOSE s \in 0..Q : x.f * 2^s \in 2^(Q - 1)..(2^Q - 1)
  IN Diyfp(x.f * 2^s, x.e - s)

NormalizeTo(x, e) == Diyfp(x.f * 2^(x.e - e), e)

-----------------------------------------------------------------------------
(* The float with bits E and F, and the interval that reads back as it.    *)

Significand(E, F) ==
  IF E = 0 THEN Diyfp(F, 1 - ExponentBias) ELSE Diyfp(F + 2^(P - 1), E - ExponentBias)

\* The predecessor of a power of two is nearer.
LowerBoundaryIsCloser(E, F) == F = 0 /\ E > 1

\* Faulty variant: the boundary below a power of two would be as far as the
\* one above it.
SymmetricBoundaries(E, F) ==
  LET v == Significand(E, F)
  IN [plus |-> Diyfp(2 * v.f + 1, v.e - 1), minus |-> Diyfp(2 * v.f - 1, v.e - 1)]

Boundaries(E, F) ==
  LET v == Significand(E, F)
  IN [plus |-> Diyfp(2 * v.f + 1, v.e - 1),
      minus |-> IF LowerBoundaryIsCloser(E, F) THEN Diyfp(4 * v.f - 1, v.e - 2)
                ELSE Diyfp(2 * v.f - 1, v.e - 1)]

-----------------------------------------------------------------------------
(* The cached powers.                                                      *)

Alpha == -(Q - 4)

\* 10^k, rounded to Q bits.
CachedPower(k) ==
  IF k >= 0
    THEN LET b == CHOOSE b \in 1..(4 * k + 1) : 2^(b - 1) <= 10^k /\ 10^k < 2^b
         IN IF b <= Q THEN Diyfp(10^k * 2^(Q - b), b - Q)
            ELSE Diyfp((10^k + 2^(b - Q - 1)) \div 2^(b - Q), b - Q)
    ELSE LET t == 10^(-k)
             s == CHOOSE s \in (Q - 1)..(Q - 4 * k) :
                    2^s \div t >= 2^(Q - 1) /\ 2^(s - 1) \div t < 2^(Q - 1)
         IN Diyfp((2^s + t \div 2) \div t, -s)

\* Division that drops the fraction, as in C.
Quotient(a, b) == IF a < 0 THEN -((-a) \div b) ELSE a \div b

\* k = ceil((alpha - e - 1) * log10(2)), without floating point.
PowerFor(e) ==
  LET f == Alpha - e - 1
  IN Quotient(f * 78913, 2^18) + (IF f > 0 THEN 1 ELSE 0)

-----------------------------------------------------------------------------
(* grisu2_digit_gen.                                                       *)

Idle == [at |-> "idle"]

\* find_largest_pow10.
LargestPow10(n) == CHOOSE k \in 1..10 : 10^(k - 1) <= n /\ (k = 10 \/ n < 10^k)

\* From a float to the digits' generation: M- and M+ are one unit inside the
\* scaled boundaries, for the error of the product.
Scale(E, F) ==
  LET b == Boundaries(E, F)
      plus == Normalize(b.plus)
      minus == NormalizeTo(b.minus, plus.e)
      k == PowerFor(plus.e)
      c == CachedPower(k)
      w == Mul(Normalize(Significand(E, F)), c)
      Mminus == LET x == Mul(minus, c) IN Diyfp(x.f + 1, x.e)
      Mplus == LET x == Mul(plus, c) IN Diyfp(x.f - 1, x.e)
      one == -Mplus.e
      p1 == Mplus.f \div 2^one
  IN [at |-> "integral", E |-> E, F |-> F, buffer |-> <<>>, exponent |-> -k,
      one |-> one, p1 |-> p1, p2 |-> Mplus.f % 2^one, n |-> LargestPow10(p1),
      delta |-> Sub(Mplus, Mminus).f, dist |-> Sub(Mplus, w).f,
      rest |-> 0, unit |-> 0]

\* The digits are in the interval: what is left of M+, and one unit of the
\* last digit, both in units of 2^-one.
Enough(g, rest, unit) == [g EXCEPT !.at = "round", !.rest = rest, !.unit = unit]

\* One digit of the integral part.
IntegralDigit(g) ==
  LET pow10 == 10^(g.n - 1)
      new == [g EXCEPT !.buffer = Append(@, g.p1 \div pow10),
                       !.p1 = @ % pow10, !.n = @ - 1]
      rest == new.p1 * 2^g.one + g.p2
  IN IF rest <= g.delta
       THEN Enough([new EXCEPT !.exponent = @ + new.n], rest, pow10 * 2^g.one)
     ELSE IF new.n = 0 THEN [new EXCEPT !.at = "fraction"] ELSE new

\* One digit of the fraction.
FractionDigit(g) ==
  LET new == [g EXCEPT !.buffer = Append(@, (10 * g.p2) \div 2^g.one),
                       !.p2 = (10 * @) % 2^g.one, !.n = @ + 1,
                       !.delta = 10 * @, !.dist = 10 * @]
  IN IF new.p2 <= new.delta
       THEN Enough([new EXCEPT !.exponent = @ - new.n], new.p2, 2^g.one)
     ELSE new

\* grisu2_round: one unit down, while that brings the digits nearer to w.
Round(g) ==
  IF /\ g.rest < g.dist
     /\ g.delta - g.rest >= g.unit
     /\ \/ g.rest + g.unit < g.dist
        \/ g.dist - g.rest > g.rest + g.unit - g.dist
    THEN [g EXCEPT !.buffer[Len(g.buffer)] = @ - 1, !.rest = @ + g.unit]
    ELSE [g EXCEPT !.at = "done"]

Step(g) ==
  CASE g.at = "integral" -> IntegralDigit(g)
    [] g.at = "fraction" -> FractionDigit(g)
    [] g.at = "round" -> Round(g)

-----------------------------------------------------------------------------
(* What the digits promise.                                                *)

Power(b, e) == IF e > 0 THEN b^e ELSE 1

\* m * 10^t against n * 2^s, all integers.
Below(m, t, n, s) ==
  m * Power(10, t) * Power(2, -s) < n * Power(10, -t) * Power(2, s)
Above(m, t, n, s) ==
  m * Power(10, t) * Power(2, -s) > n * Power(10, -t) * Power(2, s)

\* max_digits10 of a float of P bits.
MaxDigits == 2 + (P * 78913) \div 2^18

\* The middle of two floats.
Middle(x, y) ==
  LET e == IF x.e < y.e THEN x.e ELSE y.e
  IN Diyfp(NormalizeTo(x, e).f + NormalizeTo(y, e).f, e - 1)

Predecessor(E, F) ==
  IF F = 0 THEN Significand(E - 1, 2^(P - 1) - 1) ELSE Significand(E, F - 1)
Successor(E, F) ==
  IF F = 2^(P - 1) - 1 THEN Significand(E + 1, 0) ELSE Significand(E, F + 1)

\* The digits lie strictly between the middles of the float and its two
\* neighbours, so that they read back as it however a reader breaks ties; they
\* are no more than any float of this precision needs, and none leads in vain.
ReadsBack(g) ==
  LET v == FoldLeft(LAMBDA n, d : 10 * n + d, 0, g.buffer)
      float == Significand(g.E, g.F)
      low == Middle(Predecessor(g.E, g.F), float)
      high == Middle(float, Successor(g.E, g.F))
  IN /\ Above(v, g.exponent, low.f, low.e)
     /\ Below(v, g.exponent, high.f, high.e)
     /\ Len(g.buffer) <= MaxDigits
     /\ g.buffer[1] # 0

\* What the assertions of digit_gen say at every step.
Asserted(g) ==
  /\ \A i \in DOMAIN g.buffer : g.buffer[i] \in 0..9
  /\ g.at = "fraction" => g.p2 > g.delta /\ 10 * g.p2 < 2^Q
  /\ g.at = "round" => /\ Len(g.buffer) > 0
                       /\ g.dist <= g.delta
                       /\ g.rest <= g.delta
=============================================================================
