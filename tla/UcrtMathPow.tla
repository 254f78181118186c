----------------------------- MODULE UcrtMathPow -----------------------------
(***************************************************************************)
(* pow(x, y) as the Windows CRT computes it, around its two polynomials:   *)
(* the special operands, the reductions of the bits of x and of the        *)
(* result's exponent, and the result in the subnormal range.  A double is  *)
(* its bits, an integer of a sign, ExpBits and MantBits; sums of bits wrap *)
(* at Word.                                                                *)
(***************************************************************************)
EXTENDS Integers

CONSTANTS
  ExpBits, MantBits,        \* 11 and 52
  TinyPower, HugePower,     \* 65 and 63, of the smallest and largest usual y
  LogOff,                   \* the bits of POW_LOG_OFF
  TableBits,                \* EXP_TABLE_BITS
  Up, Down                  \* 1009 and 1022, specialcase's shifts

Unit == 2^MantBits          \* 1 << 52
Word == 2^(1 + ExpBits + MantBits)
SIGN == 2^(ExpBits + MantBits)
QBIT == 2^(MantBits - 1)
Bias == 2^(ExpBits - 1) - 1
INF_BITS == (2^ExpBits - 1) * Unit
ONE_BITS == Bias * Unit
DEFAULT_NAN == SIGN + INF_BITS + QBIT

U(n) == n % Word
top12(b) == b \div Unit
Exponent(b) == top12(b) % 2^ExpBits
Negative(b) == b >= SIGN
Magnitude(b) == b % SIGN

is_nan(b) == Magnitude(b) > INF_BITS
Quieted(b) == IF (b \div QBIT) % 2 = 1 THEN b ELSE b + QBIT
nan_sum(bx, by) == Quieted(IF is_nan(bx) THEN bx ELSE by)
is_signaling(b) == is_nan(b) /\ Quieted(b) # b

oflow(sign) == INF_BITS + (IF sign THEN SIGN ELSE 0)
uflow(sign) == IF sign THEN SIGN ELSE 0

-----------------------------------------------------------------------------
(* ucrt_pow: the bits of the result, or the operands of the logarithm.     *)

Result(b) == [at |-> "result", bits |-> b]
Logarithm(ix, odd) == [at |-> "log", ix |-> ix, odd |-> odd]

\* Of the bits of a non-zero finite double.
checkint(iy) ==
  LET e == Exponent(iy)
      one == 2^(Bias + MantBits - e)      \* the bit of weight one
  IN CASE e < Bias -> "fraction"
       [] e > Bias + MantBits -> "even"
       [] iy % one # 0 -> "fraction"
       [] (iy \div one) % 2 = 1 -> "odd"
       [] OTHER -> "even"

zeroinfnan(i) == U(2 * i - 1) >= U(2 * INF_BITS - 1)

\* y is zero, infinite or NaN.
SpecialPower(ix, iy) ==
  CASE U(2 * iy) = 0 -> IF is_signaling(ix) THEN nan_sum(ix, iy) ELSE ONE_BITS
    [] ix = ONE_BITS -> IF is_signaling(iy) THEN nan_sum(ix, iy) ELSE ONE_BITS
    [] U(2 * ix) > 2 * INF_BITS \/ U(2 * iy) > 2 * INF_BITS -> nan_sum(ix, iy)
    [] U(2 * ix) = 2 * ONE_BITS -> ONE_BITS
    [] U(2 * ix) < 2 * ONE_BITS <=> ~Negative(iy) -> 0
    [] OTHER -> INF_BITS                  \* y * y

\* x is zero, infinite or NaN: x * x, its sign, and its reciprocal.
Squared(b) == IF is_nan(b) THEN Quieted(b) ELSE Magnitude(b)
Negated(b) == U(b + SIGN)
Reciprocal(b) == IF is_nan(b) THEN b ELSE b - Magnitude(b) + (INF_BITS - Magnitude(b))
SignedSquare(ix, iy) ==
  IF Negative(ix) /\ checkint(iy) = "odd" THEN Negated(Squared(ix)) ELSE Squared(ix)
SpecialBase(ix, iy) ==
  IF Negative(iy) THEN Reciprocal(SignedSquare(ix, iy)) ELSE SignedSquare(ix, iy)

\* |y| < 2^-65 or |y| >= 2^63, or y is no finite number.
Unusual(iy) == U(Exponent(iy) - (Bias - TinyPower)) >= TinyPower + HugePower

\* A subnormal is multiplied by 2^52, and its exponent gets negative.
Leading(n) == CHOOSE p \in 0..MantBits : 2^p <= n /\ n < 2^(p + 1)
TimesUnit(n) == LET p == Leading(n) IN (p + 1) * Unit + (n - 2^p) * 2^(MantBits - p)
Normalized(ix) == IF top12(ix) = 0 THEN U(TimesUnit(ix) - MantBits * Unit) ELSE ix

\* x and y are non-zero and finite; ix are the bits of |x|.
FinitePower(ix, iy, odd) ==
  IF ~Unusual(iy) THEN Logarithm(Normalized(ix), odd)
  ELSE Result(CASE ix = ONE_BITS -> ONE_BITS
                [] Exponent(iy) < Bias - TinyPower -> ONE_BITS      \* 1 + y
                [] ix > ONE_BITS <=> ~Negative(iy) -> oflow(FALSE)
                [] OTHER -> uflow(FALSE))

ucrt_pow(ix, iy) ==
  IF U(top12(ix) - 1) < 2^ExpBits - 2 /\ ~Unusual(iy) THEN Logarithm(ix, FALSE)
  ELSE IF zeroinfnan(iy) THEN Result(SpecialPower(ix, iy))
  ELSE IF zeroinfnan(ix) THEN Result(SpecialBase(ix, iy))
  ELSE IF Negative(ix) /\ checkint(iy) = "fraction" THEN Result(DEFAULT_NAN)
  ELSE FinitePower(Magnitude(ix), iy, Negative(ix) /\ checkint(iy) = "odd")

-----------------------------------------------------------------------------
(* log_inline: x = 2^k z, with z between the offset and its double.        *)

Above(ix) == U(ix - LogOff)
\* The bits as a signed number, shifted.
K(tmp) == (IF tmp >= SIGN THEN tmp - Word ELSE tmp) \div Unit
Z(ix, tmp) == U(ix - (tmp - (tmp % Unit)))

-----------------------------------------------------------------------------
(* exp_inline: the scale 2^(k/N), of which the table holds N fractions.    *)

N == 2^TableBits
SIGN_BIAS == 2^ExpBits * N

\* The mantissa of 2^(i/N), to nearest.
Root(i) ==
  CHOOSE m \in 0..(Unit - 1) :
    LET twice == 2 * (Unit + m)
        target == 2^(N + MantBits * N + i)
    IN (twice - 1)^N <= target /\ target < (twice + 1)^N

\* The odd entries of EXP_TAB.
EXP_TAB(i) == U(ONE_BITS + Root(i) - i * 2^(MantBits - TableBits))

Scale(k, odd) ==
  U(EXP_TAB(k % N) + (k + (IF odd THEN SIGN_BIAS ELSE 0)) * 2^(MantBits - TableBits))

\* How exp of a number with exponent a and a sign is computed; k is that of its
\* reduction, and 512 and 1024 follow from the range of the exponents.
Path(a, negative) ==
  CASE a < -(MantBits + 2) -> "one"
    [] a >= ExpBits - 1 -> IF negative THEN "underflow" ELSE "overflow"
    [] a = ExpBits - 2 -> "special"
    [] OTHER -> "plain"

\* specialcase moves the exponent back into range.
Moved(k, odd) == U(Scale(k, odd) + (IF k >= 0 THEN -Up ELSE Down) * Unit)

-----------------------------------------------------------------------------
(* Doubles below 2^ExpBits as integers of a unit so small that no exponent *)
(* gets lost; Nearest rounds to MantBits + 1 significant bits.             *)

Size(n) == CHOOSE p \in 0..30 : n < 2^p /\ (p = 0 \/ 2^(p - 1) <= n)
ToGrid(n, g) ==
  LET low == n % g
      down == n - low
  IN IF 2 * low > g \/ (2 * low = g /\ (down \div g) % 2 = 1) THEN down + g ELSE down
RoundUp(n, drop) == IF drop <= 0 THEN n ELSE ToGrid(n, 2^drop)
Nearest(n) == IF n < 0 THEN -RoundUp(-n, Size(-n) - MantBits - 1)
              ELSE RoundUp(n, Size(n) - MantBits - 1)

\* A sum that cancels is +0.
Number(n) == [value |-> n, negative |-> n < 0]

\* specialcase for k < 0: scale + st, rounded where a subnormal ends, 2^-52 of
\* one; a power that rounds to zero keeps its sign.
Compensated(y, lo, one) ==
  LET hi == Nearest(one + y)
  IN Nearest(Nearest(hi + Nearest(Nearest(Nearest(one - hi) + y) + lo)) - one)
Fold(y, scale, st, one) ==
  LET lo == Nearest(Nearest(scale - y) + st)
      sum == Number(Compensated(y, lo, IF y < 0 THEN -one ELSE one))
  IN IF y >= one \/ y <= -one THEN Number(y)
     ELSE IF sum.value = 0 THEN [sum EXCEPT !.negative = scale < 0] ELSE sum
Subnormal(scale, st, one) == Fold(Nearest(scale + st), scale, st, one)

-----------------------------------------------------------------------------
(* What pow promises (IEEE 754-2008, 9.2.1; the header of the file).       *)

IsFinite(b) == Exponent(b) < 2^ExpBits - 1
IsZero(b) == Magnitude(b) = 0
IsInfinite(b) == Magnitude(b) = INF_BITS
Signed(negative, b) == IF negative THEN b + SIGN ELSE b

\* |y| times a unit, for |y| >= 1.
Steps(y) == (Unit + (y % Unit)) * 2^(Exponent(y) - Bias)
IsInteger(y) == Exponent(y) >= Bias /\ Steps(y) % Unit = 0
OddInteger(y) == IsInteger(y) /\ (Steps(y) \div Unit) % 2 = 1

\* A power to an infinity, zero or infinity of a base beyond or below one.
Limit(x, y) ==
  CASE Magnitude(x) = ONE_BITS -> ONE_BITS
    [] (Magnitude(x) > ONE_BITS) = Negative(y) -> 0
    [] OTHER -> INF_BITS

\* The sign of a finite power is that of an odd power of a negative base.
PowerOf(x, y, r) ==
  LET negative == Negative(x) /\ ~is_nan(x) /\ IsFinite(y) /\ OddInteger(y)
  IN CASE IsZero(y) /\ ~is_signaling(x) -> r = Result(ONE_BITS)
       [] x = ONE_BITS /\ ~IsFinite(y) /\ ~is_signaling(y) -> r = Result(ONE_BITS)
       [] is_nan(x) \/ is_nan(y) -> is_nan(r.bits) /\ ~is_signaling(r.bits)
       [] IsInfinite(y) -> r = Result(Limit(x, y))
       [] IsZero(x) -> r = Result(Signed(negative, IF Negative(y) THEN INF_BITS ELSE 0))
       [] IsInfinite(x) -> r = Result(Signed(negative, IF Negative(y) THEN 0 ELSE INF_BITS))
       [] Negative(x) /\ ~IsInteger(y) -> is_nan(r.bits)
       [] Unusual(y) -> r = Result(IF Exponent(y) < Bias THEN ONE_BITS ELSE Limit(x, y))
       [] OTHER -> r.at = "log" /\ r.odd = negative

\* Both sides in steps of the smallest subnormal, times 2^k.
Reduces(x, ix, k, z) ==
  /\ z \in LogOff..(LogOff + Unit - 1)
  /\ IF Exponent(x) > 0 THEN k * Unit + z = Magnitude(x)
     ELSE Magnitude(x) * 2^(1 - Exponent(z) - k) = Unit + (z % Unit)

PowerIsIEEE(x, y) ==
  LET r == ucrt_pow(x, y)
  IN /\ PowerOf(x, y, r)
     /\ r.at = "log" => Reduces(x, r.ix, K(Above(r.ix)), Z(r.ix, Above(r.ix)))

\* 1/ln 2 is between 1.44 and 1.4444: the k of numbers with the exponent a.
Ks(a) == ((2^a * N * 36) \div 25)..((2^(a + 1) * N * 13) \div 9)

ScaledTo(k, bits, shift, odd) ==
  bits = Signed(odd, (Bias + k \div N + shift) * Unit + Root(k % N)) /\ Exponent(bits) > 0

\* The scale is 2^(k/N) with the sign of the power, and a usual double even
\* where the power is none.
ScaleIsPower(odd) ==
  \A a \in (-MantBits - 2)..(ExpBits - 2) :
    \A k \in IF a < 0 THEN {-1, 0, 1} ELSE UNION {{n, -n} : n \in Ks(a)} :
      IF Path(a, k < 0) = "special"
        THEN ScaledTo(k, Moved(k, odd), IF k > 0 THEN -Up ELSE Down, odd)
        ELSE Path(a, k < 0) = "plain" => ScaledTo(k, Scale(k, odd), 0, odd)

\* A result in the subnormal range is rounded once: the last multiplication is
\* exact, and the sum is off by half a step and the rounding of its correction
\* at most; a result that is rounded to zero has the sign of the power too.  tmp
\* is in steps of a sixteenth of that of a mantissa; one is 1.0 where the
\* smallest scale is whole.
Lowest == Down + (-((2^(ExpBits - 1) * N * 13) \div 9)) \div N
RoundedOnce(mant, exp, tmp) ==
  LET one == 2^(2 * MantBits + 4 - Lowest)
      scale == mant * 2^(MantBits + 4 + exp - Lowest)
      sum == scale + Nearest((scale * tmp) \div (16 * Unit))
      y == Subnormal(scale, sum - scale, one)
      grid == one \div Unit
      half == (2 * Unit + 1) * grid
  IN sum \in (-one)..one => /\ y.negative = (scale < 0)
                            /\ y.value % grid = 0
                            /\ (4 * Unit) * (y.value - sum) \in (-half)..half

SubnormalsRoundedOnce ==
  \A mant \in Unit..(2 * Unit - 1), exp \in Lowest..(-1), tmp \in (-3 * Unit)..(3 * Unit) :
    RoundedOnce(mant, exp, tmp) /\ RoundedOnce(-mant, exp, tmp)
=============================================================================
