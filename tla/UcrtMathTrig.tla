----------------------------- MODULE UcrtMathTrig -----------------------------
(***************************************************************************)
(* sin, cos and tan as the Windows CRT computes them, around their kernels:*)
(* the reduction of a large argument by Payne and Hanek in words of        *)
(* WordBits, and the choice of kernel and sign by the quadrant.            *)
(***************************************************************************)
EXTENDS Integers, FiniteSetsExt, SequencesExt

CONSTANTS
  WordBits, ByteBits,       \* 64 and 8
  TrigBits,                 \* 52, the bits of a mantissa
  TopBits,                  \* 10: the integer bits in the first word, at least
  FirstByte,                \* 0x86: where the window of exponent 0 begins
  Precision,                \* of a fraction, in the comparison of IsReduced
  TWOBYPI                   \* the bytes of 2/pi, the least significant first

W == 2^WordBits
Bytes == WordBits \div ByteBits

\* A word from a byte on.
load64(off) == MapThenSumSet(LAMBDA i : TWOBYPI[off + i] * 2^(ByteBits * i), 0..(Bytes - 1))

\* The last set bit, or what was there before.
bsr(v, dest) == IF v = 0 THEN dest ELSE CHOOSE p \in 0..(WordBits - 1) : 2^p <= v /\ v < 2^(p + 1)

-----------------------------------------------------------------------------
(* reduce_large(x) for x = m 2^(e - TrigBits), with the routine's names.   *)

\* m times three words of 2/pi, without what is above them.
Product(off, m) ==
  LET p0 == load64(off) * m
      p1 == load64(off + Bytes) * m
      s == (p1 % W) + p0 \div W
  IN [r8 |-> p0 % W, r9 |-> s % W,
      r10 |-> (p1 \div W + s \div W + load64(off + 2 * Bytes) * m) % W]

\* Faulty variant: the quadrant is not rounded up with the fraction.
NearestRegionDown(r, cl) ==
  LET cf == (r.r10 \div 2^(cl - 1)) % 2
      Complement(v) == IF cf = 1 THEN W - 1 - v ELSE v
  IN [region |-> (r.r10 \div 2^cl) % 4, neg |-> cf = 1,
      r8 |-> Complement(r.r8), r9 |-> Complement(r.r9), r10 |-> Complement(r.r10) % 2^cl]

\* The quadrant nearest to x, and the bits of the fraction, complemented where
\* it is negative.
NearestRegion(r, cl) ==
  LET cf == (r.r10 \div 2^(cl - 1)) % 2
      Complement(v) == IF cf = 1 THEN W - 1 - v ELSE v
  IN [region |-> (r.r10 \div 2^cl + cf) % 4, neg |-> cf = 1,
      r8 |-> Complement(r.r8), r9 |-> Complement(r.r9), r10 |-> Complement(r.r10) % 2^cl]

\* No bit of the first word is left: the words move up.  r11 is the exponent
\* of the bit above the first word.
MoveUp(r, r11) ==
  IF r.r10 # 0 THEN r @@ [r11 |-> r11, rcx |-> bsr(r.r10, WordBits + r11)]
  ELSE [r EXCEPT !.r10 = r.r9, !.r9 = r.r8, !.r8 = 0]
         @@ [r11 |-> r11 - WordBits, rcx |-> bsr(r.r9, WordBits + r11)]

\* The leading bit moves to the place of a mantissa's.
Align(r, n) ==
  IF n >= 0
    THEN [r EXCEPT !.r10 = @ \div 2^n, !.r9 = @ \div 2^n + ((r.r10 * 2^(WordBits - n)) % W)]
    ELSE [r EXCEPT !.r10 = @ * 2^(-n) + r.r9 \div 2^(WordBits + n),
                   !.r9 = ((@ * 2^(-n)) % W) + r.r8 \div 2^(WordBits + n)]

\* hi and lo as exponents and mantissas, lo from the leading bit of r9 on.  Of
\* no bits, lo has an exponent far below.
Parts(r) ==
  LET top == bsr(r.r9, 0)
      exp == r.r11 + r.rcx
      below == IF r.r9 = 0 THEN WordBits + TrigBits ELSE WordBits - top + TrigBits
  IN [region |-> r.region, neg |-> r.neg,
      hi |-> [exp |-> exp, mant |-> r.r10 - 2^TrigBits],
      lo |-> [exp |-> exp - below,
              mant |-> ((r.r9 * 2^((WordBits - top) % WordBits)) % W) \div 2^(WordBits - TrigBits)]]

Aligned(r) == Parts(Align(r, r.rcx - TrigBits))

reduce_large(e, m) ==
  LET r11 == e % ByteBits
      r == NearestRegion(Product(FirstByte - e \div ByteBits, m), WordBits - TopBits - r11)
  IN Aligned(MoveUp(r, r11 + TopBits - WordBits))

-----------------------------------------------------------------------------
(* The kernel and its sign, for an argument with a sign in a quadrant.     *)

Odd(region) == region % 2 = 1
Flipped(sign, n) == IF n \in {2, 3} THEN -sign ELSE sign

\* An argument within pi/4 is in region 0.
ucrt_sin(sign, region) ==
  [kernel |-> IF Odd(region) THEN "cos" ELSE "sin", sign |-> Flipped(sign, region)]

ucrt_cos(sign, region) ==
  [kernel |-> IF Odd(region) THEN "sin" ELSE "cos", sign |-> Flipped(1, (region + 1) % 4)]

\* ucrt_tan in fractions [num, den].  w is 1 or -1 where |r| is above 0.68 and t
\* is the tangent of pi/4 - |r|; otherwise w is 0 and t that of r.
Fraction(num, den) == [num |-> num, den |-> den]
Times(n, f) == Fraction(n * f.num, f.den)
ucrt_tan(sign, region, w, t) ==
  Times(sign,
    CASE w # 0 /\ Odd(region) -> Times(w, Fraction(2 * t.num - (t.num - t.den), t.num - t.den))
      [] w # 0 -> Times(w, Fraction((t.num + t.den) - 2 * t.num, t.num + t.den))
      [] Odd(region) -> Fraction(-t.den, t.num)
      [] OTHER -> t)

-----------------------------------------------------------------------------
(* What the reduction and the choice promise.                              *)

\* The first n bits of m times all of 2/pi, in columns with their carries.
Bit(v, j) == (v \div 2^j) % 2
TwoByPiBit(j) == IF j \div ByteBits \in DOMAIN TWOBYPI
                   THEN Bit(TWOBYPI[j \div ByteBits], j % ByteBits) ELSE 0
Column(m, j) == MapThenSumSet(LAMBDA i : Bit(m, i) * TwoByPiBit(j - i), 0..Min({j, TrigBits}))
NextBit(m, p, sum) == [bits |-> Append(p.bits, sum % 2), carry |-> sum \div 2]
ProductBits(m, n) ==
  FoldLeftDomain(LAMBDA p, j : NextBit(m, p, p.carry + Column(m, j - 1)),
                 [bits |-> <<>>, carry |-> 0], [j \in 1..n |-> j]).bits

\* x is the quadrant and hi + lo of the next, but for what is below the last bit
\* of lo or of its word and for the bits of 2/pi past the window; hi is at most
\* one half, and lo below the last bit of hi.  bits holds the product, its
\* fraction up to point.
LastBit(r) ==
  LET last == Max({r.lo.exp, r.hi.exp - WordBits}) - TrigBits
  IN IF last < -Precision THEN 1 ELSE 2^(Precision + last)
Worth(part) ==
  LET n == Precision + part.exp - TrigBits
      v == 2^TrigBits + part.mant
  IN IF n < 0 THEN v \div 2^(-n) ELSE v * 2^n
IsReduced(r, bits, point) ==
  LET f == bits[point]
      fraction == MapThenSumSet(LAMBDA i : 2^(Precision - i),
                                {i \in 1..Precision : bits[point + 1 - i] # f})
  IN /\ r.region = (bits[point + 1] + 2 * bits[point + 2] + f) % 4
     /\ r.neg <=> f = 1
     /\ r.hi.exp < -1 /\ r.lo.exp < r.hi.exp - TrigBits
     /\ fraction - Worth(r.hi) - Worth(r.lo) \in (-1)..(LastBit(r) + 1)

\* Where the point is in the product.
Point(e) == 3 * WordBits - TopBits + ByteBits * FirstByte - e
LargeReduced(exponents, m) ==
  LET bits == ProductBits(m, Point(Min(exponents)) + 2)
  IN \A e \in exponents : IsReduced(reduce_large(e, m), bits, Point(e))

\* The sine of r after 0, 1, 2 and 3 quarter turns; the cosine is a turn ahead.
Turns == << [kernel |-> "sin", sign |-> 1], [kernel |-> "cos", sign |-> 1],
            [kernel |-> "sin", sign |-> -1], [kernel |-> "cos", sign |-> -1] >>

Same(f, g) == f.num * g.den = g.num * f.den
Turned(region, f) == IF region % 2 = 1 THEN Fraction(-f.den, f.num) ELSE f

\* The tangent of r from that of pi/4 - |r|.
TanR(w, t) == IF w = 0 THEN t ELSE Fraction(w * (t.den - t.num), t.den + t.num)

QuadrantsAgree ==
  \A region \in 0..3, sign \in {1, -1} :
    /\ ucrt_sin(sign, region) = [Turns[region + 1] EXCEPT !.sign = sign * @]
    /\ ucrt_cos(sign, region) = Turns[1 + ((region + 1) % 4)]
    /\ \A w \in {-1, 0, 1}, num \in 1..2, den \in 3..4 :
         LET t == Fraction(num, den)
         IN Same(ucrt_tan(sign, region, w, t), Times(sign, Turned(region, TanR(w, t))))
=============================================================================
