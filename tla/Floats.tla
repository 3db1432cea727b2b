------------------------------- MODULE Floats -------------------------------
(* runtime/floats.c: caml_fma and caml_round where the C library lacks them, *)
(* and the hexadecimal notation of caml_hexstring_of_float and               *)
(* caml_float_of_string, in a format of P bits.                              *)
EXTENDS Integers, Sequences, SequencesExt

CONSTANTS P, Bias,     \* the bits of a significand, the exponent bias
          IntMax,      \* the largest int
          Inputs       \* the operands, the numbers printed and the texts read
VARIABLES in, out
vars == <<in, out>>

------------------------------------------------------------------------------
(* The processor: binary floating point, to nearest and ties to even.  A     *)
(* finite number is s * m * 2^e; m has P bits unless e is least.             *)
Top == 2 * Bias + 1    \* the exponent field of infinities and NaN
EMin == 2 - Bias - P
Word == 28             \* exact significands are below 2^Word
Pow2 == [n \in 0..30 |-> 2 ^ n]
Length(m) == CHOOSE n \in 0..30 : m < Pow2[n] /\ (n = 0 \/ m >= Pow2[n - 1])
AtMost(a, b) == IF a < b THEN a ELSE b
AtLeast(a, b) == IF a > b THEN a ELSE b

Fin(s, m, e) == [k |-> "fin", s |-> s, m |-> m, e |-> e]
Zero(s) == Fin(s, 0, EMin)
Inf(s) == [k |-> "inf", s |-> s, m |-> 0, e |-> 0]
NaN == [k |-> "nan", s |-> 1, m |-> 0, e |-> 0]
IsZero(x) == x.k = "fin" /\ x.m = 0
Negative(x) == x.s = -1 /\ ~IsZero(x)
Neg(x) == [x EXCEPT !.s = -@]
Exponent(x) ==
    IF x.k # "fin" THEN Top ELSE IF x.m < Pow2[P - 1] THEN 0 ELSE x.e - EMin + 1

(* s * m * 2^e rounded.                                                      *)
Shifted(s, m, e, k) == IF e - k - EMin + 1 >= Top THEN Inf(s) ELSE Fin(s, m * Pow2[k], e - k)
Canonical(s, m, e) ==
    IF m = 0 THEN Zero(s) ELSE Shifted(s, m, e, AtMost(P - Length(m), e - EMin))
Nearest(m, n) ==
    LET q == m \div Pow2[n]   r == m % Pow2[n]   half == Pow2[n - 1]
    IN IF r > half \/ (r = half /\ q % 2 = 1) THEN q + 1 ELSE q
Carried(s, q, e) ==
    LET carry == IF q = Pow2[P] THEN 1 ELSE 0 IN Canonical(s, q \div Pow2[carry], e + carry)
Without(s, m, e, n) ==     \* the n last bits
    IF n > Length(m) + 1 THEN Zero(s)
    ELSE Carried(s, IF n > 0 THEN Nearest(m, n) ELSE m, e + AtLeast(n, 0))
Round(s, m, e) == Without(s, m, e, AtLeast(Length(m) - P, EMin - e))

(* s1*m1*2^e1 + s2*m2*2^e2 rounded, both nonzero: what lies far below the    *)
(* larger only counts by its sign.                                           *)
Total(t, e) == IF t = 0 THEN Zero(1) ELSE Round(IF t < 0 THEN -1 ELSE 1, IF t < 0 THEN -t ELSE t, e)
Sum2(s1, m1, e1, s2, m2, e2) ==
    LET up == Word - 2 - Length(m1)
        gap == AtMost(e1 - e2, up)
        low == IF e1 - e2 <= up THEN m2 ELSE 1
    IN Total((s1 * m1 * Pow2[gap]) + (s2 * low), e1 - gap)
Sum(s1, m1, e1, s2, m2, e2) ==
    IF e1 >= e2 THEN Sum2(s1, m1, e1, s2, m2, e2) ELSE Sum2(s2, m2, e2, s1, m1, e1)
Add(x, y) ==
    IF x.k = "nan" \/ y.k = "nan" \/ (x.k = "inf" /\ y.k = "inf" /\ x.s # y.s) THEN NaN
    ELSE IF x.k = "inf" THEN x ELSE IF y.k = "inf" THEN y
    ELSE IF IsZero(x) /\ IsZero(y) THEN Zero(IF x.s = y.s THEN x.s ELSE 1)
    ELSE IF IsZero(x) THEN y ELSE IF IsZero(y) THEN x
    ELSE Sum(x.s, x.m, x.e, y.s, y.m, y.e)
Sub(x, y) == Add(x, Neg(y))
Mul(x, y) ==
    IF x.k = "nan" \/ y.k = "nan" \/ (x.k = "inf" /\ IsZero(y)) \/ (IsZero(x) /\ y.k = "inf") THEN NaN
    ELSE IF x.k = "inf" \/ y.k = "inf" THEN Inf(x.s * y.s)
    ELSE IF IsZero(x) \/ IsZero(y) THEN Zero(x.s * y.s)
    ELSE Round(x.s * y.s, x.m * y.m, x.e + y.e)
(* x * 2^n; the next number away from zero or towards it (the bits of x plus *)
(* or minus one).                                                            *)
Scale(x, n) == IF x.k # "fin" \/ x.m = 0 THEN x ELSE Round(x.s, x.m, x.e + n)
Away(x) == Round(x.s, x.m + 1, x.e)
Towards(x) ==
    IF x.m = Pow2[P - 1] /\ x.e > EMin THEN Fin(x.s, Pow2[P] - 1, x.e - 1)
    ELSE Fin(x.s, x.m - 1, x.e)

(* x * y + z with one rounding.                                              *)
Fused(x, y, z) ==
    IF x.k # "fin" \/ y.k # "fin" \/ z.k # "fin" \/ IsZero(x) \/ IsZero(y)
    THEN (IF z.k = "inf" /\ x.k = "fin" /\ y.k = "fin" THEN z ELSE Add(Mul(x, y), z))
    ELSE IF IsZero(z) THEN Mul(x, y)
    ELSE Sum(x.s * y.s, x.m * y.m, x.e + y.e, z.s, z.m, z.e)

------------------------------------------------------------------------------
(* caml_fma: multiplication and addition with one rounding, made of          *)
(* operations that round.                                                    *)
U(x) == Exponent(x)

(* Results that need no emulation.                                           *)
Special(x, y, z) ==
    \/ z.k = "inf" /\ x.k = "fin" /\ y.k = "fin"
    \/ IsZero(z) /\ ~IsZero(x) /\ ~IsZero(y)
    \/ x.k # "fin" \/ y.k # "fin" \/ z.k # "fin" \/ IsZero(x) \/ IsZero(y)
    \/ U(x) + U(y) > Top + Bias
    \/ U(x) + U(y) < Bias - P - 2
Tiny(s) == Fin(s, 1, EMin)
SpecialCase(x, y, z) ==
    IF z.k = "inf" /\ x.k = "fin" /\ y.k = "fin" THEN Add(Add(z, x), y)
    ELSE IF IsZero(z) /\ ~IsZero(x) /\ ~IsZero(y) THEN Mul(x, y)
    ELSE IF x.k # "fin" \/ y.k # "fin" \/ z.k # "fin" \/ IsZero(x) \/ IsZero(y) THEN Add(Mul(x, y), z)
    ELSE IF U(x) + U(y) > Top + Bias THEN Mul(x, y)
    ELSE IF U(z) >= 3 THEN Add(Tiny(x.s * y.s), z)
    ELSE Scale(Add(Scale(z, P + 1), Tiny(x.s * y.s)), -(P + 1))

(* The operands are scaled away from the ends of the range.                  *)
Scaled(x, y, z, adjust) == [x |-> x, y |-> y, z |-> z, adjust |-> adjust]
(* A mutant of Adjusted: the smaller factor is scaled down.                  *)
AdjustedSmaller(x, y, z) ==
    LET larger == U(x) > U(y)
    IN IF U(x) + U(y) >= Top + Bias - P
       THEN Scaled(IF larger THEN x ELSE Scale(x, -P), IF larger THEN Scale(y, -P) ELSE y,
                   IF U(z) > P THEN Scale(z, -P) ELSE z, 1)
       ELSE Scaled(x, y, z, 0)
Adjusted(x, y, z) ==
    LET larger == U(x) > U(y)
        times(n) == Scaled(IF larger THEN Scale(x, n) ELSE x, IF larger THEN y ELSE Scale(y, n), z, 0)
    IN CASE U(x) + U(y) >= Top + Bias - P ->
              [times(-P) EXCEPT !.z = IF U(z) > P THEN Scale(z, -P) ELSE z, !.adjust = 1]
         [] U(x) + U(y) < Top + Bias - P /\ U(z) >= Top - P ->
              LET down == [times(IF U(IF larger THEN x ELSE y) > P THEN -P ELSE 0) EXCEPT !.adjust = 1]
                  up == [times(2 * P + 2) EXCEPT !.adjust = 1]
              IN [(IF U(x) + U(y) <= Bias + (2 * P) THEN up ELSE down) EXCEPT !.z = Scale(z, -P)]
         [] OTHER ->
              IF U(x) >= Top - P THEN Scaled(Scale(x, -P), Scale(y, P), z, 0)
              ELSE IF U(y) >= Top - P THEN Scaled(Scale(x, P), Scale(y, -P), z, 0)
              ELSE IF U(z) <= (4 * P) + 6
              THEN [times(2 * P + 2) EXCEPT !.z = Scale(z, 2 * P + 2), !.adjust = -1]
              ELSE times(2 * P + 2)
NearEnds(x, y, z) ==
    \/ U(x) + U(y) >= Top + Bias - P
    \/ U(x) >= Top - P \/ U(y) >= Top - P \/ U(z) >= Top - P
    \/ U(x) + U(y) <= Bias + P

(* Error-free transformations: the high and the low half of a number, the    *)
(* product and the sum with their errors.                                    *)
Half == (P + 1) \div 2
HighPart(x, t) == Sub(t, Sub(t, x))
High(x) == HighPart(x, Mul(x, Canonical(1, Pow2[Half] + 1, 0)))
HalvesError(xh, xl, yh, yl, mh) ==
    Sub(Mul(xl, yl), Sub(Sub(Sub(mh, Mul(xh, yh)), Mul(xl, yh)), Mul(xh, yl)))
MulError(x, y, mh) ==
    LET xh == High(x)  yh == High(y) IN HalvesError(xh, Sub(x, xh), yh, Sub(y, yh), mh)
AddError(a, b, sum) ==
    LET t == Sub(sum, a) IN Add(Sub(a, Sub(sum, t)), Sub(b, t))
TwoSum(a, b) == LET h == Add(a, b) IN [h |-> h, l |-> AddError(a, b, h)]
(* The sum rounded to odd: an inexact even result moves to the odd neighbour *)
(* on the side of the error.                                                 *)
(* A mutant of OddSum: the sum is rounded to nearest.                        *)
NearestSum(a, b) == Add(a, b)
OddSum(a, b) ==
    LET h == Add(a, b)
        l == Add(Sub(a, h), b)
    IN IF IsZero(l) \/ h.m % 2 = 1 THEN h
       ELSE IF (l.s = 1) # Negative(h) THEN Away(h) ELSE Towards(h)
(* What is added up is the product mh + ml and the number z: s is z + mh, t  *)
(* the error of s plus ml.                                                   *)
AddedUp(s, t) ==
    LET u == TwoSum(s.h, t.h) IN Add(u.h, OddSum(u.l, t.l))
Readjusted(r, adjust) ==
    IF adjust = 1 THEN Scale(r, P) ELSE IF adjust = -1 THEN Scale(r, -(2 * P + 2)) ELSE r
Emulated(a) ==
    LET mh == Mul(a.x, a.y)
        ml == MulError(a.x, a.y, mh)
        s == TwoSum(a.z, mh)
    IN IF (IsZero(a.x) \/ IsZero(a.y)) /\ IsZero(a.z) THEN Add(Mul(a.x, a.y), a.z)
       ELSE IF IsZero(s.h) /\ IsZero(ml) THEN Add(a.z, mh)
       ELSE Readjusted(AddedUp(s, TwoSum(s.l, ml)), a.adjust)
caml_fma(x, y, z) ==
    IF NearEnds(x, y, z) /\ Special(x, y, z) THEN SpecialCase(x, y, z)
    ELSE Emulated(IF NearEnds(x, y, z) THEN Adjusted(x, y, z) ELSE Scaled(x, y, z, 0))

(* caml_round: half away from zero, with the number just below one half.     *)
Whole(s, x) ==     \* the integral part of |x|, with the sign s
    IF x.e >= 0 THEN Fin(s, x.m, x.e)
    ELSE Canonical(s, IF -x.e > 30 THEN 0 ELSE x.m \div Pow2[-x.e], 0)
PredHalf == Towards(Canonical(1, 1, -1))
(* A mutant of caml_round: one half is added.                                *)
RoundHalf(x) ==
    IF x.k # "fin" \/ IsZero(x) \/ U(x) >= P - 1 + Bias THEN x
    ELSE Whole(x.s, Add(Fin(1, x.m, x.e), Canonical(1, 1, -1)))
caml_round(x) ==
    IF x.k # "fin" \/ IsZero(x) \/ U(x) >= P - 1 + Bias THEN x
    ELSE Whole(x.s, Add(Fin(1, x.m, x.e), PredHalf))

------------------------------------------------------------------------------
(* A text is a sequence of tokens: digits 0..15, Point, Underscore and Junk, *)
(* and an exponent.                                                          *)
Point == 16
Underscore == 17
Junk == 18
Exp(n) == [ok |-> TRUE, n |-> n]   \* after `p'; Exp(0) when there is none
Error == [ok |-> FALSE, x |-> NaN]
Ok(x) == [ok |-> TRUE, x |-> x]

Mant == P - 1          \* the bits of a stored significand, a multiple of 4
Digits == Mant \div 4
Room == Mant + 8       \* the bits that the reader collects

------------------------------------------------------------------------------
(* caml_hexstring_of_float: a significand rounded to prec digits, then its   *)
(* digits.                                                                   *)
(* A mutant of RoundedTo: ties go up.                                        *)
RoundedUp(m, prec) ==
    LET unit == Pow2[Mant - prec * 4]   frac == m % unit
    IN (m - frac) + (IF frac >= unit \div 2 /\ frac > 0 THEN unit ELSE 0)
RoundedTo(m, prec) ==
    LET unit == Pow2[Mant - prec * 4]   frac == m % unit   whole == m - frac
    IN IF frac > unit \div 2 \/ (frac = unit \div 2 /\ frac > 0 /\ (whole \div unit) % 2 = 1)
       THEN whole + unit ELSE whole
FracDigit(m, k) == (m \div Pow2[Mant - 4 * k]) % 16
Needed(m) ==
    CHOOSE n \in 0..Digits : /\ m % Pow2[Mant - 4 * n] = 0
                             /\ \A k \in 0..(n - 1) : m % Pow2[Mant - 4 * k] # 0
caml_hexstring_of_float(x, prec) ==
    IF x.k # "fin" THEN [special |-> x.k, s |-> x.s, toks |-> <<>>, exp |-> 0]
    ELSE LET m == IF prec \in 0..(Digits - 1) THEN RoundedTo(x.m, prec) ELSE x.m
             n == IF prec >= 0 THEN prec ELSE Needed(m)
             frac == [k \in 1..n |-> IF k <= Digits THEN FracDigit(m, k) ELSE 0]
         IN [special |-> "", s |-> x.s,
             toks |-> <<m \div Pow2[Mant]>> \o (IF n > 0 THEN <<Point>> \o frac ELSE <<>>),
             exp |-> IF x.m = 0 THEN 0 ELSE x.e + Mant]

------------------------------------------------------------------------------
(* caml_float_of_hex, on the tokens without underscores.                     *)
Start == [ok |-> TRUE, m |-> 0, n_bits |-> 0, m_bits |-> 0, x_bits |-> 0, dec_point |-> -1]
(* A mutant of Extra: what does not fit is dropped.                          *)
ExtraDropped(m, d) == m
Extra(m, d) == IF d # 0 /\ m % 2 = 0 THEN m + 1 ELSE m
Scan(r, c) ==
    IF ~r.ok THEN r
    ELSE IF c = Point
    THEN IF r.dec_point >= 0 THEN [r EXCEPT !.ok = FALSE] ELSE [r EXCEPT !.dec_point = r.n_bits]
    ELSE IF c = Junk THEN [r EXCEPT !.ok = FALSE]
    ELSE IF c = 0 /\ r.m = 0 THEN [r EXCEPT !.n_bits = @ + 4]
    ELSE IF r.m_bits < Room
    THEN [r EXCEPT !.n_bits = @ + 4, !.m = @ * 16 + c, !.m_bits = @ + 4]
    ELSE [r EXCEPT !.n_bits = @ + 4, !.m = Extra(@, c), !.x_bits = @ + 4]
IntMin == -IntMax - 1
Saturated(e, adj) ==
    IF adj > 0 /\ e > IntMax - adj THEN IntMax
    ELSE IF adj < 0 /\ e < IntMin - adj THEN IntMin ELSE e + adj
caml_float_of_hex(toks, exp) ==
    LET r == FoldLeft(Scan, Start, toks)
        e == exp.n
        adj == r.x_bits + (IF r.dec_point >= 0 THEN r.dec_point - r.n_bits ELSE 0)
        f == IF r.m = 0 THEN Zero(1) ELSE Round(1, r.m, 0)
    IN IF ~r.ok \/ ~exp.ok THEN Error
       ELSE IF e <= IntMin THEN Ok(Zero(1))
       ELSE IF e >= IntMax THEN Ok(IF r.m = 0 THEN Zero(1) ELSE Inf(1))
       ELSE IF r.n_bits = 0 THEN Error
       ELSE Ok(Scale(f, Saturated(e, adj)))
caml_float_of_string(s, toks, exp) ==
    LET r == caml_float_of_hex(SelectSeq(toks, LAMBDA c : c # Underscore), exp)
    IN IF r.ok /\ s = -1 THEN Ok(Neg(r.x)) ELSE r

------------------------------------------------------------------------------
Init == in \in Inputs /\ out = <<>>
Compute ==
    /\ out = <<>>
    /\ out' = CASE in.op = "fma" -> <<caml_fma(in.x, in.y, in.z), caml_round(in.x)>>
                [] in.op = "print" ->
                     LET t == caml_hexstring_of_float(in.x, in.prec)
                     IN <<t, caml_float_of_string(t.s, t.toks, Exp(t.exp))>>
                [] in.op = "read" -> <<caml_float_of_string(in.s, in.toks, in.exp)>>
    /\ UNCHANGED in
Next == Compute
Spec == Init /\ [][Next]_vars

------------------------------------------------------------------------------
(* y or, when that is subnormal, a neighbour of it.                          *)
Close(x, y) ==
    x = y \/ (x.k = "fin" /\ y.k = "fin" /\ Exponent(y) <= 1 /\ x.e = EMin /\ y.e = EMin
              /\ (x.s * x.m) - (y.s * y.m) \in {-1, 1})
(* The value nearest to |x|, half away from zero.                            *)
Rounded(x) ==
    IF x.k # "fin" \/ IsZero(x) \/ x.e >= 0 THEN x
    ELSE Canonical(x.s, IF -x.e > 29 THEN 0 ELSE (((2 * x.m) \div Pow2[-x.e]) + 1) \div 2, 0)
(* The emulated multiply-add gives what one rounding of x*y + z gives, for   *)
(* operands at either end of the range, exact or cancelling sums, zeros and  *)
(* infinities; a subnormal result, which the scaling rounds again, may be    *)
(* the neighbour.  caml_round rounds half away from zero (floats.c).         *)
FloatsRight ==
    in.op = "fma" /\ out # <<>> =>
      LET exact == Fused(in.x, in.y, in.z)
      IN /\ Close(out[1], exact)
         /\ out[2] = Rounded(in.x)

(* What a text denotes: m * 2^e.                                             *)
Value(toks) == FoldLeft(LAMBDA v, c : IF c >= Point THEN v ELSE v * 16 + c, 0, toks)
After(toks) ==
    LET ps == {k \in DOMAIN toks : toks[k] = Point}
    IN IF ps = {} THEN 0
       ELSE Len(SelectSeq(SubSeq(toks, (CHOOSE k \in ps : TRUE) + 1, Len(toks)), LAMBDA c : c < Point))
Denoted(s, toks, e) == IF Value(toks) = 0 THEN Zero(s) ELSE Round(s, Value(toks), e - 4 * After(toks))
WellFormed(toks, exp) ==
    /\ \E k \in DOMAIN toks : toks[k] < Point
    /\ \A k \in DOMAIN toks : toks[k] # Junk
    /\ Len(SelectSeq(toks, LAMBDA c : c = Point)) <= 1
    /\ exp.ok
(* A number printed without a precision is read back as it was, sign of zero *)
(* and subnormals included; with a precision, the digits printed denote the  *)
(* number rounded to nearest, ties to even, at that digit; and a text of any *)
(* length is read as the number nearest to what it denotes (to its neighbour *)
(* at worst when that is subnormal), or refused when it is ill-formed        *)
(* (unless its exponent exceeds an int, which ends the reading) (floats.c).  *)
HexRight ==
    out # <<>> /\ in.op # "fma" =>
      IF in.op = "print"
      THEN in.x.k = "fin" =>
             /\ out[2].ok
             /\ in.prec < 0 \/ in.prec >= Digits => out[2].x = in.x
             /\ in.prec \in 0..(Digits - 1) =>
                  LET unit == Pow2[Mant - 4 * in.prec]
                      shown == Value(out[1].toks) * unit
                      off == shown - in.x.m
                  IN /\ 2 * off <= unit /\ -2 * off <= unit
                     /\ (2 * off \in {unit, -unit}) => Value(out[1].toks) % 2 = 0
      ELSE /\ WellFormed(in.toks, in.exp) => out[1].ok
           /\ out[1].ok => (WellFormed(in.toks, in.exp) \/ in.exp.n \notin (IntMin + 1)..(IntMax - 1))
           /\ WellFormed(in.toks, in.exp) => Close(out[1].x, Denoted(in.s, in.toks, in.exp.n))
=============================================================================
