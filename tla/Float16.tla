------------------------------ MODULE Float16 ------------------------------
(* The conversions between floats and half-precision floats                  *)
(* (runtime/bigarray.c), as bit patterns of scaled-down formats: the wide    *)
(* format has EF exponent and MF mantissa bits (8 and 23), the half format   *)
(* EH and MH (5 and 10).                                                     *)
EXTENDS Integers, FiniteSets

CONSTANTS EF, MF, EH, MH

VARIABLES f, h          \* a float converted to a half, a half to a float
vars == <<f, h>>

Pow(n) == 2 ^ n
BiasF == Pow(EF - 1) - 1
BiasH == Pow(EH - 1) - 1
ShiftL(i, n) == i * Pow(n)
ShiftR(i, n) == i \div Pow(n)
WordsF == 0..(Pow(EF + MF + 1) - 1)
WordsH == 0..(Pow(EH + MH + 1) - 1)

------------------------------------------------------------------------------
(* Positive floats as numbers: multiples of the smallest subnormal.          *)
Exponent(i) == ShiftR(i, MF)
Value(i) == IF Exponent(i) = 0 THEN i
            ELSE (Pow(MF) + (i % Pow(MF))) * Pow(Exponent(i) - 1)
Finite == 0..(ShiftL(Pow(EF) - 1, MF) - 1)
InfinityF == ShiftL(Pow(EF) - 1, MF)
(* The float nearest to the number v, the even one of two; infinity from     *)
(* half a unit past the largest.  Consecutive patterns are consecutive       *)
(* numbers.                                                                  *)
Round(v) ==
    LET below == CHOOSE i \in Finite :
                     /\ Value(i) <= v
                     /\ i + 1 \in Finite => Value(i + 1) > v
        gap == IF below + 1 \in Finite THEN Value(below + 1) - Value(below)
               ELSE Value(below) - Value(below - 1)
        past == 2 * (v - Value(below))
    IN IF past > gap \/ (past = gap /\ below % 2 = 1) THEN below + 1 ELSE below
AddF(i, j) == Round(Value(i) + Value(j))

------------------------------------------------------------------------------
(* magic scales by a power of two, exactly.                                  *)
caml_float16_to_float(d) ==
    LET sign == ShiftR(d, EH + MH)
        o == ShiftL(d % Pow(EH + MH), MF - MH)
        scaled == Round(Value(o) * Pow(BiasF - BiasH))
        was_infnan == ShiftL(BiasF + BiasH + 1, MF)
        (* o.i |= 255 << 23 *)
        kept == IF scaled >= was_infnan
                THEN InfinityF + (scaled % Pow(MF)) ELSE scaled
    IN kept + ShiftL(sign, EF + MF)

f16max == ShiftL(BiasF + BiasH + 1, MF)
denorm_magic == ShiftL((BiasF - BiasH) + (MF - MH) + 1, MF)

(* A mutant of Normal: the second part of the rounding bias is missing.      *)
NormalHalfUp(i) ==
    ShiftR(i - ShiftL(BiasF - BiasH, MF) + Pow(MF - MH - 1), MF - MH)
(* The exponent is changed and the rounding bias added, in two parts.        *)
Normal(i) ==
    LET mant_odd == ShiftR(i, MF - MH) % 2
    IN ShiftR(i - ShiftL(BiasF - BiasH, MF) + (Pow(MF - MH - 1) - 1) + mant_odd,
              MF - MH)
(* Adding denorm_magic leaves the mantissa bits of the half at the bottom.   *)
Subnormal(i) == AddF(i, denorm_magic) - denorm_magic

caml_float_to_float16(d) ==
    LET sign == ShiftR(d, EF + MF)
        i == d % Pow(EF + MF)
        o == CASE i >= f16max ->
                    IF i > InfinityF THEN ShiftL(Pow(EH) - 1, MH) + Pow(MH - 1)
                    ELSE ShiftL(Pow(EH) - 1, MH)
               [] i < f16max /\ i < ShiftL(BiasF - BiasH + 1, MF) -> Subnormal(i)
               [] OTHER -> Normal(i)
    IN o + ShiftL(sign, EH + MH)

------------------------------------------------------------------------------
Init == f = 0 /\ h = 0
Next == f = 0 /\ f' \in WordsF /\ h' = f' % Pow(EH + MH + 1)
Spec == Init /\ [][Next]_vars

------------------------------------------------------------------------------
(* A half as a number, in the units of Value; infinity counts as the number  *)
(* after the largest.                                                        *)
ValueH(i) ==
    Pow(BiasF - BiasH + MF - MH)
    * IF ShiftR(i, MH) = 0 THEN i
      ELSE (Pow(MH) + (i % Pow(MH))) * Pow(ShiftR(i, MH) - 1)
InfinityH == ShiftL(Pow(EH) - 1, MH)
Distance(v, i) == IF v > ValueH(i) THEN v - ValueH(i) ELSE ValueH(i) - v
Nearest(v, i) ==
    \/ v > ValueH(InfinityH) /\ i = InfinityH
    \/ /\ i \in 0..InfinityH
       /\ \A j \in (0..InfinityH) \ {i} :
              \/ Distance(v, i) < Distance(v, j)
              \/ Distance(v, i) = Distance(v, j) /\ i % 2 = 0

(* A float becomes the nearest half, the even one of two, infinity and NaN   *)
(* and the sign are kept, and a half becomes the float of the same value     *)
(* (the element kind float16 of Bigarray).                                   *)
HalvesRound ==
    LET m == f % Pow(EF + MF)
        r == caml_float_to_float16(f)
        rm == r % Pow(EH + MH)
        n == h % Pow(EH + MH)
        w == caml_float16_to_float(h)
        wm == w % Pow(EF + MF)
    IN /\ ShiftR(r, EH + MH) = ShiftR(f, EF + MF)
       /\ m < InfinityF => Nearest(Value(m), rm)
       /\ m = InfinityF => rm = InfinityH
       /\ m > InfinityF => rm > InfinityH
       /\ ShiftR(w, EF + MF) = ShiftR(h, EH + MH)
       /\ n < InfinityH => wm < InfinityF /\ Value(wm) = ValueH(n)
       /\ n = InfinityH => wm = InfinityF
       /\ n > InfinityH => wm > InfinityF
==============================================================================
