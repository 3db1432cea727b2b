------------------------------- MODULE Ints -------------------------------
(* Integers of the runtime (runtime/ints.c): reading and printing them, the  *)
(* arithmetic of int32, int64 and nativeint, their hash and their marshalled *)
(* form.  Widths are constants: a word has Word bits, an int32 has Half      *)
(* bits, an int64 has Long bits, and a tagged integer one bit less than a    *)
(* word.                                                                     *)
EXTENDS Integers, Sequences, SequencesExt, FiniteSets, TLC, Bitwise

CONSTANTS Word, Half, Long,
          Jobs                  \* operation, width and arguments

VARIABLES job, result
vars == <<job, result>>

Signed(x, w) == LET u == x % (2^w) IN IF u >= 2^(w - 1) THEN u - 2^w ELSE u
Unsigned(x, w) == x % (2^w)
Value(x) == [ok |-> TRUE, v |-> x]
Failure == [ok |-> FALSE, v |-> 0]

------------------------------------------------------------------------------
(* Reading.  A string is a sequence of characters; CharAt(s, p) is the zero  *)
(* byte after its end.                                                       *)
Digit == [c \in {"0", "1", "2", "6", "8", "9", "f"} |->
             CASE c = "0" -> 0 [] c = "1" -> 1 [] c = "2" -> 2 [] c = "6" -> 6
               [] c = "8" -> 8 [] c = "9" -> 9 [] OTHER -> 15]
CharAt(s, p) == IF p \in DOMAIN s THEN s[p] ELSE "nul"
parse_sign_and_base(s) ==
    LET p == IF CharAt(s, 1) \in {"-", "+"} THEN 2 ELSE 1
        letter == IF CharAt(s, p) = "0" THEN CharAt(s, p + 1) ELSE "none"
        known == letter \in {"x", "o", "b", "u"}
    IN [sign |-> IF CharAt(s, 1) = "-" THEN -1 ELSE 1,
        base |-> CASE letter = "x" -> 16 [] letter = "o" -> 8
                   [] letter = "b" -> 2 [] OTHER -> 10,
        signedness |-> ~known,
        p |-> IF known THEN p + 2 ELSE p]
parse_digit(c) == IF c \in DOMAIN Digit THEN Digit[c] ELSE -1

(* One character of the loop, on unsigned numbers of w bits.                 *)
(* A mutant of Accumulate: only the multiplication is checked.               *)
AccumulateUnchecked(r, c, base, w) ==
    LET d == parse_digit(c)
        res == Unsigned(base * r.res + d, w)
    IN CASE r.state # "loop" \/ c = "_" -> r
         [] r.state = "loop" /\ (d < 0 \/ d >= base) /\ c # "_" ->
               [r EXCEPT !.state = "stopped"]
         [] r.state = "loop" /\ d \in 0..base - 1 /\ r.res > (2^w - 1) \div base ->
               [r EXCEPT !.state = "failed"]
         [] OTHER -> [r EXCEPT !.res = res]
Accumulate(r, c, base, w) ==
    LET d == parse_digit(c)
        res == Unsigned(base * r.res + d, w)
    IN CASE r.state # "loop" \/ c = "_" -> r
         [] r.state = "loop" /\ (d < 0 \/ d >= base) /\ c # "_" ->
               [r EXCEPT !.state = "stopped"]
         [] r.state = "loop" /\ d \in 0..base - 1 /\ r.res > (2^w - 1) \div base ->
               [r EXCEPT !.state = "failed"]
         [] OTHER -> IF res < d THEN [r EXCEPT !.state = "failed"]
                     ELSE [r EXCEPT !.res = res]
(* The digits from h.p on; a character that is no digit of the base stops    *)
(* the loop before the end of the string, which is a failure too.            *)
Digits(s, h, w) ==
    LET d == parse_digit(CharAt(s, h.p))
    IN IF d < 0 \/ d >= h.base THEN [res |-> 0, state |-> "failed"]
       ELSE FoldLeft(LAMBDA r, c : Accumulate(r, c, h.base, w),
                     [res |-> d, state |-> "loop"], SubSeq(s, h.p + 1, Len(s)))

(* A mutant of SignedFits: the smallest number is refused.                   *)
SignedFitsBoth(sign, res, nbits) == res < 2^(nbits - 1)
SignedFits(sign, res, nbits) ==
    IF sign >= 0 THEN res < 2^(nbits - 1) ELSE res <= 2^(nbits - 1)
parse_intnat(s, nbits) ==
    LET h == parse_sign_and_base(s)
        r == Digits(s, h, Word)
        fits == IF h.signedness THEN SignedFits(h.sign, r.res, nbits)
                ELSE nbits < Word => r.res < 2^nbits
    IN IF r.state # "loop" \/ ~fits THEN Failure
       ELSE Value(Signed(h.sign * r.res, Word))
caml_int64_of_string(s) ==
    LET h == parse_sign_and_base(s)
        r == Digits(s, h, Long)
    IN IF r.state # "loop" \/ (h.signedness /\ ~SignedFits(h.sign, r.res, Long))
       THEN Failure
       ELSE Value(Signed(h.sign * r.res, Long))
Convert(r, w) == IF r.ok THEN Value(Signed(r.v, w)) ELSE r
OfString(kind, s) ==
    CASE kind = "int" -> Convert(parse_intnat(s, Word - 1), Word - 1)
      [] kind = "int32" -> Convert(parse_intnat(s, Half), Half)
      [] kind = "nativeint" -> parse_intnat(s, Word)
      [] kind = "int64" -> caml_int64_of_string(s)
Bits(kind) == CASE kind = "int" -> Word - 1 [] kind = "int32" -> Half
                [] kind = "nativeint" -> Word [] OTHER -> Long

------------------------------------------------------------------------------
(* Printing: the digits of a number that is taken as unsigned for %u, %x and *)
(* %o, and as signed for %d.                                                 *)
RECURSIVE Printed(_, _)
Printed(n, base) == IF n < base THEN <<n>> ELSE Append(Printed(n \div base, base), n % base)
caml_format_int(kind, conv, n) ==
    IF conv = 10 /\ n < 0 THEN [minus |-> TRUE, digits |-> Printed(-n, 10)]
    ELSE [minus |-> FALSE, digits |-> Printed(Unsigned(n, Bits(kind)), IF conv = 0 THEN 10 ELSE conv)]

------------------------------------------------------------------------------
(* Arithmetic at w bits.  C division rounds toward zero.                     *)
Abs(x) == IF x < 0 THEN -x ELSE x
Quotient(a, b) == LET q == Abs(a) \div Abs(b) IN IF (a < 0) = (b < 0) THEN q ELSE -q
MinInt(w) == -(2^(w - 1))
Copy(x, w) == Value(Signed(x, w))
int_div(a, b, w) ==
    CASE b = 0 -> Failure
      [] b = -1 /\ a = MinInt(w) -> Value(a)
      [] OTHER -> Copy(Quotient(a, b), w)
int_mod(a, b, w) ==
    CASE b = 0 -> Failure
      [] b = -1 /\ a = MinInt(w) -> Value(0)
      [] OTHER -> Copy(a - b * Quotient(a, b), w)
Shift(a, n, w, op) ==
    CASE op = "lsl" -> Copy(a * 2^n, w)
      [] op = "asr" -> Copy(a \div (2^n), w)
      [] op = "lsr" -> Copy(Unsigned(a, w) \div (2^n), w)
Logic(a, b, w, op) ==
    LET x == Unsigned(a, w) y == Unsigned(b, w)
    IN Copy(CASE op = "and" -> x & y [] op = "or" -> x | y [] op = "xor" -> x ^^ y, w)
Arith(op, a, b, w) ==
    CASE op = "neg" -> Copy(-a, w)
      [] op = "add" -> Copy(a + b, w)
      [] op = "sub" -> Copy(a - b, w)
      [] op = "mul" -> Copy(a * b, w)
      [] op = "div" -> int_div(a, b, w)
      [] op = "mod" -> int_mod(a, b, w)
      [] op \in {"and", "or", "xor"} -> Logic(a, b, w, op)
      [] op \in {"lsl", "asr", "lsr"} -> Shift(a, b, w, op)
caml_int32_arith(op, a, b) == Arith(op, a, b, Half)
caml_int64_arith(op, a, b) == Arith(op, a, b, Long)
caml_nativeint_arith(op, a, b) == Arith(op, a, b, Word)

(* Bytes of two bits: the lowest byte becomes the highest.                   *)
Byte == 2
Bytes(w) == w \div Byte
ByteOf(x, k) == (Unsigned(x, Long) \div (2^(Byte * k))) % (2^Byte)
RECURSIVE SwapFrom(_, _, _)
SwapFrom(x, k, n) ==
    IF k = n THEN 0 ELSE ByteOf(x, k) * 2^(Byte * (n - 1 - k)) + SwapFrom(x, k + 1, n)
bswap(x, w) == Copy(SwapFrom(x, 0, Bytes(w)), w)
caml_int32_bswap(x) == bswap(x, Half)
caml_int64_bswap(x) == bswap(x, Long)
caml_nativeint_bswap(x) == bswap(x, Word)
(* Conversions between the kinds keep the low bits.                          *)
OfKind(kind, x) == Copy(x, Bits(kind))

(* The hash of a nativeint, and its marshalled form: a short one when the    *)
(* number has Half bits, read back by a machine with words of w bits.        *)
nativeint_hash(n) ==
    LET hi == Unsigned(n \div (2^Half), Word)
        sign == Unsigned(n \div (2^(Word - 1)), Word)
    IN (hi ^^ sign) ^^ Unsigned(n, Word)
FitsHalf(n) == n \in MinInt(Half)..2^(Half - 1) - 1
(* A mutant of nativeint_serialize: the short form is unsigned.              *)
SerializeUnsigned(n, w) ==
    IF w = Half \/ n \in 0..2^Half - 1
    THEN [size |-> 1, data |-> Unsigned(n, Half)] ELSE [size |-> 2, data |-> Unsigned(n, Word)]
nativeint_serialize(n, w) ==
    IF w = Half \/ FitsHalf(n)
    THEN [size |-> 1, data |-> Unsigned(n, Half)] ELSE [size |-> 2, data |-> Unsigned(n, Word)]
nativeint_deserialize(b, w) ==
    CASE b.size = 1 -> Value(Signed(b.data, Half))
      [] b.size = 2 -> IF w = Half THEN Failure ELSE Value(Signed(b.data, Word))

------------------------------------------------------------------------------
Init == job \in Jobs /\ result = <<>>
Run ==
    /\ result = <<>>
    /\ result' = <<
         CASE job.op = "of_string" -> OfString(job.kind, job.s)
           [] job.op = "format" -> caml_format_int(job.kind, job.conv, job.a) @@ [ok |-> TRUE]
           [] job.op = "bswap" ->
                (CASE job.kind = "int32" -> caml_int32_bswap(job.a)
                   [] job.kind = "int64" -> caml_int64_bswap(job.a)
                   [] job.kind = "nativeint" -> caml_nativeint_bswap(job.a))
           [] job.op = "convert" -> OfKind(job.to, job.a)
           [] job.op = "hash" -> Value(nativeint_hash(job.a))
           [] job.op = "marshal" ->
                 nativeint_deserialize(nativeint_serialize(job.a, job.from), job.to)
           [] OTHER ->
                 CASE job.kind = "int32" -> caml_int32_arith(job.op, job.a, job.b)
                   [] job.kind = "int64" -> caml_int64_arith(job.op, job.a, job.b)
                   [] job.kind = "nativeint" -> caml_nativeint_arith(job.op, job.a, job.b)>>
    /\ UNCHANGED job
Next == Run
Spec == Init /\ [][Next]_vars

------------------------------------------------------------------------------
Done == result # <<>>
Result == result[1]

(* The number a string denotes, without any bound.                           *)
RECURSIVE Number(_, _, _)
Number(ds, base, k) ==
    IF k = 0 THEN 0 ELSE Number(ds, base, k - 1) * base + Digit[ds[k]]
(* Reading gives the number that is written, and fails exactly when that is  *)
(* none or does not fit (ints.c, "Signed representation expected, allow      *)
(* -2^(nbits-1) to 2^(nbits-1) - 1", "Unsigned representation expected,      *)
(* allow 0 to 2^nbits - 1").                                                 *)
ParseExact ==
    Done /\ job.op = "of_string" =>
        LET h == parse_sign_and_base(job.s)
            rest == SubSeq(job.s, h.p, Len(job.s))
            ds == SelectSeq(rest, LAMBDA c : c # "_")
            wf == /\ rest # <<>> /\ rest[1] # "_"
                  /\ \A k \in DOMAIN ds :
                        ds[k] \in DOMAIN Digit /\ Digit[ds[k]] < h.base
            n == Number(ds, h.base, Len(ds))
            bits == Bits(job.kind)
            fits == IF h.signedness
                    THEN h.sign * n \in MinInt(bits)..2^(bits - 1) - 1
                    ELSE n < 2^bits
        IN Result = IF wf /\ fits THEN Value(Signed(h.sign * n, bits)) ELSE Failure

(* What is printed in any base is read back as the same number.              *)
PrintedRead ==
    Done /\ job.op = "format" =>
        LET base == IF job.conv = 0 THEN 10 ELSE job.conv
            n == FoldLeft(LAMBDA acc, d : acc * base + d, 0, Result.digits)
        IN Signed(IF Result.minus THEN -n ELSE n, Bits(job.kind)) = job.a

(* Division and remainder belong together, for the smallest number divided   *)
(* by -1 too (ints.c, PR#4740), and the remainder has the sign of the        *)
(* dividend.                                                                 *)
DivisionRight ==
    Done /\ job.op \in {"div", "mod"} /\ job.b # 0 =>
        LET q == int_div(job.a, job.b, Bits(job.kind)).v
            r == int_mod(job.a, job.b, Bits(job.kind)).v
        IN /\ Signed(job.b * q + r, Bits(job.kind)) = job.a
           /\ Abs(r) < Abs(job.b)
           /\ r # 0 => (r < 0) = (job.a < 0)
(* A nativeint that both kinds of machine have is hashed and marshalled      *)
(* alike by both (ints.c, "32/64 bits compatibility trick").                 *)
Portable ==
    Done =>
        /\ job.op = "hash" /\ FitsHalf(job.a) =>
              Unsigned(Result.v, Half) = Unsigned(job.a, Half)
        /\ job.op = "marshal" =>
              IF job.to = Word \/ FitsHalf(job.a) THEN Result = Value(job.a)
              ELSE ~Result.ok
        /\ job.op = "bswap" => bswap(Result.v, Bits(job.kind)) = Value(job.a)
        /\ job.op = "convert" /\ Bits(job.to) >= Bits(job.kind) =>
              Result = Value(job.a)
(* Reading and printing, division, and the forms that other machines read:   *)
(* ParseExact, PrintedRead, DivisionRight and Portable.                      *)
IntegersRight == ParseExact /\ PrintedRead /\ DivisionRight /\ Portable
=============================================================================
