----------------------------- MODULE MCPrograms -----------------------------
(***************************************************************************)
(* Algorithms, on bounded inputs and against a reference definition: what  *)
(* they compute, one primitive or one instruction at a time.  A behaviour  *)
(* is one of these parts, chosen at the start; x1, x2, ... are its         *)
(* variables, in the order in which its module declares them.              *)
(***************************************************************************)
EXTENDS Integers, Sequences, SequencesExt, FiniteSets, TLC

CONSTANTS Parts, MaJobs, MaFragments, MaForeign, MaCustoms, CoHeap, CoValues,
  CoCounts, CoCusts, BdJobs, FmInputs, HxInputs, SmJobs, IvJobs, LxTexts,
  LxTables, AmHash, FtTables, TtTrace, TtParent

VARIABLES part, x1, x2, x3, x4, x5, x6, x7, x8, x9, x10, x11, x12, x13, x14,
  x15, x16
vars == <<part, x1, x2, x3, x4, x5, x6, x7, x8, x9, x10, x11, x12, x13, x14,
  x15, x16>>

(* The variables from x(n+1) on are not used by the part under way.        *)
None == "none"
Unused10 == x11 = None /\ x12 = None /\ x13 = None /\ x14 = None /\ x15 = None /\ x16 = None
Kept10 == UNCHANGED <<x11, x12, x13, x14, x15, x16>>
Unused9 == x10 = None /\ Unused10
Kept9 == UNCHANGED <<x10>> /\ Kept10
Unused6 == x7 = None /\ x8 = None /\ x9 = None /\ Unused9
Kept6 == UNCHANGED <<x7, x8, x9>> /\ Kept9
Unused4 == x5 = None /\ x6 = None /\ Unused6
Kept4 == UNCHANGED <<x5, x6>> /\ Kept6
Unused2 == x3 = None /\ x4 = None /\ Unused4
Kept2 == UNCHANGED <<x3, x4>> /\ Kept4
Unused1 == x2 = None /\ Unused2
Kept1 == UNCHANGED <<x2>> /\ Kept2

-----------------------------------------------------------------------------
MaThreads == {"t1", "t2"}
Ma == INSTANCE Marshal WITH
  Threads <- MaThreads, Jobs <- MaJobs, Radix <- 4, SmallInt <- 1,
  SmallString <- 1, SmallSize <- 2, Block32 <- 3, CompatString <- 20,
  CompatFloats <- 6, OutputBlock <- 16, PosInit <- 2, PosQuick <- 4,
  StackInit <- 2, StackMax <- 16, Fragments <- MaFragments,
  Foreign <- MaForeign, Customs <- MaCustoms, pc <- x1, job <- x2, loc <- x3,
  chan <- x4, ext <- x5, int <- x6

(* The same module, for the terms the inputs below are written in.          *)
MaT == INSTANCE Marshal WITH
  Threads <- MaThreads, Jobs <- {}, Radix <- 4, SmallInt <- 1,
  SmallString <- 1, SmallSize <- 2, Block32 <- 3, CompatString <- 20,
  CompatFloats <- 6, OutputBlock <- 16, PosInit <- 2, PosQuick <- 4,
  StackInit <- 2, StackMax <- 16, Fragments <- {},
  Foreign <- {}, Customs <- {}, pc <- x1, job <- x2, loc <- x3,
  chan <- x4, ext <- x5, int <- x6
(* One thread takes each of the sample jobs, with another at work on channels. *)
MaSomeFragments == {[start |-> 0, end |-> 8, digest |-> 1], [start |-> 8, end |-> 12, digest |-> 0],
                [start |-> 20, end |-> 24, digest |-> 2]}
MaSomeForeign == {2}
MaSomeCustoms ==
  <<[fixed |-> TRUE, width |-> 8, size |-> 8, serialize |-> TRUE, known |-> TRUE],
    [fixed |-> FALSE, width |-> 2, size |-> 0, serialize |-> TRUE, known |-> TRUE],
    [fixed |-> FALSE, width |-> 1, size |-> 0, serialize |-> FALSE, known |-> TRUE],
    [fixed |-> FALSE, width |-> 4, size |-> 0, serialize |-> TRUE, known |-> FALSE]>>

MaBlock(tag, fields) == [tag |-> tag, fields |-> fields, data |-> 0, name |-> 0]
MaStr(len) == [tag |-> MaT!String, fields |-> <<>>, data |-> len, name |-> 7]
MaFlt == [tag |-> MaT!Double, fields |-> <<>>, data |-> 1, name |-> 5]
MaFloats(n) == [tag |-> MaT!DoubleArray, fields |-> <<>>, data |-> n, name |-> 6]
MaCust(name, xs) == [tag |-> MaT!Custom, fields |-> [i \in DOMAIN xs |-> MaT!Long(xs[i])], data |-> 0, name |-> name]
(* Two functions of one and of two arguments, and one word of environment.   *)
MaFun(pt, env) == MaBlock(MaT!Closure, <<MaT!Code(pt), MaT!Closinfo(1, 6), MaT!Long(3), MaT!Code(pt + 1), MaT!Closinfo(2, 3),
                                 MaT!Code(pt + 2), env>>)
MaChain(n, last) == [i \in 1 .. n |-> MaBlock(0, <<MaT!Long(i), IF i = n THEN last ELSE MaT!Ptr(i + 1)>>)]
MaStrings(n) == [i \in 1 .. 2 * n |-> IF i > n THEN MaStr(20)
                                   ELSE MaBlock(0, <<MaT!Ptr(n + i), IF i = n THEN MaT!Long(0) ELSE MaT!Ptr(i + 1)>>)]
MaSpine(n) == [i \in 1 .. n |-> MaBlock(1, <<IF i = n THEN MaT!Long(0) ELSE MaT!Ptr(i + 1), MaT!Long(i), MaT!Ptr(n)>>)]

MaBase == [heap |-> <<>>, root |-> MaT!Ptr(1), flags |-> {}, out |-> "bytes", len |-> 0, in |-> "bytes", alien |-> FALSE,
         cut |-> 0, big |-> FALSE, rbig |-> FALSE, ok |-> TRUE]
MaOn(heap) == [MaBase EXCEPT !.heap = heap]
MaPair == <<MaBlock(0, <<MaT!Ptr(2), MaT!Ptr(2)>>), MaStr(5)>>
MaMixed == <<MaBlock(3, <<MaT!Ptr(2), MaT!Ptr(3), MaT!Ptr(2), MaT!Ptr(4), MaT!Ptr(5)>>), MaCust(1, <<-9>>), MaCust(2, <<1, -2, 3>>), MaFlt,
           MaFloats(3)>>
MaInts == {[MaBase EXCEPT !.root = MaT!Long(n)] : n \in {0, 1, -2, -3, 2, 7, 8, -8, -9, 63, 64, -64, -65, 1000}}
MaGraphs == {MaOn(MaPair), MaOn(<<MaBlock(0, <<MaT!Long(1), MaT!Ptr(1)>>)>>), MaOn(MaChain(18, MaT!Ptr(1))), MaOn(MaChain(7, MaT!Ptr(4))),
           MaOn(MaSpine(5)), MaOn(MaMixed), MaOn(<<MaBlock(20, <<MaT!Long(5)>>)>>), MaOn(<<MaBlock(20, <<>>)>>),
           MaOn(<<MaBlock(0, <<MaT!Ptr(2), MaT!Ptr(2)>>), MaBlock(0, <<>>)>>),
           MaOn(<<MaBlock(MaT!Object, <<MaT!Long(0), MaT!Long(2), MaT!Ptr(1)>>)>>),
           MaOn(<<MaBlock(MaT!Object, <<MaT!Long(0), MaT!Long(-2)>>)>>),
           MaOn(<<MaBlock(0, <<MaT!Ptr(2), MaT!Ptr(3)>>), MaBlock(MaT!Forward, <<MaT!Ptr(3)>>), MaStr(2)>>),
           MaOn(<<MaBlock(0, <<MaT!Ptr(2), MaT!Ptr(3)>>), MaBlock(MaT!Forward, <<MaT!Ptr(3)>>), MaFlt>>),
           MaOn(<<MaBlock(0, <<MaT!Ptr(2), MaT!Ptr(3)>>), MaBlock(MaT!Forward, <<MaT!Ptr(3)>>), MaBlock(MaT!Lazy, <<MaT!Ptr(1)>>)>>)}
MaSized4 == {MaOn(<<MaStr(n)>>) : n \in {0, 1, 3, 4, 8, 255, 256}}
MaEndian == {[MaOn(<<MaBlock(0, <<MaT!Ptr(2), MaT!Ptr(3)>>), MaFlt, MaFloats(n)>>) EXCEPT !.big = w, !.rbig = r]
             : n \in {2, 4}, w \in BOOLEAN, r \in BOOLEAN}
MaClosures ==
  {[MaOn(<<MaBlock(0, <<MaT!Ptr(2), [b |-> 2, n |-> 3]>>), MaFun(0, MaT!Ptr(1))>>) EXCEPT !.flags = f, !.ok = "closures" \in f]
     : f \in {{"closures"}, {"closures", "compressed"}, {}}}
  \cup {[MaOn(<<MaFun(pt, MaT!Long(1))>>) EXCEPT !.flags = {"closures"}, !.ok = FALSE] : pt \in {8, 15, 20}}
MaFlagged == {[MaOn(h) EXCEPT !.flags = f] : h \in {MaPair, MaMixed, MaChain(7, MaT!Long(1))}, f \in {{"no_sharing"}, {"compressed"}}}
MaCompat == {[j EXCEPT !.flags = {"compat_32"}, !.ok = TRUE] : j \in {MaOn(<<MaStr(20)>>), MaOn(<<MaFloats(6)>>), MaOn(MaPair)}}
          \cup {[j EXCEPT !.flags = {"compat_32"}, !.ok = FALSE]
                  : j \in {MaOn(<<MaStr(21)>>), MaOn(<<MaFloats(7)>>), MaOn(MaSpine(2)), [MaBase EXCEPT !.root = MaT!Long(64)],
                           MaOn(MaStrings(9))}}
MaRefused == {[MaOn(h) EXCEPT !.ok = FALSE]
              : h \in {<<MaBlock(MaT!Abstract, <<MaT!Long(1)>>)>>, <<MaBlock(MaT!Cont, <<MaT!Long(1), MaT!Long(1)>>)>>,
                       <<MaCust(3, <<1>>)>>, <<MaCust(4, <<1>>)>>, MaSpine(9)}}
MaBuffers == {[MaOn(MaPair) EXCEPT !.out = "block", !.len = n, !.ok = n >= 37] : n \in {10, 36, 37}}
           \cup {[MaOn(<<MaStr(252)>>) EXCEPT !.out = "block", !.len = n, !.ok = n >= 289] : n \in {276, 288, 289}}
MaLost == {[MaOn(MaPair) EXCEPT !.cut = 1, !.ok = FALSE], [MaOn(MaPair) EXCEPT !.cut = 1, !.ok = FALSE, !.in = "channel"],
         [MaOn(MaPair) EXCEPT !.alien = TRUE, !.ok = FALSE, !.in = "block"]}
MaChannels == {[MaOn(h) EXCEPT !.flags = f, !.out = "channel", !.in = "channel"]
               : h \in {MaPair, MaMixed, <<MaStr(256)>>}, f \in {{}, {"compressed"}}}
MaMalloc == {[MaOn(h) EXCEPT !.in = "malloc"] : h \in {MaPair, MaMixed}}
MaCounted == {[MaOn(h) EXCEPT !.out = "words"]
              : h \in {MaPair, MaMixed, MaChain(18, MaT!Ptr(1)), MaSpine(5),
                       <<MaBlock(0, <<[b |-> 2, n |-> 3], MaT!Ptr(2)>>), MaFun(0, MaT!Ptr(1))>>}}
           \cup {[MaOn(MaSpine(9)) EXCEPT !.out = "words", !.ok = FALSE]}
MaAllJobs == MaInts \cup MaGraphs \cup MaSized4 \cup MaEndian \cup MaClosures \cup MaFlagged \cup MaCompat \cup MaRefused
           \cup MaBuffers \cup MaLost \cup MaChannels \cup MaMalloc \cup MaCounted
MaSomeJobs == {("t1" :> j) @@ ("t2" :> [MaOn(MaPair) EXCEPT !.out = "channel", !.in = "channel"]) : j \in MaAllJobs}

-----------------------------------------------------------------------------
Co == INSTANCE Compare WITH
  StackInit <- 1, StackAlloc <- 2, StackMax <- 7, PollPeriod <- 3,
  QueueSize <- 5, MaxForward <- 2, Heap <- CoHeap, Values <- CoValues,
  Counts <- CoCounts, Custs <- CoCusts, Space <- 100, x <- x1, y <- x2,
  total <- x3, heap <- x4, v1 <- x5, v2 <- x6, stack <- x7, limit <- x8,
  timer <- x9, result <- x10

(* The same module, for the terms the inputs below are written in.          *)
CoT == INSTANCE Compare WITH
  StackInit <- 1, StackAlloc <- 2, StackMax <- 7, PollPeriod <- 3,
  QueueSize <- 5, MaxForward <- 2, Heap <- {}, Values <- {},
  Counts <- {}, Custs <- {}, Space <- 100, x <- x1, y <- x2,
  total <- x3, heap <- x4, v1 <- x5, v2 <- x6, stack <- x7, limit <- x8,
  timer <- x9, result <- x10
CoBlk(tag, fields) == [tag |-> tag, fields |-> fields, data |-> <<>>]
CoRaw(tag, data) == [tag |-> tag, fields |-> <<>>, data |-> data]
CoL(n) == [b |-> 0, n |-> n]
CoP(b) == [b |-> b, n |-> 0]
CoSomeHeap ==
  <<CoRaw(CoT!String, <<1, 2>>), CoRaw(CoT!String, <<1, 2>>), CoRaw(CoT!String, <<1>>), CoRaw(CoT!String, <<2>>),   \* 1-4
    CoRaw(CoT!Double, <<CoT!NaN>>), CoRaw(CoT!Double, <<CoT!NaN>>), CoRaw(CoT!Double, <<0>>), CoRaw(CoT!Double, <<CoT!NegZero>>),  \* 5-8
    CoRaw(CoT!DoubleArray, <<0, CoT!NaN, 4>>), CoRaw(CoT!DoubleArray, <<CoT!NegZero, CoT!NaN, 4>>),                 \* 9-10
    CoRaw(CoT!DoubleArray, <<0, 2>>),                                                             \* 11
    CoBlk(CoT!Forward, <<CoP(1)>>), CoBlk(CoT!Forward, <<CoP(12)>>), CoBlk(CoT!Forward, <<CoL(3)>>),                \* 12-14
    CoRaw(CoT!Custom, <<1, 3>>), CoRaw(CoT!Custom, <<1, CoT!NaN>>), CoRaw(CoT!Custom, <<2, 3>>), CoRaw(CoT!Custom, <<3, 3>>), \* 15-18
    CoBlk(CoT!Object, <<CoL(0), CoL(1)>>), CoBlk(CoT!Object, <<CoL(5), CoL(2)>>),                               \* 19-20
    [tag |-> CoT!Closure, fields |-> <<CoL(8), CoL(9), CoP(1)>>, data |-> <<2>>], CoBlk(CoT!Abstract, <<>>), \* 21-22
    CoBlk(0, <<>>), CoBlk(0, <<CoP(1), CoL(1)>>), CoBlk(0, <<CoP(12), CoL(2)>>), CoBlk(0, <<CoP(2), CoL(1)>>),  \* 23-26
    CoBlk(0, <<CoP(24), CoP(7), CoP(25)>>), CoBlk(0, <<CoP(26), CoP(8), CoP(25)>>), CoBlk(0, <<CoP(24), CoP(5), CoP(4)>>), \* 27-29
    CoBlk(1, <<CoP(27), CoP(29), CoP(15)>>), CoBlk(1, <<CoP(28), CoP(29), CoP(15)>>), CoBlk(1, <<CoP(28), CoP(29), CoP(16)>>), \* 30-32
    CoBlk(2, <<CoP(30), CoP(21)>>), CoBlk(2, <<CoP(31), CoP(21)>>), CoBlk(2, <<CoP(32), CoP(33)>>),           \* 33-35
    CoBlk(CoT!Cont, <<CoL(1)>>), CoBlk(3, <<CoP(33), CoL(1)>>), CoBlk(3, <<CoP(37), CoL(1)>>), CoBlk(3, <<CoP(38), CoL(1)>>), \* 36-39
    CoBlk(3, <<CoP(34), CoL(1)>>), CoBlk(3, <<CoP(40), CoL(1)>>), CoBlk(3, <<CoP(41), CoL(1)>>),              \* 40-42
    CoRaw(CoT!Custom, <<2, 3>>), CoRaw(CoT!Custom, <<3, 3>>)>>                                          \* 43-44
CoSomeValues == {CoL(0), CoL(3), CoL(-3)} \cup {CoP(b) : b \in DOMAIN CoSomeHeap} \cup {[b |-> 21, n |-> 1]}
CoSomeCounts == {<<10, 100>>, <<2, 3>>, <<3, 2>>, <<10, -1>>}
CoSomeCusts == <<[cmp |-> 1, ext |-> TRUE, hash |-> TRUE], [cmp |-> 2, ext |-> FALSE, hash |-> FALSE],
             [cmp |-> 0, ext |-> FALSE, hash |-> TRUE]>>

-----------------------------------------------------------------------------
InInstalled == {"quiet", "performs", "raises"}
In == INSTANCE Bytegen WITH
  Signals <- 1, Installed <- InInstalled, Chosen <- "all", W <- 8,
  Threshold <- 32, FiberSize <- 64, MainSize <- 64, MaxStack <- 128, m <- x1,
  r <- x2, sig <- x3, on <- x4


-----------------------------------------------------------------------------
Bd == INSTANCE BigarrayData WITH
  Bits <- 1, HashBytes <- 8, Jobs <- BdJobs, MaxOps <- 2, job <- x1,
  endian <- x2, word <- x3, a <- x4, b <- x5, inA <- x6, inB <- x7, copy <- x8,
  ops <- x9

(* The same module, for the terms the inputs below are written in.          *)
BdT == INSTANCE BigarrayData WITH
  Bits <- 1, HashBytes <- 8, Jobs <- {}, MaxOps <- 2, job <- x1,
  endian <- x2, word <- x3, a <- x4, b <- x5, inA <- x6, inB <- x7, copy <- x8,
  ops <- x9
BdJob(kind, layout, dims, values) ==
    [kind |-> kind, layout |-> layout, dims |-> dims, values |-> values]
BdPair(x) == <<x, x>>
BdFloatValues == {<<0>>, <<BdT!NegZero>>, <<1000>>, <<1001>>, <<-3>>, <<2>>}
BdComplexValues == {<<0, 2>>, <<BdT!NegZero, 1001>>, <<2, 0>>, <<2, 1000>>}
BdJobSet ==
    {BdPair(BdJob(k, "c", <<3>>, {<<0>>, <<1>>, <<-2>>, <<3>>})) :
        k \in {"SINT8", "CHAR", "SINT16", "UINT16"}}
    \cup {BdPair(BdJob(k, "f", <<2, 1>>,
                   {<<0>>, <<3>>, <<-4>>, <<7>>, <<8>>, <<-9>>})) :
            k \in {"INT32", "INT64", "CAML_INT", "NATIVE_INT"}}
    \cup {BdPair(BdJob(k, "c", <<1, 2>>, BdFloatValues)) :
            k \in {"FLOAT16", "FLOAT32", "FLOAT64"}}
    \cup {BdPair(BdJob(k, "f", <<2>>, BdComplexValues)) :
            k \in {"COMPLEX32", "COMPLEX64"}}
    \cup {BdPair(BdJob("UINT8", "c", <<10>>, {<<0>>, <<1>>})),
           BdPair(BdJob("CHAR", "c", <<>>, {<<0>>, <<1>>})),
           BdPair(BdJob("UINT8", "c", <<0, 4>>, {<<0>>, <<1>>})),
           <<BdJob("SINT8", "c", <<2>>, {<<0>>, <<1>>}), BdJob("SINT8", "f", <<2>>, {<<0>>, <<1>>})>>,
           <<BdJob("UINT8", "c", <<2, 1>>, {<<0>>}), BdJob("UINT8", "c", <<1, 2>>, {<<0>>})>>,
           <<BdJob("UINT8", "c", <<2>>, {<<0>>}), BdJob("UINT8", "c", <<2, 1>>, {<<0>>})>>}

-----------------------------------------------------------------------------
Ha == INSTANCE Float16 WITH
  EF <- 4, MF <- 5, EH <- 3, MH <- 2, f <- x1, h <- x2


-----------------------------------------------------------------------------
Fm == INSTANCE Floats WITH
  P <- 5, Bias <- 63, IntMax <- 200, Inputs <- FmInputs, in <- x1, out <- x2

(* The same module, for the terms the inputs below are written in.          *)
FmT == INSTANCE Floats WITH
  P <- 5, Bias <- 63, IntMax <- 200, Inputs <- {}, in <- x1, out <- x2
(* Significands of five bits, exponents about the limits that caml_fma       *)
(* tests.                                                                    *)
FmField(u, m) == IF u = 0 THEN FmT!Fin(1, m - 16, FmT!EMin) ELSE FmT!Fin(1, m, u + FmT!EMin - 1)
FmXs == {FmField(u, m) : u \in {0, 1, 62, 65, 121, 126}, m \in {17, 23}} \cup {FmField(61, 31), FmT!Zero(1), FmT!Inf(1), FmT!NaN}
FmYs == {FmField(u, m) : u \in {0, 5, 60, 64, 123, 126}, m \in {21, 31}}
FmZs == {FmField(u, m) : u \in {0, 2, 26, 27, 58, 64, 121, 126}, m \in {16, 19, 30}} \cup {FmT!Zero(1), FmT!Inf(1)}
FmTriples == {[op |-> "fma", x |-> x, y |-> y, z |-> z] : x \in FmXs, y \in FmYs, z \in FmZs \cup {FmT!Neg(v) : v \in FmZs}}

-----------------------------------------------------------------------------
Hx == INSTANCE Floats WITH
  P <- 9, Bias <- 63, IntMax <- 200, Inputs <- HxInputs, in <- x1, out <- x2

(* The same module, for the terms the inputs below are written in.          *)
HxT == INSTANCE Floats WITH
  P <- 9, Bias <- 63, IntMax <- 200, Inputs <- {}, in <- x1, out <- x2
(* Significands of nine bits: two hexadecimal digits after the point.        *)
HxFinite ==
    {HxT!Fin(s, m, e) : s \in {1, -1}, m \in 256..511, e \in {HxT!EMin, 0, 2 * 63 - 1 + HxT!EMin}}
    \cup {HxT!Fin(1, m, HxT!EMin) : m \in 0..255} \cup {HxT!Zero(-1)}
HxPrinted == {[op |-> "print", x |-> x, prec |-> n] : x \in HxFinite \cup {HxT!Inf(-1), HxT!NaN}, n \in {-1, 0, 1, 3}}
HxTokens == {<<>>, <<HxT!Point>>, <<1, HxT!Point, 2, HxT!Point>>, <<HxT!Junk, 1>>, <<0, 0>>, <<0, HxT!Point, 0, 0, 15>>,
           <<1, 0, 15, 8, 0, 1>>, <<1, 0, 8, 0, 0, 0>>, <<1, 0, 8, 0, 0, 1>>, <<1, 1, 8, 0, 0, 0>>,
           <<0, 1, HxT!Underscore, 0, 8, HxT!Point, 0, 0, 1>>, <<1, 15, HxT!Point, 15, 15>>, <<HxT!Point, 3>>,
           <<15, 15, 15, 15, 15>>, <<1, HxT!Point, 0, 8, 1>>, <<7, 15, 12, 0>>, <<8, 0, 4, 0, 0, 2>>}
HxExps == {HxT!Exp(n) : n \in {0, 1, 3, 58, 62, 63, 64, -1, -60, -63, -66, -70, -73, 199, 200, -200, -201}}
        \cup {[ok |-> FALSE, n |-> 0]}
HxRead == {[op |-> "read", s |-> s, toks |-> t, exp |-> e] : s \in {1, -1}, t \in HxTokens, e \in HxExps}
HxTexts == HxPrinted \cup HxRead

-----------------------------------------------------------------------------
Sm == INSTANCE StrMatch WITH
  Jobs <- SmJobs, BACKTRACK_STACK_BLOCK_SIZE <- 2, job <- x1, re <- x2,
  at <- x3, pc <- x4, txt <- x5, stack <- x6, groups <- x7, re_register <- x8,
  out <- x9, result <- x10
SmA == <<"char", "a">>
SmB == <<"char", "b">>
SmSq(rl) == <<"seq", rl>>
SmGr(n, r) == <<"group", n, r>>
SmLine == SmSq(<<<<"plus", <<"class", {"a", "sp"}>>>>, <<"eol">>>>)
SmWord == SmSq(<<<<"wordboundary">>, <<"plus", SmA>>, <<"wordboundary">>>>)
SmExprs == {SmLine, SmWord,
    SmSq(<<<<"star", SmA>>, SmB>>),
    SmSq(<<<<"star", SmA>>, SmA>>),
    SmSq(<<<<"option", SmA>>, <<"class", {"sp", "b"}>>>>),
    SmSq(<<<<"star", SmGr(1, <<"alt", SmA, SmSq(<<SmA, SmB>>)>>)>>, <<"ref", 1>>>>),
    <<"star", SmGr(1, SmSq(<<<<"star", SmA>>, <<"option", SmB>>>>))>>,
    <<"plus", SmGr(1, <<"star", SmGr(2, <<"alt", SmA, SmB>>)>>)>>,
    SmSq(<<<<"plus", <<"option", SmA>>>>, <<"string", <<"a", "b">>>>>>),
    SmSq(<<<<"bol">>, SmGr(1, <<"plus", SmA>>), <<"option", SmGr(2, SmB)>>, <<"ref", 2>>>>),
    <<"alt", SmSq(<<SmGr(1, SmA), SmA, SmB>>), <<"string", <<"a", "a">>>>>>,
    SmSq(<<<<"plus", SmA>>, SmB, <<"star", SmB>>>>)}
SmTexts == UNION {[1..n -> {"a", "b", "sp"}] : n \in 0..3}
         \cup {<<"a", "nl", "a">>, <<"A", "a", "b">>, <<"a", "A", "nl">>, <<"a", "a", "a", "b">>}
SmJob(r, fold, text, kind, pos, repl) ==
    [syntax |-> r, fold |-> fold, text |-> text, kind |-> kind, pos |-> pos, repl |-> repl]
SmAsked ==
    {SmJob(r, FALSE, t, "match", 0, <<>>) : r \in SmExprs, t \in SmTexts}
    \cup {SmJob(r, TRUE, t, "forward", 0, <<>>) : r \in SmExprs, t \in SmTexts}
    \cup {SmJob(r, FALSE, t, "backward", Len(t), <<>>) : r \in SmExprs, t \in SmTexts}
    \cup {SmJob(r, FALSE, t, "partial", 0, <<>>) : r \in SmExprs \ {SmLine, SmWord}, t \in SmTexts}
    \cup {SmJob(r, FALSE, t, "replace", 0, repl) :
              r \in SmExprs, t \in {<<"sp", "a", "a">>, <<"a", "a", "b">>},
              repl \in {<<"x", "\\", "1">>, <<"\\", "\\", "\\", "x">>, <<"\\", "0", "\\", "2">>,
                        <<"x", "\\">>}}

-----------------------------------------------------------------------------
Iv == INSTANCE Ints WITH
  Word <- 6, Half <- 4, Long <- 8, Jobs <- IvJobs, job <- x1, result <- x2

(* The same module, for the terms the inputs below are written in.          *)
IvT == INSTANCE Ints WITH
  Word <- 6, Half <- 4, Long <- 8, Jobs <- {}, job <- x1, result <- x2
IvDigs == {"0", "1", "2", "6", "8", "9", "f", "_"}
IvRead == {sign \o prefix \o ds :
            sign \in {<<>>, <<"-">>, <<"+">>},
            prefix \in {<<>>, <<"0", "x">>, <<"0", "o">>, <<"0", "b">>, <<"0", "u">>},
            ds \in UNION {[1..n -> IvDigs] : n \in 0..2}}
        \cup {sign \o ds : sign \in {<<>>, <<"-">>}, ds \in [1..3 -> {"1", "2", "8"}]}
        \cup {[k \in 1..7 |-> IF k = 1 THEN "0" ELSE IF k = 2 THEN "b" ELSE "1"],
              [k \in 1..9 |-> IF k = 1 THEN "0" ELSE IF k = 2 THEN "b" ELSE "1"]}
IvKinds == {"int", "int32", "nativeint", "int64"}
IvNumbers(w) == IvT!MinInt(w)..2^(w - 1) - 1
IvPairs(w) == IvNumbers(w) \X IvNumbers(w)
IvAllJobs ==
    {[op |-> "of_string", kind |-> k, s |-> s] : k \in IvKinds, s \in IvRead}
    \cup UNION {{[op |-> "format", kind |-> k, conv |-> c, a |-> a] :
                     c \in {0, 2, 8, 10, 16}, a \in IvNumbers(IvT!Bits(k))} : k \in IvKinds}
    \cup UNION {{[op |-> op, kind |-> k, a |-> p[1], b |-> p[2]] :
                     op \in {"div", "mod"}, p \in IvPairs(IvT!Bits(k))} : k \in {"int32", "nativeint"}}
    \cup {[op |-> op, kind |-> "int64", a |-> a, b |-> b] :
              op \in {"div", "mod"}, a \in {-128, -127, 127, 50}, b \in {-128, -1, 0, 1, 7, 127}}
    \cup {[op |-> op, kind |-> "int32", a |-> p[1], b |-> p[2]] :
              op \in {"neg", "add", "sub", "mul", "and", "or", "xor"}, p \in IvPairs(4)}
    \cup {[op |-> op, kind |-> "int32", a |-> a, b |-> n] :
              op \in {"lsl", "asr", "lsr"}, a \in IvNumbers(4), n \in 0..4 - 1}
    \cup UNION {{[op |-> "bswap", kind |-> k, a |-> a] : a \in IvNumbers(IvT!Bits(k))} :
                    k \in {"int32", "int64", "nativeint"}}
    \cup UNION {{[op |-> "convert", kind |-> k, to |-> t, a |-> a] : a \in IvNumbers(IvT!Bits(k))} :
                    k \in {"int32", "int"}, t \in IvKinds}
    \cup {[op |-> "hash", a |-> a] : a \in IvNumbers(6)}
    \cup {[op |-> "marshal", a |-> a, from |-> 6, to |-> t] : a \in IvNumbers(6), t \in {4, 6}}
    \cup {[op |-> "marshal", a |-> a, from |-> 4, to |-> t] : a \in IvNumbers(4), t \in {4, 6}}

-----------------------------------------------------------------------------
LxEngines == {"lex", "new_lex"}
LxPieces == {1, 2}
Lx == INSTANCE Lexing WITH
  Texts <- LxTexts, Engines <- LxEngines, Pieces <- LxPieces, BufferSize <- 2,
  Tables <- LxTables, text <- x1, engine <- x2, given <- x3, buf <- x4,
  size <- x5, abs_pos <- x6, start_pos <- x7, curr_pos <- x8, last_pos <- x9,
  last_action <- x10, eof_reached <- x11, mem <- x12, state <- x13, pc <- x14,
  token <- x15, before <- x16
(* The automaton of three rules over the letters a = 1, b = 2, c = 3: "a",   *)
(* "a" ["b" "c"]* ("c" as x), and the end of the input.  Cell 0 is the       *)
(* position after the last a or b, cell 1 the position bound to x.           *)
LxEnd == 4
LxNone == -1
LxRow(p, q, r, e) == [ch \in 1..LxEnd |-> CASE ch = 1 -> p [] ch = 2 -> q [] ch = 3 -> r [] OTHER -> e]
LxStates == 0..4
LxDFA == [s \in LxStates |-> CASE s = 0 -> LxRow(1, LxNone, LxNone, 4)
                           [] s \in {1, 2} -> LxRow(LxNone, 2, 3, LxNone)
                           [] s = 3 -> LxRow(LxNone, 2, 3, LxNone)
                           [] OTHER -> LxRow(LxNone, LxNone, LxNone, LxNone)]
LxSet(dst, src) == <<[dst |-> dst, src |-> src]>>
(* Rows of four entries one after the other; the row of state 3 has only the *)
(* transition on c, and b is its default.                                    *)
LxHere == {i \in 0..4 * 4 + LxEnd : LET s == (i - 1) \div 4 IN
             i > 0 /\ s \in 0..3 /\ ~(s = 3 /\ i - 4 * s = 2)}
LxStateAt(i) == (i - 1) \div 4
LxCharAt(i) == i - 4 * LxStateAt(i)
LxTable ==
    [eof |-> LxEnd, last |-> 2, next |-> LxDFA,
     base |-> [s \in LxStates |-> IF s = 4 THEN -3 ELSE 4 * s],
     backtrk |-> [s \in LxStates |-> CASE s = 1 -> 0 [] s = 3 -> 1 [] OTHER -> -1],
     default |-> [s \in LxStates |-> IF s = 3 THEN 2 ELSE LxNone],
     check |-> [i \in LxHere |-> LxStateAt(i)],
     trans |-> [i \in LxHere |-> LxDFA[LxStateAt(i)][LxCharAt(i)]],
     base_code |-> [s \in LxStates |-> <<>>],
     backtrk_code |-> [s \in LxStates |-> IF s = 3 THEN LxSet(1, 0) ELSE <<>>],
     default_code |-> [s \in LxStates |-> IF s = 3 THEN LxSet(0, -1) ELSE <<>>],
     trans_code |-> [i \in LxHere |-> IF LxCharAt(i) \in {1, 2} THEN LxSet(0, -1) ELSE <<>>]]
LxAllTexts == UNION {[1..n -> {1, 2, 3}] : n \in 0..4}
            \cup {<<1, 2, 2, 3, 2, 2>>, <<1, 3, 2, 3, 1, 2>>, <<1, 1, 2, 2, 2, 3>>}

-----------------------------------------------------------------------------
AmKeys == {1, 2, 3, 4, 5}
AmVals == {7, 9}
Am == INSTANCE AddrMap WITH
  Keys <- AmKeys, Vals <- AmVals, Hash <- AmHash, MAX_CHAIN <- 2,
  InitialSize <- 2, t <- x1, bindings <- x2, iter <- x3, seen <- x4
(* Keys that collide in small tables and not in larger ones.                 *)
AmHashes == <<0, 4, 8, 1, 3>>

-----------------------------------------------------------------------------
FtDomains == {"d1", "d2"}
FtPcs == {8, 41, 72, 104, 136, 200}
Ft == INSTANCE FrameTable WITH
  Domains <- FtDomains, Tables <- FtTables, Pcs <- FtPcs, fds <- x1, mem <- x2,
  fresh <- x3, search <- x4
(* Three frame tables, with return addresses that collide.                   *)
FtDescr(r, live, debug, allocs) ==
    [ret |-> r, live |-> live, debug |-> debug, allocs |-> allocs, toC |-> FALSE]
FtToC == [ret |-> 72, live |-> 0, debug |-> FALSE, allocs |-> <<>>, toC |-> TRUE]
FtUnits == [n \in {"system", "a", "b"} |->
    CASE n = "system" -> <<FtToC, FtDescr(8, 1, TRUE, <<>>)>>
      [] n = "a" -> <<FtDescr(40, 0, TRUE, <<2, 3, 4, 5>>), FtDescr(41, 0, FALSE, <<>>), FtDescr(104, 2, TRUE, <<2>>)>>
      [] n = "b" -> <<FtDescr(136, 3, FALSE, <<1>>)>>]

-----------------------------------------------------------------------------
TtEvents == {"a", "b", "c", "d"}
TtBreakPcs == {"a", "c", "p"}
TtTempPcs == {"c"}
Tt == INSTANCE TimeTravel WITH
  Trace <- TtTrace, Events <- TtEvents, Parent <- TtParent,
  BreakPcs <- TtBreakPcs, TempPcs <- TtTempPcs, SmallStep <- 2, BigStep <- 3,
  MaxCheckpoints <- 3, MaxCommands <- 4, s <- x1
(* A program of six events; "p" carries a pseudo-event only, the parent of   *)
(* the event "d" that always follows it.                                     *)
TtProgram == <<"a", "b", "p", "d", "a", "c", "b">>
TtParents == [e \in {"a", "b", "c", "d"} |-> IF e = "d" THEN "p" ELSE e]

-----------------------------------------------------------------------------
Init ==
  /\ part \in Parts
  /\ \/ part = "marshal" /\ Ma!Init /\ Unused6
     \/ part = "compare" /\ Co!Init /\ Unused10
     \/ part = "interp" /\ In!Init /\ Unused4
     \/ part = "bigdata" /\ Bd!Init /\ Unused9
     \/ part = "half" /\ Ha!Init /\ Unused2
     \/ part = "fma" /\ Fm!Init /\ Unused2
     \/ part = "hex" /\ Hx!Init /\ Unused2
     \/ part = "str" /\ Sm!Init /\ Unused10
     \/ part = "ints" /\ Iv!Init /\ Unused2
     \/ part = "lexing" /\ Lx!Init
     \/ part = "addrmap" /\ Am!Init /\ Unused4
     \/ part = "frames" /\ Ft!Init /\ Unused4
     \/ part = "travel" /\ Tt!Init /\ Unused1
Next ==
  /\ UNCHANGED part
  /\ \/ part = "marshal" /\ Ma!Next /\ Kept6
     \/ part = "compare" /\ Co!Next /\ Kept10
     \/ part = "interp" /\ In!Next /\ Kept4
     \/ part = "bigdata" /\ Bd!Next /\ Kept9
     \/ part = "half" /\ Ha!Next /\ Kept2
     \/ part = "fma" /\ Fm!Next /\ Kept2
     \/ part = "hex" /\ Hx!Next /\ Kept2
     \/ part = "str" /\ Sm!Next /\ Kept10
     \/ part = "ints" /\ Iv!Next /\ Kept2
     \/ part = "lexing" /\ Lx!Next
     \/ part = "addrmap" /\ Am!Next /\ Kept4
     \/ part = "frames" /\ Ft!Next /\ Kept4
     \/ part = "travel" /\ Tt!Next /\ Kept1
Spec == Init /\ [][Next]_vars



(* Integers of every width compute modulo their width and are parsed and   *)
(* printed exactly (ints.c); half-precision floats, fused multiply-add and *)
(* hexadecimal notation round once, to nearest even (floats.c).             *)
NumbersRight ==
  /\ part = "ints" => Iv!IntegersRight
  /\ part = "half" => Ha!HalvesRound
  /\ part = "fma" => Fm!FloatsRight
  /\ part = "hex" => Hx!HexRight


=============================================================================
