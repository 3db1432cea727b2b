----------------------------- MODULE MCRuntime ------------------------------
(***************************************************************************)
(* The parts of the runtime and of its libraries in which threads, domains *)
(* or a long history of calls meet.  A behaviour is one of these parts,    *)
(* chosen at the start; x1, x2, ... are its variables, in the order in     *)
(* which its module declares them.                                         *)
(***************************************************************************)
EXTENDS Integers, Sequences, FiniteSets, TLC

CONSTANTS Parts, ShDomains, ShPools, ChThreads, MkDomains, MkOwner, MkSize,
  MkConts, MkLazies, MkHeaps, EpFields, EpShape, EpContents, EpHeld, ThJobs,
  ChCalls, ChSource, EvJobs, EvMaxEvents, SlJobs, CfRanges, BaShapes,
  BrShapes, SeCalls, SeKind, TrCommands, TrReal

VARIABLES part, x1, x2, x3, x4, x5, x6, x7, x8, x9, x10, x11, x12, x13, x14,
  x15, x16, x17, x18, x19, x20
vars == <<part, x1, x2, x3, x4, x5, x6, x7, x8, x9, x10, x11, x12, x13, x14,
  x15, x16, x17, x18, x19, x20>>

(* The variables from x(n+1) on are not used by the part under way.        *)
None == "none"
Unused14 == x15 = None /\ x16 = None /\ x17 = None /\ x18 = None /\ x19 = None /\ x20 = None
Kept14 == UNCHANGED <<x15, x16, x17, x18, x19, x20>>
Unused13 == x14 = None /\ Unused14
Kept13 == UNCHANGED <<x14>> /\ Kept14
Unused11 == x12 = None /\ x13 = None /\ Unused13
Kept11 == UNCHANGED <<x12, x13>> /\ Kept13
Unused10 == x11 = None /\ Unused11
Kept10 == UNCHANGED <<x11>> /\ Kept11
Unused8 == x9 = None /\ x10 = None /\ Unused10
Kept8 == UNCHANGED <<x9, x10>> /\ Kept10
Unused7 == x8 = None /\ Unused8
Kept7 == UNCHANGED <<x8>> /\ Kept8
Unused6 == x7 = None /\ Unused7
Kept6 == UNCHANGED <<x7>> /\ Kept7
Unused5 == x6 = None /\ Unused6
Kept5 == UNCHANGED <<x6>> /\ Kept6

-----------------------------------------------------------------------------
Mk == INSTANCE Marking WITH
  Domains <- MkDomains, Owner <- MkOwner, Size <- MkSize, Conts <- MkConts,
  Lazies <- MkLazies, StackSize <- 1, PbSize <- 1, Heaps <- MkHeaps,
  Cycles <- 1, Ops <- 2, hd <- x1, field <- x2, stk <- x3, heap_state <- x4,
  phase <- x5, roots <- x6, mark_stack <- x7, compressed <- x8,
  marking_done <- x9, num_domains_to_mark <- x10, t <- x11, cycles <- x12,
  ops <- x13, lazy <- x14

(* The same module, for the terms the inputs below are written in.          *)
MkT == INSTANCE Marking WITH
  Domains <- {}, Owner <- {}, Size <- {}, Conts <- {},
  Lazies <- {}, StackSize <- 1, PbSize <- 1, Heaps <- {},
  Cycles <- 1, Ops <- 2, hd <- x1, field <- x2, stk <- x3, heap_state <- x4,
  phase <- x5, roots <- x6, mark_stack <- x7, compressed <- x8,
  marking_done <- x9, num_domains_to_mark <- x10, t <- x11, cycles <- x12,
  ops <- x13, lazy <- x14
(* Two domains with one pool each.                                         *)
MkSomeDomains == {"d1", "d2"}
MkSomeOwner == ("a" :> "d1") @@ ("b" :> "d1") @@ ("k" :> "d2")
MkSomeSize == ("a" :> 2) @@ ("b" :> 1) @@ ("k" :> 0)
MkSomeConts == {"k"}
MkSomeLazies == {"b"}
MkHeap(r1, r2, fa, fb, s) ==
  [allocated |-> IF s = MkT!NoStack THEN {"a", "b"} ELSE {"a", "b", "k"},
   garbage |-> IF s = MkT!NoStack THEN {"k"} ELSE {},
   roots |-> ("d1" :> r1) @@ ("d2" :> r2), stk |-> ("k" :> s),
   field |-> ("a" :> fa) @@ ("b" :> fb) @@ ("k" :> <<>>)]
MkSomeHeaps == {MkHeap({"a"}, {"a"}, <<MkT!Long, "b">>, <<MkT!Long>>, MkT!NoStack),
            MkHeap({"b"}, {"a"}, <<"b", "k">>, <<MkT!Long>>, {}),
            MkHeap({}, {"k"}, <<"b", "b">>, <<"a">>, {"a"})}

-----------------------------------------------------------------------------
ShLarge == {"l1"}
Sh == INSTANCE SharedHeap WITH
  Domains <- ShDomains, Pools <- ShPools, Slots <- 2, Large <- ShLarge,
  Allocs <- 3, Cycles <- 2, Compactions <- 1, Deaths <- 1, Work <- 5, mem <- x1,
  next_obj <- x2, heap <- x3, freelist <- x4, mapped <- x5, root <- x6,
  pc <- x7, stw <- x8, arrived <- x9, evacuated <- x10, n <- x11
ShSymmetry == Permutations(ShPools) \union Permutations(ShDomains)

-----------------------------------------------------------------------------
EpObjects == {"k", "l", "d", "f", "y"}
EpForwards == {"f"}
EpEphes == {"e1", "e2"}
EpYoung == {"y"}
Ep == INSTANCE Ephemerons WITH
  Objects <- EpObjects, Fields <- EpFields, Forwards <- EpForwards,
  Shape <- EpShape, Ephes <- EpEphes, NKeys <- 2, Contents <- EpContents,
  Held <- EpHeld, Young <- EpYoung, ObjSetters <- FALSE, MaxOps <- 2,
  ephe <- x1, cleaned <- x2, roots <- x3, young <- x4, marked <- x5,
  freed <- x6, ephe_ref <- x7, caml_gc_phase <- x8, gc <- x9, copying <- x10,
  answered <- x11, crashed <- x12, ops <- x13

(* The same module, for the terms the inputs below are written in.          *)
EpT == INSTANCE Ephemerons WITH
  Objects <- EpObjects, Fields <- {}, Forwards <- EpForwards,
  Shape <- {}, Ephes <- EpEphes, NKeys <- 2, Contents <- {},
  Held <- {}, Young <- EpYoung, ObjSetters <- FALSE, MaxOps <- 2,
  ephe <- x1, cleaned <- x2, roots <- x3, young <- x4, marked <- x5,
  freed <- x6, ephe_ref <- x7, caml_gc_phase <- x8, gc <- x9, copying <- x10,
  answered <- x11, crashed <- x12, ops <- x13
(* Two ephemerons of two keys; the data refers to a key of the other one.    *)
EpField == [o \in {"k", "l", "d", "f", "y"} |-> CASE o = "d" -> {"l"} [] o = "f" -> {"k"} [] OTHER -> {}]
EpShapes == [o \in {"k", "l", "d", "f", "y"} |-> IF o \in {"d", "f"} THEN o ELSE "s"]
EpStart ==
    {[e \in {"e1", "e2"} |-> [i \in EpT!Offsets |-> IF e = "e1" THEN x[i] ELSE y[i]]] :
        x \in {[i \in EpT!Offsets |-> CASE i = 0 -> "d" [] i = 1 -> "k" [] OTHER -> "none"]},
        y \in {[i \in EpT!Offsets |-> CASE i = 0 -> "k" [] i = 1 -> "l" [] OTHER -> "none"],
               [i \in EpT!Offsets |-> CASE i = 0 -> "none" [] i = 1 -> "f" [] OTHER -> "l"]}}
EpHeldSets == {{"y"}}

-----------------------------------------------------------------------------
ArYoungs == {"y", "z"}
ArOlds == {"o"}
Ar == INSTANCE Arrays WITH
  Youngs <- ArYoungs, Olds <- ArOlds, MaxArrays <- 2, MaxLen <- 3,
  Max_young_wosize <- 2, Max_wosize <- 3, MaxOps <- 3, arrays <- x1, old <- x2,
  major_ref <- x3, dark <- x4, lost <- x5, last <- x6, ops <- x7


-----------------------------------------------------------------------------
GrRoots == {1, 2}
GrValues == {"int", "young", "major", "forward"}
Gr == INSTANCE GlobalRoots WITH
  Roots <- GrRoots, NUM_LEVELS <- 3, Values <- GrValues, held <- x1,
  kind <- x2, plain <- x3, young <- x4, old <- x5


-----------------------------------------------------------------------------
ThOthers == {"u"}
ThCThreads == {"c"}
Th == INSTANCE Systhreads WITH
  Others <- ThOthers, CThreads <- ThCThreads, NSig <- 2, MaxSignals <- 1,
  Jobs <- ThJobs, th <- x1, ring <- x2, active <- x3, regs <- x4, busy <- x5,
  waiters <- x6, woken <- x7, domain_lock <- x8, bt <- x9, limit <- x10,
  action_pending <- x11, external <- x12, interrupt_pending <- x13,
  pending <- x14, recording <- x15, delivered <- x16, tick <- x17, term <- x18,
  job <- x19, forked <- x20
ThJobSets == {[does |-> {"create", "yield", "join", "stop", "interrupt"}, main |-> 1, other |-> 1],
            [does |-> {"create", "block", "sigmask", "yield", "signal"}, main |-> 2, other |-> 0],
            [does |-> {"create", "register", "stop"}, main |-> 1, other |-> 1],
            [does |-> {"create", "yield", "fork"}, main |-> 1, other |-> 1]}

-----------------------------------------------------------------------------
Ch == INSTANCE Channel WITH
  Threads <- ChThreads, NoThread <- "nothread", BufSize <- 2, Calls <- ChCalls,
  Todo <- 2, Source <- ChSource, NL <- 10, MaxByte <- 4,
  MaxTroubles <- 1, ch <- x1, mutex <- x2, last <- x3, th <- x4, kpos <- x5,
  file <- x6, refs <- x7, want <- x8, lost <- x9, bound <- x10
(* Two threads on one channel with a buffer of two bytes.                    *)
ChSomeCalls ==
  {[op |-> o, n |-> 1] : o \in {"output_char", "input_char", "flush", "unbuffered", "close",
                                "scan_line", "size"}}
    \cup {[op |-> o, n |-> 3] : o \in {"output", "really", "output_int", "input_int", "seek_in"}}
    \cup {[op |-> "seek_out", n |-> 0], [op |-> "input", n |-> 1], [op |-> "bigarray", n |-> 1]}
ChSomeSource == <<5, 10, 6, 7, 10>>
ChSym == Permutations(ChThreads)

-----------------------------------------------------------------------------
EvDomains == {0, 1}
Ev == INSTANCE RuntimeEvents WITH
  Domains <- EvDomains, ring_size_words <- 8, Jobs <- EvJobs,
  MaxEvents <- EvMaxEvents, Weak <- FALSE, job <- x1, enabled <- x2,
  paused <- x3, ring <- x4, dom <- x5, known <- x6, names <- x7, nextId <- x8,
  lock <- x9, stw <- x10, cur <- x11, written <- x12, log <- x13
(***************************************************************************)
(* Small programs for RuntimeEvents: one domain that overruns its ring     *)
(* while it is read, and two domains that start the tracing and register   *)
(* events.                                                                 *)
(***************************************************************************)

EvLimits == {-1, 0}
EvOne(n) == [d \in {0, 1} |-> IF d = 0 THEN n ELSE 0]

EvJobSets ==
  { [ops |-> {"begin", "counter", "poll", "raise"}, writes |-> EvOne(4),
     started |-> TRUE],
    [ops |-> {"start", "register", "unit", "poll"},
     writes |-> EvOne(1), started |-> FALSE],
    [ops |-> {"register", "custom", "poll", "collect"}, writes |-> EvOne(1),
     started |-> TRUE],
    [ops |-> {"counter", "pause", "poll", "stop", "free"}, writes |-> EvOne(1),
     started |-> TRUE] }

-----------------------------------------------------------------------------
SlThreads == {"a", "b"}
Sl == INSTANCE LfSkiplist WITH
  Threads <- SlThreads, Jobs <- SlJobs, NUM_LEVELS <- 2, MaxKey <- 4,
  cell <- x1, garbage <- x2, freed <- x3, search_level <- x4, set <- x5,
  th <- x6
(***************************************************************************)
(* Small programs for LfSkiplist.                                          *)
(***************************************************************************)

SlIns(k) == [op |-> "insert", key |-> k]
SlRem(k) == [op |-> "remove", key |-> k]
SlFnd(k) == [op |-> "find", key |-> k]
SlBlw(k) == [op |-> "below", key |-> k]

SlJob(a, b) == ("a" :> a) @@ ("b" :> b)

SlJobSets ==
  { SlJob(<<SlIns(1), SlIns(2)>>, <<SlBlw(2)>>),
    SlJob(<<SlIns(1), SlRem(1)>>, <<SlIns(2), SlFnd(1)>>),
    SlJob(<<SlIns(2), SlRem(2)>>, <<SlRem(2), SlBlw(3)>>),
    SlJob(<<SlIns(1), SlIns(2), SlRem(1)>>, <<SlRem(1), SlRem(2)>>),
    SlJob(<<SlIns(1), SlRem(1), SlIns(1)>>, <<SlIns(1), SlFnd(1)>>) }

-----------------------------------------------------------------------------
CfThreads == {"a", "b"}
Cf == INSTANCE CodeFragments WITH
  Threads <- CfThreads, Ranges <- CfRanges, MaxFrags <- 2, frag <- x1,
  byPc <- x2, byNum <- x3, garbage <- x4, freed <- x5, th <- x6
(***************************************************************************)
(* Two threads and code loaded at three ranges, two of which overlap.      *)
(***************************************************************************)

CfSomeRanges == {<<1, 3>>, <<3, 4>>, <<2, 4>>}

-----------------------------------------------------------------------------
BaStarts == {0, 1}
BaFileSizes == {4}
BaDomains == {"d1", "d2"}
Ba == INSTANCE Bigarray WITH
  MaxArrays <- 3, MaxChunks <- 1, Shapes <- BaShapes, ElemSize <- 2, Page <- 2,
  Starts <- BaStarts, FileSizes <- BaFileSizes, Domains <- BaDomains,
  Synchronised <- TRUE, arrays <- x1, chunks <- x2, proxies <- x3, op <- x4,
  file <- x5, view <- x6
BaAllShapes == {<<>>, <<2>>, <<0, 2>>, <<1, 2>>, <<2, 2>>, <<2, -1>>, <<-1, 2>>}

-----------------------------------------------------------------------------
BrStarts == {0, 1}
BrFileSizes == {0, 4}
BrDomains == {"d1", "d2"}
Br == INSTANCE Bigarray WITH
  MaxArrays <- 3, MaxChunks <- 1, Shapes <- BrShapes, ElemSize <- 2, Page <- 2,
  Starts <- BrStarts, FileSizes <- BrFileSizes, Domains <- BrDomains,
  Synchronised <- FALSE, arrays <- x1, chunks <- x2, proxies <- x3, op <- x4,
  file <- x5, view <- x6
BrSmallShapes == {<<2>>, <<0>>}

-----------------------------------------------------------------------------
SeThreads == {"t1", "t2"}
SeBroken == {"b"}
Se == INSTANCE SelectWin32 WITH
  Threads <- SeThreads, Calls <- SeCalls, MaxCalls <- 1, Kind <- SeKind,
  Broken <- SeBroken, MaxArrivals <- 1, MAXIMUM_SELECT_OBJECTS <- 2,
  FD_SETSIZE <- 2, THREAD_WORKERS_MAX <- 1, MaxWorkers <- 3, call <- x1,
  workers <- x2, lpWorkers <- x3, ready <- x4, console <- x5, arrivals <- x6
SeKinds == [d |-> "disk", c |-> "console", p |-> "pipe", q |-> "pipe",
          s |-> "socket", r |-> "socket", u |-> "unbound", x |-> "unknown", b |-> "pipe"]
SeCall(rd, wr, ex, timeout) ==
    [read |-> rd, write |-> wr, except |-> ex, timeout |-> timeout]
SeOneCalls == [t1 |-> {
    SeCall(<<>>, <<>>, <<>>, "finite"),
    SeCall(<<"s", "r">>, <<"s">>, <<>>, "never"),
    SeCall(<<"s", "p", "q">>, <<>>, <<>>, "never"),
    SeCall(<<"c", "p", "s">>, <<>>, <<>>, "finite"),
    SeCall(<<"p">>, <<>>, <<"s">>, "never"),
    SeCall(<<"d", "p", "b">>, <<>>, <<>>, "finite"),
    SeCall(<<"p", "b">>, <<"u">>, <<"d">>, "finite"),
    SeCall(<<"b", "p">>, <<>>, <<>>, "never"),
    SeCall(<<"u", "p", "s">>, <<"c", "d">>, <<>>, "never"),
    SeCall(<<"p", "x">>, <<>>, <<>>, "never"),
    SeCall(<<>>, <<>>, <<"d", "p">>, "finite")}]
(* The second thread calls while the first has taken, stopped or released   *)
(* its workers.                                                              *)
SeAllCalls == [t1 |-> SeOneCalls.t1, t2 |-> {SeCall(<<"p">>, <<>>, <<>>, "finite")}]

-----------------------------------------------------------------------------
SpThreads == {"t", "u"}
Sp == INSTANCE StatPool WITH
  Threads <- SpThreads, MaxBlocks <- 3, Width <- 3, Page_size <- 4, pool <- x1,
  next <- x2, prev <- x3, memory <- x4, fresh <- x5, pc <- x6, held <- x7,
  startup_count <- x8, shutdown_happened <- x9, aligned <- x10


-----------------------------------------------------------------------------
TrFiles == {"none", "a", "b", "link"}
Tr == INSTANCE TestRun WITH
  Commands <- TrCommands, Files <- TrFiles, Real <- TrReal, commands <- x1,
  pc <- x2, child <- x3, alarm <- x4, handler <- x5, timeout_expired <- x6,
  late <- x7, result <- x8
(* Up to three commands, with and without timeouts.                          *)
TrCommand(t, hangs, out, err, code) ==
    [timeout |-> t, hangs |-> hangs, out |-> out, err |-> err, code |-> code]
TrQuick == TrCommand(0, FALSE, "a", "link", 0)
TrTimed == TrCommand(1, FALSE, "a", "b", 2)
TrHung == TrCommand(1, TRUE, "none", "a", 0)
TrLists == {<<TrTimed, TrQuick, TrHung>>, <<TrHung, TrTimed>>, <<TrTimed, TrTimed>>, <<TrQuick>>}
TrLeads == [f \in {"none", "a", "b", "link"} |-> IF f = "link" THEN "a" ELSE f]

-----------------------------------------------------------------------------
Init ==
  /\ part \in Parts
  /\ \/ part = "marking" /\ Mk!Init /\ Unused14
     \/ part = "pools" /\ Sh!Init /\ Unused11
     \/ part = "ephemerons" /\ Ep!Init /\ Unused13
     \/ part = "arrays" /\ Ar!Init /\ Unused7
     \/ part = "roots" /\ Gr!Init /\ Unused5
     \/ part = "threads" /\ Th!Init
     \/ part = "channel" /\ Ch!Init /\ Unused10
     \/ part = "events" /\ Ev!Init /\ Unused13
     \/ part = "skiplist" /\ Sl!Init /\ Unused6
     \/ part = "fragments" /\ Cf!Init /\ Unused6
     \/ part = "bigarray" /\ Ba!Init /\ Unused6
     \/ part = "race" /\ Br!Init /\ Unused6
     \/ part = "select" /\ Se!Init /\ Unused6
     \/ part = "statpool" /\ Sp!Init /\ Unused10
     \/ part = "testrun" /\ Tr!Init /\ Unused8
Next ==
  /\ UNCHANGED part
  /\ \/ part = "marking" /\ Mk!Next /\ Kept14
     \/ part = "pools" /\ Sh!Next /\ Kept11
     \/ part = "ephemerons" /\ Ep!Next /\ Kept13
     \/ part = "arrays" /\ Ar!Next /\ Kept7
     \/ part = "roots" /\ Gr!Next /\ Kept5
     \/ part = "threads" /\ Th!Next
     \/ part = "channel" /\ Ch!Next /\ Kept10
     \/ part = "events" /\ Ev!Next /\ Kept13
     \/ part = "skiplist" /\ Sl!Next /\ Kept6
     \/ part = "fragments" /\ Cf!Next /\ Kept6
     \/ part = "bigarray" /\ Ba!Next /\ Kept6
     \/ part = "race" /\ Br!Next /\ Kept6
     \/ part = "select" /\ Se!Next /\ Kept6
     \/ part = "statpool" /\ Sp!Next /\ Kept10
     \/ part = "testrun" /\ Tr!Next /\ Kept8
Spec == Init /\ [][Next]_vars

HeapSymmetry == Permutations(ShDomains) \cup Permutations(ShPools)
ChannelSymmetry == Permutations(ChThreads)

-----------------------------------------------------------------------------
(* What the program reaches is never taken for garbage while domains mark  *)
(* and mutate side by side (caml_darken, mark_slice, caml_darken_cont),    *)
(* and when no domain has marking left everything reachable is marked.     *)
MarkingSound == part = "marking" => Mk!ReachableKept /\ Mk!MarkingComplete

(* A slot or a pool has one owner, through allocation, sweeping, adoption  *)
(* of orphaned pools and compaction; what is live keeps its contents, its  *)
(* references following it; and the statistics count every pool.           *)
PoolsSound == part = "pools" => Sh!OwnedOnce /\ Sh!Intact /\ Sh!StatsCover

(* The primitives of weak.c never answer with a dead key or datum, and     *)
(* answer as if the collector had cleaned every ephemeron at once.         *)
EphemeronsSound == part = "ephemerons" => Ep!NoDangling /\ Ep!AsIfCleanedAtOnce

(* Every reference from the major heap to the minor one is remembered, and *)
(* arrays hold what their sequence of operations says (array.c, memory.c); *)
(* every global root is in the list that its value needs (globroots.c).    *)
RootsSound ==
  /\ part = "arrays" => Ar!ArraysRight
  /\ part = "roots" => Gr!RootsTracked

(* One thread at a time runs with the master lock and its own state, a     *)
(* lock that is given up is handed over or its backup thread answers, and  *)
(* a signal that was recorded makes a running thread look for it           *)
(* (st_stubs.c, st_pthreads.h, signals.c).                                 *)
ThreadsSound == part = "threads" => Th!RuntimeOwned /\ Th!HandedOver /\ Th!SignalNoticed




(* A view of a bigarray addresses the elements of its base and nothing     *)
(* else, and storage is released when its last view is (bigarray.c,        *)
(* mmap_ba.c).                                                             *)
BigarraysSound == part = "bigarray" => Ba!ViewsExact /\ Ba!StorageKept

(* The same where two domains take views of a bigarray with no lock:       *)
(* stdlib/bigarray.mli says that "in the presence of data races, programs  *)
(* will not crash".                                                        *)
RacingViews == part = "race" => Br!StorageKept


(* Blocks of the caml_stat pool belong to one caller and are freed once,   *)
(* at caml_shutdown at the latest (memory.c, startup_aux.c); the runner of *)
(* tests reports what the command it ran did (run_unix.c).                 *)
ToolsSound ==
  /\ part = "statpool" => Sp!PoolSound
  /\ part = "testrun" => Tr!RunHonest
=============================================================================
