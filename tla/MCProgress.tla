----------------------------- MODULE MCProgress -----------------------------
(***************************************************************************)
(* What must come to an end: the global barrier, the service of interrupts *)
(* by backup threads, a minor collection and a parse, each under the       *)
(* fairness of its scheduling.  A behaviour is one of these parts, chosen  *)
(* at the start; x1, x2, ... are its variables, in the order in which its  *)
(* module declares them.  The barrier and the threads of a domain slot     *)
(* have their own, and stay at rest in the other parts.                    *)
(***************************************************************************)
EXTENDS GlobalBarrier, BackupThread, Sequences, SequencesExt, TLC

CONSTANTS Parts, MiYoung, MiHeaps, PaGrammars, PaRaising

VARIABLES part, x1, x2, x3, x4, x5, x6, x7, x8, x9, x10, x11
xs == <<x1, x2, x3, x4, x5, x6, x7, x8, x9, x10, x11>>
all == <<part, barrier_vars, vars, xs>>

(* The variables from x(n+1) on are not used by the part under way.        *)
None == "none"
Unused7 == x8 = None /\ x9 = None /\ x10 = None /\ x11 = None
Kept7 == UNCHANGED <<x8, x9, x10, x11>>
Unused0 == x1 = None /\ x2 = None /\ x3 = None /\ x4 = None /\ x5 = None /\ x6 = None /\ x7 = None /\ Unused7
Kept0 == UNCHANGED <<x1, x2, x3, x4, x5, x6, x7>> /\ Kept7

-----------------------------------------------------------------------------
(* A slot whose domain may fail to create its backup thread.               *)
FaBackups == {"b1", "b2"}
Fa == INSTANCE BackupThread WITH
  Backups <- FaBackups, CreateMayFail <- TRUE, backup_thread_msg <- x1,
  backup_thread_running <- x2, running <- x3, interrupt_pending <- x4,
  domain_lock <- x5, is_main <- x6, others <- x7, sender <- x8, child <- x9,
  main <- x10, bt <- x11

-----------------------------------------------------------------------------
Mi == INSTANCE MinorPromote WITH
  N <- 3, Young <- MiYoung, Heaps <- MiHeaps, start <- x1, mem <- x2, hd <- x3,
  tag <- x4, th <- x5, finished <- x6, finalised <- x7

(* The same module, for the terms the inputs below are written in.          *)
MiT == INSTANCE MinorPromote WITH
  N <- 3, Young <- {}, Heaps <- {}, start <- x1, mem <- x2, hd <- x3,
  tag <- x4, th <- x5, finished <- x6, finalised <- x7
(* Young: blocks of two fields and of one, a forward block, a lazy one, a  *)
(* custom block and a continuation.                                        *)
MiA == 11
MiB == 12
MiF == 13
MiL == 14
MiS == 15
MiK == 16
MiSomeYoung == (MiA :> "block") @@ (MiB :> "block") @@ (MiF :> "forward") @@ (MiL :> "lazy")
           @@ (MiS :> "noscan") @@ (MiK :> "cont")
MiNone == <<<<>>, <<>>, <<>>>>
(* The roots of the domains are the objects 1, 2 and 7, 3 the global ones, *)
(* 4 and 5 are blocks of the major heap, 6 is the stack of k.              *)
MiMem(r1, r2, r3, g, m, n, fa, fb, ff, fl, stack) ==
  (1 :> r1) @@ (2 :> r2) @@ (7 :> r3) @@ (3 :> g) @@ (4 :> m) @@ (5 :> n) @@ (6 :> stack) @@ (MiA :> fa)
  @@ (MiB :> fb) @@ (MiF :> <<ff>>) @@ (MiL :> <<fl>>) @@ (MiS :> <<MiT!Long, MiT!Long>>) @@ (MiK :> <<6, MiT!Long>>)
MiSituation(m, refs, ephe, final, custom) ==
  [mem |-> m, refs |-> refs, ephe |-> ephe, final |-> final, custom |-> custom,
   global |-> <<<<3, 1>>>>, local |-> <<<<<<1, 1>>>>, <<<<2, 1>>>>, <<<<7, 1>>>>>>]
MiSomeHeaps == {
  MiSituation(MiMem(<<MiB>>, <<MiA>>, <<MiT!Long>>, <<MiT!Long>>, <<MiA, MiS>>, <<MiT!Long>>, <<MiB, MiA>>, <<MiA>>, MiT!Long, MiT!Long, <<>>),
            <<<<<<4, 1>>, <<4, 2>>>>, <<>>, <<>>>>, MiNone, MiNone, <<{MiS}, {}, {}>>),
  MiSituation(MiMem(<<MiF>>, <<MiF>>, <<MiT!Long>>, <<MiL>>, <<MiT!Long, MiT!Long>>, <<MiB>>, <<MiF, MiF>>, <<MiL>>, MiB, MiF, <<>>),
            MiNone, <<<<<<5, 1>>>>, <<>>, <<>>>>, MiNone, <<{}, {MiS}, {}>>),
  MiSituation(MiMem(<<MiK>>, <<MiK>>, <<MiT!Long>>, <<MiT!Long>>, <<MiT!Long, MiS>>, <<MiF>>, <<MiK, MiS>>, <<MiT!Long>>, MiL, MiT!Long, <<MiA>>),
            <<<<<<4, 2>>>>, <<>>, <<>>>>, MiNone, <<<<>>, <<<<5, 1>>>>, <<>>>>, <<{}, {MiS}, {}>>)}

-----------------------------------------------------------------------------
Pa == INSTANCE ParseEngine WITH
  Grammars <- PaGrammars, MaxTokens <- 5, StackSize <- 3, Raising <- PaRaising,
  text <- x1, here <- x2, phase <- x3, g <- x4, a <- x5, la <- x6, p <- x7,
  tables <- x8, pc <- x9, env <- x10, read <- x11

(* The same module, for the terms the inputs below are written in.          *)
PaT == INSTANCE ParseEngine WITH
  Grammars <- {}, MaxTokens <- 5, StackSize <- 3, Raising <- {},
  text <- x1, here <- x2, phase <- x3, g <- x4, a <- x5, la <- x6, p <- x7,
  tables <- x8, pc <- x9, env <- x10, read <- x11
(* Grammars with precedences, nullable symbols, lookaheads that SLR cannot *)
(* tell apart, unresolved conflicts and error recovery.                    *)

PaN(names) == [k \in DOMAIN names |-> <<names[k], PaT!UNDEFINED>>]
PaDeclare(assoc, names) == [t |-> "declare", assoc |-> assoc, tag |-> FALSE, names |-> PaN(names)]
PaMark == [t |-> "mark"]
PaHeader(start) == <<[t |-> "type", names |-> <<start>>], [t |-> "start", names |-> <<start>>]>>
PaSym(n) == [t |-> "sym", name |-> n]
PaAction == [t |-> "action", refs |-> {}]
PaRule(lhs, alts) ==
  <<[t |-> "lhs", name |-> lhs]>> \o
  FlattenSeq([k \in DOMAIN alts |->
    (IF k = 1 THEN <<>> ELSE <<[t |-> "bar"]>>) \o
    [i \in DOMAIN alts[k] |-> PaSym(alts[k][i])] \o <<PaAction>>])

(* Expressions: PLUS, then TIMES, then UMINUS binds tighter; EQ does not   *)
(* associate, POW associates to the right.                                 *)
PaExpressions ==
  <<PaDeclare("token", <<"NUM", "EOF">>), PaDeclare("nonassoc", <<"EQ">>), PaDeclare("left", <<"PLUS">>),
    PaDeclare("right", <<"POW">>), PaDeclare("left", <<"UMINUS">>)>> \o PaHeader("main") \o <<PaMark>> \o
  PaRule("main", <<<<"e", "EOF">>>>) \o
  PaRule("e", <<<<"NUM">>, <<"e", "EQ", "e">>, <<"e", "PLUS", "e">>, <<"e", "POW", "e">>>>) \o
  <<[t |-> "bar"], PaSym("PLUS"), PaSym("e"), [t |-> "prec", name |-> "UMINUS"], PaAction>>

(* L = R: LALR(1) and not SLR(1).                                          *)
PaAssignments ==
  <<PaDeclare("token", <<"ID", "STAR", "EQ", "EOF">>)>> \o PaHeader("main") \o <<PaMark>> \o
  PaRule("main", <<<<"s", "EOF">>>>) \o PaRule("s", <<<<"l", "EQ", "r">>, <<"r">>>>) \o
  PaRule("l", <<<<"STAR", "r">>, <<"ID">>>>) \o PaRule("r", <<<<"l">>>>)

(* Nullable symbols in a row and relations with cycles.                    *)
PaLists ==
  <<PaDeclare("token", <<"A", "B", "EOF">>)>> \o PaHeader("main") \o <<PaMark>> \o
  PaRule("main", <<<<"items", "EOF">>>>) \o
  PaRule("items", <<<<>>, <<"A", "items", "opt", "last">>>>) \o
  PaRule("opt", <<<<>>, <<"B">>>>) \o PaRule("last", <<<<>>>>)

(* The dangling else: a conflict that is resolved by shifting.             *)
PaConditionals ==
  <<PaDeclare("token", <<"IF", "ELSE", "X", "EOF">>)>> \o PaHeader("main") \o <<PaMark>> \o
  PaRule("main", <<<<"s", "EOF">>>>) \o
  PaRule("s", <<<<"X">>, <<"IF", "s">>, <<"IF", "s", "ELSE", "s">>>>)

(* A statement with an error is skipped up to the next SEMI.               *)
PaStatements ==
  <<PaDeclare("token", <<"X", "Y", "SEMI", "EOF">>)>> \o PaHeader("main") \o <<PaMark>> \o
  PaRule("main", <<<<"block", "EOF">>>>) \o
  PaRule("block", <<<<"s">>, <<"block", "s">>>>) \o
  PaRule("s", <<<<"X", "Y", "SEMI">>, <<"error", "SEMI">>>>)

(* Refused by the reader: a rule without an action.                        *)
PaNoAction ==
  <<PaDeclare("token", <<"A", "EOF">>)>> \o PaHeader("main") \o
  <<PaMark, [t |-> "lhs", name |-> "main"], PaSym("A"), PaSym("EOF")>>

PaSomeGrammars == {PaExpressions, PaAssignments, PaLists, PaConditionals, PaStatements, PaNoAction}
PaSomeRaising == {<<3, 0>>}

-----------------------------------------------------------------------------
InitParts ==
  /\ part \in Parts
  /\ BarrierStart
  /\ Init /\ (part = "slot" \/ is_main)
  /\ \/ part \in {"barrier", "slot"} /\ Unused0
     \/ part = "failing" /\ Fa!Init
     \/ part = "minor" /\ Mi!Init /\ Unused7
     \/ part = "parser" /\ Pa!Init
AtBarrier == part = "barrier" /\ UNCHANGED <<part, vars, xs>>
InSlot == part = "slot" /\ UNCHANGED <<part, barrier_vars, xs>>
Still == UNCHANGED <<part, barrier_vars, vars>>
NextParts ==
  \/ AtBarrier /\ BarrierNext
  \/ InSlot /\ Next
  \/ part = "failing" /\ Fa!Next /\ Still
  \/ part = "minor" /\ Mi!Next /\ Kept7 /\ Still
  \/ part = "parser" /\ Pa!Next /\ Still

(* Fairness: each domain and each thread that can go on does, as in the    *)
(* modules of the parts.                                                   *)
BarrierFair ==
  \A d \in Domains :
    /\ WF_all(AtBarrier /\ caml_global_barrier_begin(d))
    /\ WF_all(AtBarrier /\ caml_global_barrier_end(d))
SlotFair ==
  /\ WF_all(InSlot /\ MainStep) /\ WF_all(InSlot /\ Broadcast) /\ WF_all(InSlot /\ ChildAnswers)
  /\ SF_all(InSlot /\ MainHandle)
  /\ SF_all(InSlot /\ caml_acquire_domain_lock) /\ SF_all(InSlot /\ InstallRelock)
  /\ \A t \in Backups :
       /\ WF_all(InSlot /\ BackupStep(t))
       /\ SF_all(InSlot /\ BtEntering(t)) /\ SF_all(InSlot /\ BtWoken(t))
MinorFair == \A d \in Mi!Participants : WF_all(part = "minor" /\ Mi!Step(d) /\ Kept7 /\ Still)
ParserFair == WF_all(part = "parser" /\ Pa!Parse /\ Still)
FairParts == InitParts /\ [][NextParts]_all /\ BarrierFair /\ SlotFair /\ MinorFair /\ ParserFair

-----------------------------------------------------------------------------
(* Safety.  A slot whose pthread_create may fail is run by one thread at a *)
(* time and has one backup thread all the same (domain_lock and            *)
(* install_backup_thread).                                                 *)
FailingSlot == part = "failing" => Fa!BackupSound /\ Fa!BackupInv

(* A parallel minor collection moves what the roots reach, once, whoever   *)
(* of the domains gets there first (oldify_one, try_update_object_header,  *)
(* oldify_mopup), and finalises the custom blocks it leaves only once      *)
(* every domain has finished.                                              *)
AllPromoted == part = "minor" => Mi!AllPromoted /\ Mi!FinalisedDead

(* The tables that the generator computes are the LALR(1) tables of the    *)
(* grammar, packed without clashes, with the conflicts resolved as the     *)
(* declarations say, and the automaton of parsing.c that runs on them      *)
(* accepts what the declarations describe, on a stack that is a path.      *)
ParserRight ==
  part = "parser" => Pa!LookaheadsExact /\ Pa!PackedLookup /\ Pa!ParsesAsDeclared /\ Pa!StackIsPath

(* Liveness.  Every domain passes every barrier; install_backup_thread,    *)
(* which waits for the predecessor to go, returns; and every domain gets   *)
(* out of the minor collection, though each spins on the others' blocks.   *)
Finishes ==
  /\ part = "barrier" ~> (part = "barrier" /\ \A d \in Domains : round[d] = Rounds)
  /\ InstallReturns
  /\ part = "minor" ~> (part = "minor" /\ \A d \in Mi!Participants : Mi!At(d, "done"))

(* A parse that has begun ends, with error tokens that discard input and   *)
(* pop states as well (caml_parse_engine).                                 *)
ParseEnds == (part = "parser" /\ x3 = "parse") ~> (part = "parser" /\ Pa!Done)
=============================================================================
