------------------------------ MODULE ParseEngine ------------------------------
(***************************************************************************)
(* A generated parser at work.  The first part runs the parser generator   *)
(* on a grammar, phase by phase as yacc/main.c does; the second is the     *)
(* pushdown automaton of runtime/parsing.c with the loop of yyparse in     *)
(* stdlib/parsing.ml that calls it, the lexer, and the semantic actions,   *)
(* which build the derivation tree.  An action may raise Parse_error to    *)
(* start error recovery.                                                   *)
(***************************************************************************)
EXTENDS Yacc

CONSTANTS
  Grammars,      \* the texts of the grammars
  MaxTokens,     \* bound: how many tokens the lexer returns before EOF
  StackSize,     \* the initial size of the stacks, 100 in stdlib/parsing.ml
  Raising        \* the <<length of the rule, errflag>> at which an action may
                 \* raise Parse_error

VARIABLES
  text, here,    \* the grammar file, and the place in it
  phase,         \* of main() in yacc/main.c, then "parse"
  g, a, la, p,   \* results of reader, lr0, lalr, make_parser
  tables,        \* struct parser_tables
  pc,            \* where the engine is
  env,           \* struct parser_env: s_stack, v_stack, sp, asp, state, ...;
                 \* raised: whether an action raised Parse_error
  read           \* the tokens read so far

genVars == <<text, here, phase, g, a, la, p, tables>>
vars == <<text, here, phase, g, a, la, p, tables, pc, env, read>>

NoEnv == [sp |-> 0]
None == [none |-> TRUE]

Init ==
  /\ text \in Grammars /\ phase = "reader" /\ here = 1
  /\ g = create_symbol_table /\ a = None /\ la = None /\ p = None /\ tables = None
  /\ pc = "none" /\ env = NoEnv /\ read = <<>>

(* The main loops of read_declarations and read_grammar, a lexeme a turn.  *)
ReadLexeme ==
  /\ phase = "reader" /\ here <= Len(text)
  /\ g' = read_lexeme(g, text[here]) /\ here' = here + 1
  /\ UNCHANGED <<text, phase, a, la, p, tables, pc, env, read>>

Reader ==
  /\ phase = "reader" /\ here > Len(text)
  /\ g' = finish_reader(g) /\ here' = 1
  /\ phase' = IF g'.error = "none" THEN "lr0" ELSE "failed"
  /\ a' = IF g'.error = "none" THEN lr0(g') ELSE a
  /\ UNCHANGED <<text, la, p, tables, pc, env, read>>

(* generate_states, a state a turn: here is this_state.                    *)
GenerateState ==
  /\ phase = "lr0" /\ here <= Len(a.states)
  /\ a' = [a EXCEPT !.states = process_state(g, a.first_derives, a.states, here)]
  /\ here' = here + 1
  /\ phase' = IF here' > Len(a'.states) THEN "lalr" ELSE "lr0"
  /\ UNCHANGED <<text, g, la, p, tables, pc, env, read>>

Lalr ==
  /\ phase = "lalr" /\ phase' = "make_parser"
  /\ la' = lalr(g, a)
  /\ UNCHANGED <<text, here, g, a, p, tables, pc, env, read>>

MakeParser ==
  /\ phase = "make_parser" /\ phase' = "output"
  /\ p' = make_parser(g, a, la)
  /\ UNCHANGED <<text, here, g, a, la, tables, pc, env, read>>

Output ==
  /\ phase = "output" /\ phase' = "tables"
  /\ tables' = output(g, a, la, p)
  /\ UNCHANGED <<text, here, g, a, la, p, pc, env, read>>

-----------------------------------------------------------------------------
(* The parser                                                              *)

ERRCODE == 256
StackBase == 1
Leaf(t) == [sym |-> t, rule |-> 0, kids |-> <<>>]
Stack(size, v) == [i \in 0..size - 1 |-> v]

(* yyparse sets the start code as the first token.                         *)
yyparse ==
  /\ phase = "tables" /\ phase' = "parse"
  /\ pc' = "loop"
  /\ env' = [s_stack |-> Stack(StackSize, 0), v_stack |-> Stack(StackSize, Leaf(0)),
             stacksize |-> StackSize, sp |-> 0, asp |-> 0, state |-> 0, errflag |-> 0,
             curr_char |-> 1, lval |-> Leaf(g.number[EntryCode(1)]), rule |-> 0,
             raised |-> FALSE]
  /\ UNCHANGED <<text, here, g, a, la, p, tables, read>>

(* The entry of the packed table at index[...] + code, or nothing.         *)
Lookup(n1, code) ==
  IF n1 # 0 /\ n1 + code \in DOMAIN tables.table /\ n1 + code <= tables.high
  THEN {tables.table[n1 + code].to : c \in {tables.table[n1 + code].check} \intersect {code}}
  ELSE {}

Loop ==
  /\ pc = "loop"
  /\ LET n == tables.defred[env.state] IN
     /\ pc' = IF n # 0 THEN "reduce" ELSE IF env.curr_char >= 0 THEN "testshift" ELSE "read"
     /\ env' = [env EXCEPT !.rule = n]
  /\ UNCHANGED <<genVars, read>>

TrueTokens == {t \in 1..g.start_symbol - 1 : g.name[t + 1] \notin {"error", EntryCode(1)}}
Eof == g.number["EOF"]

(* READ_TOKEN: the lexer returns any token, EOF at the latest after        *)
(* MaxTokens and ever after.                                               *)
TokenRead ==
  /\ pc = "read" /\ pc' = "testshift"
  /\ \E t \in TrueTokens :
       /\ Len(read) >= MaxTokens \/ Eof \in ToSet(read) => t = Eof
       /\ read' = Append(read, t)
       /\ env' = [env EXCEPT !.curr_char = g.symbol_value[t], !.lval = Leaf(t)]
  /\ UNCHANGED genVars

(* shift_recover: the new state, and the place for it on the stack.        *)
ShiftTo(e, to) == [e EXCEPT !.state = to, !.sp = @ + 1]
Grown(e, label) == IF e.sp < e.stacksize THEN label ELSE "grow_" \o label

TestShift ==
  /\ pc = "testshift"
  /\ LET shift  == Lookup(tables.sindex[env.state], env.curr_char)
         reduce == Lookup(tables.rindex[env.state], env.curr_char)
     IN \/ \E to \in shift :
             /\ env' = ShiftTo([env EXCEPT !.curr_char = -1,
                                           !.errflag = IF @ > 0 THEN @ - 1 ELSE @], to)
             /\ pc' = Grown(env', "push")
        \/ /\ shift = {}
           /\ \E r \in reduce : env' = [env EXCEPT !.rule = r]
           /\ pc' = "reduce"
        \/ /\ shift = {} /\ reduce = {}
           /\ pc' = "recover" /\ UNCHANGED env
  /\ UNCHANGED <<genVars, read>>

RecoverAt(k) == k

(* Mutation: the lookahead is kept while tokens are discarded.             *)
KeepLookahead(e) == e

DiscardToken(e) == [e EXCEPT !.curr_char = -1]

(* recover: states are popped until one shifts the error token; within     *)
(* three tokens of the last error, the token is discarded instead.         *)
Recover ==
  /\ pc = "recover"
  /\ LET Err(k) == Lookup(tables.sindex[env.s_stack[k]], ERRCODE)
         found  == {k \in StackBase..env.sp : Err(k) # {}}
     IN \/ /\ env.errflag < 3 /\ found # {}
           /\ LET k == RecoverAt(Max(found)) IN
              \E to \in Err(Max(found)) :
                env' = ShiftTo([env EXCEPT !.errflag = 3, !.sp = k], to)
           /\ pc' = Grown(env', "push")
        \/ /\ IF env.errflag < 3 THEN found = {} ELSE env.curr_char = 0
           /\ pc' = "parse_error" /\ UNCHANGED env
        \/ /\ env.errflag = 3 /\ env.curr_char # 0
           /\ env' = DiscardToken(env) /\ pc' = "loop"
  /\ UNCHANGED <<genVars, read>>

(* GROW_STACKS_1 and GROW_STACKS_2: the stacks double and keep their data. *)
GrowStacks ==
  /\ pc \in {"grow_push", "grow_action"}
  /\ LET size == 2 * env.stacksize
         Keep(s, v) == [i \in 0..size - 1 |-> IF i < env.stacksize THEN s[i] ELSE v]
     IN env' = [env EXCEPT !.stacksize = size, !.s_stack = Keep(@, 0), !.v_stack = Keep(@, Leaf(0))]
  /\ pc' = IF pc = "grow_push" THEN "push" ELSE "action"
  /\ UNCHANGED <<genVars, read>>

Push ==
  /\ pc = "push" /\ pc' = "loop"
  /\ env' = [env EXCEPT !.s_stack[env.sp] = env.state, !.v_stack[env.sp] = env.lval]
  /\ UNCHANGED <<genVars, read>>

(* Mutation: the goto of a reduction starts from the top of the stack.     *)
TopState(sp, m) == env.s_stack[sp]

UncoveredState(sp, m) == env.s_stack[sp - m]

Reduce ==
  /\ pc = "reduce"
  /\ LET m      == tables.len[env.rule]
         lhs    == tables.lhs[env.rule]
         state1 == UncoveredState(env.sp, m)
         found  == Lookup(tables.gindex[lhs], state1)
         to     == IF found # {} THEN CHOOSE x \in found : TRUE ELSE tables.dgoto[lhs]
     IN env' = [env EXCEPT !.asp = env.sp, !.sp = env.sp - m + 1, !.state = to]
  /\ pc' = Grown(env', "action")
  /\ UNCHANGED <<genVars, read>>

Node ==
  LET m == tables.len[env.rule] IN
  [sym  |-> g.rlhs[env.rule + 2], rule |-> env.rule + 2,
   kids |-> [i \in 1..m |-> env.v_stack[env.asp - m + i]]]

(* COMPUTE_SEMANTIC_ACTION.  The action of a rule of %entry% raises YYexit *)
(* with the value of the start symbol.                                     *)
SemanticAction ==
  /\ pc = "action"
  /\ \/ /\ g.name[g.rlhs[env.rule + 2] + 1] = "%entry%"
        /\ pc' = "accept" /\ env' = [env EXCEPT !.lval = env.v_stack[env.asp]]
     \/ /\ g.name[g.rlhs[env.rule + 2] + 1] # "%entry%"
        /\ pc' = "loop"
        /\ env' = [env EXCEPT !.s_stack[env.sp] = env.state, !.v_stack[env.sp] = Node]
     \/ /\ g.name[g.rlhs[env.rule + 2] + 1] # "%entry%"
        /\ <<tables.len[env.rule], env.errflag>> \in Raising
        /\ pc' = "recover" /\ env' = [env EXCEPT !.raised = TRUE]
  /\ UNCHANGED <<genVars, read>>

Done == phase = "failed" \/ pc \in {"accept", "parse_error"}
Stay == Done /\ UNCHANGED vars

Parse ==
  \/ Loop \/ TokenRead \/ TestShift \/ Recover \/ GrowStacks \/ Push
  \/ Reduce \/ SemanticAction

Next ==
  \/ ReadLexeme \/ Reader \/ GenerateState \/ Lalr \/ MakeParser \/ Output \/ yyparse
  \/ Parse \/ Stay

(* The thread that calls the parser is scheduled, and its lexer returns.   *)
Spec == Init /\ [][Next]_vars /\ WF_vars(Parse)

-----------------------------------------------------------------------------
(* Reference definitions                                                   *)

RECURSIVE RefClosure(_), FirstOf(_, _, _), FirstSets(_), Propagate(_, _)
RefClosure(items) ==
  LET more == items \union {<<r, 0>> : r \in {q \in Rules(g) :
                                \E i \in items : SymbolAt(g, i) = g.rlhs[q]}}
  IN IF more = items THEN items ELSE RefClosure(more)

(* The tokens a sentence derived from seq may start with; after, when seq  *)
(* derives the empty sentence.                                             *)
FirstOf(first, seq, after) ==
  IF seq = <<>> THEN after
  ELSE IF ~ISVAR(g, seq[1]) THEN {seq[1]}
  ELSE first[seq[1]] \union
       (IF seq[1] \in a.nullable THEN FirstOf(first, Tail(seq), after) ELSE {})

FirstSets(first) ==
  LET more == [v \in Variables(g) |->
                 UNION {FirstOf(first, g.rrhs[r], {}) : r \in a.derives[v]} \union first[v]]
  IN IF more = first THEN first ELSE FirstSets(more)

(* The tokens that may follow an item of a state: the LR(1) lookaheads,    *)
(* merged over the states with the same kernel.                            *)
Propagate(first, f) ==
  LET From(s, i) ==
        IF i[2] = 0
        THEN UNION {FirstOf(first, SubSeq(g.rrhs[x[2][1]], x[2][2] + 2, Len(g.rrhs[x[2][1]])), f[x]) :
                      x \in {y \in DOMAIN f : y[1] = s /\ SymbolAt(g, y[2]) = g.rlhs[i[1]]}}
        ELSE UNION {f[x] : x \in {y \in DOMAIN f : y[2] = <<i[1], i[2] - 1>> /\
                                                  s \in Range(State(a, y[1]).shift)}}
      more == [x \in DOMAIN f |-> f[x] \union From(x[1], x[2])]
  IN IF more = f THEN f ELSE Propagate(first, more)

RefLookaheads ==
  LET items == UNION {{s} \X RefClosure(State(a, s).items) : s \in 0..nstates(a) - 1}
      f == Propagate(FirstSets([v \in Variables(g) |-> {}]), [x \in items |-> {}])
  IN [s \in 0..nstates(a) - 1 |->
        [r \in {x[2][1] : x \in {y \in items : y[1] = s /\ SymbolAt(g, y[2]) = -1}} |->
           f[<<s, <<r, Len(g.rrhs[r])>>>>]]]

(* The derivation trees of a sentence.  MinLen keeps the recursion going   *)
(* down: no rule of the grammars derives its own left-hand side alone.     *)
RECURSIVE MinLens(_), Trees(_, _, _), Forests(_, _, _), YieldOf(_), WellFormed(_), Violates(_)
Least(lens, seq) == FoldLeft(LAMBDA n, x : n + (IF ISVAR(g, x) THEN lens[x] ELSE 1), 0, seq)
MinLens(lens) ==
  LET less == [v \in Variables(g) |->
                 Min({lens[v]} \union {Least(lens, g.rrhs[r]) : r \in a.derives[v]})]
  IN IF less = lens THEN lens ELSE MinLens(less)

Trees(lens, x, w) ==
  IF ~ISVAR(g, x) THEN IF w = <<x>> THEN {Leaf(x)} ELSE {}
  ELSE UNION {{[sym |-> x, rule |-> r, kids |-> f] : f \in Forests(lens, g.rrhs[r], w)} :
                r \in a.derives[x]}

Forests(lens, seq, w) ==
  IF Least(lens, seq) > Len(w) THEN {}
  ELSE IF seq = <<>> THEN IF w = <<>> THEN {<<>>} ELSE {}
  ELSE UNION {LET rest == Forests(lens, Tail(seq), SubSeq(w, n + 1, Len(w)))
              IN IF rest = {} THEN {}
                 ELSE {<<t>> \o f : t \in Trees(lens, seq[1], SubSeq(w, 1, n)), f \in rest} :
                n \in Least(lens, <<seq[1]>>)..Len(w) - Least(lens, Tail(seq))}

YieldOf(t) == IF t.rule = 0 THEN <<t.sym>> ELSE FlattenSeq([k \in DOMAIN t.kids |-> YieldOf(t.kids[k])])

WellFormed(t) ==
  t.rule # 0 =>
    /\ g.rlhs[t.rule] = t.sym
    /\ [k \in DOMAIN t.kids |-> t.kids[k].sym] = g.rrhs[t.rule]
    /\ \A k \in DOMAIN t.kids : WellFormed(t.kids[k])

(* A node whose first or last operand binds less tightly than the node, or *)
(* as tightly on the side that the associativity excludes.  An operand     *)
(* that starts with a token cannot be mistaken on the right, one that ends *)
(* with a token cannot on the left.                                        *)
Violates(t) ==
  LET n == Len(t.kids)
      Looser(kid, side) ==
        /\ kid.rule # 0 /\ kid.kids # <<>>
        /\ ISVAR(g, kid.kids[IF side = "left" THEN Len(kid.kids) ELSE 1].sym)
        /\ g.rprec[t.rule] > 0 /\ g.rprec[kid.rule] > 0
        /\ \/ g.rprec[kid.rule] < g.rprec[t.rule]
           \/ g.rprec[kid.rule] = g.rprec[t.rule] /\ g.rassoc[t.rule] # side
  IN t.rule # 0 /\ n > 0 /\
     (\/ n > 1 /\ Looser(t.kids[1], "left")
      \/ n > 1 /\ Looser(t.kids[n], "right")
      \/ \E k \in 1..n : Violates(t.kids[k]))

UsesError == \E r \in Rules(g) : 1 \in ToSet(g.rrhs[r])
StartSymbol == g.rrhs[CHOOSE r \in Rules(g) : g.rlhs[r] = g.number["%entry%"]][2]

-----------------------------------------------------------------------------
(* Properties                                                              *)

(* The lookaheads computed with the reads and includes relations and two   *)
(* depth-first traversals of their strong components (lalr.c) are exactly  *)
(* the LALR(1) ones: those of the canonical LR(1) items, merged.           *)
LookaheadsExact == phase = "make_parser" => la.LA = RefLookaheads

(* The comb table answers every look-up of the engine as the unpacked      *)
(* actions would, although vectors overlap in it (pack_table and the tests *)
(* on check in caml_parse_engine).                                         *)
PackedLookup ==
  phase = "tables" =>
    /\ \A s \in 0..nstates(a) - 1, t \in Tokens(g) :
         LET c == g.symbol_value[t]
             Kind(code, i) == UNION {Kept(p.parser[s], u, code) :
                                      u \in {x \in Tokens(g) : g.symbol_value[x] = c}}
             shift == Lookup(tables.sindex[s], c)
             red == {r + 2 : r \in Lookup(tables.rindex[s], c)}
         IN /\ shift \subseteq Kind("shift", s) /\ (shift = {} <=> Kind("shift", s) = {})
            /\ IF p.defred[s] # 0 THEN red = {} /\ shift = {}
               ELSE red \subseteq Kind("reduce", s) /\ (red = {} <=> Kind("reduce", s) = {})
    /\ \A i \in DOMAIN la.gotos :
         LET v == g.symbol_value[la.gotos[i].symbol]
             found == Lookup(tables.gindex[v], la.gotos[i].from)
         IN IF found = {} THEN tables.dgoto[v] = la.gotos[i].to ELSE found = {la.gotos[i].to}

(* What the generated parser accepts, and the tree it builds, are what the *)
(* grammar and its precedence declarations say: an accepted input has the  *)
(* tree as a derivation, without an operand that binds too loosely; an     *)
(* input that is refused has no such derivation (when all conflicts are    *)
(* resolved by precedences).                                               *)
ParsesAsDeclared ==
  LET fresh == MinLens([v \in Variables(g) |-> 9]) IN
  /\ pc = "accept" /\ ~UsesError =>
       /\ WellFormed(env.lval) /\ env.lval.sym = StartSymbol
       /\ YieldOf(env.lval) = read /\ ~Violates(env.lval)
  /\ pc = "parse_error" /\ ~UsesError /\ ~env.raised /\ p.conflicts = {} =>
       \A t \in Trees(fresh, StartSymbol, read) : Violates(t)

(* The stack always spells a path of the automaton from the initial state, *)
(* and ends in the current state, also after states were popped to recover *)
(* from an error.                                                          *)
StackIsPath ==
  pc = "loop" /\ env.sp >= StackBase =>
    /\ env.state = env.s_stack[env.sp]
    /\ \A i \in StackBase..env.sp :
         env.s_stack[i] \in Range(State(a, IF i = StackBase THEN 0 ELSE env.s_stack[i - 1]).shift)

(* Every parse ends, with a value or with Parse_error: recovery discards   *)
(* states and tokens only finitely often.                                  *)
ParseEnds == phase = "parse" ~> Done
=============================================================================
