--------------------------------- MODULE Yacc ---------------------------------
(***************************************************************************)
(* The parser generator.  The front end, yacc/reader.c and yacc/symtab.c,  *)
(* makes of the text of a grammar the packed grammar g (symbols and rules  *)
(* as numbers).  The text is a sequence of lexemes, so that comments,      *)
(* strings and the layout of the file are gone:                            *)
(*   [t |-> "declare", assoc, tag, names]   %token, %left, %right ...      *)
(*   [t |-> "type", names], [t |-> "start", names], [t |-> "mark"]         *)
(*   [t |-> "lhs", name]                    a name followed by a colon     *)
(*   [t |-> "sym", name], [t |-> "prec", name], [t |-> "bar"]              *)
(*   [t |-> "action", refs]                 { ... } that mentions $i       *)
(* A name of a declaration is <<name, value>>, value UNDEFINED if the text *)
(* gives none.                                                             *)
(*                                                                         *)
(* Behind it: the LR(0) automaton (yacc/lr0.c, yacc/closure.c,             *)
(* yacc/warshall.c), the LALR(1) lookaheads by DeRemer and Pennello's      *)
(* relations (yacc/lalr.c), the resolution of conflicts (yacc/mkpar.c) and *)
(* the packing of the tables (yacc/output.c).  An item of ritem is a pair  *)
(* <<rule, dot>>, whose order is that of the positions in ritem; a bit     *)
(* vector is a set.                                                        *)
(***************************************************************************)
EXTENDS Integers, Sequences, FiniteSets, SequencesExt

UNDEFINED == -1

make_bucket ==
  [class |-> "unknown", prec |-> 0, assoc |-> "token", tag |-> FALSE,
   value |-> UNDEFINED, entry |-> 0, true_token |-> FALSE]

(* r.syms is the list first_symbol..last_symbol, r.b the buckets.          *)
create_symbol_table ==
  [syms |-> <<"error">>, b |-> ("error" :> [make_bucket EXCEPT !.class = "term"]),
   prec |-> 0, entries |-> 0, part |-> "declarations", error |-> "none",
   plhs |-> <<>>, pitem |-> <<>>, rprec |-> <<>>, rassoc |-> <<>>,
   last_was_action |-> FALSE, at_first |-> FALSE]

lookup(r, name) ==
  IF name \in DOMAIN r.b THEN r
  ELSE [r EXCEPT !.syms = Append(@, name), !.b = @ @@ (name :> make_bucket)]

Stop(r, why) == [r EXCEPT !.error = why]

-----------------------------------------------------------------------------
(* Declarations                                                            *)

(* One name of declare_tokens: the last declaration decides.               *)
declare_token(r0, l, name, value) ==
  LET r == lookup(r0, name)
      p == r.b[name]
      q == IF l.assoc = "token" THEN [p EXCEPT !.true_token = TRUE]
           ELSE [p EXCEPT !.assoc = l.assoc, !.prec = r.prec]
      v == IF value # UNDEFINED THEN value ELSE IF name = "EOF" THEN 0 ELSE p.value
  IN [r EXCEPT !.b[name] =
        [q EXCEPT !.class = "term", !.tag = l.tag \/ p.tag, !.value = v]]

declare_tokens(r, l) ==
  FoldLeft(LAMBDA q, n : declare_token(q, l, n[1], n[2]),
           [r EXCEPT !.prec = IF l.assoc = "token" THEN @ ELSE @ + 1], l.names)

declare_types(r, l) ==
  FoldLeft(LAMBDA q, n : [lookup(q, n) EXCEPT !.b[n].tag = TRUE], r, l.names)

(* EntryCode bounds the number of entry points, 255 in the code.           *)
declare_start(r, l) ==
  FoldLeft(LAMBDA q, n :
             IF q.error # "none" THEN q
             ELSE IF n \in DOMAIN q.b /\ q.b[n].class = "term"
                  THEN Stop(q, "terminal_start")
             ELSE [lookup(q, n) EXCEPT !.entries = @ + 1, !.b[n].entry = q.entries + 1],
           r, l.names)

read_declarations(r, l) ==
  CASE l.t = "mark"    -> [r EXCEPT !.part = "start"]
    [] l.t = "declare" -> declare_tokens(r, l)
    [] l.t = "type"    -> declare_types(r, l)
    [] l.t = "start"   -> declare_start(r, l)
    [] OTHER           -> Stop(r, "syntax_error")

-----------------------------------------------------------------------------
(* Rules.  The items of the rule being read are the last of pitem.         *)

start_rule(r0, name) ==
  LET r == lookup(r0, name) IN
  IF r.b[name].class = "term" THEN Stop(r, "terminal_lhs")
  ELSE [r EXCEPT !.b[name].class = "nonterm",
                 !.plhs = Append(@, name), !.pitem = Append(@, <<>>),
                 !.rprec = Append(@, UNDEFINED), !.rassoc = Append(@, "token"),
                 !.at_first = TRUE]

end_rule(r) ==
  IF r.last_was_action THEN [r EXCEPT !.last_was_action = FALSE]
  ELSE Stop(r, "default_action_error")

AndThen(r, Op(_)) == IF r.error = "none" THEN Op(r) ELSE r

add_symbol(r0, name) ==
  LET r == lookup(r0, name) IN
  IF r.last_was_action THEN Stop(r, "syntax_error")
  ELSE [r EXCEPT !.pitem[Len(r.pitem)] = Append(@, name)]

(* $i must name a symbol of the right-hand side that carries a value.      *)
copy_action(r, refs) ==
  LET items == Last(r.pitem)
      NoValue(i) == r.b[items[i]].class = "term" /\ ~r.b[items[i]].tag
  IN IF r.last_was_action THEN Stop(r, "syntax_error")
     ELSE IF \E i \in refs : i \notin DOMAIN items THEN Stop(r, "unknown_rhs")
     ELSE IF \E i \in refs : NoValue(i) THEN Stop(r, "illegal_token_ref")
     ELSE [r EXCEPT !.last_was_action = TRUE]

mark_symbol(r0, name) ==
  LET r == lookup(r0, name) IN
  [r EXCEPT !.rprec[Len(r.rprec)] = r.b[name].prec,
            !.rassoc[Len(r.rassoc)] = r.b[name].assoc]

advance_to_start(r, l) ==
  CASE l.t = "start" -> declare_start(r, l)
    [] l.t = "lhs"   -> [start_rule(lookup(r, l.name), l.name) EXCEPT !.part = "rules"]
    [] l.t = "mark"  -> Stop(r, "no_grammar")
    [] OTHER         -> Stop(r, "syntax_error")

(* A bar straight after the colon is skipped.                              *)
read_rule(r0, l) ==
  LET r == [r0 EXCEPT !.at_first = FALSE] IN
  CASE l.t = "bar" /\ r0.at_first -> r
    [] l.t = "bar"    -> AndThen(end_rule(r), LAMBDA q : start_rule(q, Last(q.plhs)))
    [] l.t = "lhs"    -> AndThen(end_rule(r), LAMBDA q : start_rule(q, l.name))
    [] l.t = "sym"    -> add_symbol(r, l.name)
    [] l.t = "action" -> copy_action(r, l.refs)
    [] l.t = "prec"   -> mark_symbol(r, l.name)
    [] l.t = "mark"   -> [r EXCEPT !.part = "trailer"]
    [] OTHER          -> Stop(r, "syntax_error")

read_lexeme(r, l) ==
  CASE r.error # "none" \/ r.part = "trailer" -> r
    [] r.part = "declarations" -> read_declarations(r, l)
    [] r.part = "start"        -> advance_to_start(r, l)
    [] OTHER                   -> read_rule(r, l)

-----------------------------------------------------------------------------
(* The entry points: one rule %entry% : <code of the entry> <entry>        *)

EntryCode(n) == <<"'\\001'", "'\\002'", "'\\003'">>[n]

make_entry(r, bp) ==
  IF r.error # "none" \/ r.b[bp].entry = 0 THEN r
  ELSE IF ~r.b[bp].tag THEN Stop(r, "entry_without_type")
  ELSE LET n == r.b[bp].entry
           s == lookup(start_rule(r, "%entry%"), EntryCode(n))
       IN [s EXCEPT !.b[EntryCode(n)].class = "term", !.b[EntryCode(n)].value = n,
                    !.pitem[Len(s.pitem)] = <<EntryCode(n), bp>>,
                    !.last_was_action = FALSE]

make_goal(r) == FoldLeft(make_entry, lookup(r, "%entry%"), r.syms)

check_symbols(r) ==
  IF r.b["%entry%"].class = "unknown" THEN Stop(r, "undefined_goal")
  ELSE IF \E s \in DOMAIN r.b : r.b[s].class = "unknown" THEN Stop(r, "undefined_symbol")
  ELSE r

-----------------------------------------------------------------------------
(* Packing.  Symbol 0 is $end, start_symbol is $accept; the terminals are  *)
(* below start_symbol, the variables above, %entry% first.                 *)

RECURSIVE NextValue(_, _)
NextValue(n, used) == IF n \in used THEN NextValue(n + 1, used) ELSE n

(* Terminals without a value get 257, 258, ... but those in use; error,    *)
(* the first one, gets 256.                                                *)
AssignValue(vals, s) ==
  IF vals[s] # UNDEFINED THEN vals
  ELSE [vals EXCEPT ![s] = IF s = "error" THEN 256
                           ELSE NextValue(257, {vals[t] : t \in DOMAIN vals})]

pack_symbols(r) ==
  LET terms == SelectSeq(r.syms, LAMBDA s : r.b[s].class = "term")
      vars  == <<"%entry%">> \o
               SelectSeq(r.syms, LAMBDA s : r.b[s].class # "term" /\ s # "%entry%")
      start == Len(terms) + 1
      index == [i \in 1..Len(terms) |-> terms[i]] \o <<"$accept">> \o vars
      val   == FoldLeft(AssignValue, [s \in {terms[i] : i \in DOMAIN terms} |-> r.b[s].value],
                        terms)
  IN [start_symbol |-> start, nsyms |-> Len(index) + 1,
      name         |-> <<"$end">> \o index,
      number       |-> [s \in {index[i] : i \in DOMAIN index} |->
                          CHOOSE i \in DOMAIN index : index[i] = s],
      symbol_value |-> [i \in 0..Len(index) |->
                          IF i = 0 THEN 0
                          ELSE IF i < start THEN val[index[i]] ELSE i - start - 1],
      symbol_prec  |-> [i \in 0..start - 1 |-> IF i = 0 THEN 0 ELSE r.b[index[i]].prec],
      symbol_assoc |-> [i \in 0..start - 1 |-> IF i = 0 THEN "token" ELSE r.b[index[i]].assoc]]

PrecTerminal(r, items) == SelectLastInSeq(items, LAMBDA s : r.b[s].class = "term")

(* Rules are numbered from 3; rule 2 is $accept : %entry% $end.  A rule    *)
(* without %prec has the precedence of its last terminal.                  *)
pack_grammar(r, p) ==
  LET n == Len(r.plhs)
      Given(i) == r.rprec[i - 2] # UNDEFINED
      Of(i, f, none) == LET k == PrecTerminal(r, r.pitem[i - 2])
                        IN IF k = 0 THEN none ELSE r.b[r.pitem[i - 2][k]][f]
  IN p @@
     [nrules |-> n + 3,
      rlhs   |-> [i \in 2..n + 2 |-> IF i = 2 THEN p.start_symbol ELSE p.number[r.plhs[i - 2]]],
      rrhs   |-> [i \in 2..n + 2 |->
                    IF i = 2 THEN <<p.number["%entry%"], 0>>
                    ELSE [k \in DOMAIN r.pitem[i - 2] |-> p.number[r.pitem[i - 2][k]]]],
      rprec  |-> [i \in 2..n + 2 |-> IF i = 2 THEN 0
                    ELSE IF Given(i) THEN r.rprec[i - 2] ELSE Of(i, "prec", 0)],
      rassoc |-> [i \in 2..n + 2 |-> IF i = 2 THEN "token"
                    ELSE IF Given(i) THEN r.rassoc[i - 2] ELSE Of(i, "assoc", "token")]]

(* The end of reader(): the packed grammar, or the error that stops it.    *)
finish_reader(r0) ==
  LET r1 == IF r0.error # "none" THEN r0
            ELSE IF r0.part \in {"declarations", "start"} THEN Stop(r0, "unexpected_EOF")
            ELSE end_rule(r0)
      r2 == AndThen(AndThen(r1, make_goal), check_symbols)
  IN IF r2.error # "none" THEN [error |-> r2.error]
     ELSE pack_grammar(r2, pack_symbols(r2)) @@ [error |-> "none"]

-----------------------------------------------------------------------------
(* The tables                                                              *)

Ascending(S) ==
  [k \in 1..Cardinality(S) |-> CHOOSE x \in S : Cardinality({y \in S : y < x}) = k - 1]

ISVAR(g, s) == s >= g.start_symbol
Tokens(g) == 0..g.start_symbol - 1
Variables(g) == g.start_symbol..g.nsyms - 1
Rules(g) == DOMAIN g.rlhs

-----------------------------------------------------------------------------
(* lr0.c, closure.c, warshall.c                                            *)

set_derives(g) == [v \in Variables(g) |-> {r \in Rules(g) : g.rlhs[r] = v}]

RECURSIVE NullablePass(_, _)
NullablePass(g, null) ==
  LET more == null \union {g.rlhs[r] : r \in {q \in Rules(g) :
                                \A k \in DOMAIN g.rrhs[q] : g.rrhs[q][k] \in null}}
  IN IF more = null THEN null ELSE NullablePass(g, more)

set_nullable(g) == NullablePass(g, {})

(* R[v] is the row of v: row i is or'ed into every row that has bit i.     *)
transitive_closure(R, order) ==
  FoldLeft(LAMBDA S, i : [j \in DOMAIN S |-> IF i \in S[j] THEN S[j] \union S[i] ELSE S[j]],
           R, order)

reflexive_transitive_closure(R, order) ==
  LET S == transitive_closure(R, order) IN [v \in DOMAIN S |-> S[v] \union {v}]

set_EFF(g, derives) ==
  reflexive_transitive_closure(
    [v \in Variables(g) |->
       {g.rrhs[r][1] : r \in {q \in derives[v] : g.rrhs[q] # <<>> /\ ISVAR(g, g.rrhs[q][1])}}],
    Ascending(Variables(g)))

set_first_derives(g, derives) ==
  LET EFF == set_EFF(g, derives) IN
  [v \in Variables(g) |-> UNION {derives[w] : w \in EFF[v]}]

SymbolAt(g, item) == IF item[2] < Len(g.rrhs[item[1]]) THEN g.rrhs[item[1]][item[2] + 1] ELSE -1

closure(g, first_derives, nucleus) ==
  nucleus \union
  {<<r, 0>> : r \in UNION {first_derives[SymbolAt(g, i)] :
                             i \in {j \in nucleus : ISVAR(g, SymbolAt(g, j))}}}

(* The kernels to shift to, by symbol; $end, symbol 0, is never shifted.   *)
new_itemsets(g, itemset) ==
  [s \in {SymbolAt(g, i) : i \in itemset} \ {-1, 0} |->
     {<<i[1], i[2] + 1>> : i \in {j \in itemset : SymbolAt(g, j) = s}}]

(* get_state: the state with this kernel, or a new one at the end.         *)
get_state(states, kernel, symbol) ==
  LET known == {n \in DOMAIN states : states[n].items = kernel} IN
  IF known # {} THEN states
  ELSE Append(states, [items |-> kernel, accessing_symbol |-> symbol,
                       shift |-> <<>>, reductions |-> {}])

StateOf(states, kernel) == (CHOOSE n \in DOMAIN states : states[n].items = kernel) - 1

save_reductions(g, itemset) == {i[1] : i \in {j \in itemset : SymbolAt(g, j) = -1}}

(* One turn of generate_states.  States are numbered from 0: states[n + 1] *)
(* is state n.  The shifts are in the order of their symbols.              *)
process_state(g, first_derives, states, this) ==
  LET itemset == closure(g, first_derives, states[this].items)
      kernels == new_itemsets(g, itemset)
      order   == Ascending(DOMAIN kernels)
      append_states == FoldLeft(LAMBDA S, s : get_state(S, kernels[s], s), states, order)
  IN [append_states EXCEPT
        ![this].shift = [k \in DOMAIN order |-> StateOf(append_states, kernels[order[k]])],
        ![this].reductions = save_reductions(g, itemset)]

initialize_states(g, derives) ==
  <<[items |-> {<<r, 0>> : r \in derives[g.start_symbol]}, accessing_symbol |-> 0,
     shift |-> <<>>, reductions |-> {}]>>

(* The automaton before the first state is processed.                      *)
lr0(g) ==
  LET derives == set_derives(g) IN
  [derives |-> derives, nullable |-> set_nullable(g),
   first_derives |-> set_first_derives(g, derives), states |-> initialize_states(g, derives)]

-----------------------------------------------------------------------------
(* lalr.c.  s is a state number; the tables by state are functions.        *)

State(a, s) == a.states[s + 1]
nstates(a) == Len(a.states)
AccessingSymbol(a, s) == State(a, s).accessing_symbol
ShiftOn(a, s, symbol) ==
  {t \in Range(State(a, s).shift) : AccessingSymbol(a, t) = symbol}

(* The nonterminal transitions, by symbol and then by state.               *)
set_goto_map(g, a) ==
  LET Of(v) == SelectSeq([k \in 1..nstates(a) |-> k - 1], LAMBDA s : ShiftOn(a, s, v) # {})
      Column(v) == [k \in DOMAIN Of(v) |->
                      [from |-> Of(v)[k], symbol |-> v,
                       to |-> CHOOSE t \in ShiftOn(a, Of(v)[k], v) : TRUE]]
  IN FlattenSeq([k \in 1..g.nsyms - g.start_symbol |-> Column(g.start_symbol + k - 1)])

map_goto(gotos, state, symbol) ==
  CHOOSE i \in DOMAIN gotos : gotos[i].from = state /\ gotos[i].symbol = symbol

(* The first value of F: the tokens read right after a goto, and $end      *)
(* after the first one, which is on %entry% from state 0.                  *)
DirectReads(g, a, gotos) ==
  [i \in DOMAIN gotos |->
     {s \in Tokens(g) : ShiftOn(a, gotos[i].to, s) # {}} \union (IF i = 1 THEN {0} ELSE {})]

Reads(g, a, gotos) ==
  [i \in DOMAIN gotos |->
     LET vs == {v \in Variables(g) : v \in a.nullable /\ ShiftOn(a, gotos[i].to, v) # {}}
     IN [k \in DOMAIN Ascending(vs) |-> map_goto(gotos, gotos[i].to, Ascending(vs)[k])]]

(* traverse and digraph: d.F accumulates, d.VERTICES is the stack.         *)
Infinity(R) == Len(R) + 2
SetAll(d, js, i, R) ==
  [d EXCEPT !.F = [j \in DOMAIN @ |-> IF j \in js THEN @[i] ELSE @[j]],
            !.INDEX = [j \in DOMAIN @ |-> IF j \in js THEN Infinity(R) ELSE @[j]]]

RECURSIVE traverse(_, _, _), TraverseEdges(_, _, _, _)
(* The root of a strong component gives its set to the members, which are  *)
(* the stack from its own height up.                                       *)
PopComponent(d, i, height, R) ==
  IF d.INDEX[i] # height THEN d
  ELSE [SetAll(d, {d.VERTICES[k] : k \in height..Len(d.VERTICES)}, i, R)
          EXCEPT !.VERTICES = SubSeq(@, 1, height - 1)]

TraverseEdges(d, i, edges, R) ==
  IF edges = <<>> THEN d
  ELSE LET j == Head(edges)
           e == IF d.INDEX[j] = 0 THEN traverse(d, j, R) ELSE d
       IN TraverseEdges([e EXCEPT !.INDEX[i] = IF @ > e.INDEX[j] THEN e.INDEX[j] ELSE @,
                                  !.F[i] = @ \union e.F[j]],
                        i, Tail(edges), R)

traverse(d, i, R) ==
  LET height == Len(d.VERTICES) + 1
      pushed == [d EXCEPT !.VERTICES = Append(@, i), !.INDEX[i] = height]
  IN PopComponent(TraverseEdges(pushed, i, R[i], R), i, height, R)

digraph(F, R) ==
  FoldLeftDomain(LAMBDA d, i : IF d.INDEX[i] = 0 /\ R[i] # <<>> THEN traverse(d, i, R) ELSE d,
                 [F |-> F, INDEX |-> [i \in DOMAIN R |-> 0], VERTICES |-> <<>>], R).F

(* The states along the right-hand side of r from state s.                 *)
RECURSIVE StatesAlong(_, _, _)
StatesAlong(a, s, rhs) ==
  IF rhs = <<>> THEN <<s>>
  ELSE <<s>> \o StatesAlong(a, CHOOSE t \in ShiftOn(a, s, Head(rhs)) : TRUE, Tail(rhs))

(* Mutation: only the last symbol of a right-hand side is followed.        *)
LastSymbolOnly(a, rhs) == IF rhs = <<>> THEN {} ELSE {Len(rhs)}

(* The positions whose symbol may be followed by what follows the rule:    *)
(* those after which everything is nullable.                               *)
IncludedPositions(a, rhs) ==
  {k \in DOMAIN rhs : \A l \in k + 1..Len(rhs) : rhs[l] \in a.nullable}

(* build_relations: edges from goto i to the gotos whose follow set        *)
(* includes that of i, already transposed.                                 *)
build_relations(g, a, gotos) ==
  LET To(i) == UNION {LET rhs == g.rrhs[r]
                          states == StatesAlong(a, gotos[i].from, rhs)
                      IN {map_goto(gotos, states[k], rhs[k]) :
                            k \in {l \in IncludedPositions(a, rhs) : ISVAR(g, rhs[l])}}
                      : r \in a.derives[gotos[i].symbol]}
  IN [j \in DOMAIN gotos |-> Ascending({i \in DOMAIN gotos : j \in To(i)})]

add_lookback_edge(g, a, gotos, s, r) ==
  {i \in DOMAIN gotos : gotos[i].symbol = g.rlhs[r] /\
                        Last(StatesAlong(a, gotos[i].from, g.rrhs[r])) = s}

(* LA[s][r]: the tokens on which state s reduces by r.                     *)
lalr(g, a) ==
  LET gotos  == set_goto_map(g, a)
      F      == digraph(DirectReads(g, a, gotos), Reads(g, a, gotos))
      Follow == digraph(F, build_relations(g, a, gotos))
  IN [gotos |-> gotos,
      LA    |-> [s \in 0..nstates(a) - 1 |->
                   [r \in State(a, s).reductions |->
                      UNION {Follow[i] : i \in add_lookback_edge(g, a, gotos, s, r)}]]]

-----------------------------------------------------------------------------
(* mkpar.c.  The actions of a state on a token: the shift, if any, then    *)
(* the reductions by increasing rule.                                      *)

get_shifts(g, a, s, token) ==
  LET to == ShiftOn(a, s, token) IN
  IF to = {} THEN <<>>
  ELSE <<[code |-> "shift", number |-> CHOOSE t \in to : TRUE, prec |-> g.symbol_prec[token],
          assoc |-> g.symbol_assoc[token], suppressed |-> 0]>>

add_reductions(g, la, s, token) ==
  LET rs == Ascending({r \in DOMAIN la.LA[s] : token \in la.LA[s][r]}) IN
  [k \in DOMAIN rs |-> [code |-> "reduce", number |-> rs[k], prec |-> g.rprec[rs[k]],
                        assoc |-> g.rassoc[rs[k]], suppressed |-> 0]]

parse_actions(g, a, la, s) ==
  [t \in Tokens(g) |-> get_shifts(g, a, s, t) \o add_reductions(g, la, s, t)]

find_final_state(g, a) == CHOOSE t \in ShiftOn(a, 0, g.rrhs[2][1]) : TRUE

(* Mutation: the two associativities are swapped.                          *)
ResolveSwapped(c, k) ==
  LET pref == c.acts[c.pref]
      p    == c.acts[k]
  IN IF pref.code # "shift" THEN [c EXCEPT !.acts[k].suppressed = 1]
     ELSE IF ~(pref.prec > 0 /\ p.prec > 0)
          THEN [c EXCEPT !.acts[k].suppressed = 1]
     ELSE IF pref.prec < p.prec \/ (pref.prec = p.prec /\ pref.assoc = "right")
          THEN [c EXCEPT !.acts[c.pref].suppressed = 2, !.pref = k]
     ELSE IF pref.prec > p.prec \/ pref.assoc = "left"
          THEN [c EXCEPT !.acts[k].suppressed = 2]
     ELSE [c EXCEPT !.acts[c.pref].suppressed = 2, !.acts[k].suppressed = 2]

(* One action after the first on a token, against the preferred one:       *)
(* precedences decide between a shift and a reduction when both are        *)
(* declared, then the associativity of the token; otherwise the shift, or  *)
(* the first rule, wins and it is a conflict.                              *)
resolve(c, k) ==
  LET pref == c.acts[c.pref]
      p    == c.acts[k]
  IN IF pref.code # "shift" THEN [c EXCEPT !.acts[k].suppressed = 1]
     ELSE IF ~(pref.prec > 0 /\ p.prec > 0)
          THEN [c EXCEPT !.acts[k].suppressed = 1]
     ELSE IF pref.prec < p.prec \/ (pref.prec = p.prec /\ pref.assoc = "left")
          THEN [c EXCEPT !.acts[c.pref].suppressed = 2, !.pref = k]
     ELSE IF pref.prec > p.prec \/ pref.assoc = "right"
          THEN [c EXCEPT !.acts[k].suppressed = 2]
     ELSE [c EXCEPT !.acts[c.pref].suppressed = 2, !.acts[k].suppressed = 2]

remove_conflicts(acts, final, token) ==
  LET c0 == [acts |-> acts, pref |-> 1]
      Step(c, k) == IF final /\ token = 0
                    THEN [c EXCEPT !.acts[k].suppressed = 1]
                    ELSE resolve(c, k)
  IN FoldLeft(Step, c0, [k \in 1..Len(acts) - 1 |-> k + 1])

Kept(row, t, code) ==
  {row[t][k].number : k \in {l \in DOMAIN row[t] : row[t][l].code = code /\
                                                  row[t][l].suppressed = 0}}

(* The rule a state reduces by without looking at the next token, or 0.    *)
sole_reduction(g, row) ==
  LET rules == UNION {Kept(row, t, "reduce") : t \in Tokens(g)}
      onlyError == \A t \in Tokens(g) \ {1} : Kept(row, t, "reduce") = {}
  IN IF (\E t \in Tokens(g) : Kept(row, t, "shift") # {}) \/ Cardinality(rules) # 1 \/ onlyError
     THEN 0 ELSE CHOOSE r \in rules : TRUE

make_parser(g, a, la) ==
  LET res == [s \in 0..nstates(a) - 1 |->
                [t \in Tokens(g) |->
                   remove_conflicts(parse_actions(g, a, la, s)[t], s = find_final_state(g, a), t)]]
      parser == [s \in DOMAIN res |-> [t \in Tokens(g) |-> res[s][t].acts]]
      conflicts == {x \in (DOMAIN res) \X Tokens(g) :
                      \E k \in DOMAIN parser[x[1]][x[2]] : parser[x[1]][x[2]][k].suppressed = 1}
  IN [parser |-> parser, defred |-> [s \in DOMAIN res |-> sole_reduction(g, parser[s])],
      conflicts |-> conflicts]

-----------------------------------------------------------------------------
(* output.c.  A vector is a sequence of pairs <<from, to>>; vectors 0 to   *)
(* nstates - 1 are the shifts of the states, the next nstates their        *)
(* reductions, the others the gotos by value of the symbol.                *)

TokenVector(g, row, code, defred) ==
  LET keep(t) == Kept(row, t, code) \ (IF code = "reduce" THEN {defred} ELSE {})
      toks == SelectSeq([k \in 1..g.start_symbol |-> k - 1], LAMBDA t : keep(t) # {})
  IN [k \in DOMAIN toks |->
        <<g.symbol_value[toks[k]],
          (CHOOSE n \in keep(toks[k]) : TRUE) - (IF code = "reduce" THEN 2 ELSE 0)>>]

ToStates(la, v) == SelectSeq(la.gotos, LAMBDA x : x.symbol = v)

(* The most frequent target of the gotos on v, the smallest of them.       *)
default_goto(la, v) ==
  LET to == ToStates(la, v)
      Count(t) == Cardinality({k \in DOMAIN to : to[k].to = t})
      states == {to[k].to : k \in DOMAIN to}
      best == {t \in states : \A u \in states : Count(u) <= Count(t)}
  IN IF to = <<>> THEN 0 ELSE Min(best)

save_column(la, v, default) ==
  LET rest == SelectSeq(ToStates(la, v), LAMBDA x : x.to # default)
  IN [k \in DOMAIN rest |-> <<rest[k].from, rest[k].to>>]

Vectors(g, a, la, p) ==
  LET n == nstates(a) IN
  [i \in 0..2 * n + (g.nsyms - g.start_symbol) - 1 |->
     IF i < n THEN TokenVector(g, p.parser[i], "shift", 0)
     ELSE IF i < 2 * n THEN TokenVector(g, p.parser[i - n], "reduce", p.defred[i - n])
     ELSE LET v == g.start_symbol + 1 + (i - 2 * n)
          IN IF v >= g.nsyms THEN <<>> ELSE save_column(la, v, default_goto(la, v))]

Width(vec) ==
  LET froms == {vec[k][1] : k \in DOMAIN vec} IN Max(froms) - Min(froms) + 1

(* By decreasing width, then decreasing number of entries, then by number. *)
sort_actions(vecs) ==
  LET used == {i \in DOMAIN vecs : vecs[i] # <<>>}
      w == [i \in used |-> Width(vecs[i])]
      Before(i, j) == \/ w[i] > w[j]
                      \/ w[i] = w[j] /\ Len(vecs[i]) > Len(vecs[j])
                      \/ w[i] = w[j] /\ Len(vecs[i]) = Len(vecs[j]) /\ i < j
  IN [k \in 1..Cardinality(used) |->
        CHOOSE i \in used : Cardinality({j \in used : Before(j, i)}) = k - 1]

RECURSIVE FirstFit(_, _, _), LowZero(_, _)
(* The table is a function from the places in use to [to, check].          *)
LowZero(m, low) == IF low \in DOMAIN m.table THEN LowZero(m, low + 1) ELSE low

(* Mutation: a base that another vector has is taken again.                *)
FitsShared(m, vec, j) ==
  j # 0 /\ \A k \in DOMAIN vec : j + vec[k][1] \notin DOMAIN m.table

(* A base must not be one of another vector: check would not tell them     *)
(* apart.  Zero stands for no vector.                                      *)
Fits(m, vec, j) ==
  /\ j # 0
  /\ \A k \in DOMAIN vec : j + vec[k][1] \notin DOMAIN m.table
  /\ \A i \in DOMAIN m.base : m.base[i] # j

FirstFit(m, vec, j) == IF Fits(m, vec, j) THEN j ELSE FirstFit(m, vec, j + 1)

pack_vector(m, vec, i) ==
  LET froms == {vec[k][1] : k \in DOMAIN vec}
      j     == FirstFit(m, vec, m.lowzero - Min(froms))
      table == [l \in {j + f : f \in froms} |->
                  LET k == Max({x \in DOMAIN vec : j + vec[x][1] = l})
                  IN [to |-> vec[k][2], check |-> vec[k][1]]] @@ m.table
      high  == Max({m.high} \union {j + f : f \in froms})
  IN [table |-> table, base |-> (i :> j) @@ m.base, high |-> high,
      lowzero |-> LowZero([table |-> table], m.lowzero)]

(* Only a row of token actions may share the place of an equal vector.     *)
matching_vector(n, vecs, order, k) ==
  IF order[k] >= 2 * n THEN {}
  ELSE {l \in 1..k - 1 : vecs[order[l]] = vecs[order[k]]}

pack_table(n, vecs) ==
  LET order == sort_actions(vecs)
      Step(m, k) ==
        LET same == matching_vector(n, vecs, order, k) IN
        IF same # {} THEN [m EXCEPT !.base = (order[k] :> m.base[order[Max(same)]]) @@ @]
        ELSE pack_vector(m, vecs[order[k]], order[k])
  IN FoldLeft(Step, [table |-> <<>>, base |-> <<>>, lowzero |-> 0, high |-> 0],
              [k \in DOMAIN order |-> k])

(* The tables of the generated parser.  Rules are renumbered from 0.       *)
output(g, a, la, p) ==
  LET n == nstates(a)
      m == pack_table(n, Vectors(g, a, la, p))
      Base(i) == IF i \in DOMAIN m.base THEN m.base[i] ELSE 0
  IN [lhs    |-> [r \in 0..g.nrules - 3 |->
                    IF r = 0 THEN -1 ELSE g.symbol_value[g.rlhs[r + 2]]],
      len    |-> [r \in 0..g.nrules - 3 |-> IF r = 0 THEN 2 ELSE Len(g.rrhs[r + 2])],
      defred |-> [s \in 0..n - 1 |-> IF p.defred[s] = 0 THEN 0 ELSE p.defred[s] - 2],
      dgoto  |-> [v \in 0..g.nsyms - g.start_symbol - 2 |-> default_goto(la, g.start_symbol + 1 + v)],
      sindex |-> [s \in 0..n - 1 |-> Base(s)],
      rindex |-> [s \in 0..n - 1 |-> Base(n + s)],
      gindex |-> [v \in 0..g.nsyms - g.start_symbol - 2 |-> Base(2 * n + v)],
      table  |-> m.table, high |-> m.high]
=============================================================================
