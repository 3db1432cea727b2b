------------------------------ MODULE Bytegen -------------------------------
(* Small lambda terms, their code as bytecomp/bytegen.ml compiles them, and  *)
(* their meaning, by an abstract machine that knows nothing of stacks or     *)
(* words. Effect handlers are those of stdlib/effect.ml (Effect.Deep).       *)
EXTENDS Interp

Lit(n) == [t |-> "lit", n |-> n]
Var(x) == [t |-> "var", x |-> x]
Lam(ps, b) == [t |-> "lam", ps |-> ps, b |-> b]
App(f, as) == [t |-> "app", f |-> f, as |-> as]
Let(x, a, b) == [t |-> "let", x |-> x, a |-> a, b |-> b]
Rec(fs, b) == [t |-> "rec", fs |-> fs, b |-> b]
If(c, a, b) == [t |-> "if", c |-> c, a |-> a, b |-> b]
Try(a, x, h) == [t |-> "try", a |-> a, x |-> x, h |-> h]
Prm(o, n, as) == [t |-> "op", o |-> o, n |-> n, as |-> as]
For(x, a, b, e) == [t |-> "for", x |-> x, a |-> a, b |-> b, e |-> e]
Switch(e, cs, bs) == [t |-> "switch", e |-> e, cs |-> cs, bs |-> bs]
(* match b with x -> r | exception y -> q | effect n, k -> h                 *)
Match(b, x, r, y, q, n, k, h) ==
  [t |-> "match", b |-> b, x |-> x, r |-> r, y |-> y, q |-> q, n |-> n, k |-> k, h |-> h]
Seq2(a, b) == Let("_", a, b)
Def(x, ps, b) == [x |-> x, ps |-> ps, b |-> b]

ToSet(s) == {s[i] : i \in 1 .. Len(s)}

(* Effect.Deep.match_with, continue and discontinue in terms of the          *)
(* primitives %runstack, %resume and %reperform.                             *)
MatchWith(e) ==
  LET effc == If(Prm("EQ", 0, <<Var("eff"), Lit(e.n)>>),
                 Seq2(Prm("setfield", 1, <<Var(e.k), Var("last")>>), e.h),
                 Prm("reperform", 0, <<Var("eff"), Var(e.k), Var("last")>>)) IN
  Let("s", Prm("alloc_stack", 0, <<Lam(<<e.x>>, e.r), Lam(<<e.y>>, e.q), Lam(<<"eff", e.k, "last">>, effc)>>),
      Prm("runstack", 0, <<Var("s"), Lam(<<"_">>, e.b), Lit(0)>>))
Resume(k, fn, v) == Prm("resume", 0, <<Prm("take", 0, <<k>>), fn, v, Prm("field", 1, <<k>>)>>)
Expand(e) ==
  CASE e.t = "match" -> MatchWith(e)
    [] e.t = "op" /\ e.o = "continue" -> Resume(e.as[1], Lam(<<"x">>, Var("x")), e.as[2])
    [] e.t = "op" /\ e.o = "discontinue" ->
         Resume(e.as[1], Lam(<<"x">>, Prm("raise", 0, <<Var("x")>>)), e.as[2])
Expands(e) == e.t = "match" \/ (e.t = "op" /\ e.o \in {"continue", "discontinue"})

RECURSIVE FreeVars(_)
FreeVars(e) ==
  LET All(es) == UNION {FreeVars(es[i]) : i \in 1 .. Len(es)} IN
  IF Expands(e) THEN FreeVars(Expand(e))
  ELSE CASE e.t = "lit" -> {}
         [] e.t = "var" -> {e.x}
         [] e.t = "lam" -> FreeVars(e.b) \ ToSet(e.ps)
         [] e.t = "app" -> FreeVars(e.f) \cup All(e.as)
         [] e.t = "let" -> FreeVars(e.a) \cup (FreeVars(e.b) \ {e.x})
         [] e.t = "rec" -> (FreeVars(e.b) \cup UNION {FreeVars(e.fs[i].b) \ ToSet(e.fs[i].ps) : i \in 1 .. Len(e.fs)})
                             \ {e.fs[i].x : i \in 1 .. Len(e.fs)}
         [] e.t = "if" -> FreeVars(e.c) \cup FreeVars(e.a) \cup FreeVars(e.b)
         [] e.t = "try" -> FreeVars(e.a) \cup (FreeVars(e.h) \ {e.x})
         [] e.t = "op" -> All(e.as)
         [] e.t = "for" -> FreeVars(e.a) \cup FreeVars(e.b) \cup (FreeVars(e.e) \ {e.x})
         [] e.t = "switch" -> FreeVars(e.e) \cup All(e.cs) \cup All(e.bs)

RECURSIVE Elements(_)
Elements(s) == IF s = {} THEN <<>> ELSE LET x == CHOOSE x \in s : TRUE IN <<x>> \o Elements(s \ {x})

------------------------------------------------------------------------------
(* Code. An environment gives the place of a variable: on the stack, among   *)
(* the captured ones, or as a function of the same closure.                  *)

Place(x, env, sz) ==
  IF x \in DOMAIN env.stk THEN <<"ACC", sz - env.stk[x]>>
  ELSE IF x \in DOMAIN env.fv THEN <<"ENVACC", env.fv[x]>>
  ELSE <<"OFFSETCLOSURE", env.fn[x]>>
Bind(env, x, pos) == [env EXCEPT !.stk = (x :> pos) @@ @]
Empty == [x \in {} |-> 0]

(* emitcode.ml: a comparison with a constant and the branch after it are one *)
(* instruction, for the condition under which the branch is taken.           *)
Taken == [EQ |-> "BNEQ", NEQ |-> "BEQ", LTINT |-> "BLEINT", LEINT |-> "BLTINT", GTINT |-> "BGEINT", GEINT |-> "BGTINT"]
WithConst(c) == c.t = "op" /\ c.o \in DOMAIN Taken /\ c.as[2].t = "lit"

RECURSIVE Comp(_, _, _, _), CompArgs(_, _, _), Jumps(_, _, _)

(* The code of a function, with the place where it is entered.               *)
Body(ps, b, fv, fn, at) ==
  LET env == [stk |-> [x \in ToSet(ps) |-> CHOOSE p \in 1 .. Len(ps) : ps[Len(ps) + 1 - p] = x],
              fv |-> [x \in DOMAIN fv |-> fv[x] - 3 * at], fn |-> [x \in DOMAIN fn |-> fn[x] - 3 * at]] IN
  (IF Len(ps) > 1 THEN <<"RESTART", "GRAB", Len(ps) - 1>> ELSE <<>>) \o Comp(b, env, Len(ps), TRUE)
EntryOf(ps) == IF Len(ps) > 1 THEN 1 ELSE 0

CompArgs(es, env, sz) ==
  IF es = <<>> THEN <<>>
  ELSE IF Len(es) = 1 THEN Comp(es[1], env, sz, FALSE)
  ELSE Comp(es[Len(es)], env, sz, FALSE) \o <<"PUSH">> \o CompArgs(SubSeq(es, 1, Len(es) - 1), env, sz + 1)

(* Arms of a switch, each jumping over the rest.                             *)
Jumps(es, env, sz) ==
  IF es = <<>> THEN <<>>
  ELSE LET rest == Jumps(Tail(es), env, sz)
           after == IF rest = <<>> THEN 0 ELSE Len(rest[1].c) + rest[1].after IN
       <<[c |-> Comp(es[1], env, sz, FALSE) \o <<"BRANCH", 1 + after>>, after |-> after]>> \o rest

Call(n, sz, tail) == IF tail THEN <<"APPTERM", n, sz + n>> ELSE <<"APPLY123", n>>
Instr(e) ==
  CASE e.o = "raise" -> <<"RAISE">>
    [] e.o = "print" -> <<"C_CALL", 1, "print">>
    [] e.o = "take" -> <<"C_CALL", 1, "caml_continuation_use_noexc">>
    [] e.o = "callback" -> <<"C_CALL", 2, "callback">>
    [] e.o = "alloc_stack" -> <<"C_CALL", 3, "caml_alloc_stack">>
    [] e.o = "last" -> <<"C_CALL", Len(e.as), "last">>
    [] e.o = "block" -> <<"MAKEBLOCK", Len(e.as), e.n>>
    [] e.o = "field" -> <<"GETFIELD", e.n>>
    [] e.o = "setfield" -> <<"SETFIELD", e.n>>
    [] e.o = "length" -> <<"VECTLENGTH">>
    [] e.o = "get" -> <<"GETVECTITEM">>
    [] e.o = "set" -> <<"SETVECTITEM">>
    [] e.o = "neg" -> <<"NEGINT">>
    [] e.o = "not" -> <<"BOOLNOT">>
    [] e.o = "isint" -> <<"ISINT">>
    [] e.o = "add" -> <<"OFFSETINT", e.n>>
    [] e.o = "incr" -> <<"OFFSETREF", e.n>>
    [] e.o = "perform" -> <<"PERFORM">>
    [] e.o = "method" -> <<"GETMETHOD">>
    [] e.o = "pubmet" -> <<"GETPUBMET", e.n, 0>>
    [] e.o = "dynmet" -> <<"GETDYNMET">>
    [] e.o \in ArithOps -> <<e.o>>
Sends == {"method", "pubmet", "dynmet"}
SendArgs(e) == IF e.o = "pubmet" THEN Len(e.as) ELSE Len(e.as) - 1

Comp(e, env, sz, tail) ==
  LET ret(c) == c \o (IF tail THEN <<"RETURN", sz>> ELSE <<>>)
      pop(c, n) == c \o (IF tail THEN <<>> ELSE <<"POP", n>>) IN
  IF Expands(e) THEN Comp(Expand(e), env, sz, tail)
  ELSE
  CASE e.t = "lit" -> ret(<<"CONSTINT", e.n>>)
    [] e.t = "var" -> ret(Place(e.x, env, sz))
    [] e.t = "app" ->
         LET n == Len(e.as)
             args(d) == LET c == CompArgs(e.as, env, d) IN c \o <<"PUSH">> \o Comp(e.f, env, d + n, FALSE) IN
         IF tail THEN args(sz) \o <<"APPTERM", n, sz + n>>
         ELSE IF n < 4 THEN args(sz) \o <<"APPLY123", n>>
         ELSE <<"PUSH_RETADDR", Len(args(sz + 3)) + 3>> \o args(sz + 3) \o <<"APPLY", n>>
    [] e.t = "lam" ->
         LET fvs == Elements(FreeVars(e))
             code == Body(e.ps, e.b, [x \in ToSet(fvs) |-> 1 + CHOOSE i \in 1 .. Len(fvs) : fvs[i] = x], Empty, 0)
             args == CompArgs([i \in 1 .. Len(fvs) |-> Var(fvs[i])], env, sz) IN
         ret(<<"BRANCH", Len(code) + 1>> \o code \o args
               \o <<"CLOSURE", Len(fvs), EntryOf(e.ps) - (Len(code) + Len(args) + 2)>>)
    [] e.t = "let" ->
         Comp(e.a, env, sz, FALSE) \o <<"PUSH">> \o pop(Comp(e.b, Bind(env, e.x, sz + 1), sz + 1, tail), 1)
    [] e.t = "rec" ->
         LET nf == Len(e.fs)
             fvs == Elements(FreeVars([e EXCEPT !.b = Lit(0)]))
             fv == [x \in ToSet(fvs) |-> 3 * nf - 2 + CHOOSE i \in 1 .. Len(fvs) : fvs[i] = x]
             fn == [x \in {e.fs[i].x : i \in 1 .. nf} |-> 3 * (CHOOSE i \in 1 .. nf : e.fs[i].x = x) - 3]
             code(i) == Body(e.fs[i].ps, e.fs[i].b, fv, fn, i - 1)
             c1 == code(1)
             c2 == IF nf = 2 THEN code(2) ELSE <<>>
             args == CompArgs([i \in 1 .. Len(fvs) |-> Var(fvs[i])], env, sz)
             l1 == EntryOf(e.fs[1].ps) - (Len(c1) + Len(c2) + Len(args) + 3)
             l2 == IF nf = 2 THEN <<EntryOf(e.fs[2].ps) - (Len(c2) + Len(args) + 3)>> ELSE <<>>
             env2 == [env EXCEPT !.stk = [x \in DOMAIN fn |-> sz + 1 + (fn[x] \div 3)] @@ @] IN
         <<"BRANCH", Len(c1) + Len(c2) + 1>> \o c1 \o c2 \o args \o <<"CLOSUREREC", nf, Len(fvs), l1>> \o l2
           \o pop(Comp(e.b, env2, sz + nf, tail), nf)
    [] e.t = "if" ->
         LET b == Comp(e.b, env, sz, tail)
             a == Comp(e.a, env, sz, tail) \o (IF tail THEN <<>> ELSE <<"BRANCH", Len(b) + 1>>) IN
         (IF WithConst(e.c) THEN Comp(e.c.as[1], env, sz, FALSE) \o <<Taken[e.c.o], e.c.as[2].n>>
          ELSE Comp(e.c, env, sz, FALSE) \o <<"BRANCHIFNOT">>) \o <<Len(a) + 1>> \o a \o b
    [] e.t = "try" ->
         LET h == <<"PUSH">> \o pop(Comp(e.h, Bind(env, e.x, sz + 1), sz + 1, tail), 1)
             a == Comp(e.a, env, sz + 4, FALSE) \o <<"POPTRAP">>
                    \o (IF tail THEN <<"RETURN", sz>> ELSE <<"BRANCH", Len(h) + 1>>) IN
         <<"PUSHTRAP", Len(a) + 1>> \o a \o h
    [] e.t = "switch" ->
         LET arms == Jumps(e.cs \o e.bs, env, sz)
             n == Len(arms)
             at(i) == n + (IF i = n + 1 THEN 0 ELSE Len(arms[1].c) + arms[1].after - (Len(arms[i].c) + arms[i].after))
             Flat[i \in 0 .. n] == IF i = 0 THEN <<>> ELSE Flat[i - 1] \o arms[i].c IN
         ret(Comp(e.e, env, sz, FALSE) \o <<"SWITCH", Len(e.cs), Len(e.bs)>>
               \o [i \in 1 .. n |-> at(i)] \o Flat[n])
    [] e.t = "for" ->     \* the bounds are pushed, high last
         LET env2 == Bind(env, e.x, sz + 1)
             body == <<"CHECK_SIGNALS">> \o Comp(e.e, env2, sz + 2, FALSE)
                       \o <<"ACC", 1, "PUSH", "OFFSETINT", 1, "ASSIGN", 2, "ACC", 1, "NEQ">>
             loop == body \o <<"BRANCHIF", -(Len(body) + 1)>> IN
         ret(Comp(e.a, env, sz, FALSE) \o <<"PUSH">> \o Comp(e.b, env, sz + 1, FALSE)
               \o <<"PUSH", "PUSH", "ACC", 2, "GTINT", "BRANCHIF", Len(loop) + 1>> \o loop
               \o <<"CONSTINT", 0, "POP", 2>>)
    [] e.t = "op" /\ e.o \in Sends ->
         CompArgs(e.as, env, sz) \o Instr(e) \o Call(SendArgs(e), sz, tail)
    [] e.t = "op" /\ e.o = "resume" ->
         CompArgs(e.as, env, sz) \o (IF tail THEN <<"RESUMETERM", sz + 3>> ELSE <<"RESUME">>)
    [] e.t = "op" /\ e.o = "runstack" ->
         <<"CONSTINT", 0, "PUSH">> \o CompArgs(e.as, env, sz + 1)
           \o (IF tail THEN <<"RESUMETERM", sz + 3>> ELSE <<"RESUME">>)
    [] e.t = "op" /\ e.o = "reperform" -> CompArgs(e.as, env, sz) \o <<"REPERFORMTERM", sz + 2>>
    [] e.t = "op" /\ e.o = "raise" -> CompArgs(e.as, env, sz) \o <<"RAISE">>
    [] OTHER -> ret(CompArgs(e.as, env, sz) \o Instr(e))

Compile(e) == Comp(e, [stk |-> Empty, fv |-> Empty, fn |-> Empty], 0, FALSE) \o <<"STOP">>

------------------------------------------------------------------------------
(* The meaning of a term: control, a list of frames, cells, continuations.   *)

Num(n) == [t |-> "int", n |-> n]
Wrap(n) == LET u == n % (2^(W - 1)) IN IF u >= 2^(W - 2) THEN u - 2^(W - 1) ELSE u
Un(n) == n % (2^(W - 1))
Bool(c) == Num(IF c THEN 1 ELSE 0)
RefOp(o, a, b) ==
  CASE o = "ADDINT" -> a + b
    [] o = "SUBINT" -> a - b
    [] o = "MULINT" -> a * b
    [] o = "DIVINT" -> TruncDiv(a, b)
    [] o = "MODINT" -> a - b * TruncDiv(a, b)
    [] o = "ANDINT" -> Un(a) & Un(b)
    [] o = "ORINT" -> Un(a) | Un(b)
    [] o = "XORINT" -> Un(a) ^^ Un(b)
    [] o = "LSLINT" -> a * 2^b
    [] o = "LSRINT" -> Un(a) \div 2^b
    [] o = "ASRINT" -> a \div 2^b
RefTest(o, a, b) ==
  CASE o = "EQ" -> a = b
    [] o = "NEQ" -> a # b
    [] o = "LTINT" -> a < b
    [] o = "LEINT" -> a <= b
    [] o = "GTINT" -> a > b
    [] o = "GEINT" -> a >= b
    [] o = "ULTINT" -> Un(a) < Un(b)
    [] o = "UGEINT" -> Un(a) >= Un(b)
Tests == {"EQ", "NEQ", "LTINT", "LEINT", "GTINT", "GEINT", "ULTINT", "UGEINT"}

Clo(ps, b, env, defs) == [t |-> "clo", ps |-> ps, b |-> b, env |-> env, defs |-> defs]
DefEnv(env, defs) ==
  [x \in {defs[i].x : i \in 1 .. Len(defs)} |->
     LET d == defs[CHOOSE i \in 1 .. Len(defs) : defs[i].x = x] IN Clo(d.ps, d.b, env, defs)] @@ env

Ev(r, e, env) == [r EXCEPT !.c = [t |-> "e", e |-> e, env |-> env]]
Ret(r, v) == [r EXCEPT !.c = [t |-> "v", v |-> v]]
Exn(r, v) == [r EXCEPT !.c = [t |-> "x", v |-> v]]
Under(r, f) == [r EXCEPT !.k = <<f>> \o @]

RECURSIVE RefApply(_, _, _)
RefApply(r, f, args) ==
  LET n == Len(f.ps)
      bound == [x \in ToSet(SubSeq(f.ps, 1, IF n < Len(args) THEN n ELSE Len(args))) |->
                  args[CHOOSE i \in 1 .. n : f.ps[i] = x]]
      env == bound @@ DefEnv(f.env, f.defs) IN
  IF Len(args) < n THEN Ret(r, Clo(Drop(f.ps, Len(args)), f.b, env, <<>>))
  ELSE IF Len(args) = n THEN Ev(r, f.b, env)
  ELSE Ev(Under(r, [t |-> "with", args |-> Drop(args, n)]), f.b, env)

RefPrim(r, e, a) ==
  CASE e.o \in Tests -> Ret(r, Bool(RefTest(e.o, a[1].n, a[2].n)))
    [] e.o \in {"DIVINT", "MODINT"} /\ a[2].n = 0 -> Exn(r, Num(-3))
    [] e.o \in ArithOps \ Tests /\ ~(e.o \in {"DIVINT", "MODINT"} /\ a[2].n = 0) ->
         Ret(r, Num(Wrap(RefOp(e.o, a[1].n, a[2].n))))
    [] e.o = "raise" -> Exn(r, a[1])
    [] e.o = "print" -> Ret([r EXCEPT !.log = Append(@, a[1].n)], Num(0))
    [] e.o = "last" -> Ret(r, a[Len(a)])
    [] e.o = "callback" -> RefApply(Under(r, [t |-> "c"]), a[1], <<a[2]>>)
    [] e.o = "block" -> Ret([r EXCEPT !.mem = Append(@, [tag |-> e.n, f |-> a])],
                            [t |-> "blk", n |-> Len(r.mem) + 1])
    [] e.o = "field" -> Ret(r, r.mem[a[1].n].f[e.n + 1])
    [] e.o = "setfield" -> Ret([r EXCEPT !.mem[a[1].n].f[e.n + 1] = a[2]], Num(0))
    [] e.o = "length" -> Ret(r, Num(Len(r.mem[a[1].n].f)))
    [] e.o = "get" -> Ret(r, r.mem[a[1].n].f[a[2].n + 1])
    [] e.o = "set" -> Ret([r EXCEPT !.mem[a[1].n].f[a[2].n + 1] = a[3]], Num(0))
    [] e.o = "neg" -> Ret(r, Num(Wrap(-a[1].n)))
    [] e.o = "not" -> Ret(r, Bool(a[1].n = 0))
    [] e.o = "isint" -> Ret(r, Bool(a[1].t = "int"))
    [] e.o = "add" -> Ret(r, Num(Wrap(a[1].n + e.n)))
    [] e.o = "incr" -> Ret([r EXCEPT !.mem[a[1].n].f[1] = Num(Wrap(@.n + e.n))], Num(0))
    [] e.o = "pubmet" ->
         LET tb == r.mem[r.mem[a[1].n].f[1].n].f IN
         RefApply(r, tb[(CHOOSE i \in 4 .. Len(tb) : i % 2 = 0 /\ tb[i].n = e.n) - 1], a)
    [] e.o = "dynmet" ->
         LET tb == r.mem[r.mem[a[2].n].f[1].n].f IN
         RefApply(r, tb[(CHOOSE i \in 4 .. Len(tb) : i % 2 = 0 /\ tb[i].n = a[1].n) - 1], Tail(a))
    [] e.o = "method" -> RefApply(r, r.mem[r.mem[a[2].n].f[1].n].f[a[1].n + 1], Tail(a))
    [] e.o = "perform" ->
         LET hs == {i \in 1 .. Len(r.k) : /\ r.k[i].t = "match" /\ r.k[i].e.n = a[1].n
                                          /\ \A j \in 1 .. i : r.k[j].t # "c"} IN
         IF hs = {} THEN Exn(r, [t |-> "unhandled", n |-> a[1].n])
         ELSE LET i == CHOOSE i \in hs : \A j \in hs : i <= j
                  h == r.k[i]
                  k == [t |-> "k", n |-> Len(r.ks) + 1] IN
              Ev([r EXCEPT !.ks = Append(@, SubSeq(r.k, 1, i)), !.k = Drop(@, i)], h.e.h, (h.e.k :> k) @@ h.env)
    [] e.o \in {"continue", "discontinue"} ->
         IF r.ks[a[1].n] = <<>> THEN Exn(r, Num(-4))
         ELSE LET r1 == [r EXCEPT !.k = r.ks[a[1].n] \o @, !.ks[a[1].n] = <<>>] IN
              IF e.o = "continue" THEN Ret(r1, a[2]) ELSE Exn(r1, a[2])

(* Arguments are evaluated from right to left; vals are those already known. *)
Arg(r, e, es, env, vals) ==
  LET i == Len(es) - Len(vals) IN
  IF i = 0 THEN IF e.t = "app" THEN RefApply(r, vals[1], Tail(vals)) ELSE RefPrim(r, e, vals)
  ELSE Ev(Under(r, [t |-> "args", e |-> e, es |-> es, env |-> env, vals |-> vals]), es[i], env)

EvalStep(r, e, env) ==
  CASE e.t = "lit" -> Ret(r, Num(e.n))
    [] e.t = "var" -> Ret(r, env[e.x])
    [] e.t = "lam" -> Ret(r, Clo(e.ps, e.b, env, <<>>))
    [] e.t = "app" -> Arg(r, e, <<e.f>> \o e.as, env, <<>>)
    [] e.t = "op" -> Arg(r, e, e.as, env, <<>>)
    [] e.t = "let" -> Ev(Under(r, [t |-> "let", e |-> e, env |-> env]), e.a, env)
    [] e.t = "rec" -> Ev(r, e.b, DefEnv(env, e.fs))
    [] e.t = "if" -> Ev(Under(r, [t |-> "if", e |-> e, env |-> env]), e.c, env)
    [] e.t = "try" -> Ev(Under(r, [t |-> "try", e |-> e, env |-> env]), e.a, env)
    [] e.t = "match" -> Ev(Under(r, [t |-> "match", e |-> e, env |-> env]), e.b, env)
    [] e.t = "switch" -> Ev(Under(r, [t |-> "switch", e |-> e, env |-> env]), e.e, env)
    [] e.t = "for" -> Ev(Under(r, [t |-> "low", e |-> e, env |-> env]), e.a, env)

Iterate(r, f, i, hi) ==
  IF i > hi THEN Ret(r, Num(0))
  ELSE Ev(Under(r, [t |-> "loop", e |-> f.e, env |-> f.env, i |-> i, hi |-> hi]), f.e.e, (f.e.x :> Num(i)) @@ f.env)

ReturnStep(r0, v) ==
  LET f == r0.k[1]  r == [r0 EXCEPT !.k = Tail(@)] IN
  CASE f.t = "args" -> Arg(r, f.e, f.es, f.env, <<v>> \o f.vals)
    [] f.t = "with" -> RefApply(r, v, f.args)
    [] f.t = "c" \/ f.t = "try" -> Ret(r, v)
    [] f.t = "let" -> Ev(r, f.e.b, (f.e.x :> v) @@ f.env)
    [] f.t = "if" -> Ev(r, IF v.n = 0 THEN f.e.b ELSE f.e.a, f.env)
    [] f.t = "match" -> Ev(r, f.e.r, (f.e.x :> v) @@ f.env)
    [] f.t = "switch" -> Ev(r, IF v.t = "int" THEN f.e.cs[v.n + 1] ELSE f.e.bs[r.mem[v.n].tag + 1], f.env)
    [] f.t = "low" -> Ev(Under(r, [t |-> "high", e |-> f.e, env |-> f.env, i |-> v.n]), f.e.b, f.env)
    [] f.t = "high" -> Iterate(r, f, f.i, v.n)
    [] f.t = "loop" -> Iterate(r, f, f.i + 1, f.hi)

ThrowStep(r0, v) ==
  LET f == r0.k[1]  r == [r0 EXCEPT !.k = Tail(@)] IN
  CASE f.t = "try" -> Ev(r, f.e.h, (f.e.x :> v) @@ f.env)
    [] f.t = "match" -> Ev(r, f.e.q, (f.e.y :> v) @@ f.env)
    [] OTHER -> r

Meaning(e) == [c |-> [t |-> "e", e |-> e, env |-> Empty], k |-> <<>>, mem |-> <<>>, ks |-> <<>>, log |-> <<>>]
RefStopped(r) == r.c.t # "e" /\ r.k = <<>>
RefStep(r) ==
  CASE r.c.t = "e" -> EvalStep(r, r.c.e, r.c.env)
    [] r.c.t = "v" -> ReturnStep(r, r.c.v)
    [] r.c.t = "x" -> ThrowStep(r, r.c.v)
------------------------------------------------------------------------------
(* The interpreter on small programs, with signals whose handler runs at the *)
(* points where the runtime polls.                                           *)
CONSTANTS Signals,        \* how many signals arrive at most
          Installed,      \* the signal handlers to try: names in Handlers
          Chosen          \* the programs: a name in Sets

VARIABLES m, r, sig, on     \* the machine, the meaning of its program, signals to come, their handler
vars == <<m, r, sig, on>>

V(x) == Var(x)
Show(e) == Prm("print", 0, <<e>>)
Raised(e) == Prm("raise", 0, <<e>>)
Perf(n) == Prm("perform", 0, <<Lit(n)>>)
Add(a, b) == Prm("ADDINT", 0, <<a, b>>)
Sub1(a) == Prm("add", -1, <<a>>)
Continue(k, v) == Prm("continue", 0, <<V(k), v>>)
Discontinue(k, v) == Prm("discontinue", 0, <<V(k), v>>)
Effect(b, n, h) == Match(b, "r", V("r"), "y", Raised(V("y")), n, "k", h)

(* let rec f n = if n = 0 then e else 1 + f (n - 1) in f n                   *)
Down(n, e) == Rec(<<Def("f", <<"n">>, If(Prm("EQ", 0, <<V("n"), Lit(0)>>), e,
                                         Add(App(V("f"), <<Sub1(V("n"))>>), Lit(1))))>>, App(V("f"), <<Lit(n)>>))

Handlers == [quiet |-> Lam(<<"n">>, Show(Lit(50))),
             deep |-> Lam(<<"n">>, Seq2(Down(3, Lit(0)), Show(Lit(50)))),
             raises |-> Lam(<<"n">>, Raised(Lit(50))),
             performs |-> Lam(<<"n">>, Try(Perf(1), "x", Show(Lit(50))))]

Ints == {-64, -1, 0, 1, 3, 63}
Shifts == {"LSLINT", "LSRINT", "ASRINT"}
Arithmetic ==
  {Prm(o, 0, <<Lit(a), Lit(b)>>) : o \in ArithOps \ Shifts, a \in Ints, b \in Ints}
    \cup {Prm(o, 0, <<Lit(a), Lit(b)>>) : o \in Shifts, a \in Ints, b \in {0, 1, 3, 6}}
    \cup {If(Prm(o, 0, <<Lit(a), Lit(b)>>), Lit(1), Lit(2)) : o \in DOMAIN Taken, a \in Ints, b \in Ints}
    \cup {Prm("neg", 0, <<Lit(a)>>) : a \in Ints} \cup {Prm("add", 1, <<Lit(a)>>) : a \in Ints}

(* An object whose methods 1, 2, 3 print 1, 2, 3 and give their argument.    *)
Meth(i) == Lam(<<"self", "a">>, Seq2(Show(Lit(i)), V("a")))
Object(tags) ==
  LET cells == [j \in 1 .. (2 * Len(tags)) |-> LET t == tags[(j + 1) \div 2] IN IF j % 2 = 1 THEN Meth(t) ELSE Lit(t)] IN
  Prm("block", 0, <<Prm("block", 0, <<Lit(Len(tags)), Lit((IF Len(tags) = 3 THEN 4 ELSE Len(tags)) * 8 - 1)>> \o cells)>>)

Plain == {
  \* partial and over-application
  Let("f", Lam(<<"a", "b", "c">>, Prm("SUBINT", 0, <<V("a"), Add(V("b"), V("c"))>>)),
      Let("g", App(V("f"), <<Lit(9)>>), Let("h", App(V("g"), <<Lit(2)>>),
          Add(App(V("h"), <<Lit(1)>>), App(V("g"), <<Lit(4), Lit(5)>>))))),
  Let("id", Lam(<<"x">>, V("x")), App(V("id"), <<V("id"), V("id"), Lit(7)>>)),
  Let("f", Lam(<<"a", "b", "c", "d", "e">>, Prm("SUBINT", 0, <<V("a"), V("e")>>)),
      Add(Lit(1), App(V("f"), <<Lit(1), Lit(2), Lit(3), Lit(4), Lit(5)>>))),
  Let("k", Lam(<<"a">>, Lam(<<"b", "c">>, Prm("SUBINT", 0, <<V("a"), V("c")>>))),
      App(V("k"), <<Lit(1), Lit(2), Lit(3)>>)),
  \* mutual recursion, with a captured variable
  Let("z", Lit(0), Rec(<<Def("ev", <<"n">>, If(Prm("EQ", 0, <<V("n"), V("z")>>), Lit(1), App(V("od"), <<Sub1(V("n"))>>))),
                         Def("od", <<"n">>, If(Prm("EQ", 0, <<V("n"), V("z")>>), V("z"), App(V("ev"), <<Sub1(V("n"))>>)))>>,
                       Add(App(V("ev"), <<Lit(3)>>), App(V("od"), <<Lit(3)>>)))),
  Down(9, Lit(2)),
  \* exceptions
  Try(Add(Lit(1), Try(Raised(Lit(3)), "x", Raised(Add(V("x"), Lit(1))))), "y", Add(V("y"), Lit(10))),
  Try(Down(9, Raised(Lit(5))), "x", V("x")),
  Try(Prm("DIVINT", 0, <<Lit(1), Lit(0)>>), "x", V("x")),
  Let("f", Lam(<<"x">>, Try(Raised(V("x")), "y", Add(V("y"), Lit(1)))), Add(App(V("f"), <<Lit(1)>>), App(V("f"), <<Lit(2)>>))),
  Raised(Lit(4)),
  \* blocks, switches, loops, primitives
  Let("r", Prm("block", 0, <<Lit(1), Lit(2)>>),
      Seq2(For("i", Lit(1), Lit(3), Seq2(Show(V("i")), Prm("incr", 2, <<V("r")>>))),
           Seq2(Prm("set", 0, <<V("r"), Lit(1), Prm("field", 0, <<V("r")>>)>>),
                Add(Prm("get", 0, <<V("r"), Lit(1)>>), Prm("length", 0, <<V("r")>>))))),
  Let("s", Lam(<<"v">>, Switch(V("v"), <<Lit(10), Lit(11)>>, <<Prm("field", 0, <<V("v")>>), Lit(12)>>)),
      Add(App(V("s"), <<Lit(1)>>), Add(App(V("s"), <<Prm("block", 0, <<Lit(7)>>)>>), App(V("s"), <<Prm("block", 1, <<Lit(7)>>)>>)))),
  Prm("last", 0, <<Lit(1), Lit(2), Lit(3), Lit(4), Lit(5), Show(Lit(6))>>),
  If(Prm("isint", 0, <<Prm("not", 0, <<Lit(0)>>)>>), Prm("not", 0, <<Lit(1)>>), Lit(3)),
  \* callbacks from C
  Prm("callback", 0, <<Lam(<<"x">>, Add(V("x"), Lit(1))), Lit(3)>>),
  Try(Prm("callback", 0, <<Lam(<<"x">>, Raised(V("x"))), Lit(3)>>), "x", Add(V("x"), Lit(1))),
  Add(Lit(1), Prm("callback", 0, <<Lam(<<"x">>, Down(8, Prm("callback", 0, <<Lam(<<"y">>, V("y")), V("x")>>))), Lit(3)>>)),
  \* methods
  Let("o", Object(<<1, 2, 3>>), Let("p", Object(<<2>>), Let("q", Object(<<1, 3>>),
    Let("send", Lam(<<"o", "a">>, Prm("pubmet", 3, <<V("o"), V("a")>>)),
    Let("two", Lam(<<"o">>, Add(Lit(1), Prm("pubmet", 2, <<V("o"), Lit(1)>>))),
      Seq2(App(V("send"), <<V("o"), Lit(5)>>), Seq2(App(V("two"), <<V("o")>>), Seq2(App(V("two"), <<V("p")>>),
        Seq2(App(V("send"), <<V("q"), Lit(6)>>), Seq2(Prm("dynmet", 0, <<Lit(1), V("q"), Lit(2)>>),
          Prm("method", 0, <<Lit(2), V("p"), Lit(9)>>)))))))))))}

Effects == {
  Effect(Add(Perf(1), Lit(10)), 1, Add(Continue("k", Lit(5)), Lit(1))),
  Effect(Add(Perf(1), Perf(1)), 1, Continue("k", Lit(5))),
  Match(Lit(3), "x", Add(V("x"), Lit(1)), "y", Lit(0), 1, "k", Lit(2)),
  Match(Raised(Lit(3)), "x", Lit(1), "y", Add(V("y"), Lit(1)), 1, "k", Lit(2)),
  \* resumed twice, never, with an exception
  Try(Effect(Perf(1), 1, Seq2(Continue("k", Lit(2)), Continue("k", Lit(3)))), "x", V("x")),
  Effect(Seq2(Show(Lit(1)), Perf(1)), 1, Lit(8)),
  Effect(Try(Perf(1), "x", Add(V("x"), Lit(1))), 1, Discontinue("k", Lit(6))),
  \* reperformed through handlers of other effects, and at the top
  Effect(Add(Lit(1), Effect(Add(Lit(2), Perf(1)), 2, Lit(0))), 1, Continue("k", Lit(5))),
  Effect(Effect(Effect(Add(Perf(1), Perf(3)), 3, Continue("k", Lit(20))), 2, Lit(0)), 1, Add(Lit(1), Continue("k", Lit(5)))),
  Try(Effect(Add(Lit(1), Try(Perf(2), "z", Raised(Lit(7)))), 1, Lit(0)), "x", V("x")),
  Effect(Try(Perf(2), "z", Lit(9)), 1, Lit(0)),
  Perf(1),
  \* effects do not cross a callback; a handler inside it works
  Effect(Try(Prm("callback", 0, <<Lam(<<"x">>, Perf(1)), Lit(0)>>), "x", Lit(4)), 1, Lit(0)),
  Prm("callback", 0, <<Lam(<<"x">>, Effect(Add(V("x"), Perf(1)), 1, Continue("k", Lit(5)))), Lit(2)>>),
  \* a fiber that grows, one that is dropped, and stacks used again
  Effect(Down(9, Perf(1)), 1, Continue("k", Lit(5))),
  Effect(Down(9, Perf(1)), 1, Down(9, Continue("k", Lit(5)))),
  Add(Effect(Perf(1), 1, Lit(1)), Add(Effect(Lit(2), 1, Lit(1)), Effect(Perf(1), 1, Continue("k", Lit(3))))),
  \* a continuation kept in a block and resumed from another fiber
  Let("r", Prm("block", 0, <<Lit(0)>>),
      Seq2(Effect(Add(Lit(1), Perf(1)), 1, Seq2(Prm("setfield", 0, <<V("r"), V("k")>>), Lit(0))),
           Let("c", Prm("field", 0, <<V("r")>>), Effect(Add(Continue("c", Lit(3)), Perf(2)), 2, Continue("k", Lit(20))))))}

Overflow == {Try(Down(60, Lit(0)), "x", V("x")), Effect(Try(Down(60, Perf(1)), "x", V("x")), 1, Lit(0))}
GrownFiber == {Effect(Down(5, Perf(1)), 1, Continue("k", Lit(5)))}

Sets == [all |-> Arithmetic \cup Plain \cup Effects \cup Overflow, signals |-> Plain \cup Effects,
         effects |-> Effects, grown |-> GrownFiber]

------------------------------------------------------------------------------
Skipped(c) == <<"BRANCH", Len(c) + 1>> \o c
Code(e, handler) ==
  LET h == Handlers[handler] IN Skipped(Body(h.ps, h.b, Empty, Empty, 0)) \o Compile(e)
HandlerClosure == P(3, 0)

Answer == <<r.c.t, r.c.v.t, IF r.c.v.t \in {"int", "unhandled"} THEN r.c.v.n ELSE 0>>
Decoded(v) ==
  CASE v[1] = "int" -> <<"int", Long_val(v)>>
    [] v[1] = "ptr" /\ m.heap[v[2]].tag = UnhandledTag -> <<"unhandled", Long_val(m.heap[v[2]].f[1])>>
    [] v[1] = "ptr" /\ m.heap[v[2]].tag = Closure_tag -> <<"clo", 0>>
    [] OTHER -> <<"blk", 0>>
Result == <<IF m.end[1] = "value" THEN "v" ELSE "x">> \o Decoded(m.end[2])

(* A program deeper than MaxStack ends with Stack_overflow instead.          *)
Init == /\ sig = Signals
        /\ on \in Installed
        /\ \E e \in Sets[Chosen] :
             /\ r = IF e \in Overflow THEN Ret(Meaning(e), Num(-2)) ELSE Meaning(e)
             /\ m = Alloc(Machine(Code(e, on)), Block(Closure_tag, <<C(Len(Preamble) + 3), N(2)>>))

Define == ~RefStopped(r) /\ r' = RefStep(r) /\ UNCHANGED <<m, sig, on>>
Advance == RefStopped(r) /\ ~Stopped(m) /\ m' = Step(m) /\ UNCHANGED <<r, sig, on>>
Signal == /\ RefStopped(r) /\ sig > 0 /\ MayHandle(m)
          /\ m' = Handle(m, HandlerClosure) /\ sig' = sig - 1 /\ UNCHANGED <<r, on>>
Done == Stopped(m) /\ UNCHANGED vars
Next == Define \/ Advance \/ Signal \/ Done
Spec == Init /\ [][Next]_vars

(* A program ends with the value or the exception its meaning has, and has   *)
(* printed the same, wherever a signal handler that returns ran meanwhile.   *)
Answered == Stopped(m) /\ (on # "raises" \/ sig = Signals) =>
                          /\ Result = Answer
                          /\ SelectSeq(m.log, LAMBDA n : n # 50) = r.log

(* No stack is named twice or after it was freed, and none is too full.      *)
StacksSound ==
  /\ \A o \in Owners(m) : LET c == Owned(m, o) IN
       /\ Cardinality(ToSet(c)) = Len(c)
       /\ \A i \in 1 .. Len(c) : ~m.st[c[i]].free /\ Len(m.st[c[i]].s) <= m.st[c[i]].size
       /\ \A p \in Owners(m) \ {o} : ToSet(c) \cap ToSet(Owned(m, p)) = {}
==============================================================================
