------------------------------- MODULE Interp -------------------------------
(* The bytecode interpreter of runtime/interp.c with the stacks of fibers    *)
(* (fiber.c), callbacks from C (callback.c) and exceptions raised from C     *)
(* (fail_byt.c). A machine state m is a record; Exec is one instruction.     *)
(* Words are tagged: an integer n is the word 2n+1 of W bits. Numbered forms *)
(* of an instruction (ACC0..ACC7, C_CALL1..N...) are one with an operand.    *)
(* Left out: floats, strings, the debugger and backtraces.                   *)
EXTENDS Integers, Sequences, FiniteSets, TLC, Bitwise

CONSTANTS W,              \* bits of a word
          Threshold,      \* Stack_threshold_words
          FiberSize,      \* caml_fiber_wsz
          MainSize,       \* initial size of the main stack
          MaxStack        \* caml_max_stack_wsize

------------------------------------------------------------------------------
(* Values: tagged integers, pointers into a block (a closure may be inside   *)
(* one), code addresses, stacks, and words that hold a machine quantity.     *)

Bits(n) == n % (2^W)
Signed(u) == IF u >= 2^(W - 1) THEN u - 2^W ELSE u
Word(n) == Signed(Bits(n))

Val_long(n) == <<"int", Word(2 * n + 1), 0>>
Long_val(v) == (v[2] - 1) \div 2
P(a, o) == <<"ptr", a, o>>
C(pc) == <<"code", pc, 0>>
Val_ptr(id) == <<"stk", id, 0>>
N(n) == <<"num", n, 0>>
Ptr_val(v) == IF v[1] = "stk" THEN v[2] ELSE 0
Val_unit == Val_long(0)
Truth(b) == Val_long(IF b THEN 1 ELSE 0)

Stack_overflow == Val_long(-2)
Division_by_zero == Val_long(-3)
Continuation_already_resumed == Val_long(-4)
UnhandledTag == 9

Block(tag, fields) == [tag |-> tag, f |-> fields]
Field(m, v, i) == m.heap[v[2]].f[v[3] + i + 1]
SetField(m, v, i, x) == [m EXCEPT !.heap[v[2]].f[v[3] + i + 1] = x]
Alloc(m, b) == [m EXCEPT !.heap = Append(@, b)]
New(m) == P(Len(m.heap) + 1, 0)
Is_block(v) == v[1] = "ptr"
Closure_tag == 7
Cont_tag == 8
Infix(i) == N(3 * i)
Code_val(m, v) == Field(m, v, 0)[2]
Atom0 == P(1, 0)

------------------------------------------------------------------------------
(* Stacks, top first: sp[i] is s[i + 1] and Stack_high - sp is Len(s).       *)

Drop(s, n) == SubSeq(s, n + 1, Len(s))
S(m) == m.st[m.cur].s
SetS(m, s) == [m EXCEPT !.st[m.cur].s = s]
Push(m, v) == SetS(m, <<v>> \o S(m))
Pop(m, n) == SetS(m, Drop(S(m), n))
sp(m, i) == S(m)[i + 1]

(* stack_cache_bucket: five size classes.                                    *)
stack_cache_bucket(w) ==
  LET fits == {b \in 0 .. 4 : w = FiberSize * 2^b} IN
  IF fits = {} THEN -1 ELSE CHOOSE b \in fits : TRUE

NewStack(w, hval, hexn, heff) ==
  [s |-> <<>>, size |-> w, parent |-> 0, hval |-> hval, hexn |-> hexn, heff |-> heff,
   bucket |-> stack_cache_bucket(w), free |-> FALSE]

(* alloc_size_class_stack_noexc: a stack of the cache, or a new one.         *)
CacheHit(m, w) == stack_cache_bucket(w) # -1 /\ m.cache[stack_cache_bucket(w)] # <<>>
StackId(m, w) == IF CacheHit(m, w) THEN Head(m.cache[stack_cache_bucket(w)]) ELSE Len(m.st) + 1
AllocStack(m, w, hval, hexn, heff) ==
  IF CacheHit(m, w)
  THEN [m EXCEPT !.cache[stack_cache_bucket(w)] = Tail(@),
                 !.st[StackId(m, w)] = NewStack(w, hval, hexn, heff)]
  ELSE [m EXCEPT !.st = Append(@, NewStack(w, hval, hexn, heff))]

caml_free_stack(m, id) ==
  LET b == m.st[id].bucket
      f == [m EXCEPT !.st[id].free = TRUE, !.st[id].s = <<>>] IN
  IF b # -1 THEN [f EXCEPT !.cache[b] = <<id>> \o @] ELSE f

(* caml_alloc_stack: a fiber starts with no trap handler.                    *)
caml_alloc_stack(m, hval, hexn, heff) ==
  LET id == StackId(m, FiberSize) IN
  [AllocStack(m, FiberSize, hval, hexn, heff) EXCEPT !.st[id].s = <<N(1)>>, !.accu = Val_ptr(id)]

(* The size caml_try_realloc_stack asks for, or 0 when the limit is reached. *)
RECURSIVE GrownSize(_, _)
GrownSize(size, needed) ==
  IF size >= MaxStack THEN 0
  ELSE IF 2 * size >= needed THEN 2 * size ELSE GrownSize(2 * size, needed)

(* caml_try_realloc_stack: the words move to a larger stack, which takes the *)
(* parent and the handlers of the old one.                                   *)
Parent(m, old) == m.st[old].parent
caml_try_realloc_stack(m, w) ==
  LET old == m.cur
      id == StackId(m, w)
      o == m.st[old]
      m1 == AllocStack(m, w, o.hval, o.hexn, o.heff)
      m2 == [m1 EXCEPT !.st[id].s = o.s, !.st[id].parent = Parent(m, old), !.cur = id] IN
  caml_free_stack(m2, old)

------------------------------------------------------------------------------
(* Code. The first words are callback_code, whose operands the last callback *)
(* has set, and the code that raises an unhandled effect.                    *)

Preamble == <<"ACC", 0, "APPLY", 0, "POP", 1, "STOP", "ACC", 0, "RAISE">>
RaiseCode == 8

Op(m, n) == LET p == m.pc + n IN
            IF p = 2 THEN m.narg + 3 ELSE IF p = 4 THEN m.narg ELSE m.code[p]
Label(m, n) == m.pc + n + m.code[m.pc + n]
Skip(m, n) == [m EXCEPT !.pc = @ + n]

(* Entering a closure: check_stacks comes next.                              *)
Enter(m, clos, xa) ==
  [m EXCEPT !.pc = Code_val(m, clos), !.env = clos, !.accu = clos, !.xa = xa, !.check = "stack"]

RaiseClosure == P(2, 0)

Machine(code) ==
  [code |-> Preamble \o code, pc |-> Len(Preamble) + 1, accu |-> Val_long(0), env |-> Atom0, xa |-> 0,
   trap |-> 1, cur |-> 1, st |-> <<NewStack(MainSize, Val_unit, Val_unit, Val_unit)>>,
   cache |-> [b \in 0 .. 4 |-> <<>>], heap |-> <<Block(0, <<>>), Block(Closure_tag, <<C(RaiseCode), N(2)>>)>>,
   fr |-> <<>>, narg |-> 0, check |-> "no", exn |-> <<>>, log |-> <<>>, met |-> [p \in {} |-> 0],
   end |-> <<"none", 0>>]

------------------------------------------------------------------------------
(* Callbacks from C and exceptions.                                          *)

(* alloc_and_clear_stack_parent, with the parent in the frame of C.          *)
ClearParent(m) == [m EXCEPT !.st[m.cur].parent = 0]

(* caml_callbackN_exn and the entry of caml_interprete. k is what the C code *)
(* does with the result.                                                     *)
Callback(m, clos, args, k) ==
  LET s == args \o <<C(5), Val_unit, N(0), clos>> \o S(m)
      f == [k |-> k, trap |-> m.trap, words |-> Len(s), parent |-> m.st[m.cur].parent,
            narg |-> Len(args), pc |-> m.pc, xa |-> m.xa] IN
  [ClearParent(SetS(m, s)) EXCEPT !.fr = <<f>> \o @, !.narg = Len(args), !.trap = 1, !.pc = 1,
                                  !.xa = 0, !.env = Atom0, !.accu = Val_long(0), !.check = "no"]

(* raise_notrace: the handler of this stack, else the parent's exception     *)
(* handler, else the end of this activation of the interpreter.              *)
Raise(m, exn) ==
  LET cur == m.cur  par == m.st[m.cur].parent IN
  IF m.trap <= 0
  THEN LET s == Drop(S(m), Len(S(m)) + m.trap) IN
       [SetS(m, Drop(s, 4)) EXCEPT !.accu = exn, !.pc = s[1][2], !.trap = s[2][2], !.env = s[3],
                                   !.xa = s[4][2], !.check = "no"]
  ELSE IF par # 0
  THEN LET m1 == caml_free_stack([m EXCEPT !.cur = par], cur)
           s == S(m1) IN
       Enter([SetS(m1, <<exn>> \o Drop(s, 2)) EXCEPT !.trap = s[1][2]], m.st[cur].hexn, s[2][2])
  ELSE [m EXCEPT !.end = <<"exception", exn>>, !.check = "no"]

(* caml_raise: pending actions run before the jump to the interpreter.       *)
caml_raise(m, exn) == [m EXCEPT !.exn = <<exn>>, !.check = "no"]

(* Setup_for_c_call and Setup_for_gc, and what undoes them.                  *)
SetupC(m) == SetS(m, <<m.env, C(m.pc + 1)>> \o S(m))
RestoreC(m) == [Pop(m, 2) EXCEPT !.env = sp(m, 0)]
SetupGc(m) == SetS(m, <<m.accu, m.env, C(m.pc)>> \o S(m))
RestoreGc(m) == [Pop(m, 3) EXCEPT !.accu = sp(m, 0), !.env = sp(m, 1)]
SetupEvent(m) == SetS(m, <<m.accu, Val_unit, Val_unit, C(m.pc), m.env, N(m.xa)>> \o S(m))
RestoreEvent(m) ==
  [Pop(m, 6) EXCEPT !.accu = sp(m, 0), !.pc = sp(m, 3)[2], !.env = sp(m, 4), !.xa = sp(m, 5)[2]]

------------------------------------------------------------------------------
(* Effects.                                                                  *)

(* do_resume: the fibers from stk to tail are put on top of the current one. *)
DoResume(m, stk, fn, arg, tail) ==
  IF stk = 0 THEN caml_raise(SetupC(m), Continuation_already_resumed)
  ELSE LET last == IF tail = 0 THEN stk ELSE tail
           m1 == [m EXCEPT !.st[last].parent = m.cur, !.cur = stk]
           s == S(m1) IN
       Enter([SetS(m1, <<arg>> \o Drop(s, 1)) EXCEPT !.trap = s[1][2]], fn, 0)

(* PERFORM once the continuation is allocated; old and par were read before. *)
Perform(m, old, par) ==
  LET s == <<N(m.trap), C(m.pc + 1), m.env, N(m.xa)>> \o S(m)
      cont == New(m)
      m1 == [m EXCEPT !.st[old].s = s, !.st[old].parent = 0, !.cur = par]
      m2 == Alloc(m1, Block(Cont_tag, <<Val_ptr(old), Val_long(0)>>))
      ps == S(m2) IN
  Enter([SetS(m2, <<m.accu, cont, Val_ptr(old)>> \o Drop(ps, 2)) EXCEPT !.trap = ps[1][2]],
        m.st[old].heff, ps[2][2] + 2)

Unhandled(m, eff) == Alloc(m, Block(UnhandledTag, <<eff>>))


(* caml_continuation_use_noexc: the first use takes the stack.               *)
Used(m, cont) == SetField(m, cont, 0, Val_ptr(0))

(* REPERFORMTERM: the effect goes to the parent, and this fiber joins the    *)
(* continuation; at the top the effect is unhandled and the continuation is  *)
(* resumed with the exception.                                               *)
Linked(m, tail, self) == [m EXCEPT !.st[self].parent = 0, !.st[tail].parent = self]

Reperform(m) ==
  LET eff == m.accu  cont == sp(m, 0)  tail == Ptr_val(sp(m, 1))
      self == m.cur  par == m.st[m.cur].parent
      m1 == SetS(m, <<N(m.trap), N(m.xa)>> \o Drop(S(m), Op(m, 1))) IN
  IF par = 0
  THEN LET m2 == Unhandled(m1, eff) IN
       DoResume(Used(m2, cont), Ptr_val(Field(m2, cont, 0)), RaiseClosure, New(m1), tail)
  ELSE LET m2 == Linked([m1 EXCEPT !.cur = par], tail, self)
           ps == S(m2) IN
       Enter([SetS(m2, <<eff, cont, Val_ptr(self)>> \o Drop(ps, 2)) EXCEPT !.trap = ps[1][2]],
             m.st[self].heff, ps[2][2] + 2)

------------------------------------------------------------------------------
(* Instructions.                                                             *)

do_return(m) ==
  IF S(m) = <<>>
  THEN LET old == m.cur  m1 == caml_free_stack([m EXCEPT !.cur = m.st[m.cur].parent], m.cur)
           s == S(m1) IN
       Enter([SetS(m1, <<m.accu>> \o Drop(s, 2)) EXCEPT !.trap = s[1][2]], m.st[old].hval, s[2][2])
  ELSE [Pop(m, 3) EXCEPT !.pc = sp(m, 0)[2], !.env = sp(m, 1), !.xa = sp(m, 2)[2]]

(* GRAB: enough arguments, or a closure over those there are.                *)
Grab(m, required) ==
  IF m.xa >= required THEN [Skip(m, 2) EXCEPT !.xa = @ - required]
  ELSE LET n == m.xa + 1
           b == Block(Closure_tag, <<C(m.pc - 1), N(2), m.env>> \o SubSeq(S(m), 1, n)) IN
       do_return(Pop([Alloc(m, b) EXCEPT !.accu = New(m)], n))

(* RESTART: the arguments of a partial application go back on the stack.     *)
Restart(m) ==
  LET f == m.heap[m.env[2]].f  n == Len(f) - 3 IN
  [SetS(Skip(m, 1), Drop(f, 3) \o S(m)) EXCEPT !.env = f[3], !.xa = @ + n]

(* The words a closure captures: accu, then the top of the stack.            *)
Captured(m, n) == IF n = 0 THEN <<>> ELSE <<m.accu>> \o SubSeq(S(m), 1, n - 1)
Closure(m, n) ==
  LET m1 == Alloc(m, Block(Closure_tag, <<C(Label(m, 2)), N(2)>> \o Captured(m, n))) IN
  [Skip(Pop(m1, IF n = 0 THEN 0 ELSE n - 1), 3) EXCEPT !.accu = New(m)]

(* CLOSUREREC: nf code pointers, three words apart, then the environment.    *)
ClosureRec(m, nf, n) ==
  LET entry(i) == (IF i = 1 THEN <<>> ELSE <<Infix(i - 1)>>) \o <<C(m.pc + 3 + Op(m, 2 + i)), N(3 * nf - 1)>>
      head == [i \in 1 .. (3 * nf - 1) |-> entry((i \div 3) + 1)[IF i <= 2 THEN i ELSE (i % 3) + 1]]
      m1 == Alloc(m, Block(Closure_tag, head \o Captured(m, n)))
      m2 == Pop(m1, IF n = 0 THEN 0 ELSE n - 1)
      closures == [i \in 1 .. nf |-> P(New(m)[2], 3 * (nf - i))] IN
  [Skip(SetS(m2, closures \o S(m2)), 3 + nf) EXCEPT !.accu = New(m)]

(* Integer arithmetic on tagged words.                                       *)
TruncDiv(a, b) == LET q == (IF a < 0 THEN -a ELSE a) \div (IF b < 0 THEN -b ELSE b) IN
                  IF (a < 0) = (b < 0) THEN q ELSE -q
Ult(a, b) == Bits(a) < Bits(b)
Arith(op, a, b) ==        \* a is the word of accu, b the word popped
  LET la == (a - 1) \div 2  lb == (b - 1) \div 2
      bool(c) == IF c THEN 3 ELSE 1 IN
  CASE op = "ADDINT" -> a + b - 1
    [] op = "SUBINT" -> a - b + 1
    [] op = "MULINT" -> 2 * (la * lb) + 1
    [] op = "DIVINT" -> 2 * TruncDiv(la, lb) + 1
    [] op = "MODINT" -> 2 * (la - lb * TruncDiv(la, lb)) + 1
    [] op = "ANDINT" -> Bits(a) & Bits(b)
    [] op = "ORINT" -> Bits(a) | Bits(b)
    [] op = "XORINT" -> (Bits(a) ^^ Bits(b)) | 1
    [] op = "LSLINT" -> (a - 1) * 2^lb + 1
    [] op = "LSRINT" -> (Bits(a) \div 2^lb) | 1
    [] op = "ASRINT" -> Bits(a \div 2^lb) | 1
    [] op = "EQ" -> bool(a = b)
    [] op = "NEQ" -> bool(a # b)
    [] op = "LTINT" -> bool(a < b)
    [] op = "LEINT" -> bool(a <= b)
    [] op = "GTINT" -> bool(a > b)
    [] op = "GEINT" -> bool(a >= b)
    [] op = "ULTINT" -> bool(Ult(a, b))
    [] op = "UGEINT" -> bool(~Ult(a, b))
ArithOps == {"ADDINT", "SUBINT", "MULINT", "DIVINT", "MODINT", "ANDINT", "ORINT", "XORINT", "LSLINT",
             "LSRINT", "ASRINT", "EQ", "NEQ", "LTINT", "LEINT", "GTINT", "GEINT", "ULTINT", "UGEINT"}

Binary(m, op) ==
  IF op \in {"DIVINT", "MODINT"} /\ sp(m, 0) = Val_long(0)
  THEN caml_raise(SetupC(Pop(m, 1)), Division_by_zero)
  ELSE [Skip(Pop(m, 1), 1) EXCEPT !.accu = <<"int", Word(Arith(op, m.accu[2], sp(m, 0)[2])), 0>>]

(* Integer_branch_comparison: the constant is the left operand.              *)
BranchTest(op, n, v) ==
  CASE op = "BEQ" -> n = v
    [] op = "BNEQ" -> n # v
    [] op = "BLTINT" -> n < v
    [] op = "BLEINT" -> n <= v
    [] op = "BGTINT" -> n > v
    [] op = "BGEINT" -> n >= v
BranchOps == {"BEQ", "BNEQ", "BLTINT", "BLEINT", "BGTINT", "BGEINT"}

(* The method of a tag: the cached offset if it is the right one, else a     *)
(* binary search in the table, which has the tags at 3, 5, ...               *)
RECURSIVE Search(_, _, _, _, _)
Search(m, meths, tag, li, hi) ==
  IF li >= hi THEN li
  ELSE LET mi == ((li + hi) \div 2) | 1 IN
       IF tag[2] < Field(m, meths, mi)[2] THEN Search(m, meths, tag, li, mi - 2)
       ELSE Search(m, meths, tag, mi, hi)

CachedOfs(m, meths) ==
  LET c == IF m.pc + 2 \in DOMAIN m.met THEN m.met[m.pc + 2] ELSE 0 IN
  (c % (Field(m, meths, 1)[2] + 1)) \div 8

(* A fault of Hit: the cache is trusted.                                     *)
AlwaysHit(m, meths, ofs, tag) == TRUE

Hit(m, meths, ofs, tag) == Field(m, meths, 3 + ofs) = tag

GetPubMet(m) ==
  LET meths == Field(m, m.accu, 0)
      tag == Val_long(Op(m, 1))
      ofs == CachedOfs(m, meths)
      li == Search(m, meths, tag, 3, Field(m, meths, 0)[2])
      m1 == Skip(Push(m, m.accu), 3) IN
  IF Hit(m, meths, ofs, tag) THEN [m1 EXCEPT !.accu = Field(m, meths, 2 + ofs)]
  ELSE [m1 EXCEPT !.accu = Field(m, meths, li - 1), !.met = ((m.pc + 2) :> (8 * (li - 3))) @@ @]

(* C primitives the programs use.                                            *)
Prim(m, name, args) ==
  CASE name = "print" -> [m EXCEPT !.log = Append(@, Long_val(args[1])), !.accu = Val_unit]
    [] name = "last" -> [m EXCEPT !.accu = args[Len(args)]]
    [] name = "caml_continuation_use_noexc" -> [Used(m, args[1]) EXCEPT !.accu = Field(m, args[1], 0)]
    [] name = "caml_alloc_stack" -> caml_alloc_stack(m, args[1], args[2], args[3])

CCall(m, n, name) ==
  LET args == <<m.accu>> \o SubSeq(S(m), 1, n - 1) IN
  IF name = "callback"
  THEN Callback(SetupC(m), args[1], <<args[2]>>, [t |-> "prim"])
  ELSE LET m1 == Prim(SetupC(m), name, args) IN Skip(Pop(RestoreC(m1), n - 1), 3)

(* Basic stack operations and the environment.                              *)
ExecStack(m, op) ==
  CASE op = "ACC" -> [Skip(m, 2) EXCEPT !.accu = sp(m, Op(m, 1))]
    [] op = "PUSH" -> Skip(Push(m, m.accu), 1)
    [] op = "POP" -> Skip(Pop(m, Op(m, 1)), 2)
    [] op = "ASSIGN" -> [SetS(Skip(m, 2), [S(m) EXCEPT ![Op(m, 1) + 1] = m.accu]) EXCEPT !.accu = Val_unit]
    [] op = "ENVACC" -> [Skip(m, 2) EXCEPT !.accu = Field(m, m.env, Op(m, 1))]

(* Function application.                                                    *)
ExecCall(m, op) ==
  CASE op = "PUSH_RETADDR" -> SetS(Skip(m, 2), <<C(Label(m, 1)), m.env, N(m.xa)>> \o S(m))
    [] op = "APPLY" -> Enter(m, m.accu, Op(m, 1) - 1)
    [] op = "APPLY123" -> Enter(SetS(m, SubSeq(S(m), 1, Op(m, 1)) \o <<C(m.pc + 2), m.env, N(m.xa)>>
                                          \o Drop(S(m), Op(m, 1))), m.accu, Op(m, 1) - 1)
    [] op = "APPTERM" -> Enter(SetS(m, SubSeq(S(m), 1, Op(m, 1)) \o Drop(S(m), Op(m, 2))),
                               m.accu, m.xa + Op(m, 1) - 1)
    [] op = "RETURN" -> LET m1 == Pop(m, Op(m, 1)) IN
                        IF m.xa > 0 THEN [Enter(m1, m.accu, m.xa - 1) EXCEPT !.check = "no"]
                        ELSE do_return(m1)
    [] op = "RESTART" -> Restart(m)
    [] op = "GRAB" -> Grab(m, Op(m, 1))

(* Closures.                                                                *)
ExecClosure(m, op) ==
  CASE op = "CLOSURE" -> Closure(m, Op(m, 1))
    [] op = "CLOSUREREC" -> ClosureRec(m, Op(m, 1), Op(m, 2))
    [] op = "OFFSETCLOSURE" -> [Skip(m, 2) EXCEPT !.accu = P(m.env[2], m.env[3] + Op(m, 1))]

(* Blocks.                                                                  *)
ExecBlock(m, op) ==
  CASE op = "MAKEBLOCK" -> LET n == Op(m, 1) IN
         [Skip(Pop(Alloc(m, Block(Op(m, 2), <<m.accu>> \o SubSeq(S(m), 1, n - 1))), n - 1), 3)
            EXCEPT !.accu = New(m)]
    [] op = "GETFIELD" -> [Skip(m, 2) EXCEPT !.accu = Field(m, m.accu, Op(m, 1))]
    [] op = "SETFIELD" -> [Skip(Pop(SetField(m, m.accu, Op(m, 1), sp(m, 0)), 1), 2) EXCEPT !.accu = Val_unit]

(* Arrays.                                                                  *)
ExecArray(m, op) ==
  CASE op = "VECTLENGTH" -> [Skip(m, 1) EXCEPT !.accu = Val_long(Len(m.heap[m.accu[2]].f))]
    [] op = "GETVECTITEM" -> [Skip(Pop(m, 1), 1) EXCEPT !.accu = Field(m, m.accu, Long_val(sp(m, 0)))]
    [] op = "SETVECTITEM" -> [Skip(Pop(SetField(m, m.accu, Long_val(sp(m, 0)), sp(m, 1)), 2), 1)
                                EXCEPT !.accu = Val_unit]

(* Branches.                                                                *)
ExecBranch(m, op) ==
  CASE op = "BRANCH" -> [m EXCEPT !.pc = Label(m, 1)]
    [] op = "BRANCHIF" -> IF m.accu # Truth(FALSE) THEN [m EXCEPT !.pc = Label(m, 1)] ELSE Skip(m, 2)
    [] op = "BRANCHIFNOT" -> IF m.accu = Truth(FALSE) THEN [m EXCEPT !.pc = Label(m, 1)] ELSE Skip(m, 2)
    [] op = "SWITCH" -> LET n == IF Is_block(m.accu) THEN Op(m, 1) + m.heap[m.accu[2]].tag
                                 ELSE Long_val(m.accu) IN
                        [m EXCEPT !.pc = m.pc + 3 + Op(m, 3 + n)]
    [] op = "BOOLNOT" -> [Skip(m, 1) EXCEPT !.accu = Truth(@ = Truth(FALSE))]

(* Exceptions.                                                              *)
ExecTrap(m, op) ==
  CASE op = "PUSHTRAP" -> [SetS(Skip(m, 2), <<C(Label(m, 1)), N(m.trap), m.env, N(m.xa)>> \o S(m))
                             EXCEPT !.trap = -(Len(S(m)) + 4)]
    [] op = "POPTRAP" -> [Skip(Pop(m, 4), 1) EXCEPT !.trap = sp(m, 1)[2]]
    [] op = "RAISE" -> Raise(m, m.accu)

(* Integers.                                                                *)
ExecInt(m, op) ==
  CASE op = "CONSTINT" -> [Skip(m, 2) EXCEPT !.accu = Val_long(Op(m, 1))]
    [] op = "NEGINT" -> [Skip(m, 1) EXCEPT !.accu = <<"int", Word(2 - m.accu[2]), 0>>]
    [] op = "OFFSETINT" -> [Skip(m, 2) EXCEPT !.accu = <<"int", Word(m.accu[2] + 2 * Op(m, 1)), 0>>]
    [] op = "OFFSETREF" -> LET v == Field(m, m.accu, 0) IN
         [Skip(SetField(m, m.accu, 0, <<"int", Word(v[2] + 2 * Op(m, 1)), 0>>), 2) EXCEPT !.accu = Val_unit]
    [] op = "ISINT" -> [Skip(m, 1) EXCEPT !.accu = Truth(~Is_block(@))]
    [] op \in ArithOps -> Binary(m, op)
    [] op \in BranchOps -> IF BranchTest(op, Op(m, 1), Long_val(m.accu))
                           THEN [m EXCEPT !.pc = Label(m, 2)] ELSE Skip(m, 3)

(* Methods.                                                                 *)
ExecObject(m, op) ==
  CASE op = "GETMETHOD" -> [Skip(m, 1) EXCEPT !.accu = Field(m, Field(m, sp(m, 0), 0), Long_val(@))]
    [] op = "GETPUBMET" -> GetPubMet(m)
    [] op = "GETDYNMET" -> LET meths == Field(m, sp(m, 0), 0) IN
         [Skip(m, 1) EXCEPT !.accu = Field(m, meths, Search(m, meths, @, 3, Field(m, meths, 0)[2]) - 1)]

(* C calls, effects and the end.                                            *)
ExecControl(m, op) ==
  CASE op = "CHECK_SIGNALS" -> Skip(m, 1)
    [] op = "C_CALL" -> CCall(m, Op(m, 1), Op(m, 2))
    [] op = "RESUME" ->
         LET s == S(m) IN
         DoResume(SetS(m, <<N(m.trap), N(0), C(m.pc + 1), m.env, N(m.xa)>> \o Drop(s, 3)),
                  Ptr_val(m.accu), s[1], s[2], Ptr_val(s[3]))
    [] op = "RESUMETERM" ->
         LET s == S(m) IN
         DoResume(SetS(m, <<N(m.trap), N(m.xa)>> \o Drop(s, Op(m, 1))),
                  Ptr_val(m.accu), s[1], s[2], Ptr_val(s[3]))
    [] op = "PERFORM" ->
         IF m.st[m.cur].parent = 0 THEN Raise(Unhandled(m, m.accu), New(m))
         ELSE Perform(m, m.cur, m.st[m.cur].parent)
    [] op = "REPERFORMTERM" -> Reperform(m)
    [] op = "STOP" -> [m EXCEPT !.end = <<"value", m.accu>>]

(* One instruction.                                                         *)
Exec(m) ==
  LET op == m.code[m.pc] IN
  CASE op \in {"ACC", "PUSH", "POP", "ASSIGN", "ENVACC"} -> ExecStack(m, op)
    [] op \in {"PUSH_RETADDR", "APPLY", "APPLY123", "APPTERM", "RETURN", "RESTART", "GRAB"} -> ExecCall(m, op)
    [] op \in {"CLOSURE", "CLOSUREREC", "OFFSETCLOSURE"} -> ExecClosure(m, op)
    [] op \in {"MAKEBLOCK", "GETFIELD", "SETFIELD"} -> ExecBlock(m, op)
    [] op \in {"VECTLENGTH", "GETVECTITEM", "SETVECTITEM"} -> ExecArray(m, op)
    [] op \in {"BRANCH", "BRANCHIF", "BRANCHIFNOT", "SWITCH", "BOOLNOT"} -> ExecBranch(m, op)
    [] op \in {"PUSHTRAP", "POPTRAP", "RAISE"} -> ExecTrap(m, op)
    [] op \in {"CONSTINT", "NEGINT", "OFFSETINT", "OFFSETREF", "ISINT"} \cup ArithOps \cup BranchOps -> ExecInt(m, op)
    [] op \in {"GETMETHOD", "GETPUBMET", "GETDYNMET"} -> ExecObject(m, op)
    [] OTHER -> ExecControl(m, op)

------------------------------------------------------------------------------
(* Where pending actions run: check_stacks, POPTRAP, CHECK_SIGNALS and the   *)
(* instructions that allocate in the minor heap.                             *)

Allocates(m) ==
  \/ m.code[m.pc] \in {"MAKEBLOCK", "CLOSURE", "CLOSUREREC"}
  \/ m.code[m.pc] = "GRAB" /\ m.xa < Op(m, 1)
  \/ m.code[m.pc] = "PERFORM" /\ m.st[m.cur].parent # 0
Polls(m) == m.check = "signal" \/ m.code[m.pc] \in {"POPTRAP", "CHECK_SIGNALS"}
MayHandle(m) ==
  /\ m.end[1] = "none" /\ m.check # "stack"
  /\ m.exn # <<>> \/ Allocates(m) \/ Polls(m)

(* check_stacks, before it looks at signals.                                 *)
Room(m) == m.st[m.cur].size - Len(S(m)) >= Threshold

CheckStacks(m) ==
  IF Room(m) THEN [m EXCEPT !.check = "signal"]
  ELSE LET w == GrownSize(m.st[m.cur].size, Len(S(m)) + Threshold) IN
       IF w = 0 THEN caml_raise(SetupC(m), Stack_overflow)
       ELSE [caml_try_realloc_stack(m, w) EXCEPT !.check = "signal"]

(* Pending actions, here a signal handler, as a callback.                    *)
Handle(m, handler) ==
  IF m.exn # <<>> THEN Callback([m EXCEPT !.exn = <<>>], handler, <<Val_long(1)>>, [t |-> "raise", exn |-> m.exn])
  ELSE IF Polls(m) THEN Callback(SetupEvent(m), handler, <<Val_long(1)>>, [t |-> "signal"])
  ELSE Callback(SetupGc(m), handler, <<Val_long(1)>>,
                [t |-> "gc", old |-> m.cur, par |-> m.st[m.cur].parent])

(* Back in C: the end of an activation, by STOP or by an exception nobody    *)
(* caught. caml_callbackN_exn gives the words and the parent back.           *)
EndCallback(m) ==
  LET f == m.fr[1]
      ok == m.end[1] = "value"
      s == IF ok THEN S(m) ELSE Drop(S(m), Len(S(m)) - f.words + f.narg + 4)
      m1 == [SetS(m, s) EXCEPT !.trap = f.trap, !.fr = Tail(@), !.end = <<"none", 0>>,
                               !.pc = f.pc, !.xa = f.xa, !.st[m.cur].parent = f.parent] IN
  CASE ~ok -> caml_raise(m1, m.end[2])
    [] ok /\ f.k.t = "raise" -> [m1 EXCEPT !.exn = f.k.exn]
    [] ok /\ f.k.t = "signal" -> RestoreEvent(m1)
    [] ok /\ f.k.t = "prim" -> Skip(Pop(RestoreC([m1 EXCEPT !.accu = m.end[2]]), 1), 3)
    [] ok /\ f.k.t = "gc" ->
         LET m2 == RestoreGc(m1) IN
         IF m2.code[m2.pc] = "PERFORM" THEN Perform(m2, f.k.old, f.k.par) ELSE Exec(m2)

(* One step: check_stacks, an instruction, or the return to C.               *)
Step(m) ==
  IF m.end[1] # "none" THEN EndCallback(m)
  ELSE IF m.exn # <<>> THEN Raise([m EXCEPT !.exn = <<>>], m.exn[1])
  ELSE IF m.check = "stack" THEN CheckStacks(m)
  ELSE Exec([m EXCEPT !.check = "no"])

Stopped(m) == m.end[1] # "none" /\ m.fr = <<>>

------------------------------------------------------------------------------
(* Where stacks are named: the chain of the current stack, those of the      *)
(* activations below, and the continuations not used yet.                    *)

RECURSIVE Chain(_, _, _)
Chain(m, id, n) == IF id = 0 \/ n = 0 THEN <<>> ELSE <<id>> \o Chain(m, m.st[id].parent, n - 1)

Continuations(m) == {i \in 1 .. Len(m.heap) : m.heap[i].tag = Cont_tag /\ Ptr_val(m.heap[i].f[1]) # 0}
Owners(m) == {<<"run", 0>>} \cup {<<"fr", i>> : i \in 1 .. Len(m.fr)} \cup {<<"k", i>> : i \in Continuations(m)}
Owned(m, o) ==
  LET from == CASE o[1] = "run" -> m.cur
                [] o[1] = "fr" -> m.fr[o[2]].parent
                [] o[1] = "k" -> Ptr_val(m.heap[o[2]].f[1]) IN
  Chain(m, from, Len(m.st) + 1)
==============================================================================
