----------------------------- MODULE StrMatch -----------------------------
(* Regular expressions of the str library: the compiler of str.ml and the    *)
(* backtracking machine, the searches and the replacement of strstubs.c.     *)
EXTENDS Integers, Sequences, SequencesExt, FiniteSets, FiniteSetsExt

CONSTANTS Jobs,                         \* what is asked of the library
          BACKTRACK_STACK_BLOCK_SIZE

VARIABLES job, re,      \* the request and its compiled expression
          at,           \* where the search is
          pc, txt, stack, groups, re_register,
          out,          \* "begin", "run", "back", "none" or "found"
          result        \* the groups found, or the text put together
vars == <<job, re, at, pc, txt, stack, groups, re_register, out, result>>

Chars == {"a", "A", "b", "nl", "sp"}
Is_word_letter(c) == c \in {"a", "A", "b"}
lowercase(c) == IF c = "A" THEN "a" ELSE c
fold_case(s) == UNION {IF c \in {"a", "A"} THEN {"a", "A"} ELSE {c} : c \in s}

------------------------------------------------------------------------------
(* The syntax: <<"char", c>>, <<"string", s>>, <<"class", set>>,             *)
(* <<"seq", rl>>, <<"alt", r1, r2>>, <<"star", r>>, <<"plus", r>>,           *)
(* <<"option", r>>, <<"group", n, r>>, <<"ref", n>>, and the three places.   *)
Single(r) == r[1] \in {"char", "class"}
SetOf(r) == IF r[1] = "char" THEN {r[2]} ELSE r[2]

RECURSIVE is_nullable(_)
is_nullable(r) ==
    CASE r[1] \in {"char", "class"} -> FALSE
      [] r[1] = "string" -> r[2] = <<>>
      [] r[1] = "seq" -> \A k \in DOMAIN r[2] : is_nullable(r[2][k])
      [] r[1] = "alt" -> is_nullable(r[2]) \/ is_nullable(r[3])
      [] r[1] = "plus" -> is_nullable(r[2])
      [] r[1] = "group" -> is_nullable(r[3])
      [] OTHER -> TRUE

RECURSIVE first(_), first_seq(_)
first(r) ==
    CASE Single(r) -> SetOf(r)
      [] r[1] = "string" -> IF r[2] = <<>> THEN Chars ELSE {r[2][1]}
      [] r[1] = "seq" -> first_seq(r[2])
      [] r[1] = "alt" -> first(r[2]) \cup first(r[3])
      [] r[1] = "plus" -> first(r[2])
      [] r[1] = "group" -> first(r[3])
      [] OTHER -> Chars
first_seq(rl) ==
    IF rl = <<>> THEN Chars
    ELSE LET r == rl[1]
         IN CASE r[1] \in {"bol", "eol", "wordboundary"} -> first_seq(Tail(rl))
              [] r[1] \in {"star", "option"} ->
                    first(r[2]) \cup first_seq(Tail(rl))
              [] OTHER -> first(r)

(* The code under construction: instructions <<opcode, argument>>, where the *)
(* argument of a jump is its target, and the registers and groups in use.    *)
emit_instr(c, op, arg) == [c EXCEPT !.prog = Append(@, <<op, arg>>)]
patch_instr(c, pos, op, dest) == [c EXCEPT !.prog[pos] = <<op, dest>>]
Here(c) == Len(c.prog) + 1
UseGroup(c, n) == [c EXCEPT !.numgroups = Max({@, n + 1})]
disjoint_modulo_case(fold, c1, c2) ==
    IF fold THEN fold_case(c1) \cap fold_case(c2) = {} ELSE c1 \cap c2 = {}
ClassOf(fold, r) == IF fold THEN fold_case(SetOf(r)) ELSE SetOf(r)

RECURSIVE emit_code(_, _, _), emit_seq_code(_, _, _)
emit_char(c, fold, ch) ==
    IF fold THEN emit_instr(c, "CHARNORM", lowercase(ch)) ELSE emit_instr(c, "CHAR", ch)
emit_alt(c, fold, r) ==
    LET c1 == emit_code(emit_instr(c, "HOLE", 0), fold, r[2])
        c2 == emit_instr(c1, "HOLE", 0)
        c3 == emit_code(c2, fold, r[3])
    IN patch_instr(patch_instr(c3, Here(c), "PUSHBACK", Here(c2)),
                   Here(c1), "GOTO", Here(c3))
Mark(c, regno, op) == IF regno >= 0 THEN emit_instr(c, op, regno) ELSE c
Register(c, r) == IF is_nullable(r) THEN c.numregs ELSE -1
Allocated(c, r) == IF is_nullable(r) THEN [c EXCEPT !.numregs = @ + 1] ELSE c
emit_star(c, fold, r) ==
    LET reg == Register(c, r)
        c1 == Mark(emit_instr(Allocated(c, r), "HOLE", 0), reg, "SETMARK")
        c2 == Mark(emit_code(c1, fold, r), reg, "CHECKPROGRESS")
        c3 == emit_instr(c2, "GOTO", Here(c))
    IN patch_instr(c3, Here(c), "PUSHBACK", Here(c3))
emit_plus(c, fold, r) ==
    LET reg == Register(c, r)
        c1 == Mark(emit_code(Allocated(c, r), fold, r), reg, "CHECKPROGRESS")
        c2 == Mark(emit_instr(c1, "HOLE", 0), reg, "SETMARK")
        c3 == emit_instr(c2, "GOTO", Here(c))
    IN patch_instr(c3, Here(c1), "PUSHBACK", Here(c3))
emit_option(c, fold, r) ==
    LET c1 == emit_code(emit_instr(c, "HOLE", 0), fold, r)
    IN patch_instr(c1, Here(c), "PUSHBACK", Here(c1))
emit_code(c, fold, r) ==
    CASE r[1] = "char" -> emit_char(c, fold, r[2])
      [] r[1] = "string" ->
            CASE r[2] = <<>> -> c
              [] Len(r[2]) = 1 -> emit_char(c, fold, r[2][1])
              [] OTHER -> IF fold
                          THEN emit_instr(c, "STRINGNORM", [k \in DOMAIN r[2] |-> lowercase(r[2][k])])
                          ELSE emit_instr(c, "STRING", r[2])
      [] r[1] = "class" -> emit_instr(c, "CHARCLASS", ClassOf(fold, r))
      [] r[1] = "seq" -> emit_seq_code(c, fold, r[2])
      [] r[1] = "alt" -> emit_alt(c, fold, r)
      [] r[1] = "star" -> emit_star(c, fold, r[2])
      [] r[1] = "plus" -> emit_plus(c, fold, r[2])
      [] r[1] = "option" -> emit_option(c, fold, r[2])
      [] r[1] = "group" ->
            UseGroup(emit_instr(emit_code(emit_instr(c, "BEGGROUP", r[2]), fold, r[3]),
                                "ENDGROUP", r[2]), r[2])
      [] r[1] = "ref" -> UseGroup(emit_instr(c, "REFGROUP", r[2]), r[2])
      [] r[1] = "bol" -> emit_instr(c, "BOL", 0)
      [] r[1] = "eol" -> emit_instr(c, "EOL", 0)
      [] r[1] = "wordboundary" -> emit_instr(c, "WORDBOUNDARY", 0)
Simple == [star |-> "SIMPLESTAR", plus |-> "SIMPLEPLUS", option |-> "SIMPLEOPT"]
(* A mutant of MayBeSimple: what follows is not looked at.                   *)
AlwaysSimple(fold, rl) ==
    rl[1][1] \in DOMAIN Simple /\ Single(rl[1][2])
(* One character repeated needs no backtracking when what follows cannot     *)
(* begin with it.                                                            *)
MayBeSimple(fold, rl) ==
    /\ rl[1][1] \in DOMAIN Simple
    /\ Single(rl[1][2])
    /\ disjoint_modulo_case(fold, first(rl[1][2]), first_seq(Tail(rl)))
emit_seq_code(c, fold, rl) ==
    IF rl = <<>> THEN c
    ELSE emit_seq_code(IF MayBeSimple(fold, rl)
                       THEN emit_instr(c, Simple[rl[1][1]], ClassOf(fold, rl[1][2]))
                       ELSE emit_code(c, fold, rl[1]),
                       fold, Tail(rl))
compile(fold, r) ==
    LET c == emit_instr(emit_code([prog |-> <<>>, numregs |-> 0, numgroups |-> 1],
                                  fold, r), "ACCEPT", 0)
        start == first(r)
    IN [prog |-> c.prog, numregisters |-> c.numregs, numgroups |-> c.numgroups,
        startchars |-> IF start = Chars THEN {}
                       ELSE IF fold THEN fold_case(start) ELSE start]

------------------------------------------------------------------------------
(* The machine.  txt counts the characters before it; NULL is -1.            *)
Text == job.text
AtEnd == txt = Len(Text)
Ch == Text[txt + 1]
NoGroup == [start |-> -1, end |-> -1]
Op == re.prog[pc][1]
Arg == re.prog[pc][2]
Running(ops) == out = "run" /\ Op \in ops

(* re_match begins at t.                                                     *)
Enter(t) ==
    /\ pc' = 1 /\ txt' = t /\ out' = "run"
    /\ stack' = <<<<>>>>
    /\ groups' = [n \in 0..re.numgroups - 1 |->
                     IF n = 0 THEN [NoGroup EXCEPT !.start = t] ELSE NoGroup]
    /\ re_register' = [n \in 0..re.numregisters - 1 |-> -1]
    /\ UNCHANGED result
Advance(n) ==
    /\ pc' = pc + 1 /\ txt' = txt + n
    /\ UNCHANGED <<job, re, at, stack, groups, re_register, out, result>>
Fail ==
    /\ out' = "back"
    /\ UNCHANGED <<job, re, at, pc, txt, stack, groups, re_register, result>>
(* The groups when the whole expression ends at t.                           *)
re_alloc_groups(t) ==
    [n \in DOMAIN groups |->
        IF n = 0 THEN [groups[n] EXCEPT !.end = t]
        ELSE IF -1 \in {groups[n].start, groups[n].end} THEN NoGroup ELSE groups[n]]
Accept(t) ==
    /\ out' = "found"
    /\ result' = re_alloc_groups(t)
    /\ stack' = <<<<>>>>
    /\ UNCHANGED <<job, re, at, pc, txt, groups, re_register>>
PrefixMatch(t) == IF job.kind = "partial" THEN Accept(t) ELSE Fail

(* A new block when the last one is full.                                    *)
Pushed(back) ==
    IF Len(Last(stack)) = BACKTRACK_STACK_BLOCK_SIZE THEN Append(stack, <<back>>)
    ELSE [stack EXCEPT ![Len(stack)] = Append(@, back)]
Undo(loc, n, val) == [pc |-> 0, txt |-> 0, loc |-> loc, n |-> n, val |-> val]
Point(p) == [pc |-> p, txt |-> txt, loc |-> "none", n |-> 0, val |-> 0]

Matches(c) == CASE Op = "CHAR" -> c = Arg
                [] Op = "CHARNORM" -> lowercase(c) = Arg
                [] OTHER -> c \in Arg
OneChar ==
    /\ Running({"CHAR", "CHARNORM", "CHARCLASS"})
    /\ IF AtEnd THEN PrefixMatch(txt)
       ELSE IF Matches(Ch) THEN Advance(1) ELSE Fail

(* The characters of a string one after the other, up to the first that      *)
(* differs or the end of the text.                                           *)
Compare(s, norm) ==
    LET eq(k) == (IF norm THEN lowercase(Text[txt + k]) ELSE Text[txt + k]) = s[k]
        same == {n \in 0..Len(s) : txt + n <= Len(Text) /\ \A k \in 1..n : eq(k)}
        n == Max(same)
    IN IF n = Len(s) THEN Advance(n)
       ELSE IF txt + n = Len(Text) THEN PrefixMatch(txt + n) ELSE Fail
String ==
    /\ Running({"STRING", "STRINGNORM"})
    /\ Compare(Arg, Op = "STRINGNORM")

Boundary ==
    IF txt = 0 \/ AtEnd
    THEN \/ txt = 0 /\ ~AtEnd /\ Is_word_letter(Ch)
         \/ txt > 0 /\ AtEnd /\ Is_word_letter(Text[txt])
    ELSE Is_word_letter(Text[txt]) # Is_word_letter(Ch)
Place ==
    /\ Running({"BOL", "EOL", "WORDBOUNDARY"})
    /\ IF Op = "WORDBOUNDARY" /\ txt = 0 /\ AtEnd THEN PrefixMatch(txt)
       ELSE IF CASE Op = "BOL" -> (txt > 0 => Text[txt] = "nl")
                 [] Op = "EOL" -> (~AtEnd => Ch = "nl")
                 [] OTHER -> Boundary
            THEN Advance(0) ELSE Fail

Group ==
    /\ Running({"BEGGROUP", "ENDGROUP"})
    /\ LET side == IF Op = "BEGGROUP" THEN "start" ELSE "end"
       IN /\ stack' = Pushed(Undo(side, Arg, groups[Arg][side]))
          /\ groups' = [groups EXCEPT ![Arg][side] = txt]
    /\ pc' = pc + 1
    /\ UNCHANGED <<job, re, at, txt, re_register, out, result>>
RefGroup ==
    /\ Running({"REFGROUP"})
    /\ IF -1 \in {groups[Arg].start, groups[Arg].end} THEN Fail
       ELSE Compare(SubSeq(Text, groups[Arg].start + 1, groups[Arg].end), FALSE)

SimpleLoop ==
    LET run == {n \in 0..Len(Text) - txt : \A k \in 1..n : Text[txt + k] \in Arg}
        n == IF Op = "SIMPLEOPT" THEN Min({1, Max(run)}) ELSE Max(run)
    IN /\ Running({"SIMPLEOPT", "SIMPLESTAR", "SIMPLEPLUS"})
       /\ CASE Op = "SIMPLEPLUS" /\ AtEnd -> PrefixMatch(txt)
            [] Op = "SIMPLEPLUS" /\ ~AtEnd /\ n = 0 -> Fail
            [] OTHER -> Advance(n)

Jump ==
    /\ Running({"GOTO", "PUSHBACK"})
    /\ pc' = IF Op = "GOTO" THEN Arg ELSE pc + 1
    /\ stack' = IF Op = "GOTO" THEN stack ELSE Pushed(Point(Arg))
    /\ UNCHANGED <<job, re, at, txt, groups, re_register, out, result>>
SetMark ==
    /\ Running({"SETMARK"})
    /\ stack' = Pushed(Undo("mark", Arg, re_register[Arg]))
    /\ re_register' = [re_register EXCEPT ![Arg] = txt]
    /\ pc' = pc + 1
    /\ UNCHANGED <<job, re, at, txt, groups, out, result>>
CheckProgress ==
    /\ Running({"CHECKPROGRESS"})
    /\ IF re_register[Arg] = txt THEN Fail ELSE Advance(0)
Success == Running({"ACCEPT"}) /\ Accept(txt)

(* A mutant of Restored: the groups keep their new value.                    *)
RestoredMarks(back) ==
    /\ groups' = groups
    /\ re_register' = IF back.loc = "mark" THEN [re_register EXCEPT ![back.n] = back.val]
                      ELSE re_register
(* One entry is popped: a place to go on from, or an assignment to undo.     *)
Restored(back) ==
    /\ groups' = IF back.loc \in {"start", "end"}
                 THEN [groups EXCEPT ![back.n][back.loc] = back.val] ELSE groups
    /\ re_register' = IF back.loc = "mark" THEN [re_register EXCEPT ![back.n] = back.val]
                      ELSE re_register
Backtrack ==
    LET blocks == IF Last(stack) = <<>> /\ Len(stack) > 1 THEN Front(stack) ELSE stack
        back == Last(Last(blocks))
    IN /\ out = "back" /\ Last(blocks) # <<>>
       /\ stack' = [blocks EXCEPT ![Len(blocks)] = Front(@)]
       /\ Restored(back)
       /\ IF back.loc = "none" THEN pc' = back.pc /\ txt' = back.txt /\ out' = "run"
          ELSE UNCHANGED <<pc, txt, out>>
       /\ UNCHANGED <<job, re, at, result>>

------------------------------------------------------------------------------
(* Where a search looks next from t; none when it is over.                   *)
Start(t) == re.startchars = {} \/ t = Len(Text) \/ Text[t + 1] \in re.startchars
Forward(t) == {p \in t..Len(Text) : p <= Len(Text) /\ Start(p)}
(* Backwards, the character at the end of the text is the final zero byte.   *)
Backward(t) == {p \in 0..t : p = 0 \/ re.startchars = {}
                               \/ (p < Len(Text) /\ Text[p + 1] \in re.startchars)}
NextPlace(t) ==
    CASE job.kind \in {"forward", "replace"} /\ Forward(t) # {} -> Min(Forward(t))
      [] job.kind = "backward" /\ t >= 0 -> Max(Backward(t))
      [] OTHER -> -1
Reject ==
    LET next == NextPlace(IF job.kind = "backward" THEN at - 1 ELSE at + 1)
    IN /\ out = "back" /\ stack = <<<<>>>>
       /\ at' = next
       /\ IF next = -1 THEN out' = "none" /\ UNCHANGED <<pc, txt, stack, groups, re_register, result>>
          ELSE Enter(next)
       /\ UNCHANGED <<job, re>>
Begin ==
    LET place == IF job.kind \in {"match", "partial"} THEN job.pos ELSE NextPlace(job.pos)
    IN /\ out = "begin"
       /\ at' = place
       /\ Enter(place)
       /\ UNCHANGED <<job, re>>

(* re_replacement_text: the first pass counts and checks, the second copies. *)
Part(g) == IF g \notin DOMAIN result THEN <<"fail">>
           ELSE IF result[g].start = -1 THEN <<"fail">>
           ELSE SubSeq(Text, result[g].start + 1, result[g].end)
Digit == [x \in {"0", "1", "2"} |-> CASE x = "0" -> 0 [] x = "1" -> 1 [] OTHER -> 2]
Scanned ==
    FoldLeft(LAMBDA s, c :
                 CASE s.len = -1 -> s
                   [] s.len # -1 /\ ~s.esc /\ c = "\\" -> [s EXCEPT !.esc = TRUE]
                   [] s.len # -1 /\ ~s.esc /\ c # "\\" -> [s EXCEPT !.len = @ + 1]
                   [] OTHER ->
                        [esc |-> FALSE,
                         len |-> CASE c = "\\" -> s.len + 1
                                   [] c \in DOMAIN Digit ->
                                        IF Part(Digit[c]) = <<"fail">> THEN -1
                                        ELSE s.len + result[Digit[c]].end - result[Digit[c]].start
                                   [] OTHER -> s.len + 2],
             [len |-> 0, esc |-> FALSE], job.repl)
Copied ==
    FoldLeft(LAMBDA s, c :
                 CASE ~s.esc /\ c = "\\" -> [s EXCEPT !.esc = TRUE]
                   [] ~s.esc /\ c # "\\" -> [s EXCEPT !.q = Append(@, c)]
                   [] OTHER ->
                        [esc |-> FALSE,
                         q |-> CASE c = "\\" -> Append(s.q, c)
                                 [] c \in DOMAIN Digit -> s.q \o Part(Digit[c])
                                 [] OTHER -> s.q \o <<"\\", c>>],
             [q |-> <<>>, esc |-> FALSE], job.repl).q
re_replacement_text ==
    /\ job.kind = "replace" /\ out = "found"
    /\ result' = IF Scanned.esc \/ Scanned.len = -1 THEN [text |-> <<>>, len |-> -1]
                 ELSE [text |-> Copied, len |-> Scanned.len]
    /\ out' = "replaced"
    /\ UNCHANGED <<job, re, at, pc, txt, stack, groups, re_register>>

Init ==
    /\ job \in Jobs
    /\ re = compile(job.fold, job.syntax)
    /\ at = 0 /\ pc = 0 /\ txt = 0 /\ stack = <<>>
    /\ groups = <<>> /\ re_register = <<>>
    /\ out = "begin" /\ result = <<>>
re_match == \/ OneChar \/ String \/ Place \/ Group \/ RefGroup \/ SimpleLoop
            \/ Jump \/ SetMark \/ CheckProgress \/ Success \/ Backtrack
Next == Begin \/ re_match \/ Reject \/ re_replacement_text
Spec == Init /\ [][Next]_vars

------------------------------------------------------------------------------
(* The reference: all ways to match r from a configuration, best first.      *)
Eq(c, d) == IF job.fold THEN lowercase(c) = lowercase(d) ELSE c = d
RECURSIVE Ways(_, _, _)
Each(r, text, confs) ==
    FoldLeft(LAMBDA acc, c : acc \o Ways(r, text, c), <<>>, confs)
RECURSIVE More(_, _, _)
More(r, text, c) ==
    FoldLeft(LAMBDA acc, d : IF d.at = c.at THEN acc ELSE acc \o More(r, text, d),
             <<>>, Ways(r, text, c)) \o <<c>>
Chars1(text, c, s) ==
    IF c.at < Len(text) /\ (\E d \in s : Eq(d, text[c.at + 1]))
    THEN <<[c EXCEPT !.at = @ + 1]>> ELSE <<>>
Literal(text, c, s, eq) ==
    IF c.at + Len(s) <= Len(text)
       /\ \A k \in DOMAIN s : IF eq THEN s[k] = text[c.at + k] ELSE Eq(s[k], text[c.at + k])
    THEN <<[c EXCEPT !.at = @ + Len(s)]>> ELSE <<>>
Letter(text, k) == k \in DOMAIN text /\ Is_word_letter(text[k])
Ways(r, text, c) ==
    CASE Single(r) -> Chars1(text, c, SetOf(r))
      [] r[1] = "string" -> Literal(text, c, r[2], FALSE)
      [] r[1] = "seq" -> FoldLeft(LAMBDA confs, s : Each(s, text, confs), <<c>>, r[2])
      [] r[1] = "alt" -> Ways(r[2], text, c) \o Ways(r[3], text, c)
      [] r[1] = "option" -> Append(Ways(r[2], text, c), c)
      [] r[1] = "star" -> More(r[2], text, c)
      [] r[1] = "plus" ->
            FoldLeft(LAMBDA acc, d : acc \o More(r[2], text, d), <<>>, Ways(r[2], text, c))
      [] r[1] = "group" ->
            LET inner == Ways(r[3], text, [c EXCEPT !.groups[r[2]].start = c.at])
            IN [k \in DOMAIN inner |->
                   [inner[k] EXCEPT !.groups[r[2]].end = inner[k].at]]
      [] r[1] = "ref" ->
            LET g == c.groups[r[2]]
            IN IF -1 \in {g.start, g.end} THEN <<>>
               ELSE Literal(text, c, SubSeq(text, g.start + 1, g.end), TRUE)
      [] r[1] = "bol" -> IF c.at = 0 \/ text[c.at] = "nl" THEN <<c>> ELSE <<>>
      [] r[1] = "eol" -> IF c.at = Len(text) \/ text[c.at + 1] = "nl" THEN <<c>> ELSE <<>>
      [] r[1] = "wordboundary" ->
            IF Letter(text, c.at) # Letter(text, c.at + 1) THEN <<c>> ELSE <<>>
From(text, p) ==
    Ways(job.syntax, text,
         [at |-> p, groups |-> [n \in 1..re.numgroups - 1 |-> NoGroup]])
Best(p) ==
    LET c == From(Text, p)[1]
    IN [n \in 0..re.numgroups - 1 |->
           IF n = 0 THEN [start |-> p, end |-> c.at]
           ELSE IF -1 \in {c.groups[n].start, c.groups[n].end} THEN NoGroup
           ELSE c.groups[n]]
Found(ps) == {p \in ps : From(Text, p) # <<>>}
Expected ==
    LET ps == Found(CASE job.kind = "match" -> {job.pos}
                      [] job.kind = "backward" -> 0..job.pos
                      [] OTHER -> job.pos..Len(Text))
    IN IF ps = {} THEN <<>>
       ELSE Best(IF job.kind = "backward" THEN Max(ps) ELSE Min(ps))
Finished == out \in {"none", "found"}

(* A match, or a search, finds the first place where the expression matches, *)
(* and there the first of the possible matches, with the groups of that      *)
(* match and no other: no trace is left of the attempts that failed          *)
(* (strstubs.c, "Backtrack to most recent saved program point, undoing       *)
(* variable assignments on the way"), and the shortcuts of the compiler and  *)
(* the start characters of a search lose nothing.                            *)
MatchRight ==
    Finished /\ job.kind # "partial" => result = Expected

(* string_partial_match says yes exactly when some continuation of the text  *)
(* matches (str.mli: "also returns true if the argument string is a prefix   *)
(* of a string that matches").                                               *)
Continued == UNION {[1..n -> {"a", "b", "sp"}] : n \in 0..3}
PartialRight ==
    Finished /\ job.kind = "partial" =>
        (out # "none") = \E more \in Continued : From(Text \o more, job.pos) # <<>>

(* The text of a replacement has the length it was allocated with.           *)
ReplacementFits ==
    out = "replaced" => result.len = -1 \/ Len(result.text) = result.len

(* What str promises of its matches, its partial matches and its             *)
(* replacements: MatchRight, PartialRight and ReplacementFits.               *)
MatcherRight == MatchRight /\ PartialRight /\ ReplacementFits
==============================================================================
