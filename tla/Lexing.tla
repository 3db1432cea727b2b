------------------------------ MODULE Lexing ------------------------------
(* The automata of generated lexers (runtime/lexing.c) over a buffer that is *)
(* refilled in pieces (stdlib/lexing.ml).  Positions in the buffer move when *)
(* it is refilled in the middle of a token.                                  *)
EXTENDS Integers, Sequences, SequencesExt, FiniteSets, FiniteSetsExt

CONSTANTS Texts, Engines,       \* inputs; {"lex", "new_lex"}
          Pieces,               \* sizes of what one read may give
          BufferSize,           \* initial length of the buffer
          Tables                \* the tables of the automaton

VARIABLES text, engine,
          given,        \* how much of the text was read
          buf,          \* the valid data of lex_buffer
          size,         \* Bytes.length lex_buffer
          abs_pos, start_pos, curr_pos, last_pos, last_action, eof_reached, mem,
          state,        \* of the automaton; a refill is under way when < 0
          pc, token,    \* what the last call returned
          before        \* the absolute position it started from
positions == <<abs_pos, start_pos, curr_pos, last_pos>>
vars == <<text, engine, given, buf, size, positions, last_action, eof_reached,
          mem, state, pc, token, before>>

EOF == Tables.eof
NoPos == -1

------------------------------------------------------------------------------
(* run_mem and run_tag: a list of moves between the cells; a move from no    *)
(* cell stores the position given.                                           *)
Moves(code, m, pos) ==
    FoldLeft(LAMBDA acc, mv : [acc EXCEPT ![mv.dst] = IF mv.src = -1 THEN pos ELSE acc[mv.src]],
             m, code)
run_mem(code, m, pos) == Moves(code, m, pos)
run_tag(code, m) == Moves(code, m, NoPos)

Base == Tables.base[state]
Backtrk == Tables.backtrk[state]
NextState(c) == IF Base + c \in DOMAIN Tables.check /\ Tables.check[Base + c] = state
                THEN Tables.trans[Base + c] ELSE Tables.default[state]
CodeFor(c) == IF Base + c \in DOMAIN Tables.check /\ Tables.check[Base + c] = state
              THEN Tables.trans_code[Base + c] ELSE Tables.default_code[state]

(* A lexer rule is entered: the first entry of the engine.                   *)
Call ==
    /\ pc = "idle"
    /\ start_pos' = curr_pos /\ last_pos' = curr_pos
    /\ last_action' = -1
    /\ mem' = [k \in DOMAIN mem |-> NoPos]
    /\ state' = 0 /\ pc' = "run"
    /\ before' = abs_pos + curr_pos
    /\ UNCHANGED <<text, engine, given, buf, size, abs_pos, curr_pos, eof_reached, token>>

Returned(action) ==
    /\ token' = action
    /\ pc' = "returned"
(* The state has an action of its own.                                       *)
PerformAction ==
    /\ pc = "run" /\ Base < 0
    /\ mem' = IF engine = "new_lex" THEN run_tag(Tables.base_code[state], mem) ELSE mem
    /\ Returned(-Base - 1)
    /\ UNCHANGED <<text, engine, given, buf, size, positions, last_action,
                   eof_reached, state, before>>

(* One character: the backtrack point, the need for a refill, the            *)
(* transition, and the way back to the last backtrack point.                 *)
(* A mutant of Marked: a backtrack point forgets the cells.                  *)
MarkedOnly == mem
Marked == IF Backtrk >= 0 /\ engine = "new_lex"
          THEN run_tag(Tables.backtrk_code[state], mem) ELSE mem
LastPos == IF Backtrk >= 0 THEN curr_pos ELSE last_pos
LastAction == IF Backtrk >= 0 THEN Backtrk ELSE last_action
AtEnd == curr_pos >= Len(buf)
NeedRefill ==
    /\ pc = "run" /\ Base >= 0
    /\ AtEnd /\ ~eof_reached
    /\ mem' = Marked /\ last_pos' = LastPos /\ last_action' = LastAction
    /\ pc' = "refill"
    /\ UNCHANGED <<text, engine, given, buf, size, abs_pos, start_pos, curr_pos,
                   eof_reached, state, token, before>>
Char == IF AtEnd THEN EOF ELSE buf[curr_pos + 1]
Pos == IF AtEnd THEN curr_pos ELSE curr_pos + 1
Transition ==
    /\ pc = "run" /\ Base >= 0
    /\ AtEnd => eof_reached
    /\ NextState(Char) >= 0
    /\ state' = NextState(Char)
    /\ curr_pos' = Pos /\ last_pos' = LastPos /\ last_action' = LastAction
    /\ mem' = IF engine = "new_lex" THEN run_mem(CodeFor(Char), Marked, Pos) ELSE mem
    /\ eof_reached' = (eof_reached /\ Char # EOF)
    /\ UNCHANGED <<text, engine, given, buf, size, abs_pos, start_pos, pc, token, before>>
NoTransition ==
    /\ pc = "run" /\ Base >= 0
    /\ AtEnd => eof_reached
    /\ NextState(Char) < 0
    /\ mem' = Marked
    /\ curr_pos' = LastPos /\ last_pos' = LastPos /\ last_action' = LastAction
    /\ Returned(LastAction)
    /\ UNCHANGED <<text, engine, given, buf, size, abs_pos, start_pos, eof_reached,
                   state, before>>

------------------------------------------------------------------------------
Shifted(s) == [k \in DOMAIN mem |-> IF mem[k] >= 0 THEN mem[k] - s ELSE mem[k]]
Read(n) == SubSeq(text, given + 1, given + n)
lex_refill ==
    /\ pc = "refill"
    /\ \E n \in IF given = Len(text) THEN {0} ELSE Pieces :
           LET room == Len(buf) + n <= size
               keep == Len(buf) - start_pos + n <= size
               s == IF room THEN 0 ELSE start_pos
           IN /\ given + n <= Len(text)
              /\ given' = given + n
              /\ eof_reached' = (n = 0 \/ eof_reached)
              /\ size' = IF room \/ keep THEN size ELSE 2 * size
              /\ buf' = SubSeq(buf, s + 1, Len(buf)) \o Read(n)
              /\ abs_pos' = abs_pos + s
              /\ start_pos' = start_pos - s
              /\ curr_pos' = curr_pos - s
              /\ last_pos' = last_pos - s
              /\ mem' = IF room THEN mem ELSE Shifted(s)
    /\ pc' = "run"
    /\ UNCHANGED <<text, engine, last_action, state, token, before>>

(* The rule's action is done; the next token is asked for unless the input   *)
(* is at its end or no rule matched.                                         *)
Again ==
    /\ pc = "returned"
    /\ token \notin {-1, Tables.last}
    /\ pc' = "idle"
    /\ UNCHANGED <<text, engine, given, buf, size, positions, last_action,
                   eof_reached, mem, state, token, before>>

Init ==
    /\ text \in Texts /\ engine \in Engines
    /\ given = 0 /\ buf = <<>> /\ size = BufferSize
    /\ abs_pos = 0 /\ start_pos = 0 /\ curr_pos = 0 /\ last_pos = 0
    /\ last_action = 0 /\ eof_reached = FALSE
    /\ mem = [k \in 0..1 |-> NoPos]
    /\ state = 0 /\ pc = "idle" /\ token = 0 /\ before = 0
Next == Call \/ PerformAction \/ NeedRefill \/ Transition \/ NoTransition
        \/ lex_refill \/ Again
Spec == Init /\ [][Next]_vars

------------------------------------------------------------------------------
(* The same automaton on the whole input: the state and the cells after n    *)
(* characters from p, and the longest prefix that a rule accepts.            *)
Step(c, ch) ==
    IF c.state < 0 \/ Tables.base[c.state] < 0 THEN [c EXCEPT !.state = -1]
    ELSE [state |-> Tables.next[c.state][ch],
          at |-> IF ch = EOF THEN c.at ELSE c.at + 1,
          cell |-> IF ch \in {1, 2} THEN c.at + 1 ELSE c.cell]
After(p, n) ==
    LET input == SubSeq(text, p + 1, Len(text)) \o <<EOF>>
    IN FoldLeft(Step, [state |-> 0, at |-> p, cell |-> NoPos], SubSeq(input, 1, n))
Accepts(c) ==
    IF c.state < 0 THEN -1
    ELSE IF Tables.base[c.state] < 0 THEN -Tables.base[c.state] - 1
    ELSE Tables.backtrk[c.state]
Lengths(p) == {n \in 1..Len(text) - p + 1 : Accepts(After(p, n)) >= 0}

(* A token is the longest prefix of the input that a rule accepts, its text  *)
(* and the positions bound in it are those of the input, and none of it      *)
(* depends on how the input was cut into pieces when the buffer was          *)
(* refilled, shifted or grown in the middle of the token.                    *)
LexedRight ==
    pc = "returned" =>
        LET best == After(before, Max(Lengths(before)))
        IN IF Lengths(before) = {} THEN token = -1 /\ abs_pos + curr_pos = before
           ELSE /\ token = Accepts(best)
                /\ abs_pos + start_pos = before
                /\ abs_pos + curr_pos = best.at
                /\ SubSeq(buf, start_pos + 1, curr_pos) = SubSeq(text, before + 1, best.at)
                /\ engine = "new_lex" /\ token = 1 => abs_pos + mem[1] = best.cell
=============================================================================
