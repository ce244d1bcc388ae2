-------------------------------- MODULE Calc --------------------------------
(* user/calculator.c: the recursive-descent evaluator and its variables,     *)
(* against the value of the expression that was typed.                       *)
EXTENDS Integers, Sequences

CONSTANTS
  Sessions    \* lines typed: the variable assigned or "none", and the tree

Digit == [d \in {"0", "1", "2", "3", "4", "5", "6", "7", "8", "9"} |->
            CHOOSE n \in 0..9 : <<"0", "1", "2", "3", "4", "5", "6", "7", "8", "9">>[n + 1] = d]
Letter == {"a", "b"}

VARIABLES
  vars,       \* vars[]
  session, asked, \* the lines to type, and how many were
  answer      \* the value printed for the last one

kvars == <<vars, session, asked, answer>>

(* C's quotient and remainder, which round toward zero.                      *)
Abs(x) == IF x < 0 THEN -x ELSE x
Quot(x, d) == LET q == Abs(x) \div Abs(d) IN IF (x < 0) = (d < 0) THEN q ELSE -q
Rem(x, d) == x - d * Quot(x, d)

(* Each parsing function takes the line and the place reached, and returns   *)
(* its value and the new place. A blank is skipped wherever the code does.   *)
At(s, i) == IF i <= Len(s) THEN s[i] ELSE "nul"
RECURSIVE Skip(_, _)
Skip(s, i) == IF At(s, i) = " " THEN Skip(s, i + 1) ELSE i
To(v, i) == [v |-> v, i |-> i]

RECURSIVE Expr(_, _), Factor(_, _), TermRest(_, _), Number(_, _)
Number(s, r) ==
  IF At(s, r.i) \in DOMAIN Digit THEN Number(s, To(r.v * 10 + Digit[At(s, r.i)], r.i + 1)) ELSE r

Factor(s, i0) ==
  LET i == Skip(s, i0)
      r == CASE At(s, i) = "(" -> LET e == Expr(s, i + 1)
                                      j == Skip(s, e.i)
                                  IN To(e.v, IF At(s, j) = ")" THEN j + 1 ELSE j)
             [] At(s, i) \in Letter -> To(vars[At(s, i)], i + 1)
             [] At(s, i) \in DOMAIN Digit -> Number(s, To(0, i))
             [] At(s, i) = "-" -> LET f == Factor(s, i + 1) IN To(-f.v, f.i)
             [] OTHER -> To(0, i)
  IN To(r.v, Skip(s, r.i))

(* A divisor of zero ends the whole term with 0 where it stands.             *)
TermRest(s, r) ==
  LET i == Skip(s, r.i)
      f == Factor(s, i + 1)
  IN CASE At(s, i) = "*" -> TermRest(s, To(r.v * f.v, f.i))
       [] At(s, i) \in {"/", "%"} /\ f.v = 0 -> To(0, f.i)
       [] At(s, i) = "/" /\ f.v # 0 -> TermRest(s, To(Quot(r.v, f.v), f.i))
       [] At(s, i) = "%" /\ f.v # 0 -> TermRest(s, To(Rem(r.v, f.v), f.i))
       [] OTHER -> To(r.v, i)
Term(s, i) == TermRest(s, Factor(s, i))

RECURSIVE ExprRest(_, _)
TermAfter(s, i) == Term(s, i)
ExprRest(s, r) ==
  LET i == Skip(s, r.i)
      t == TermAfter(s, i + 1)
  IN CASE At(s, i) = "+" -> ExprRest(s, To(r.v + t.v, t.i))
       [] At(s, i) = "-" -> ExprRest(s, To(r.v - t.v, t.i))
       [] OTHER -> To(r.v, i)
Expr(s, i) == ExprRest(s, Term(s, i))

(* evaluate: a leading letter followed by = is where the result goes.        *)
Evaluate(s) ==
  LET p == Skip(s, 1)
      q == Skip(s, p + 1)
      stores == At(s, p) \in Letter /\ At(s, q) = "="
      result == Expr(s, IF stores THEN q + 1 ELSE p).v
  IN /\ answer' = result
     /\ vars' = IF stores THEN [vars EXCEPT ![At(s, p)] = result] ELSE vars

-----------------------------------------------------------------------------
(* How a user writes a tree: only the parentheses the precedence needs, with *)
(* blanks around an operator or without.                                     *)
Level(e) == CASE e.op \in {"+", "-"} -> 1 [] e.op \in {"*", "/", "%"} -> 2 [] OTHER -> 3
RECURSIVE Written(_, _)
Within(e, least, gap) ==
  IF Level(e) < least THEN <<"(">> \o Written(e, gap) \o <<")">> ELSE Written(e, gap)
Written(e, gap) ==
  CASE e.op \in {"num", "var"} -> e.text
    [] e.op = "neg" -> <<"-">> \o Within(e.of, 3, gap)
    [] OTHER -> Within(e.l, Level(e), gap) \o gap \o <<e.op>> \o gap \o Within(e.r, Level(e) + 1, gap)

(* The value of a tree under an assignment, if it divides by none.  *)
RECURSIVE Value(_, _)
Value(e, env) ==
  CASE e.op = "num" -> To(TRUE, e.value)
    [] e.op = "var" -> To(TRUE, env[e.text[1]])
    [] e.op = "neg" -> LET v == Value(e.of, env) IN To(v.v, -v.i)
    [] OTHER -> LET l == Value(e.l, env)
                    r == Value(e.r, env)
                IN IF ~(l.v /\ r.v) \/ (e.op \in {"/", "%"} /\ r.i = 0) THEN To(FALSE, 0)
                   ELSE To(TRUE, CASE e.op = "+" -> l.i + r.i [] e.op = "-" -> l.i - r.i
                                   [] e.op = "*" -> l.i * r.i [] e.op = "/" -> Quot(l.i, r.i)
                                   [] e.op = "%" -> Rem(l.i, r.i))

KInit == vars = [x \in Letter |-> 0] /\ session \in Sessions /\ asked = 0 /\ answer = 0

(* One round of main's loop.                                                 *)
Typed ==
  /\ asked < Len(session)
  /\ asked' = asked + 1
  /\ LET n == session[asked + 1]
     IN \E gap \in {<<>>, <<" ">>} :
          Evaluate(gap \o (IF n.to = "none" THEN <<>> ELSE <<n.to>> \o gap \o <<"=">>) \o Written(n.e, gap))
  /\ UNCHANGED session

KNext == Typed
KSpec == KInit /\ [][KNext]_kvars

(* The assignment the lines typed make, by the values of their trees; a line *)
(* that divides by zero leaves a value no claim is made about.               *)
RECURSIVE Env(_)
Env(lines) ==
  IF lines = <<>> THEN [env |-> [x \in Letter |-> 0], ok |-> TRUE, last |-> 0]
  ELSE LET b == Env(SubSeq(lines, 1, Len(lines) - 1))
           n == lines[Len(lines)]
           v == Value(n.e, b.env)
       IN [env |-> IF n.to = "none" THEN b.env ELSE [b.env EXCEPT ![n.to] = v.i],
           ok |-> b.ok /\ v.v, last |-> v.i]

-----------------------------------------------------------------------------
(* The calculator prints the value of the expression typed, with C's         *)
(* precedence, left association and rounding, and its variables hold what    *)
(* the lines before assigned, as long as nothing was divided by zero.        *)
AnswersRight == LET e == Env(SubSeq(session, 1, asked)) IN e.ok => answer = e.last /\ vars = e.env
=============================================================================
