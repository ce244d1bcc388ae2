-------------------------------- MODULE Grep --------------------------------
(* user/grep.c: the buffer that carries an unfinished line from one read to  *)
(* the next, and the matcher it calls on every finished one.                 *)
EXTENDS Integers, Sequences

CONSTANTS
  BUF,        \* sizeof(buf)
  Runs,       \* pairs of a pattern given and the content of a file
  Texts       \* lines the matcher is tried on

NL == "nl"

VARIABLES
  pattern, file,  \* the arguments
  left,           \* bytes of the file not read yet
  buf,            \* buf[0..m): what was read and not yet matched
  out,            \* lines written
  done

gvars == <<pattern, file, left, buf, out, done>>

From(s, i) == SubSeq(s, i, Len(s))
Fits(c, x) == c = "." \/ c = x

(* match, matchhere and matchstar of the source, on suffixes of the strings. *)
RECURSIVE Matchhere(_, _)
Matchstar(c, re, text) ==
  LET RECURSIVE go(_)
      go(t) == Matchhere(re, t) \/ (t # <<>> /\ Fits(c, Head(t)) /\ go(Tail(t)))
  IN go(text)
Matchhere(re, text) ==
  IF re = <<>> THEN TRUE
  ELSE IF Len(re) > 1 /\ re[2] = "*" THEN Matchstar(re[1], From(re, 3), text)
  ELSE IF re = <<"$">> THEN text = <<>>
  ELSE text # <<>> /\ Fits(re[1], text[1]) /\ Matchhere(Tail(re), Tail(text))

Match(re, text) ==
  IF re # <<>> /\ re[1] = "^" THEN Matchhere(Tail(re), text)
  ELSE LET RECURSIVE go(_)
           go(t) == Matchhere(re, t) \/ (t # <<>> /\ go(Tail(t)))
       IN go(text)

GInit ==
  /\ \E r \in Runs : pattern = r[1] /\ file = r[2]
  /\ left = file
  /\ buf = <<>> /\ out = <<>> /\ done = FALSE

(* The inner loop: every line that ends in the buffer is matched, and        *)
(* printed or dropped; what follows the last one moves to the front.         *)
RECURSIVE Scan(_, _)
Rest(b, q) == From(b, q + 1)
Scan(b, printed) ==
  IF \A i \in 1..Len(b) : b[i] # NL THEN [buf |-> b, out |-> printed]
  ELSE LET q == CHOOSE i \in 1..Len(b) : b[i] = NL /\ \A j \in 1..i - 1 : b[j] # NL
           line == SubSeq(b, 1, q - 1)
       IN Scan(Rest(b, q), IF Match(pattern, line) THEN Append(printed, line) ELSE printed)

(* A read returns any number of bytes up to the room left, as a pipe or the  *)
(* console does; with no room, or at the end, it returns 0 and grep stops.   *)
Asked == BUF - Len(buf) - 1
Read ==
  \E n \in 0..Asked :
    /\ n <= Len(left) /\ (n = 0 => Asked = 0 \/ left = <<>>)
    /\ IF n = 0 THEN done' = TRUE /\ UNCHANGED <<left, buf, out>>
       ELSE LET s == Scan(buf \o SubSeq(left, 1, n), out)
            IN left' = From(left, n + 1) /\ buf' = s.buf /\ out' = s.out /\ UNCHANGED done
    /\ UNCHANGED <<pattern, file>>

GNext == ~done /\ Read
GSpec == GInit /\ [][GNext]_gvars

-----------------------------------------------------------------------------
(* What a pattern means, without backtracking: each element of the pattern   *)
(* maps the set of places reached in the text to the next such set.          *)
RECURSIVE Elements(_)
Elements(re) ==
  IF re = <<>> THEN <<>>
  ELSE IF Len(re) > 1 /\ re[2] = "*" THEN <<<<"star", re[1]>>>> \o Elements(From(re, 3))
  ELSE IF re = <<"$">> THEN <<<<"end", "$">>>>
  ELSE <<<<"one", re[1]>>>> \o Elements(Tail(re))

Reached(elem, text, places) ==
  CASE elem[1] = "one" -> {p + 1 : p \in {x \in places : x < Len(text) /\ Fits(elem[2], text[x + 1])}}
    [] elem[1] = "end" -> places \intersect {Len(text)}
    [] elem[1] = "star" -> {q \in 0..Len(text) : \E p \in places :
                              p <= q /\ \A i \in p + 1..q : Fits(elem[2], text[i])}

InLanguage(re, text) ==
  LET anchored == re # <<>> /\ re[1] = "^"
      elems == Elements(IF anchored THEN Tail(re) ELSE re)
      at[i \in 0..Len(elems)] == IF i = 0 THEN IF anchored THEN {0} ELSE 0..Len(text)
                                 ELSE Reached(elems[i], text, at[i - 1])
  IN at[Len(elems)] # {}

RECURSIVE Lines(_)
Lines(s) ==
  IF \A i \in 1..Len(s) : s[i] # NL THEN <<>>
  ELSE LET q == CHOOSE i \in 1..Len(s) : s[i] = NL /\ \A j \in 1..i - 1 : s[j] # NL
       IN <<SubSeq(s, 1, q - 1)>> \o Lines(From(s, q + 1))

(* The backtracking matcher accepts exactly the texts some part of which the *)
(* pattern describes, with ^ $ . * read as grep.c's header says.             *)
MatcherRight == left = file => \A t \in Texts : Match(pattern, t) <=> InLanguage(pattern, t)

(* However the reads cut the file, grep prints the matching lines in order,  *)
(* each once and whole, up to the first line that does not fit the buffer    *)
(* with its newline; a last line with no newline is not looked at.           *)
PrintsMatches ==
  done =>
    LET all == Lines(file)
        long == {i \in 1..Len(all) : Len(all[i]) + 1 > BUF - 1}
        seen == IF long = {} THEN all
                ELSE SubSeq(all, 1, (CHOOSE i \in long : \A j \in long : i <= j) - 1)
    IN out = SelectSeq(seen, LAMBDA t : InLanguage(pattern, t))
=============================================================================
