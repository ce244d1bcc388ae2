-------------------------------- MODULE Quiz --------------------------------
(***************************************************************************)
(* The quiz program (src/user/applications/Automatic Quiz System/          *)
(* main_code.c).  Its memory is the files it leaves between runs, and an   *)
(* action is one run: an instructor's, who types a quiz or has one drawn   *)
(* from the bank of a subject and who may break it off at a prompt, or the *)
(* students'.  A question is a pair; the answer key is a list of tokens,   *)
(* written in one form by each way of making a quiz, and parsed.           *)
(***************************************************************************)
EXTENDS Integers, Sequences, FiniteSets, SequencesExt

CONSTANTS BANK,       \* questions to a subject (25)
          CUT,        \* from this number on, the name of a question's file
                      \* does not fit in 20 characters (10)
          MAXQ,       \* bound: the most questions typed
          Subject, Letter, Students, Seconds,
          MaxRuns     \* bound: runs of the program

VARIABLES files, good, hist, runs

qvars == <<files, good, hist, runs>>

NoQuestion == <<"none", 0>>
Blank == -1                  \* a file of numbers with nothing in it
NoTable == [cols |-> 0, rows |-> <<>>, key |-> <<>>]
Slot == 1 .. MAXQ
Right(q) == IF q[2] % 2 = 0 THEN "a" ELSE "b"     \* the letter after the '$'

\* clear_Quiz_present_folder, with n read from number_of_Questions.txt; n is
\* uninitialized if the file is empty.
Clear(fs, n) ==
  [fs EXCEPT !.present = [i \in Slot |-> IF i <= n /\ i < CUT THEN NoQuestion ELSE @[i]]]
Removes(n) == IF files.nq = Blank THEN TRUE ELSE n = files.nq

\* Answers.txt as inputQuiz and as the generators write it, and as takeQuiz
\* reads it: the first line is skipped, then the letters but for 'A' are kept.
TypedKey(as) ==
  <<"key", "nl">> \o FlattenSeq([i \in DOMAIN as |-> <<"A", "num", as[i], "nl">>])
DrawnKey(qs) ==
  <<"key">> \o FlattenSeq([i \in DOMAIN qs |-> <<"nl", "A", "num", Right(qs[i])>>])

SkipNone(ts) == ts
SkipLine(ts) ==
  LET nl == {i \in DOMAIN ts : ts[i] = "nl"}
      first == CHOOSE i \in nl : \A j \in nl : i <= j
  IN IF nl = {} THEN <<>> ELSE SubSeq(ts, first + 1, Len(ts))
Key(ts) == SelectSeq(SkipLine(ts), LAMBDA x : x \notin {"A", "num", "nl"})

\* The files as the repository has them: a quiz drawn from the IC questions.
QInit ==
  LET qs == [i \in Slot |-> <<"IC", i - 1>>] IN
  /\ files = [quiz |-> TRUE, ans |-> DrawnKey(qs), number |-> 2, time |-> 3, nq |-> MAXQ,
              present |-> qs, result |-> NoTable, csv |-> NoTable]
  /\ good = <<>>
  /\ hist = [marks |-> <<>>, stars |-> {}]
  /\ runs = 0

Ran == runs < MaxRuns /\ runs' = runs + 1

\* inputQuiz: every file is truncated first; n <= 0 ends the run with the
\* heading in Quiz.txt and nothing elsewhere.
Typed(n) == [i \in 1 .. n |-> <<"typed", 10 * runs + i>>]
Placed(fs, qs) ==
  [fs EXCEPT !.present = [i \in Slot |-> IF i \in DOMAIN qs THEN qs[i] ELSE @[i]]]
Truncated(fs) == [fs EXCEPT !.quiz = FALSE, !.ans = <<>>, !.number = Blank, !.time = Blank]

InputQuiz(as, k, sn, sec) ==
  LET n == Len(as)
      fs == [Truncated(Clear(files, k)) EXCEPT !.nq = Blank]
  IN /\ Ran /\ Removes(k)
     /\ IF n = 0
        THEN files' = [fs EXCEPT !.quiz = TRUE] /\ good' = <<>>
        ELSE /\ files' = [Placed(fs, Typed(n)) EXCEPT !.quiz = TRUE, !.nq = n,
                            !.ans = TypedKey(as), !.number = sn, !.time = sec]
             /\ good' = [i \in 1 .. n |-> <<Typed(n)[i], as[i]>>]
     /\ UNCHANGED hist

\* createQuiz: the old questions are gone and the new number of questions is
\* written before the subject is known to be one.
CreateRefused(n, k) ==
  /\ Ran /\ Removes(k)
  /\ files' = IF n \in 1 .. BANK THEN [Clear(files, k) EXCEPT !.nq = n] ELSE Clear(files, k)
  /\ good' = <<>>
  /\ UNCHANGED hist

\* ICQuiz, IBQuiz, IEQuiz and MQuiz: n different questions of the bank.
Drawn(s, n) == {[i \in 1 .. n |-> <<s, d[i]>>] : d \in {f \in [1 .. n -> 0 .. BANK - 1] :
                                                   \A i, j \in 1 .. n : f[i] = f[j] => i = j}}
Generate(s, qs, k, sn, sec) ==
  LET n == Len(qs)
      fs == [Truncated(Clear(files, k)) EXCEPT !.nq = n]
  IN /\ Ran /\ Removes(k)
     /\ files' = [Placed(fs, qs) EXCEPT !.quiz = TRUE, !.ans = DrawnKey(qs),
                                        !.number = sn, !.time = sec]
     /\ good' = [i \in 1 .. n |-> <<qs[i], Right(qs[i])>>]
     /\ UNCHANGED hist

\* The instructor breaks off at a prompt for the students or the time: the
\* questions' files are closed, the others not written yet, but for the start
\* of Quiz.txt if it is long.
GenerateBroken(qs, k, started) ==
  LET fs == [Truncated(Clear(files, k)) EXCEPT !.nq = Len(qs)] IN
  /\ Ran /\ Removes(k)
  /\ files' = [Placed(fs, qs) EXCEPT !.quiz = started]
  /\ good' = <<>>
  /\ UNCHANGED hist

\* A student's row: answered up to the question before which time ran out,
\* with a comma for each of the others.
Missing(m, given) == m - Len(given)
Fields(m, given) == given \o [i \in 1 .. Missing(m, given) |-> ""]
Score(key, given) == Cardinality({i \in DOMAIN given : given[i] = key[i]})
Row(key, given) == [ans |-> Fields(Len(key), given), total |-> Score(key, given)]

\* draw_histogram: from the largest mark down, a star where the table has the
\* row's number, which is then lowered.
Lowered(t, i) == [j \in DOMAIN t |-> IF t[j] = i THEN t[j] - 1 ELSE t[j]]
Large(t) == CHOOSE x \in {t[j] : j \in DOMAIN t} : \A j \in DOMAIN t : t[j] <= x
Stars(marks) ==
  LET line[i \in 0 .. Large(marks), t \in [DOMAIN marks -> -1 .. Large(marks)]] ==
        IF i = 0 THEN {}
        ELSE {<<i, j>> : j \in {j \in DOMAIN t : t[j] = i}} \union line[i - 1, Lowered(t, i)]
  IN line[Large(marks), marks]

\* takeQuiz finds no quiz: Result.txt is truncated nevertheless.
TakeNothing ==
  /\ Ran /\ ~files.quiz
  /\ files' = [files EXCEPT !.result = NoTable]
  /\ UNCHANGED <<good, hist>>

\* A question's file is missing: the program dies at it and what it had written
\* of the result is lost.
Playable == \A i \in DOMAIN Key(files.ans) : i \in Slot /\ files.present[i] # NoQuestion
TakeDies ==
  /\ Ran /\ files.quiz /\ files.number > 0 /\ ~Playable
  /\ files' = [files EXCEPT !.result = NoTable]
  /\ UNCHANGED <<good, hist>>

\* The students take the quiz one after the other; given[s] are the answers of
\* student s.  Then the histogram, and Result.txt is renamed.
TakeQuiz(given) ==
  LET key == Key(files.ans)
      rows == [s \in DOMAIN given |-> Row(key, given[s])]
      marks == [s \in DOMAIN given |-> rows[s].total]
  IN /\ Ran /\ files.quiz /\ files.number > 0 /\ Playable
     /\ \A s \in DOMAIN given : files.time <= 0 => given[s] = <<>>
     /\ files' = [files EXCEPT !.result = NoTable,
                               !.csv = [cols |-> Len(key), rows |-> rows, key |-> key]]
     /\ hist' = [marks |-> marks, stars |-> Stars(marks)]
     /\ UNCHANGED good

Answers(m) == UNION {[1 .. i -> Letter] : i \in 0 .. m}

QNext ==
  \/ \E k \in 0 .. MAXQ, sn \in Students, sec \in Seconds :
       \/ \E as \in Answers(MAXQ) : InputQuiz(as, k, sn, sec)
       \/ \E s \in Subject, n \in 1 .. BANK : \E qs \in Drawn(s, n) : Generate(s, qs, k, sn, sec)
  \/ \E k \in 0 .. MAXQ :
       \/ \E n \in 0 .. BANK : CreateRefused(n, k)
       \/ \E s \in Subject, n \in 1 .. BANK, started \in BOOLEAN :
            \E qs \in Drawn(s, n) : GenerateBroken(qs, k, started)
  \/ TakeNothing
  \/ TakeDies
  \/ /\ files.number > 0
     /\ \E given \in [1 .. files.number -> Answers(Len(Key(files.ans)))] : TakeQuiz(given)

QSpec == QInit /\ [][QNext]_qvars
-----------------------------------------------------------------------------
\* A quiz reported as generated is the one that is taken: question by question
\* the file that is shown and the letter it is marked by are those the
\* instructor gave, or of the same question of the bank, and stay so.
KeyMatchesQuestions ==
  good # <<>> =>
    /\ Len(Key(files.ans)) = Len(good)
    /\ \A i \in DOMAIN good : files.present[i] = good[i][1] /\ Key(files.ans)[i] = good[i][2]

\* Every row of Result.csv has a field for each question of its heading,
\* answered or not, and the total counts the right ones.
RowsComplete ==
  \A s \in DOMAIN files.csv.rows :
    LET r == files.csv.rows[s] IN
    /\ Len(r.ans) = files.csv.cols
    /\ r.total = Cardinality({i \in DOMAIN r.ans : r.ans[i] = files.csv.key[i]})

\* The histogram has in each student's column as many stars as marks, from the
\* bottom up.
HistogramRight ==
  hist.stars = {<<i, j>> \in (1 .. BANK + MAXQ) \X DOMAIN hist.marks : i <= hist.marks[j]}

\* clear_Quiz_present_folder deletes "all the file in Quiz present folder"
\* (main_code.c:24): after a run no question is left of a quiz before the last.
NoOldQuestions ==
  good # <<>> => \A i \in Slot : i > Len(good) => files.present[i] = NoQuestion
=============================================================================
