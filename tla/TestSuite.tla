----------------------------- MODULE TestSuite -----------------------------
(***************************************************************************)
(* Suites of tests, src/cf_test/cf_test.c.  A suite holds tests and other  *)
(* suites; running it runs them in order, adds up the failures and writes  *)
(* a report.  A failed assertion jumps out of its test.  The marks and     *)
(* counts of an earlier run are never reset, and the number of tests of a  *)
(* suite is added to the suite around it when it is put there.             *)
(***************************************************************************)
EXTENDS Naturals, Sequences, FiniteSets, SequencesExt, FiniteSetsExt

CONSTANTS Tests, Suites,
          MaxAsserts,    \* assertions per test,
          MaxList,       \* entries per suite, fewer than MAX_TEST_CASES, and
          MaxRuns        \* runs of a suite by the program: bounds of the model

VARIABLES list, count, failCount,
          failed,    \* the tests that are marked
          reports,   \* per suite what its last report says, <<>> before
          stack,     \* the suites that run, with the entry each has come to
          asserts,   \* the assertions the test has passed
          ran,       \* the tests that ran in this run of the program's suite
          runs,
          late       \* something was put into a suite that was in another one

vars == <<list, count, failCount, failed, reports, stack, asserts, ran, runs, late>>

Init == /\ list = [s \in Suites |-> <<>>]
        /\ count = [s \in Suites |-> 0] /\ failCount = [s \in Suites |-> 0]
        /\ failed = {} /\ reports = [s \in Suites |-> <<>>]
        /\ stack = <<>> /\ asserts = 0 /\ ran = <<>> /\ runs = 0 /\ late = FALSE

Listed == UNION {ToSet(list[s]) : s \in Suites}

AddTest(s, t) == /\ stack = <<>> /\ t \notin Listed /\ Len(list[s]) < MaxList
                 /\ list' = [list EXCEPT ![s] = Append(@, t)]
                 /\ count' = [count EXCEPT ![s] = @ + 1]
                 /\ late' = (late \/ s \in Listed)
                 /\ UNCHANGED <<failCount, failed, reports, stack, asserts, ran, runs>>

AddSuite(s, u) == /\ stack = <<>> /\ u \notin Listed /\ u > s /\ Len(list[s]) < MaxList
                  /\ list' = [list EXCEPT ![s] = Append(@, u)]
                  /\ count' = [count EXCEPT ![s] = @ + count[u]]
                  /\ late' = (late \/ s \in Listed)
                  /\ UNCHANGED <<failCount, failed, reports, stack, asserts, ran, runs>>

\* cf_suite_run of a suite that is in no other.
Run(s) == /\ stack = <<>> /\ s \notin Listed /\ runs < MaxRuns
          /\ stack' = <<[suite |-> s, entry |-> 1]>>
          /\ ran' = <<>> /\ runs' = runs + 1
          /\ UNCHANGED <<list, count, failCount, failed, reports, asserts, late>>

Top == stack[Len(stack)]
Over == Top.entry > Len(list[Top.suite])
Entry == list[Top.suite][Top.entry]

Advance(st) == [st EXCEPT ![Len(st)].entry = @ + 1]

InTest == stack # <<>> /\ ~Over /\ Entry \in Tests

\* An assertion that holds.
Pass == /\ InTest /\ asserts < MaxAsserts
        /\ asserts' = asserts + 1
        /\ UNCHANGED <<list, count, failCount, failed, reports, stack, ran, runs, late>>

\* The test has returned or an assertion of it has failed; a mark of an earlier
\* run counts as well.
Marks(t, fails) == IF fails THEN failed \cup {t} ELSE failed

EndTest(fails) ==
  /\ InTest
  /\ failed' = Marks(Entry, fails)
  /\ failCount' = IF Entry \in failed' THEN [failCount EXCEPT ![Top.suite] = @ + 1]
                  ELSE failCount
  /\ ran' = Append(ran, Entry) /\ asserts' = 0
  /\ stack' = Advance(stack)
  /\ UNCHANGED <<list, count, reports, runs, late>>

Enter == /\ stack # <<>> /\ ~Over /\ Entry \in Suites
         /\ stack' = Append(stack, [suite |-> Entry, entry |-> 1])
         /\ UNCHANGED <<list, count, failCount, failed, reports, asserts, ran, runs, late>>

\* _cf_suite_statistical: a mark for each test, or the summary of a suite; the
\* messages of the marked tests, those of a suite if it counts failures.
Report(s) ==
  [summary |-> FlattenSeq([i \in DOMAIN list[s] |-> LET e == list[s][i] IN
                 IF e \in Suites THEN reports[e].summary
                 ELSE IF e \in failed THEN <<"F">> ELSE <<".">>]),
   lines |-> FlattenSeq([i \in DOMAIN list[s] |-> LET e == list[s][i] IN
                 IF e \in Suites
                 THEN IF failCount[e] > 0 THEN reports[e].lines ELSE <<>>
                 ELSE IF e \in failed THEN <<e>> ELSE <<>>]),
   runs |-> count[s], fails |-> failCount[s]]

\* What a suite counts is added to the suite around it.
CountedOnce(s, around) == failCount[around] + 1
Counted(s, around) == failCount[around] + failCount[s]

Leave == LET s == Top.suite
             rest == Front(stack)
         IN /\ stack # <<>> /\ Over
            /\ reports' = [reports EXCEPT ![s] = Report(s)]
            /\ IF rest = <<>> THEN stack' = <<>> /\ UNCHANGED failCount
               ELSE /\ stack' = Advance(rest)
                    /\ failCount' = [failCount EXCEPT ![Last(rest).suite] =
                                       Counted(s, Last(rest).suite)]
            /\ UNCHANGED <<list, count, failed, asserts, ran, runs, late>>

Next == \/ Pass \/ Enter \/ Leave
        \/ \E fails \in BOOLEAN : EndTest(fails)
        \/ \E s \in Suites : \/ Run(s)
                             \/ \E t \in Tests : AddTest(s, t)
                             \/ \E u \in Suites : AddSuite(s, u)

Spec == Init /\ [][Next]_vars

-----------------------------------------------------------------------------
\* The tests of a suite, in the order in which they run.
Below[s \in Suites] ==
  FlattenSeq([i \in DOMAIN list[s] |->
    IF list[s][i] \in Suites THEN Below[list[s][i]] ELSE <<list[s][i]>>])

\* When the outer suite ends, its report is of what ran.
RunEndsWell ==
  stack # <<>> /\ stack' = <<>> =>
    LET top == stack[1].suite
        report == reports'[top]
    IN /\ ran = Below[top]
       /\ report.summary = [i \in DOMAIN ran |-> IF ran[i] \in failed THEN "F" ELSE "."]
       /\ report.lines = FlattenSeq([i \in DOMAIN ran |->
                                       IF ran[i] \in failed THEN <<ran[i]>> ELSE <<>>])
       /\ runs = 1 => report.fails = Len(report.lines)
       /\ report.fails >= Len(report.lines)
       /\ ~late => report.runs = Len(ran)

\* Whichever tests fail and however suites are nested, a run runs every test once
\* and in order; its report has a mark for each and names those that failed, in
\* order, and counts them if nothing was run before; the number of tests is right
\* if suites were complete when they were put into others.
ReportsWhatRan == [][RunEndsWell]_vars
=============================================================================
