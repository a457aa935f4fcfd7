--------------------------- MODULE PromiseProofs ---------------------------
(***************************************************************************)
(* RunLifecycle implements SuiteAttempts, for every set of suites,         *)
(* allowances, handlers, cancellations and faults.                         *)
(*                                                                         *)
(* Most steps touch nothing the submitter sees; the others are one step of *)
(* SuiteAttempts each.  What has to be known beyond the invariants of      *)
(* RunLifecycleProofs is that a suite that was submitted has a newest      *)
(* attempt, that runs not in the store have said nothing, and that nobody  *)
(* cancels a regression that does not exist (Seen).                        *)
(***************************************************************************)
EXTENDS RunLifecycleProofs

HasNewest == \A s \in Suites : RunsOf(s) # {} => Newest(s) # {}
Silent    == \A r \in RunIds : r \notin Born => said[r] = {}
Answers   == \A c \in Clients : client[c].pc # "idle" => reg # "none"

Seen == OneDebtAtATime /\ HasNewest /\ Silent /\ Answers

PromiseVars == <<NewestAttempt, NewestStates, Owed, Reported, reg>>

\* A step of SuiteAttempts, or none.
Follows == Promise!Next \/ UNCHANGED PromiseVars

-----------------------------------------------------------------------------
(* What the variables of SuiteAttempts say *)

AttemptsRead ==
  /\ NewestAttempt = [s \in Suites |-> NewestAttempt[s]]
  /\ \A s \in Suites : /\ RunsOf(s) = {} => NewestAttempt[s] = 0
                       /\ \A m \in Newest(s) : /\ m \in Born /\ run[m].attempt \in Nat \ {0}
                                               /\ NewestAttempt[s] = run[m].attempt

StatesRead ==
  /\ NewestStates = [s \in Suites |-> NewestStates[s]]
  /\ \A s \in Suites :
       /\ NewestStates[s] \subseteq {"over", "open"}
       /\ "over" \in NewestStates[s] <=> \E r \in Newest(s) : Terminal(run[r].state)
       /\ "open" \in NewestStates[s] <=> \E r \in Newest(s) : ~Terminal(run[r].state)

OwedRead ==
  /\ Owed = [s \in Suites |-> Owed[s]]
  /\ \A s \in Suites : \A k :
       k \in Owed[s] <=> \E t \in Finishers : retry[t] \in RunsOf(s) /\ run[retry[t]].attempt = k

ReportedRead ==
  /\ Reported = [s \in Suites |-> Reported[s]]
  /\ \A s \in Suites : \A x : x \in Reported[s] <=> \E r \in RunsOf(s) : x \in said[r]

LEMMA ReadAttempts == Known => AttemptsRead
<1>1. NewestAttempt = [s \in Suites |-> NewestAttempt[s]]
  BY DEF NewestAttempt
<1>2. ASSUME NEW s \in Suites, RunsOf(s) = {} PROVE NewestAttempt[s] = 0
  BY <1>2 DEF NewestAttempt
<1>3. ASSUME Known, NEW s \in Suites, NEW m \in Newest(s)
      PROVE  m \in Born /\ run[m].attempt \in Nat \ {0} /\ NewestAttempt[s] = run[m].attempt
  <2>1. PICK r \in Newest(s) : r = CHOOSE q \in Newest(s) : TRUE
    OBVIOUS
  <2>2. /\ r \in RunsOf(s) /\ m \in RunsOf(s)
        /\ run[r].attempt <= run[m].attempt /\ run[m].attempt <= run[r].attempt
    BY DEF Newest
  <2>3. r \in Born /\ m \in Born
    BY <2>2 DEF RunsOf
  <2>4. run[m].attempt \in Nat \ {0} /\ run[r].attempt \in Nat \ {0}
    BY <1>3, <2>3, BornRun DEF Known, Run
  <2>5. NewestAttempt[s] = run[r].attempt
    BY <2>1, <2>2 DEF NewestAttempt
  <2>. QED BY <2>2, <2>3, <2>4, <2>5
<1>. QED BY <1>1, <1>2, <1>3 DEF AttemptsRead

LEMMA ReadStates == StatesRead
<1>1. NewestStates = [s \in Suites |-> NewestStates[s]]
  BY DEF NewestStates
<1>2. ASSUME NEW s \in Suites
      PROVE  /\ NewestStates[s] \subseteq {"over", "open"}
             /\ "over" \in NewestStates[s] <=> \E r \in Newest(s) : Terminal(run[r].state)
             /\ "open" \in NewestStates[s] <=> \E r \in Newest(s) : ~Terminal(run[r].state)
  <2>1. NewestStates[s] = {IF Terminal(run[r].state) THEN "over" ELSE "open" : r \in Newest(s)}
    BY DEF NewestStates
  <2>. QED BY <2>1
<1>. QED BY <1>1, <1>2 DEF StatesRead

LEMMA ReadOwed == OwedRead
<1>1. Owed = [s \in Suites |-> Owed[s]]
  BY DEF Owed
<1>2. ASSUME NEW s \in Suites, NEW k
      PROVE  k \in Owed[s] <=>
               \E t \in Finishers : retry[t] \in RunsOf(s) /\ run[retry[t]].attempt = k
  BY DEF Owed, OwedBy
<1>. QED BY <1>1, <1>2 DEF OwedRead

LEMMA ReadReported == ReportedRead
<1>1. Reported = [s \in Suites |-> Reported[s]]
  BY DEF Reported
<1>2. ASSUME NEW s \in Suites, NEW x
      PROVE  x \in Reported[s] <=> \E r \in RunsOf(s) : x \in said[r]
  BY DEF Reported
<1>. QED BY <1>1, <1>2 DEF ReportedRead

\* Before and after a step.
LEMMA Readings ==
  ASSUME Known, [Next]_vars
  PROVE  /\ AttemptsRead /\ StatesRead /\ OwedRead /\ ReportedRead
         /\ AttemptsRead' /\ StatesRead' /\ OwedRead' /\ ReportedRead'
<1>1. (Known => AttemptsRead)' /\ StatesRead' /\ OwedRead' /\ ReportedRead'
  BY ReadAttempts, ReadStates, ReadOwed, ReadReported, PTL
<1>2. Known'
  BY NextKnown
<1>. QED BY <1>1, <1>2, ReadAttempts, ReadStates, ReadOwed, ReadReported

-----------------------------------------------------------------------------
(* The runs of a suite, from step to step *)

LEMMA SameRuns ==
  ASSUME Known, Born' = Born, \A q \in Born : SameIdentity(q), NEW s \in Suites
  PROVE  RunsOf(s)' = RunsOf(s) /\ Newest(s)' = Newest(s)
<1>1. RunsOf(s)' = RunsOf(s)
  BY DEF RunsOf, SameIdentity
<1>2. \A q \in RunsOf(s) : run'[q].attempt = run[q].attempt
  BY DEF RunsOf, SameIdentity
<1>. QED BY <1>1, <1>2 DEF Newest

LEMMA Submitted ==
  ASSUME Known, Submit, NEW s \in Suites
  PROVE  /\ Born = {} /\ RunsOf(s)' # {}
         /\ \A r \in RunsOf(s)' : run'[r].attempt = 1 /\ run'[r].state = "queued"
         /\ Newest(s)' = RunsOf(s)'
<1>1. PICK first \in [Suites -> RunIds] :
        /\ \A u, w \in Suites : first[u] = first[w] => u = w
        /\ run' = [r \in RunIds |-> IF \E u \in Suites : first[u] = r
                                    THEN NewRun(CHOOSE u \in Suites : first[u] = r, 1)
                                    ELSE Unborn]
  BY DEF Submit
<1>2. Born = {}
  BY DEF Submit, Known, KnownRuns
<1>3. ASSUME NEW r \in RunIds, NEW u \in Suites, first[u] = r PROVE run'[r] = NewRun(u, 1)
  <2>1. (CHOOSE w \in Suites : first[w] = r) = u
    BY <1>1, <1>3
  <2>. QED BY <1>1, <1>3, <2>1
<1>4. first[s] \in RunsOf(s)'
  <2>1. run'[first[s]] = NewRun(s, 1) /\ first[s] \in RunIds
    BY <1>3
  <2>2. NewRun(s, 1) # Unborn /\ NewRun(s, 1).suite = s
    BY NewRunTyped, RunNotUnborn DEF NewRun
  <2>. QED BY <2>1, <2>2 DEF RunsOf, Born
<1>5. \A r \in RunsOf(s)' : run'[r].attempt = 1 /\ run'[r].state = "queued"
  <2>. SUFFICES ASSUME NEW r \in RunsOf(s)'
                PROVE  run'[r].attempt = 1 /\ run'[r].state = "queued"
    OBVIOUS
  <2>1. r \in RunIds /\ run'[r] # Unborn
    BY DEF RunsOf, Born
  <2>2. PICK u \in Suites : first[u] = r
    BY <1>1, <2>1
  <2>3. run'[r] = NewRun(u, 1)
    BY <1>3, <2>1, <2>2
  <2>. QED BY <2>3 DEF NewRun
<1>6. Newest(s)' = RunsOf(s)'
  BY <1>5 DEF Newest
<1>. QED BY <1>2, <1>4, <1>5, <1>6

\* One more run of the suite, and nothing else.
LEMMA Minted ==
  ASSUME Known, NEW t \in Finishers, QueueRetry(t)
  PROVE  \E n \in RunIds \ Born :
           /\ run'[n] = NewRun(run[retry[t]].suite, run[retry[t]].attempt + 1)
           /\ Born' = Born \union {n} /\ \A q \in Born : run'[q] = run[q]
           /\ \A s \in Suites :
                RunsOf(s)' = IF s = run[retry[t]].suite THEN RunsOf(s) \union {n} ELSE RunsOf(s)
<1>1. retry[t] \in Born
  BY QueueRetryKnown
<1>2. PICK n \in RunIds \ Born :
        run' = [run EXCEPT ![n] = NewRun(run[retry[t]].suite, run[retry[t]].attempt + 1)]
  BY DEF QueueRetry
<1>3. run[retry[t]].suite \in Suites /\ run[retry[t]].attempt + 1 \in Nat \ {0}
  BY <1>1, BornRun DEF Known, Run
<1> DEFINE new == NewRun(run[retry[t]].suite, run[retry[t]].attempt + 1)
<1>4. new # Unborn /\ new.suite = run[retry[t]].suite
  BY <1>3, NewRunTyped, RunNotUnborn DEF NewRun
<1>5. run'[n] = new /\ \A q \in RunIds : q # n => run'[q] = run[q]
  BY <1>2 DEF Known, TypeOK
<1>. HIDE DEF new
<1>6. Born' = Born \union {n} /\ \A q \in Born : run'[q] = run[q]
  BY <1>4, <1>5 DEF Born
<1>7. ASSUME NEW s \in Suites
      PROVE  RunsOf(s)' = IF s = run[retry[t]].suite THEN RunsOf(s) \union {n} ELSE RunsOf(s)
  <2>1. RunsOf(s)' = {q \in Born \union {n} : run'[q].suite = s} /\ RunsOf(s) = {q \in Born : run[q].suite = s}
    BY <1>6 DEF RunsOf
  <2>. QED BY <1>4, <1>5, <1>6, <2>1
<1>. QED BY <1>5, <1>6, <1>7 DEF new

\* Where the new run stands among the newest of its suite: alone when it
\* follows them, beside them when its number was minted before, behind them
\* when they are further.
LEMMA NewestAfter ==
  ASSUME Known, HasNewest, NEW t \in Finishers, QueueRetry(t),
         NEW n \in RunIds \ Born, NEW s \in Suites, NEW k,
         s = run[retry[t]].suite, k = run[retry[t]].attempt,
         run'[n] = NewRun(s, k + 1), \A q \in Born : run'[q] = run[q],
         RunsOf(s)' = RunsOf(s) \union {n}
  PROVE  \E m \in Newest(s) :
           /\ k \in Nat \ {0} /\ run[m].attempt \in Nat \ {0} /\ k <= run[m].attempt
           /\ run[m].attempt = k => Newest(s)' = {n}
           /\ run[m].attempt = k + 1 => Newest(s)' = Newest(s) \union {n}
           /\ run[m].attempt > k + 1 => Newest(s)' = Newest(s)
<1>1. retry[t] \in RunsOf(s)
  BY QueueRetryKnown DEF RunsOf
<1>2. PICK m \in Newest(s) : TRUE
  BY <1>1 DEF HasNewest
<1>3. \A q \in RunsOf(s) : q \in Born /\ run[q].attempt \in Nat \ {0} /\ run'[q] = run[q]
  BY BornRun DEF RunsOf, Known, Run
<1>4. m \in RunsOf(s) /\ \A q \in RunsOf(s) : run[q].attempt <= run[m].attempt
  BY <1>2 DEF Newest
<1>5. k \in Nat \ {0} /\ run[m].attempt \in Nat \ {0} /\ k <= run[m].attempt
  BY <1>1, <1>3, <1>4
<1>6. run'[n].attempt = k + 1
  BY DEF NewRun
<1>7. Newest(s)' = {q \in RunsOf(s) \union {n} :
                     \A o \in RunsOf(s) \union {n} : run'[o].attempt <= run'[q].attempt}
  BY DEF Newest
<1>8. Newest(s) = {q \in RunsOf(s) : run[q].attempt = run[m].attempt}
  <2>1. ASSUME NEW q \in RunsOf(s) PROVE q \in Newest(s) <=> run[q].attempt = run[m].attempt
    BY <1>3, <1>4, <2>1 DEF Newest
  <2>. QED BY <2>1 DEF Newest
<1>9. n \notin RunsOf(s)
  BY DEF RunsOf
<1>10. CASE run[m].attempt = k
  <2>1. \A q \in RunsOf(s) : q \notin Newest(s)'
    BY <1>3, <1>4, <1>5, <1>6, <1>7, <1>10
  <2>2. n \in Newest(s)'
    BY <1>3, <1>4, <1>5, <1>6, <1>7, <1>10
  <2>. QED BY <1>2, <1>5, <1>7, <1>10, <2>1, <2>2
<1>11. CASE run[m].attempt = k + 1
  <2>1. \A q \in RunsOf(s) : q \in Newest(s)' <=> run[q].attempt = run[m].attempt
    BY <1>3, <1>4, <1>5, <1>6, <1>7, <1>11
  <2>2. n \in Newest(s)'
    BY <1>3, <1>4, <1>5, <1>6, <1>7, <1>11
  <2>3. Newest(s)' = Newest(s) \union {n}
    BY <1>7, <1>8, <2>1, <2>2
  <2>. QED BY <1>2, <1>5, <1>11, <2>3
<1>12. CASE run[m].attempt > k + 1
  <2>1. \A q \in RunsOf(s) : q \in Newest(s)' <=> run[q].attempt = run[m].attempt
    BY <1>3, <1>4, <1>5, <1>6, <1>7, <1>12
  <2>2. n \notin Newest(s)'
    BY <1>3, <1>4, <1>5, <1>6, <1>7, <1>12
  <2>3. Newest(s)' = Newest(s)
    BY <1>7, <1>8, <1>9, <2>1, <2>2
  <2>. QED BY <1>2, <1>5, <1>12, <2>3
<1>. QED BY <1>5, <1>10, <1>11, <1>12

-----------------------------------------------------------------------------
(* What the mapping rests on is kept *)

LEMMA RunsStay == ASSUME Known, [Next]_vars PROVE Born \subseteq Born'
BY RunsBorn, QueueRetryKnown DEF Submit, Known, KnownRuns

LEMMA HasNewestStep ==
  ASSUME Known, HasNewest, [Next]_vars PROVE HasNewest'
<1> SUFFICES ASSUME NEW s \in Suites, RunsOf(s)' # {} PROVE Newest(s)' # {}
  BY DEF HasNewest
<1>1. CASE Born' = Born
  <2>1. RunsOf(s)' = RunsOf(s) /\ Newest(s)' = Newest(s)
    BY <1>1, RunsChange, SameRuns
  <2>. QED BY <2>1 DEF HasNewest
<1>2. CASE Submit
  BY <1>2, Submitted
<1>3. ASSUME NEW t \in Finishers, QueueRetry(t) PROVE Newest(s)' # {}
  <2>1. PICK n \in RunIds \ Born :
          /\ run'[n] = NewRun(run[retry[t]].suite, run[retry[t]].attempt + 1)
          /\ Born' = Born \union {n} /\ \A q \in Born : run'[q] = run[q]
          /\ \A u \in Suites :
               RunsOf(u)' = IF u = run[retry[t]].suite THEN RunsOf(u) \union {n} ELSE RunsOf(u)
    BY <1>3, Minted
  <2>2. CASE s = run[retry[t]].suite
    <3>1. RunsOf(s)' = RunsOf(s) \union {n} /\ \A q \in Born : run'[q] = run[q]
      BY <2>1, <2>2
    <3>2. \E m \in Newest(s) :
            /\ run[retry[t]].attempt \in Nat \ {0} /\ run[m].attempt \in Nat \ {0}
            /\ run[retry[t]].attempt <= run[m].attempt
            /\ run[m].attempt = run[retry[t]].attempt => Newest(s)' = {n}
            /\ run[m].attempt = run[retry[t]].attempt + 1 => Newest(s)' = Newest(s) \union {n}
            /\ run[m].attempt > run[retry[t]].attempt + 1 => Newest(s)' = Newest(s)
      BY <1>3, <2>1, <2>2, <3>1, NewestAfter
    <3>. QED BY <3>2
  <2>3. CASE s # run[retry[t]].suite
    <3>1. RunsOf(s)' = RunsOf(s) /\ \A q \in RunsOf(s) : run'[q] = run[q]
      BY <2>1, <2>3 DEF RunsOf
    <3>2. Newest(s)' = Newest(s)
      BY <3>1 DEF Newest
    <3>. QED BY <3>1, <3>2 DEF HasNewest
  <2>. QED BY <2>2, <2>3
<1>. QED BY <1>1, <1>2, <1>3, RunsBorn

LEMMA SilentStep ==
  ASSUME Known, Silent, [Next]_vars PROVE Silent'
<1> SUFFICES ASSUME NEW r \in RunIds, r \notin Born' PROVE said'[r] = {}
  BY DEF Silent
<1>1. said[r] = {} /\ r \notin Born
  BY RunsStay DEF Silent
<1>2. ASSUME NEW q \in RunIds, NEW v \in RunnerVerdicts, RunnerConcludes(q, v)
      PROVE  said'[r] = said[r]
  <2>1. q \in Born
    BY <1>2 DEF RunnerConcludes, Known, KnownRuns
  <2>. QED BY <1>1, <1>2, <2>1 DEF RunnerConcludes, Known, TypeOK
<1>. QED BY <1>1, <1>2, SaidChange

LEMMA AnswersStep ==
  ASSUME Known, Answers, [Next]_vars PROVE Answers'
<1>1. reg # "none" => reg' # "none"
  BY RegWrites, RollupTyped
<1> SUFFICES ASSUME NEW c \in Clients, client'[c].pc # "idle"
             PROVE  client[c].pc # "idle" \/ reg # "none"
  BY <1>1 DEF Answers
<1>2. CASE UNCHANGED client
  BY <1>2
<1>3. ASSUME NEW d \in Clients, ClientAsks(d) PROVE reg # "none"
  BY <1>3 DEF ClientAsks, CancelBegin, CancelSuiteBegin
<1>4. ASSUME NEW d \in Clients, ClientGoesOn(d) PROVE client[c].pc # "idle"
  <2>1. client[c] \in Client /\ client[d] \in Client
    BY DEF Known, TypeOK
  <2>2. CASE CancelEnd(d) \/ ClientRollup(d)
    BY <2>2 DEF CancelEnd, ClientRollup, Known, TypeOK
  <2>3. ASSUME NEW r \in RunIds, CancelStop(d, r) PROVE client[c].pc # "idle"
    <3>1. client' = [client EXCEPT ![d].stop = @ \ {r}, ![d].cur = r]
      BY <2>3 DEF CancelStop
    <3>2. client'[c].pc = client[c].pc
      BY <2>1, <3>1 DEF Known, TypeOK, Client
    <3>. QED BY <3>2
  <2>4. ASSUME NEW r \in RunIds, CancelMark(d, r) PROVE client[c].pc # "idle"
    BY <2>4 DEF CancelMark, Known, TypeOK
  <2>5. ASSUME NEW r \in RunIds, CancelSuiteMark(d, r) PROVE client[c].pc # "idle"
    BY <2>5 DEF CancelSuiteMark, Known, TypeOK
  <2>. QED BY <1>4, <2>2, <2>3, <2>4, <2>5 DEF ClientGoesOn
<1>5. CASE Restart
  BY <1>5 DEF Restart
<1>6. Submit \/ Outside => UNCHANGED client
  BY DEF Submit, Outside, Reap, RunnerStarts, RunnerProgresses, RunnerConcludes, RunnerExits,
         AllocDies, LoseEvent, MasterUnchanged
<1>7. TickStep => UNCHANGED client
  BY DEF TickStep, TickReconcile, TickFinish, TickAdmit, TickMarkDispatched, TickRollupAll,
     TickRollup, QueueRetry, TickTimeout, TickApplyRunning, TickApplyEnded, TickDispatch,
     TickDispatchFails, TickDispatchUnanswered
<1>8. ASSUME NEW h \in Handlers, HandlerReceives(h) \/ HandlerGoesOn(h) PROVE UNCHANGED client
  BY <1>8 DEF HandlerReceives, HandlerGoesOn, EventStarted, EventProgress, EventFinished, Receive,
     HandlerFinish, HandlerRollup, QueueRetry
<1>. QED BY <1>2, <1>3, <1>4, <1>5, <1>6, <1>7, <1>8 DEF Next, vars

LEMMA SeenStep == ASSUME Known, Seen, [Next]_vars PROVE Seen'
BY OneDebtStep, HasNewestStep, SilentStep, AnswersStep DEF Seen

-----------------------------------------------------------------------------
(* What a step leaves alone *)

\* Suites whose runs are the same, and have the same verdicts or none, show the
\* submitter what they showed.
LEMMA SuiteUntouched ==
  ASSUME Known, HasNewest, [Next]_vars, NEW s \in Suites,
         RunsOf(s)' = RunsOf(s), Newest(s)' = Newest(s)
  PROVE  /\ NewestAttempt'[s] = NewestAttempt[s]
         /\ (\A q \in Newest(s) : Terminal(run'[q].state) <=> Terminal(run[q].state))
            => NewestStates'[s] = NewestStates[s]
<1>1. /\ AttemptsRead /\ StatesRead /\ AttemptsRead' /\ StatesRead'
  BY Readings
<1>2. NewestAttempt'[s] = NewestAttempt[s]
  <2>1. CASE RunsOf(s) = {}
    BY <1>1, <2>1 DEF AttemptsRead
  <2>2. CASE RunsOf(s) # {}
    <3>1. PICK m \in Newest(s) : TRUE
      BY <2>2 DEF HasNewest
    <3>2. NewestAttempt[s] = run[m].attempt /\ NewestAttempt'[s] = run'[m].attempt /\ m \in Born
      BY <1>1, <3>1 DEF AttemptsRead
    <3>3. SameIdentity(m)
      BY <3>2, RunsChange
    <3>. QED BY <3>2, <3>3 DEF SameIdentity
  <2>. QED BY <2>1, <2>2
<1>3. ASSUME \A q \in Newest(s) : Terminal(run'[q].state) <=> Terminal(run[q].state)
      PROVE  NewestStates'[s] = NewestStates[s]
  <2>1. "over" \in NewestStates'[s] <=> "over" \in NewestStates[s]
    BY <1>1, <1>3 DEF StatesRead
  <2>2. "open" \in NewestStates'[s] <=> "open" \in NewestStates[s]
    BY <1>1, <1>3 DEF StatesRead
  <2>3. NewestStates[s] \subseteq {"over", "open"} /\ NewestStates'[s] \subseteq {"over", "open"}
    BY <1>1 DEF StatesRead
  <2>. QED BY <2>1, <2>2, <2>3
<1>. QED BY <1>2, <1>3

LEMMA SameNewest ==
  ASSUME Known, [Next]_vars, Born' = Born
  PROVE  \A s \in Suites : RunsOf(s)' = RunsOf(s) /\ Newest(s)' = Newest(s)
<1>1. \A q \in Born : SameIdentity(q)
  BY RunsChange
<1>. QED BY <1>1, SameRuns

LEMMA SameAttempts ==
  ASSUME Known, HasNewest, [Next]_vars, Born' = Born
  PROVE  NewestAttempt' = NewestAttempt
<1>1. \A s \in Suites : NewestAttempt'[s] = NewestAttempt[s]
  BY SameNewest, SuiteUntouched
<1>. QED BY <1>1, Readings DEF AttemptsRead

LEMMA SameStates ==
  ASSUME Known, HasNewest, [Next]_vars, Born' = Born,
         \A s \in Suites : \A q \in Newest(s) : Terminal(run'[q].state) <=> Terminal(run[q].state)
  PROVE  NewestStates' = NewestStates
<1>1. \A s \in Suites : NewestStates'[s] = NewestStates[s]
  BY SameNewest, SuiteUntouched
<1>. QED BY <1>1, Readings DEF StatesRead

LEMMA SameOwed ==
  ASSUME Known, [Next]_vars, Born' = Born, UNCHANGED retry
  PROVE  Owed' = Owed
<1>1. OwedRead /\ OwedRead'
  BY Readings
<1>2. ASSUME NEW s \in Suites PROVE Owed'[s] = Owed[s]
  <2>1. RunsOf(s)' = RunsOf(s) /\ \A q \in RunsOf(s) : run'[q].attempt = run[q].attempt
    BY SameNewest, RunsChange DEF SameIdentity, RunsOf
  <2>2. \A k : k \in Owed'[s] <=> k \in Owed[s]
    BY <1>1, <2>1 DEF OwedRead
  <2>. QED BY <2>2, <1>1 DEF Owed, OwedBy
<1>. QED BY <1>1, <1>2 DEF OwedRead

LEMMA SameReported ==
  ASSUME Known, [Next]_vars, Born' = Born, UNCHANGED said
  PROVE  Reported' = Reported
BY SameNewest DEF Reported

LEMMA Stutters ==
  ASSUME Known, HasNewest, [Next]_vars, Born' = Born, UNCHANGED <<retry, said, reg>>,
         \A s \in Suites : \A q \in Newest(s) : Terminal(run'[q].state) <=> Terminal(run[q].state)
  PROVE  Follows
BY SameAttempts, SameStates, SameOwed, SameReported DEF Follows, PromiseVars

-----------------------------------------------------------------------------
(* The steps the submitter sees, one by one *)

LEMMA InitFollows == Init => Promise!Init
<1> SUFFICES ASSUME Init PROVE Promise!Init
  OBVIOUS
<1>1. Born = {}
  BY DEF Init, Born
<1>2. \A s \in Suites : RunsOf(s) = {} /\ Newest(s) = {}
  BY <1>1 DEF RunsOf, Newest
<1>3. NewestAttempt = [s \in Suites |-> 0]
  BY <1>2 DEF NewestAttempt
<1>4. NewestStates = [s \in Suites |-> {}]
  BY <1>2 DEF NewestStates
<1>5. Owed = [s \in Suites |-> {}]
  BY <1>2 DEF Owed, OwedBy
<1>6. Reported = [s \in Suites |-> {}]
  BY <1>2 DEF Reported
<1>. QED BY <1>3, <1>4, <1>5, <1>6 DEF Promise!Init, Init

LEMMA SubmitFollows ==
  ASSUME Known, Silent, [Next]_vars, Submit
  PROVE  Follows
<1>1. /\ AttemptsRead' /\ StatesRead'
  BY Readings
<1>2. NewestAttempt' = [s \in Suites |-> 1]
  <2>1. ASSUME NEW s \in Suites PROVE NewestAttempt'[s] = 1
    BY <1>1, Submitted DEF AttemptsRead
  <2>. QED BY <1>1, <2>1 DEF AttemptsRead
<1>3. NewestStates' = [s \in Suites |-> {"open"}]
  <2>1. ASSUME NEW s \in Suites PROVE NewestStates'[s] = {"open"}
    <3>1. /\ Newest(s)' # {} /\ \A r \in Newest(s)' : ~Terminal(run'[r].state)
      BY Submitted DEF Terminal, Verdict
    <3>2. /\ NewestStates'[s] \subseteq {"over", "open"}
          /\ "over" \in NewestStates'[s] <=> \E r \in Newest(s)' : Terminal(run'[r].state)
          /\ "open" \in NewestStates'[s] <=> \E r \in Newest(s)' : ~Terminal(run'[r].state)
      BY <1>1 DEF StatesRead
    <3>. QED BY <3>1, <3>2
  <2>. QED BY <1>1, <2>1 DEF StatesRead
<1>4. Born = {}
  BY DEF Submit, Known, KnownRuns
<1>5. \A s \in Suites : RunsOf(s) = {}
  BY <1>4 DEF RunsOf
<1>6. Owed' = Owed
  <2>1. \A t \in Finishers : retry[t] = NoRun /\ retry'[t] = NoRun
    BY <1>4 DEF Submit, Known, KnownRuns
  <2>2. \A s \in Suites : NoRun \notin RunsOf(s)'
    BY NoRunAssumption DEF RunsOf, Born
  <2>3. \A s \in Suites : {retry[t] : t \in Finishers}' \intersect RunsOf(s)' = {}
    BY <2>1, <2>2
  <2>4. \A s \in Suites : OwedBy(s)' = {} /\ OwedBy(s) = {}
    BY <1>5, <2>3 DEF OwedBy
  <2>. QED BY <2>4 DEF Owed
<1>7. Reported' = Reported
  <2>1. \A r \in RunIds : said[r] = {} /\ said' = said
    BY <1>4 DEF Silent, Submit, world, jobVars
  <2>2. \A s \in Suites : \A r \in RunsOf(s)' : said'[r] = {}
    BY <2>1 DEF RunsOf, Born
  <2>3. \A s \in Suites : UNION {said'[r] : r \in RunsOf(s)'} = {} /\ UNION {said[r] : r \in RunsOf(s)} = {}
    BY <1>5, <2>2
  <2>. QED BY <2>3 DEF Reported
<1>. QED BY <1>2, <1>3, <1>6, <1>7 DEF Submit, Follows, Promise!Next, Promise!Submit

LEMMA ReportFollows ==
  ASSUME Known, HasNewest, [Next]_vars, NEW r \in RunIds, NEW v \in RunnerVerdicts, RunnerConcludes(r, v)
  PROVE  Follows
<1>1. r \in Born
  BY DEF RunnerConcludes, Known, KnownRuns
<1>2. PICK s \in Suites : run[r].suite = s /\ r \in RunsOf(s)
  BY <1>1, BornRun DEF Known, Run, RunsOf
<1>3. UNCHANGED <<run, retry, reg>> /\ Born' = Born
  BY DEF RunnerConcludes, MasterUnchanged, storeVars, Born
<1>4. UNCHANGED <<NewestAttempt, NewestStates, Owed>>
  BY <1>3, SameAttempts, SameStates, SameOwed
<1>5. NewestAttempt[s] > 0
  <2>1. PICK m \in Newest(s) : TRUE
    BY <1>2 DEF HasNewest
  <2>2. AttemptsRead
    BY ReadAttempts
  <2>3. NewestAttempt[s] \in Nat \ {0}
    BY <2>1, <2>2 DEF AttemptsRead
  <2>. QED BY <2>3
<1>6. said' = [said EXCEPT ![r] = @ \union {v}] /\ said \in [RunIds -> SUBSET RunnerVerdicts]
  BY DEF RunnerConcludes, Known, TypeOK
<1>7. Reported' = [Reported EXCEPT ![s] = @ \union {v}]
  <2>1. \A u \in Suites : RunsOf(u)' = RunsOf(u) /\ RunsOf(u) \subseteq RunIds
    BY <1>3, SameNewest DEF RunsOf, Born
  <2>2. ReportedRead /\ ReportedRead'
    BY Readings
  <2>3. ASSUME NEW u \in Suites, NEW x
        PROVE  x \in Reported'[u] <=> x \in Reported[u] \/ (u = s /\ x = v)
    <3>1. \A q \in RunsOf(u) : x \in said'[q] <=> x \in said[q] \/ (q = r /\ x = v)
      BY <1>6, <2>1
    <3>2. r \in RunsOf(u) <=> u = s
      BY <1>2 DEF RunsOf
    <3>. QED BY <2>1, <2>2, <3>1, <3>2 DEF ReportedRead
  <2>4. \A u \in Suites : Reported'[u] = IF u = s THEN Reported[u] \union {v} ELSE Reported[u]
    BY <2>3
  <2>. QED BY <2>2, <2>4 DEF ReportedRead
<1>8. v \in {"passed", "failed", "errored", "timeout"}
  BY VerdictsAssumption
<1>9. Promise!Report(s, v)
  BY <1>3, <1>4, <1>5, <1>7 DEF Promise!Report
<1>. QED BY <1>8, <1>9 DEF Follows, Promise!Next

\* An attempt ends, and is perhaps owed a successor.
LEMMA EndFollows ==
  ASSUME Known, HasNewest, AttemptsContiguous, [Next]_vars, NEW r \in Born,
         ~Terminal(run[r].state), Terminal(run'[r].state),
         Born' = Born, \A q \in Born \ {r} : run'[q] = run[q], UNCHANGED <<said, reg>>,
         \/ UNCHANGED retry
         \/ \E t \in Finishers : /\ retry[t] = NoRun
                                 /\ run[r].attempt < MaxAttempts[run[r].suite]
                                 /\ retry' = [retry EXCEPT ![t] = r]
  PROVE  Follows
<1>1. PICK s \in Suites, k \in Nat \ {0} : run[r].suite = s /\ run[r].attempt = k
  BY BornRun DEF Known, Run
<1>2. r \in RunsOf(s)
  BY <1>1 DEF RunsOf
<1>3. PICK m \in Newest(s) : TRUE
  BY <1>2 DEF HasNewest
<1>4. /\ AttemptsRead /\ StatesRead /\ OwedRead /\ AttemptsRead' /\ StatesRead' /\ OwedRead'
  BY Readings
<1>5. NewestAttempt[s] = run[m].attempt /\ NewestAttempt[s] \in Nat \ {0}
  BY <1>3, <1>4 DEF AttemptsRead
<1>6. k <= NewestAttempt[s]
  BY <1>1, <1>2, <1>3, <1>5 DEF Newest
<1>7. k \in 1..MaxAttempts[s] /\ k \in 1..NewestAttempt[s]
  BY <1>1, <1>5, <1>6, MaxAttemptsAssumption DEF AttemptsContiguous
<1>8. NewestAttempt' = NewestAttempt /\ Reported' = Reported
  BY SameAttempts, SameReported
<1>9. \A u \in Suites : RunsOf(u)' = RunsOf(u) /\ Newest(u)' = Newest(u)
  BY SameNewest
<1>10. r \in Newest(s) <=> k = NewestAttempt[s]
  <2>1. r \in Newest(s) => k = NewestAttempt[s]
    BY <1>1, <1>4 DEF AttemptsRead
  <2>2. k = NewestAttempt[s] => r \in Newest(s)
    BY <1>1, <1>2, <1>3, <1>5 DEF Newest
  <2>. QED BY <2>1, <2>2
<1>11. \A u \in Suites : (u # s => r \notin Newest(u)) /\ Newest(u) \subseteq Born
  BY <1>1 DEF Newest, RunsOf
<1>12. \A u \in Suites : u # s => NewestStates'[u] = NewestStates[u]
  <2>1. ASSUME NEW u \in Suites, u # s PROVE NewestStates'[u] = NewestStates[u]
    <3>1. \A q \in Newest(u) : run'[q] = run[q]
      BY <1>11, <2>1
    <3>. QED BY <1>9, <3>1, SuiteUntouched
  <2>. QED BY <2>1
<1>13. \/ k < NewestAttempt[s] /\ NewestStates' = NewestStates
       \/ /\ k = NewestAttempt[s]
          /\ \E left \in SUBSET {"open"} :
               NewestStates' = [NewestStates EXCEPT ![s] = {"over"} \union (left \intersect @)]
  <2>1. CASE k < NewestAttempt[s]
    <3>1. r \notin Newest(s)
      BY <1>5, <1>10, <2>1
    <3>2. \A u \in Suites : \A q \in Newest(u) : Terminal(run'[q].state) <=> Terminal(run[q].state)
      BY <1>11, <3>1
    <3>. QED BY <2>1, <3>2, SameStates
  <2>2. CASE k = NewestAttempt[s]
    <3>1. r \in Newest(s) /\ r \in Newest(s)'
      BY <1>9, <1>10, <2>2
    <3>2. "open" \in NewestStates[s] /\ "over" \in NewestStates'[s]
      BY <1>4, <3>1 DEF StatesRead
    <3>3. NewestStates'[s] \subseteq {"over", "open"}
      BY <1>4 DEF StatesRead
    <3>4. PICK left \in SUBSET {"open"} : left = NewestStates'[s] \intersect {"open"}
      OBVIOUS
    <3>5. NewestStates'[s] = {"over"} \union (left \intersect NewestStates[s])
      BY <3>2, <3>3, <3>4
    <3>6. NewestStates' = [NewestStates EXCEPT ![s] = {"over"} \union (left \intersect @)]
      BY <1>4, <1>12, <3>5 DEF StatesRead
    <3>. QED BY <2>2, <3>6
  <2>. QED BY <1>5, <1>6, <2>1, <2>2
<1>14. \/ Owed' = Owed
       \/ k < MaxAttempts[s] /\ Owed' = [Owed EXCEPT ![s] = @ \union {k}]
  <2>1. CASE UNCHANGED retry
    BY <2>1, SameOwed
  <2>2. ASSUME NEW t \in Finishers, retry[t] = NoRun, run[r].attempt < MaxAttempts[run[r].suite],
               retry' = [retry EXCEPT ![t] = r]
        PROVE  k < MaxAttempts[s] /\ Owed' = [Owed EXCEPT ![s] = @ \union {k}]
    <3>1. \A f \in Finishers : retry'[f] = IF f = t THEN r ELSE retry[f]
      BY <2>2 DEF Known, TypeOK
    <3>2. ASSUME NEW u \in Suites, NEW j
          PROVE  j \in Owed'[u] <=> j \in Owed[u] \/ (u = s /\ j = k)
      <4>1. NoRun \notin RunsOf(u)
        BY NoRunAssumption DEF RunsOf, Born
      <4>2. \A q \in RunsOf(u) : run'[q].attempt = run[q].attempt
        BY RunsChange DEF RunsOf, SameIdentity
      <4>3. r \in RunsOf(u) <=> u = s
        BY <1>1 DEF RunsOf
      <4>4. j \in Owed[u] <=> \E f \in Finishers : retry[f] \in RunsOf(u) /\ run[retry[f]].attempt = j
        BY <1>4 DEF OwedRead
      <4>5. j \in Owed'[u] <=> \E f \in Finishers : retry'[f] \in RunsOf(u) /\ run[retry'[f]].attempt = j
        BY <1>4, <1>9, <4>2 DEF OwedRead
      <4>. QED BY <1>1, <2>2, <3>1, <4>1, <4>3, <4>4, <4>5
    <3>3. \A u \in Suites : Owed'[u] = IF u = s THEN Owed[u] \union {k} ELSE Owed[u]
      BY <3>2
    <3>. QED BY <1>1, <1>4, <2>2, <3>3 DEF OwedRead
  <2>. QED BY <2>1, <2>2
<1>15. Promise!End(s, k)
  BY <1>7, <1>8, <1>13, <1>14 DEF Promise!End
<1>. QED BY <1>7, <1>15 DEF Follows, Promise!Next

LEMMA FinishFollows ==
  ASSUME Known, HasNewest, AttemptsContiguous, [Next]_vars,
         NEW t \in Finishers, NEW r \in Born, NEW v \in Verdict,
         Finish(t, r, v), retry[t] = NoRun, UNCHANGED <<said, reg>>
  PROVE  Follows
<1>1. Born' = Born
  BY FinishKnown
<1>2. CASE Terminal(run[r].state)
  BY <1>1, <1>2, Stutters DEF Finish
<1>3. CASE ~Terminal(run[r].state)
  <2>1. run' = [run EXCEPT ![r].state = v]
    BY <1>3 DEF Finish
  <2>2. run'[r].state = v /\ \A q \in Born \ {r} : run'[q] = run[q]
    BY <2>1, BornRun DEF Known, TypeOK, Run, Born
  <2>3. Terminal(run'[r].state)
    BY <2>2 DEF Terminal
  <2>4. \/ UNCHANGED retry
        \/ /\ run[r].attempt < MaxAttempts[run[r].suite]
           /\ retry' = [retry EXCEPT ![t] = r]
    BY <1>3 DEF Finish, EarnsRetry
  <2>. QED BY <1>1, <1>3, <2>2, <2>3, <2>4, EndFollows
<1>. QED BY <1>2, <1>3

LEMMA MarkFollows ==
  ASSUME Known, HasNewest, AttemptsContiguous, [Next]_vars, NEW r \in Born,
         run' = run \/ run' = [run EXCEPT ![r].state = "canceled"],
         UNCHANGED <<retry, said, reg>>
  PROVE  Follows
<1>1. CASE run' = run
  BY <1>1, Stutters DEF Born
<1>2. CASE run' = [run EXCEPT ![r].state = "canceled"]
  <2>1. Born' = Born
    BY <1>2, SetState DEF Known, RunState, Verdict
  <2>2. run'[r].state = "canceled" /\ \A q \in Born \ {r} : run'[q] = run[q]
    BY <1>2, BornRun DEF Known, TypeOK, Run, Born
  <2>3. Terminal(run'[r].state)
    BY <2>2 DEF Terminal, Verdict
  <2>4. CASE Terminal(run[r].state)
    <3>1. \A s \in Suites : \A q \in Newest(s) : q \in Born
      BY DEF Newest, RunsOf
    <3>. QED BY <2>1, <2>2, <2>3, <2>4, <3>1, Stutters
  <2>5. CASE ~Terminal(run[r].state)
    BY <2>1, <2>2, <2>3, <2>5, EndFollows
  <2>. QED BY <2>4, <2>5
<1>. QED BY <1>1, <1>2

\* The mark of a launch may put a newest attempt back in flight.
LEMMA ReopenFollows ==
  ASSUME Known, HasNewest, [Next]_vars, TickMarkDispatched
  PROVE  Follows
<1>1. PICK r \in Born : r = tick.cur
  BY DEF TickMarkDispatched, Known, KnownRuns
<1>2. Born' = Born
  <2>1. ~Submit
    BY DEF TickMarkDispatched, Submit
  <2>2. \A t \in Finishers : ~QueueRetry(t)
    BY DEF TickMarkDispatched, QueueRetry, Known, TypeOK
  <2>. QED BY <2>1, <2>2, RunsBorn
<1>3. run'[r].state = "dispatched" /\ \A q \in Born \ {r} : run'[q] = run[q]
  BY <1>1, BornRun DEF TickMarkDispatched, Known, TypeOK, Run, Born
<1>4. UNCHANGED <<retry, said, reg>>
  BY DEF TickMarkDispatched, world, jobVars
<1>5. PICK s \in Suites : run[r].suite = s
  BY BornRun DEF Known, Run
<1>6. \A u \in Suites : (u # s => r \notin Newest(u)) /\ Newest(u) \subseteq Born /\ Newest(u)' = Newest(u)
  BY <1>2, <1>5, SameNewest DEF Newest, RunsOf
<1>7. ~Terminal(run'[r].state)
  BY <1>3 DEF Terminal, Verdict
<1>8. CASE ~Terminal(run[r].state) \/ r \notin Newest(s)
  BY <1>2, <1>3, <1>4, <1>6, <1>7, <1>8, Stutters
<1>9. CASE Terminal(run[r].state) /\ r \in Newest(s)
  <2>1. StatesRead /\ StatesRead'
    BY Readings
  <2>2. "over" \in NewestStates[s] /\ "open" \in NewestStates'[s] /\ NewestStates'[s] \subseteq {"over", "open"}
    BY <1>6, <1>7, <1>9, <2>1 DEF StatesRead
  <2>3. \A u \in Suites : u # s => NewestStates'[u] = NewestStates[u]
    <3>1. ASSUME NEW u \in Suites, u # s PROVE NewestStates'[u] = NewestStates[u]
      <4>1. \A q \in Newest(u) : run'[q] = run[q]
        BY <1>3, <1>6, <3>1
      <4>2. RunsOf(u)' = RunsOf(u)
        BY <1>2, SameNewest
      <4>. QED BY <1>6, <4>1, <4>2, SuiteUntouched
    <3>. QED BY <3>1
  <2>4. PICK left \in SUBSET {"over"} : left = NewestStates'[s] \intersect {"over"}
    OBVIOUS
  <2>5. NewestStates'[s] = {"open"} \union left
    BY <2>2, <2>4
  <2>6. NewestStates' = [NewestStates EXCEPT ![s] = {"open"} \union left]
    BY <2>1, <2>3, <2>5 DEF StatesRead
  <2>7. NewestAttempt' = NewestAttempt /\ Owed' = Owed /\ Reported' = Reported
    BY <1>2, <1>4, SameAttempts, SameOwed, SameReported
  <2>8. Promise!Reopen(s)
    BY <1>4, <2>2, <2>6, <2>7 DEF Promise!Reopen
  <2>. QED BY <2>8 DEF Follows, Promise!Next
<1>. QED BY <1>8, <1>9

\* The successor of an ended attempt is queued.
LEMMA RetryFollows ==
  ASSUME Known, HasNewest, Silent, AttemptsContiguous, [Next]_vars,
         NEW t \in Finishers, QueueRetry(t)
  PROVE  Follows
<1>1. PICK s \in Suites, k \in Nat \ {0} :
        retry[t] \in Born /\ run[retry[t]].suite = s /\ run[retry[t]].attempt = k
  BY QueueRetryKnown, BornRun DEF Known, Run
<1>2. PICK n \in RunIds \ Born :
        /\ run'[n] = NewRun(s, k + 1)
        /\ Born' = Born \union {n} /\ \A q \in Born : run'[q] = run[q]
        /\ \A u \in Suites : RunsOf(u)' = IF u = s THEN RunsOf(u) \union {n} ELSE RunsOf(u)
  BY <1>1, Minted
<1>3. /\ retry[t] # NoRun /\ UNCHANGED <<said, reg>> /\ retry' = [retry EXCEPT ![t] = NoRun]
      /\ \A f \in Finishers : retry'[f] = IF f = t THEN NoRun ELSE retry[f]
  BY DEF QueueRetry, Known, TypeOK, world, jobVars
<1>4. /\ AttemptsRead /\ StatesRead /\ OwedRead /\ ReportedRead
      /\ AttemptsRead' /\ StatesRead' /\ OwedRead' /\ ReportedRead'
  BY Readings
<1>5. \A u \in Suites : u # s => /\ NewestAttempt'[u] = NewestAttempt[u]
                                 /\ NewestStates'[u] = NewestStates[u]
  <2>1. ASSUME NEW u \in Suites, u # s
        PROVE  NewestAttempt'[u] = NewestAttempt[u] /\ NewestStates'[u] = NewestStates[u]
    <3>1. RunsOf(u)' = RunsOf(u) /\ \A q \in RunsOf(u) : run'[q] = run[q]
      BY <1>2, <2>1 DEF RunsOf
    <3>2. Newest(u)' = Newest(u) /\ \A q \in Newest(u) : run'[q] = run[q]
      BY <3>1 DEF Newest
    <3>. QED BY <3>1, <3>2, SuiteUntouched
  <2>. QED BY <2>1
<1>6. Reported' = Reported
  <2>1. said[n] = {}
    BY DEF Silent
  <2>2. ASSUME NEW u \in Suites, NEW x PROVE x \in Reported'[u] <=> x \in Reported[u]
    BY <1>2, <1>3, <1>4, <2>1 DEF ReportedRead
  <2>3. \A u \in Suites : Reported'[u] = Reported[u]
    BY <2>2, <1>4 DEF Reported
  <2>. QED BY <1>4, <2>3 DEF ReportedRead
<1>7. k \in Owed[s]
  BY <1>1, <1>4 DEF OwedRead, RunsOf
<1>8. Owed' \in {Owed, [Owed EXCEPT ![s] = @ \ {k}]}
  <2>1. ASSUME NEW u \in Suites, NEW j
        PROVE  j \in Owed'[u] <=>
                 \E f \in Finishers \ {t} : retry[f] \in RunsOf(u) /\ run[retry[f]].attempt = j
    <3>1. NoRun \notin RunsOf(u)' /\ n # NoRun
      BY NoRunAssumption, <1>2 DEF RunsOf, Born
    <3>2. \A f \in Finishers : retry[f] # n
      BY <3>1 DEF Known, KnownRuns
    <3>3. \A q \in RunsOf(u) : run'[q] = run[q]
      BY <1>2 DEF RunsOf
    <3>4. j \in Owed'[u] <=> \E f \in Finishers : retry'[f] \in RunsOf(u)' /\ run'[retry'[f]].attempt = j
      BY <1>4 DEF OwedRead
    <3>5. RunsOf(u) \subseteq RunsOf(u)' /\ RunsOf(u)' \subseteq RunsOf(u) \union {n}
      BY <1>2
    <3>. QED BY <1>3, <3>1, <3>2, <3>3, <3>4, <3>5
  <2>2. ASSUME NEW u \in Suites, NEW j
        PROVE  /\ j \in Owed'[u] => j \in Owed[u]
               /\ j \in Owed[u] /\ ~(u = s /\ j = k) => j \in Owed'[u]
    BY <1>1, <1>4, <2>1 DEF OwedRead, RunsOf
  <2>3. \A u \in Suites : u # s => Owed'[u] = Owed[u]
    BY <2>2, <1>4 DEF Owed, OwedBy
  <2>4. Owed'[s] = Owed[s] \/ Owed'[s] = Owed[s] \ {k}
    <3>1. CASE k \in Owed'[s]
      BY <2>2, <3>1, <1>4 DEF Owed, OwedBy
    <3>2. CASE k \notin Owed'[s]
      BY <2>2, <3>2, <1>4 DEF Owed, OwedBy
    <3>. QED BY <3>1, <3>2
  <2>5. Owed' = Owed \/ Owed' = [Owed EXCEPT ![s] = @ \ {k}]
    BY <1>4, <2>3, <2>4 DEF OwedRead
  <2>. QED BY <2>5
<1>9. PICK m \in Newest(s) :
        /\ run[m].attempt \in Nat \ {0} /\ k <= run[m].attempt
        /\ run[m].attempt = k => Newest(s)' = {n}
        /\ run[m].attempt = k + 1 => Newest(s)' = Newest(s) \union {n}
        /\ run[m].attempt > k + 1 => Newest(s)' = Newest(s)
  BY <1>1, <1>2, NewestAfter
<1>10. NewestAttempt[s] = run[m].attempt
  BY <1>4, <1>9 DEF AttemptsRead
<1>11. \A q \in Newest(s) : q \in Born /\ run'[q] = run[q]
  BY <1>2 DEF Newest, RunsOf
<1>12. run'[n].attempt = k + 1 /\ ~Terminal(run'[n].state)
  BY <1>2 DEF NewRun, Terminal, Verdict
<1>13. /\ NewestStates'[s] \subseteq {"over", "open"} /\ NewestStates[s] \subseteq {"over", "open"}
       /\ "over" \in NewestStates'[s] <=> \E q \in Newest(s)' : Terminal(run'[q].state)
       /\ "open" \in NewestStates'[s] <=> \E q \in Newest(s)' : ~Terminal(run'[q].state)
       /\ "over" \in NewestStates[s] <=> \E q \in Newest(s) : Terminal(run[q].state)
       /\ "open" \in NewestStates[s] <=> \E q \in Newest(s) : ~Terminal(run[q].state)
  BY <1>4 DEF StatesRead
<1>14. \/ /\ k = NewestAttempt[s]
          /\ NewestAttempt' = [NewestAttempt EXCEPT ![s] = k + 1]
          /\ NewestStates' = [NewestStates EXCEPT ![s] = {"open"}]
       \/ /\ k + 1 = NewestAttempt[s]
          /\ NewestStates' = [NewestStates EXCEPT ![s] = @ \union {"open"}]
          /\ NewestAttempt' = NewestAttempt
       \/ k + 1 < NewestAttempt[s] /\ NewestAttempt' = NewestAttempt /\ NewestStates' = NewestStates
  <2>1. CASE run[m].attempt = k
    <3>1. Newest(s)' = {n}
      BY <1>9, <2>1
    <3>2. NewestAttempt'[s] = k + 1
      BY <1>4, <1>12, <3>1 DEF AttemptsRead
    <3>3. NewestStates'[s] = {"open"}
      BY <1>12, <1>13, <3>1
    <3>4. /\ NewestAttempt' = [NewestAttempt EXCEPT ![s] = k + 1]
          /\ NewestStates' = [NewestStates EXCEPT ![s] = {"open"}]
      BY <1>4, <1>5, <3>2, <3>3 DEF AttemptsRead, StatesRead
    <3>. QED BY <1>10, <2>1, <3>4
  <2>2. CASE run[m].attempt = k + 1
    <3>1. Newest(s)' = Newest(s) \union {n}
      BY <1>9, <2>2
    <3>2. NewestAttempt'[s] = NewestAttempt[s]
      BY <1>4, <1>10, <1>12, <2>2, <3>1 DEF AttemptsRead
    <3>3. NewestStates'[s] = NewestStates[s] \union {"open"}
      <4>1. "open" \in NewestStates'[s]
        BY <1>12, <1>13, <3>1
      <4>2. "over" \in NewestStates'[s] <=> "over" \in NewestStates[s]
        BY <1>11, <1>12, <1>13, <3>1
      <4>. QED BY <1>13, <4>1, <4>2
    <3>4. /\ NewestAttempt' = NewestAttempt
          /\ NewestStates' = [NewestStates EXCEPT ![s] = @ \union {"open"}]
      BY <1>4, <1>5, <3>2, <3>3 DEF AttemptsRead, StatesRead
    <3>. QED BY <1>10, <2>2, <3>4
  <2>3. CASE run[m].attempt > k + 1
    <3>1. Newest(s)' = Newest(s)
      BY <1>9, <2>3
    <3>2. NewestAttempt'[s] = NewestAttempt[s]
      BY <1>4, <1>9, <1>10, <1>11, <3>1 DEF AttemptsRead
    <3>3. NewestStates'[s] = NewestStates[s]
      <4>1. "open" \in NewestStates'[s] <=> "open" \in NewestStates[s]
        BY <1>11, <1>13, <3>1
      <4>2. "over" \in NewestStates'[s] <=> "over" \in NewestStates[s]
        BY <1>11, <1>13, <3>1
      <4>3. NewestStates'[s] \subseteq {"over", "open"} /\ NewestStates[s] \subseteq {"over", "open"}
        BY <1>13
      <4>. QED BY <4>1, <4>2, <4>3
    <3>4. NewestAttempt' = NewestAttempt /\ NewestStates' = NewestStates
      BY <1>4, <1>5, <3>2, <3>3 DEF AttemptsRead, StatesRead
    <3>. QED BY <1>10, <2>3, <3>4
  <2>. QED BY <1>9, <2>1, <2>2, <2>3
<1>15. k \in 1..MaxAttempts[s]
  BY <1>1, MaxAttemptsAssumption DEF AttemptsContiguous
<1>16. Promise!Retry(s, k)
  BY <1>3, <1>6, <1>7, <1>8, <1>14 DEF Promise!Retry
<1>. QED BY <1>15, <1>16 DEF Follows, Promise!Next

\* A rollup shows what the suites, as they are now, have earned: no rollup
\* without a run, and no run without a submission.
LEMMA RollupFollows ==
  ASSUME Known, HasNewest, VerdictIsReported, [Next]_vars, Rollup
  PROVE  Follows
<1>1. PICK latest \in [Suites -> Born] :
        /\ \A s \in Suites : latest[s] \in Newest(s)
        /\ reg' = RollupState({run[latest[s]].state : s \in Suites})
  BY DEF Rollup, LatestPerSuite
<1>2. PICK states : states = {run[latest[s]].state : s \in Suites}
  OBVIOUS
<1>3. states # {} /\ reg' = RollupState(states)
  BY <1>1, <1>2, SuitesAssumption
<1>4. reg # "none"
  <2>1. PICK s \in Suites : TRUE
    BY SuitesAssumption
  <2>2. latest[s] \in Born
    BY <1>1
  <2>. QED BY <2>2 DEF Known, KnownRuns
<1>5. UNCHANGED <<run, retry, said>> /\ Born' = Born
  BY DEF Rollup, world, jobVars, Born
<1>6. UNCHANGED <<NewestAttempt, NewestStates, Owed, Reported>>
  BY <1>5, SameAttempts, SameStates, SameOwed, SameReported
<1>7. StatesRead /\ ReportedRead
  BY Readings
<1>8. \A s \in Suites : run[latest[s]].state \in states /\ latest[s] \in Newest(s) /\ latest[s] \in RunsOf(s)
  BY <1>1, <1>2 DEF Newest
<1>9. \A x \in states : \E s \in Suites : x = run[latest[s]].state
  BY <1>2
<1>10. reg' \in {"pending", "running", "passed", "failed", "errored"}
  BY <1>3 DEF RollupState
<1>11. ASSUME states \subseteq Verdict PROVE \A s \in Suites : "over" \in NewestStates[s]
  BY <1>7, <1>8, <1>11 DEF StatesRead, Terminal
<1>12. ASSUME ~(states \subseteq Verdict) PROVE \E s \in Suites : "open" \in NewestStates[s]
  <2>1. PICK s \in Suites : run[latest[s]].state \notin Verdict
    BY <1>9, <1>12
  <2>. QED BY <1>7, <1>8, <2>1 DEF StatesRead, Terminal
<1>13. ASSUME NEW s \in Suites, run[latest[s]].state \in {"passed", "failed"}
       PROVE  run[latest[s]].state \in Reported[s]
  <2>1. latest[s] \in Born /\ run[latest[s]].suite = s
    BY <1>8 DEF RunsOf
  <2>2. CASE run[latest[s]].state = "failed"
    BY <1>7, <1>8, <2>1, <2>2 DEF ReportedRead, VerdictIsReported
  <2>3. CASE run[latest[s]].state = "passed"
    <3>1. PICK q \in SameJob(latest[s]) : "passed" \in said[q]
      BY <2>1, <2>3 DEF VerdictIsReported
    <3>2. q \in RunsOf(s)
      BY <2>1, <3>1 DEF SameJob
    <3>. QED BY <1>7, <2>3, <3>1, <3>2 DEF ReportedRead
  <2>. QED BY <1>13, <2>2, <2>3
<1>14. Promise!Earned(reg')
  <2>1. CASE ~(states \subseteq Verdict)
    <3>1. reg' \in {"pending", "running"}
      BY <1>3, <2>1 DEF RollupState
    <3>. QED BY <1>12, <2>1, <3>1 DEF Promise!Earned
  <2>2. CASE states \subseteq Verdict /\ states \intersect CountsErrored # {}
    <3>1. reg' = "errored"
      BY <1>3, <2>2 DEF RollupState
    <3>. QED BY <1>11, <2>2, <3>1 DEF Promise!Earned
  <2>3. CASE states \subseteq Verdict /\ states \intersect CountsErrored = {} /\ "failed" \in states
    <3>1. reg' = "failed"
      BY <1>3, <2>3 DEF RollupState
    <3>2. \E s \in Suites : "failed" \in Reported[s]
      BY <1>9, <1>13, <2>3
    <3>. QED BY <1>11, <2>3, <3>1, <3>2 DEF Promise!Earned
  <2>4. CASE states \subseteq Verdict /\ states \intersect CountsErrored = {} /\ "failed" \notin states
    <3>1. reg' = "passed"
      BY <1>3, <2>4 DEF RollupState
    <3>2. \A s \in Suites : run[latest[s]].state = "passed"
      BY <1>8, <2>4 DEF Verdict, CountsErrored
    <3>3. \A s \in Suites : "passed" \in Reported[s]
      BY <1>13, <3>2
    <3>. QED BY <1>11, <2>4, <3>1, <3>3 DEF Promise!Earned
  <2>. QED BY <2>1, <2>2, <2>3, <2>4
<1>15. Promise!Show(reg')
  BY <1>4, <1>6, <1>10, <1>14 DEF Promise!Show
<1>. QED BY <1>10, <1>15 DEF Follows, Promise!Next

LEMMA CancelFollows ==
  ASSUME Known, HasNewest, Answers, [Next]_vars, NEW c \in Clients, CancelEnd(c)
  PROVE  Follows
<1>1. UNCHANGED <<run, retry, said>> /\ Born' = Born /\ reg' = "canceled" /\ reg # "none"
  BY DEF CancelEnd, world, jobVars, Born, Answers
<1>2. UNCHANGED <<NewestAttempt, NewestStates, Owed, Reported>>
  BY <1>1, SameAttempts, SameStates, SameOwed, SameReported
<1>. QED BY <1>1, <1>2 DEF Follows, Promise!Next, Promise!Cancel

LEMMA CrashFollows ==
  ASSUME Known, HasNewest, [Next]_vars, Restart
  PROVE  Follows
<1>1. ~Submit /\ \A t \in Finishers : ~QueueRetry(t)
  <2>1. ~Submit
    BY DEF Restart, Submit
  <2>2. faults' = faults + 1 /\ faults \in Nat
    BY FaultsAssumption DEF Restart, Fault, Known, TypeOK
  <2>3. \A t \in Finishers : QueueRetry(t) => faults' = faults
    BY DEF QueueRetry, world
  <2>. QED BY <2>1, <2>2, <2>3
<1>2. Born' = Born /\ UNCHANGED <<said, reg>> /\ retry' = [t \in Finishers |-> NoRun]
  BY <1>1, RunsBorn DEF Restart, jobVars
<1>3. \A q \in Born : Terminal(run'[q].state) <=> Terminal(run[q].state)
  <2>1. ASSUME NEW q \in Born PROVE Terminal(run'[q].state) <=> Terminal(run[q].state)
    <3>1. run'[q] = IF q \in Requeued THEN [run[q] EXCEPT !.state = "queued"] ELSE run[q]
      BY DEF Restart, Born
    <3>2. q \in Requeued => ~Terminal(run[q].state)
      BY DEF Requeued, InState, InFlight, Terminal, Verdict
    <3>3. q \in Requeued => run'[q].state = "queued"
      BY <3>1, BornRun DEF Known, Run
    <3>. QED BY <3>1, <3>2, <3>3 DEF Terminal, Verdict
  <2>. QED BY <2>1
<1>4. UNCHANGED <<NewestAttempt, NewestStates, Reported>>
  <2>1. \A s \in Suites : Newest(s) \subseteq Born
    BY DEF Newest, RunsOf
  <2>. QED BY <1>2, <1>3, <2>1, SameAttempts, SameStates, SameReported
<1>5. Owed' = [s \in Suites |-> {}]
  <2>1. OwedRead'
    BY Readings
  <2>2. \A s \in Suites : NoRun \notin RunsOf(s)'
    BY NoRunAssumption DEF RunsOf, Born
  <2>3. \A s \in Suites : \A k : k \notin Owed'[s]
    BY <1>2, <2>1, <2>2 DEF OwedRead
  <2>4. \A s \in Suites : Owed'[s] = {}
    BY <2>3
  <2>. QED BY <2>1, <2>4 DEF OwedRead
<1>. QED BY <1>2, <1>4, <1>5 DEF Follows, Promise!Next, Promise!Crash

-----------------------------------------------------------------------------
(* The refinement *)

\* The steps the submitter may see something of.
LEMMA VisibleSteps ==
  ASSUME [Next]_vars
  PROVE  \/ UNCHANGED <<run, retry, said, reg>>
         \/ Submit \/ Restart \/ Rollup \/ TickFinish \/ TickMarkDispatched
         \/ \E t \in Finishers : QueueRetry(t)
         \/ \E r \in RunIds : TickApplyRunning(r)
         \/ \E h \in Handlers, m \in wire :
              EventStarted(h, m) \/ EventProgress(h, m) \/ EventFinished(h, m)
         \/ \E h \in Handlers : HandlerFinish(h)
         \/ \E c \in Clients, r \in RunIds : CancelMark(c, r) \/ CancelSuiteMark(c, r)
         \/ \E c \in Clients : CancelEnd(c)
         \/ \E r \in RunIds, v \in RunnerVerdicts : RunnerConcludes(r, v)
<1>1. "tick" \in Finishers /\ \A h \in Handlers : h \in Finishers
  BY DEF Finishers
<1>2. CASE Outside
  BY <1>2 DEF Outside, Reap, RunnerStarts, RunnerProgresses, RunnerExits, AllocDies, LoseEvent,
              MasterUnchanged, storeVars
<1>3. CASE TickStep
  <2>1. CASE \/ TickReconcile \/ TickAdmit \/ TickRollupAll
             \/ \E r \in RunIds : TickTimeout(r) \/ TickApplyEnded(r) \/ TickDispatch(r)
                                    \/ TickDispatchFails(r) \/ TickDispatchUnanswered(r)
    BY <2>1 DEF TickReconcile, TickAdmit, TickRollupAll, TickTimeout, TickApplyEnded,
       TickDispatch, TickDispatchFails, TickDispatchUnanswered, storeVars, world, jobVars
  <2>. QED BY <1>1, <1>3, <2>1 DEF TickStep, TickRollup
<1>4. ASSUME NEW h \in Handlers, HandlerReceives(h) \/ HandlerGoesOn(h)
      PROVE  \/ Rollup
             \/ \E m \in wire : EventStarted(h, m) \/ EventProgress(h, m) \/ EventFinished(h, m)
             \/ HandlerFinish(h) \/ QueueRetry(h)
  BY <1>4 DEF HandlerReceives, HandlerGoesOn, HandlerRollup
<1>5. ASSUME NEW c \in Clients, ClientAsks(c) \/ ClientGoesOn(c)
      PROVE  \/ UNCHANGED <<run, retry, said, reg>> \/ Rollup \/ CancelEnd(c)
             \/ \E r \in RunIds : CancelMark(c, r) \/ CancelSuiteMark(c, r)
  BY <1>5 DEF ClientAsks, ClientGoesOn, CancelBegin, ClientRollup, CancelSuiteBegin, CancelStop,
              storeVars, world, jobVars
<1>. QED BY <1>1, <1>2, <1>3, <1>4, <1>5 DEF Next, vars, storeVars, world, jobVars

\* A run that is given its start, its summary or nothing at all.
LEMMA TouchFollows ==
  ASSUME Known, HasNewest, [Next]_vars, NEW r \in Born, UNCHANGED <<retry, said, reg>>,
         \/ run' = run
         \/ \E b : run' = [run EXCEPT ![r].tests = b]
         \/ ~Terminal(run[r].state) /\ run' = [run EXCEPT ![r].state = "running"]
  PROVE  Follows
<1>1. \A q \in Born : Terminal(run'[q].state) <=> Terminal(run[q].state)
  <2>1. ASSUME NEW q \in Born PROVE Terminal(run'[q].state) <=> Terminal(run[q].state)
    <3>1. CASE run' = run
      BY <3>1
    <3>2. ASSUME NEW b, run' = [run EXCEPT ![r].tests = b] PROVE run'[q].state = run[q].state
      BY <3>2, SetTestsOf DEF Known
    <3>3. CASE ~Terminal(run[r].state) /\ run' = [run EXCEPT ![r].state = "running"]
      <4>1. run'[q].state = IF q = r THEN "running" ELSE run[q].state
        BY <3>3, BornRun DEF Known, TypeOK, Run
      <4>. QED BY <3>3, <4>1 DEF Terminal, Verdict
    <3>. QED BY <3>1, <3>2, <3>3
  <2>. QED BY <2>1
<1>2. Born' = Born
  <2>1. CASE UNCHANGED run
    BY <2>1 DEF Born
  <2>2. CASE ~UNCHANGED run
    <3>1. ~Submit
      BY DEF Submit
    <3>2. \A t \in Finishers : ~QueueRetry(t)
      BY DEF QueueRetry, Known, TypeOK
    <3>. QED BY <3>1, <3>2, RunsBorn
  <2>. QED BY <2>1, <2>2
<1>3. \A s \in Suites : Newest(s) \subseteq Born
  BY DEF Newest, RunsOf
<1>. QED BY <1>1, <1>2, <1>3, Stutters

\* Every step is a step of SuiteAttempts, or one it does not see.
LEMMA StepFollows ==
  ASSUME Known, Seen, AttemptsContiguous, Spoken, VerdictIsReported, [Next]_vars
  PROVE  Follows
<1>1. CASE UNCHANGED <<run, retry, said, reg>>
  BY <1>1, Stutters DEF Seen, Born
<1>2. CASE Submit \/ Restart \/ Rollup
  BY <1>2, SubmitFollows, CrashFollows, RollupFollows DEF Seen
<1>3. CASE TickMarkDispatched
  BY <1>3, ReopenFollows DEF Seen
<1>4. CASE TickFinish
  <2>1. PICK r \in Born, v \in Verdict : r = tick.cur /\ v = tick.verdict
    BY <1>4 DEF TickFinish, Known, KnownRuns, TypeOK, Tick
  <2>2. Finish("tick", r, v) /\ "tick" \in Finishers /\ UNCHANGED <<said, reg>>
    BY <1>4, <2>1 DEF TickFinish, Finishers, world, jobVars
  <2>3. retry["tick"] = NoRun
    BY <1>4 DEF TickFinish, Seen, OneDebtAtATime
  <2>. QED BY <2>2, <2>3, FinishFollows DEF Seen
<1>5. ASSUME NEW h \in Handlers, HandlerFinish(h) PROVE Follows
  <2>1. PICK r \in Born, v \in Verdict : r = handler[h].cur /\ v = handler[h].verdict
    BY <1>5 DEF HandlerFinish, Known, KnownRuns, TypeOK, Handler
  <2>2. Finish(h, r, v) /\ h \in Finishers /\ UNCHANGED <<said, reg>>
    BY <1>5, <2>1 DEF HandlerFinish, Finishers, world, jobVars
  <2>3. retry[h] = NoRun
    BY <1>5 DEF HandlerFinish, Seen, OneDebtAtATime
  <2>. QED BY <2>2, <2>3, FinishFollows DEF Seen
<1>6. ASSUME NEW t \in Finishers, QueueRetry(t) PROVE Follows
  BY <1>6, RetryFollows DEF Seen
<1>7. ASSUME NEW r \in RunIds, TickApplyRunning(r) PROVE Follows
  <2>1. r \in Born
    BY <1>7 DEF TickApplyRunning, TickTakes, Known, KnownRuns
  <2>2. UNCHANGED <<retry, said, reg>>
    BY <1>7 DEF TickApplyRunning, world, jobVars
  <2>3. run' = run \/ (~Terminal(run[r].state) /\ run' = [run EXCEPT ![r].state = "running"])
    BY <1>7 DEF TickApplyRunning, Terminal, Verdict
  <2>. QED BY <2>1, <2>2, <2>3, TouchFollows DEF Seen
<1>8. ASSUME NEW h \in Handlers, NEW m \in wire,
             EventStarted(h, m) \/ EventProgress(h, m) \/ EventFinished(h, m)
      PROVE  Follows
  <2>1. m.run \in Born
    BY DEF Known, KnownRuns
  <2>2. UNCHANGED <<retry, said, reg>>
    BY <1>8 DEF EventStarted, EventProgress, EventFinished, Receive
  <2>3. \/ run' = run
        \/ \E b : run' = [run EXCEPT ![m.run].tests = b]
        \/ ~Terminal(run[m.run].state) /\ run' = [run EXCEPT ![m.run].state = "running"]
    BY <1>8 DEF EventStarted, EventProgress, EventFinished
  <2>. QED BY <2>1, <2>2, <2>3, TouchFollows DEF Seen
<1>9. ASSUME NEW c \in Clients, NEW r \in RunIds, CancelMark(c, r) \/ CancelSuiteMark(c, r)
      PROVE  Follows
  <2>1. r \in Born
    BY <1>9 DEF CancelMark, CancelSuiteMark, NextToMark, Known, KnownRuns
  <2>2. UNCHANGED <<retry, said, reg>>
    BY <1>9 DEF CancelMark, CancelSuiteMark, world, jobVars
  <2>3. run' = run \/ run' = [run EXCEPT ![r].state = "canceled"]
    BY <1>9 DEF CancelMark, CancelSuiteMark
  <2>. QED BY <2>1, <2>2, <2>3, MarkFollows DEF Seen
<1>10. ASSUME NEW c \in Clients, CancelEnd(c) PROVE Follows
  BY <1>10, CancelFollows DEF Seen
<1>11. ASSUME NEW r \in RunIds, NEW v \in RunnerVerdicts, RunnerConcludes(r, v) PROVE Follows
  BY <1>11, ReportFollows DEF Seen
<1>. QED BY <1>1, <1>2, <1>3, <1>4, <1>5, <1>6, <1>7, <1>8, <1>9, <1>10, <1>11, VisibleSteps

\* RunLifecycle implements SuiteAttempts: whatever the goroutines, the jobs, the
\* messages and the crashes do, the submitter only ever sees attempts that end,
\* are followed within the allowance of their suite or are reopened, and a
\* regression shown as its suites and their runners bear out (finish, newRun,
\* Rollup, dispatch, Cancel, OpenWith).
THEOREM PromiseImplemented == Spec => PromiseKept
<1>1. Init => Seen
  BY DEF Init, Seen, OneDebtAtATime, HasNewest, Silent, Answers, Finishers, RunsOf, Born,
         IdleTick, IdleHandler, IdleClient
<1>2. TypeOK /\ KnownRuns /\ Seen /\ [Next]_vars => Seen'
  BY SeenStep DEF Known
<1>3. /\ TypeOK /\ KnownRuns /\ Seen /\ AttemptsContiguous /\ Spoken /\ VerdictIsReported
      /\ [Next]_vars
      => [Promise!Next]_(Promise!vars)
  BY StepFollows DEF Known, Follows, PromiseVars, Promise!vars
<1>4. Init => Promise!Init
  BY InitFollows
<1>. QED BY <1>1, <1>2, <1>3, <1>4, KnownAlways, AttemptsAreContiguous, VerdictsAreReported,
            PTL DEF Spec, PromiseKept, Promise!Spec
=============================================================================
