---------------------------- MODULE SuiteAttempts ----------------------------
(***************************************************************************)
(* What a regression promises its submitter, without the goroutines, the   *)
(* jobs and the messages that bring it about: every suite is tried again   *)
(* only after a try that ended badly, one attempt number after the other   *)
(* and within its allowance, and the state shown for the regression is     *)
(* one the suites have earned at the moment it is computed.                *)
(* RunLifecycle implements it.                                             *)
(***************************************************************************)
EXTENDS Naturals

CONSTANTS
  Suites,       \* suites of the submission
  MaxAttempts   \* MaxAttempts[s]: attempts suite s may use

VARIABLES
  attempts,   \* attempts[s]: number of the newest attempt, 0 before submission
  newest,     \* newest[s]: whether it is open or over; one number minted twice
              \* makes two newest attempts, which can be one and the other
  owed,       \* owed[s]: ended attempts whose successor has yet to be queued
  reported,   \* reported[s]: results the runners of the suite have reported
  shown       \* state of the regression, "none" before it is submitted

vars == <<attempts, newest, owed, reported, shown>>

Init ==
  /\ attempts = [s \in Suites |-> 0]
  /\ newest = [s \in Suites |-> {}]
  /\ owed = [s \in Suites |-> {}]
  /\ reported = [s \in Suites |-> {}]
  /\ shown = "none"

Submit ==
  /\ shown = "none"
  /\ shown' = "pending"
  /\ attempts' = [s \in Suites |-> 1]
  /\ newest' = [s \in Suites |-> {"open"}]
  /\ UNCHANGED <<owed, reported>>

\* A runner classifies its attempt.
Report(s, v) ==
  /\ attempts[s] > 0
  /\ reported' = [reported EXCEPT ![s] = @ \union {v}]
  /\ UNCHANGED <<attempts, newest, owed, shown>>

\* Attempt k ends, for good or as one that is to be followed by another.
End(s, k) ==
  /\ k \in 1..attempts[s]
  /\ \/ k < attempts[s] /\ UNCHANGED newest
     \/ k = attempts[s] /\ \E left \in SUBSET {"open"} :
                              newest' = [newest EXCEPT ![s] = {"over"} \union (left \intersect @)]
  /\ \/ UNCHANGED owed
     \/ k < MaxAttempts[s] /\ owed' = [owed EXCEPT ![s] = @ \union {k}]
  /\ UNCHANGED <<attempts, reported, shown>>

\* The successor of attempt k is queued.  An attempt that ended twice is
\* followed twice, by attempts of one number.
Retry(s, k) ==
  /\ k \in owed[s]
  /\ owed' \in {owed, [owed EXCEPT ![s] = @ \ {k}]}
  /\ \/ /\ k = attempts[s]
        /\ attempts' = [attempts EXCEPT ![s] = k + 1]
        /\ newest' = [newest EXCEPT ![s] = {"open"}]
     \/ /\ k + 1 = attempts[s]
        /\ newest' = [newest EXCEPT ![s] = @ \union {"open"}]
        /\ UNCHANGED attempts
     \/ k + 1 < attempts[s] /\ UNCHANGED <<attempts, newest>>
  /\ UNCHANGED <<reported, shown>>

\* The mark of a launch puts a newest attempt back in flight.
Reopen(s) ==
  /\ "over" \in newest[s]
  /\ \E left \in SUBSET {"over"} : newest' = [newest EXCEPT ![s] = {"open"} \union left]
  /\ UNCHANGED <<attempts, owed, reported, shown>>

\* What may be shown of the suites as they are now.
Earned(v) ==
  LET allOver == \A s \in Suites : "over" \in newest[s]
  IN  CASE v = "passed"  -> allOver /\ \A s \in Suites : "passed" \in reported[s]
        [] v = "failed"  -> allOver /\ \E s \in Suites : "failed" \in reported[s]
        [] v = "errored" -> allOver
        [] OTHER         -> \E s \in Suites : "open" \in newest[s]

Show(v) ==
  /\ shown # "none"
  /\ v \in {"pending", "running", "passed", "failed", "errored"} /\ Earned(v)
  /\ shown' = v
  /\ UNCHANGED <<attempts, newest, owed, reported>>

Cancel ==
  /\ shown # "none"
  /\ shown' = "canceled"
  /\ UNCHANGED <<attempts, newest, owed, reported>>

\* The master crashes, and forgets which successors it owed.
Crash ==
  /\ owed' = [s \in Suites |-> {}]
  /\ UNCHANGED <<attempts, newest, reported, shown>>

Next ==
  \/ Submit \/ Cancel \/ Crash
  \/ \E s \in Suites :
       \/ Reopen(s)
       \/ \E v \in {"passed", "failed", "errored", "timeout"} : Report(s, v)
       \/ \E k \in 1..MaxAttempts[s] : End(s, k) \/ Retry(s, k)
  \/ \E v \in {"pending", "running", "passed", "failed", "errored"} : Show(v)

Spec == Init /\ [][Next]_vars
=============================================================================
