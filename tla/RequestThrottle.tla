--------------------------- MODULE RequestThrottle ---------------------------
(***************************************************************************)
(* The throttle of the HTTP session for one endpoint: _wait_delay() and    *)
(* endpointLimit() of solixapi/session.py and RequestCounter of helpers.py.*)
(*                                                                         *)
(* After the answer "too many requests" an endpoint is throttled: with as  *)
(* many requests in the last minute as the limit allows, the next one      *)
(* waits until the oldest of them is 65 seconds old.  The wait is computed *)
(* before the request sleeps, and the request is counted when its answer   *)
(* arrives: several tasks of a session read the same count.                *)
(*                                                                         *)
(* Time passes in ticks.  The counter keeps the ages of the requests that  *)
(* last_minute() still counts, oldest first.                               *)
(***************************************************************************)
EXTENDS Integers, Sequences, FiniteSets

CONSTANTS
  Requesters,   \* tasks that use the session
  Window,       \* a request counts while it is younger: 62 seconds
  ThrottleAge,  \* what a throttled request waits for: 65 seconds
  RequestDelay, \* the delay after the last request
  Limits,       \* values of the endpoint limit, 0 for none
  Burst         \* bound on the requests counted without a throttle

ASSUME ThrottleAssumption ==
  /\ Window \in Nat \ {0} /\ ThrottleAge \in Nat /\ RequestDelay \in Nat
  /\ Window <= ThrottleAge
  /\ Limits \subseteq Nat
  /\ IsFiniteSet(Requesters)

VARIABLES
  ages,         \* request_count.elements of the last minute
  lastAge,      \* age of _last_request_time, RequestDelay when it is older
  throttled,    \* the endpoint is in request_count.throttled
  limit,        \* _endpoint_limit
  repeated,     \* _retry_attempt is 429
  requester,    \* what each task does, and for how long it still sleeps
  single,       \* no task ever began a request during another one
  peak          \* requests counted or under way when throttling began

throttleVars ==
  <<ages, lastAge, throttled, limit, repeated, requester, single, peak>>

Higher(a, b) == IF a >= b THEN a ELSE b

Resting == [at |-> "rest", left |-> 0]
Resters == {r \in Requesters : requester[r] = Resting}

\* Faulty: the request waits for the oldest one to be a window's half old.
ThrottleShort(counted, on, max) ==
  IF on /\ max > 0 /\ Len(counted) >= max THEN Window \div 2 - counted[1]
  ELSE 0

\* How long a request waits for the oldest one counted to pass the minute.
Throttle(counted, on, max) ==
  IF on /\ max > 0 /\ Len(counted) >= max THEN ThrottleAge - counted[1]
  ELSE 0

\* _wait_delay(): the longer of the throttle and the delay that is left.
Sleeping(counted, on, last) ==
  [at |-> "sleep",
   left |-> Higher(0, Higher(Throttle(counted, on, limit),
                             RequestDelay - last))]

ThrottleInit ==
  /\ ages = <<>>
  /\ lastAge = RequestDelay
  /\ throttled = FALSE
  /\ limit \in Limits
  /\ repeated = FALSE
  /\ requester = [r \in Requesters |-> Resting]
  /\ single = TRUE
  /\ peak = 0

\* A task is about to request the endpoint.
BeginRequest(r) ==
  /\ requester[r] = Resting
  /\ throttled \/ Len(ages) + Cardinality(Requesters \ Resters) < Burst
  /\ requester' = [requester EXCEPT ![r] = Sleeping(ages, throttled, lastAge)]
  /\ single' = (single /\ Resters = Requesters)
  /\ UNCHANGED <<ages, lastAge, throttled, limit, repeated, peak>>

\* The sleep is over, the request is sent.
SendRequest(r) ==
  /\ requester[r] = [at |-> "sleep", left |-> 0]
  /\ requester' = [requester EXCEPT ![r].at = "sent"]
  /\ UNCHANGED <<ages, lastAge, throttled, limit, repeated, single, peak>>

Tallied == Append(ages, 0)

AnswerRequest(r) ==
  /\ requester[r].at = "sent"
  /\ requester' = [requester EXCEPT ![r] = Resting]
  /\ ages' = Tallied
  /\ lastAge' = 0
  /\ repeated' = FALSE
  /\ UNCHANGED <<throttled, limit, single, peak>>

\* "Too many requests": the request is repeated once with the throttle, if
\* there is a limit; a second answer of this kind is an error.
TooManyRequests(r) ==
  /\ requester[r].at = "sent"
  /\ ages' = Tallied
  /\ lastAge' = 0
  /\ IF ~repeated /\ limit > 0
     THEN /\ repeated' = TRUE
          /\ throttled' = TRUE
          /\ peak' = IF throttled THEN peak
                     ELSE Len(ages) + Cardinality(Requesters \ Resters)
          /\ requester' = [requester EXCEPT ![r] = Sleeping(Tallied, TRUE, 0)]
          /\ single' = (single /\ Resters = Requesters \ {r})
     ELSE /\ requester' = [requester EXCEPT ![r] = Resting]
          /\ UNCHANGED <<repeated, throttled, peak, single>>
  /\ UNCHANGED limit

\* No answer in time: the request is not counted, and its repetition after a
\* delay is a request of its own.
NoAnswer(r) ==
  /\ requester[r].at = "sent"
  /\ requester' = [requester EXCEPT ![r] = Resting]
  /\ repeated' = FALSE
  /\ UNCHANGED <<ages, lastAge, throttled, limit, single, peak>>

\* The limit is changed by the user; without one nothing is throttled.
SetLimit(max) ==
  /\ max # limit
  /\ limit' = max
  /\ throttled' = (throttled /\ max > 0)
  /\ peak' = Len(ages) + Cardinality(Requesters \ Resters)
  /\ UNCHANGED <<ages, lastAge, repeated, requester, single>>

PassTime ==
  LET young == {i \in 1..Len(ages) : ages[i] + 1 < Window}
      gone == Len(ages) - Cardinality(young)
  IN /\ ages' = [i \in 1..Cardinality(young) |-> ages[i + gone] + 1]
     /\ lastAge' = IF lastAge < RequestDelay THEN lastAge + 1 ELSE lastAge
     /\ requester' = [r \in Requesters |->
                        [requester[r] EXCEPT !.left = Higher(0, @ - 1)]]
     /\ UNCHANGED <<throttled, limit, repeated, single, peak>>

ThrottleNext ==
  \/ \E r \in Requesters :
       \/ BeginRequest(r)
       \/ SendRequest(r)
       \/ AnswerRequest(r)
       \/ TooManyRequests(r)
       \/ NoAnswer(r)
  \/ \E max \in Limits : SetLimit(max)
  \/ PassTime

ThrottleSpec == ThrottleInit /\ [][ThrottleNext]_throttleVars

(***************************************************************************)
(* Properties.                                                             *)
(***************************************************************************)

\* A task that has the session for itself keeps the limit of a throttled
\* endpoint, over repetitions, late answers and changes of the limit: the
\* requests of a minute never become more than the limit or, where more were
\* known when the throttle began, than these (only the oldest request is
\* waited for, so a minute that began too full stays so full).  Tasks that
\* read the count together pass the limit, and as the oldest request releases
\* all of them the excess grows (docstring of _wait_delay, session.py:275,
\* "to avoid exceeding endpoint limit per minute").
LoneTaskKeepsLimit ==
  throttled /\ single => Len(ages) <= Higher(limit, peak)
=============================================================================
