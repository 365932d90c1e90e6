--------------------------- MODULE ExistencePollers ---------------------------
(***************************************************************************)
(* DynamicAbsenceTracker.Track and DynamicPresenceTracker.Track: a poller  *)
(* asks the API server for the resource until it has the answer it waits   *)
(* for, an error or a timeout, and keeps the status that others read from  *)
(* the task meanwhile.  Which of the two it is, and whether the absence    *)
(* tracker has a timeout, is chosen at the start.                          *)
(*                                                                         *)
(* wait.PollImmediate asks at once, then at each tick, and once more when  *)
(* the timeout is over.  It does not look at the caller's context.         *)
(***************************************************************************)
EXTENDS Naturals

CONSTANTS
  MaxFlips,   \* bound: times the resource appears or disappears
  MaxLapses     \* bound: answers that say nothing (expired, gone, end of stream)

ASSUME PollerAssumption == {MaxFlips, MaxLapses} \subseteq Nat

VARIABLES
  wanted,     \* "absent" or "present": which tracker it is
  timer,      \* "none", "running" or "fired"
  object,     \* is the resource "absent" or "present" in the cluster?
  ctxDone,    \* is the caller's context done?
  bounds,     \* how often the bounded actions were taken
  pc,         \* "start", "ask", "answered", "wait", "found" or "returned"
  answer,     \* the last answer of Get
  lastTry,    \* did PollImmediate ask for the last time?
  status,     \* the status of the resource state
  result,     \* what Track returned
  missed      \* history: was the resource ever not as wanted since the timer fired?

pollerVars ==
  <<wanted, timer, object, ctxDone, bounds, pc, answer, lastTry, status, result, missed>>

Existence == {"absent", "present"}

PollerTypeOK ==
  /\ wanted \in Existence /\ object \in Existence
  /\ timer \in {"none", "running", "fired"}
  /\ ctxDone \in BOOLEAN /\ lastTry \in BOOLEAN /\ missed \in BOOLEAN
  /\ bounds \in [{"changes", "lapses"} -> Nat]
  /\ pc \in {"start", "ask", "answered", "wait", "found", "returned"}
  /\ answer \in Existence \cup {"none", "lapse", "error"}
  /\ status \in {"Unknown", "Created", "Deleted"}
  /\ result \in {"none", "nil", "error", "timeout"}

Count(what, max) ==
  /\ bounds[what] < max
  /\ bounds' = [bounds EXCEPT ![what] = @ + 1]

-----------------------------------------------------------------------------
ResourceChanges ==
  /\ Count("changes", MaxFlips)
  /\ object' \in Existence \ {object}
  /\ missed' = (missed \/ (timer = "fired" /\ object' # wanted))
  /\ UNCHANGED <<wanted, timer, ctxDone, pc, answer, lastTry, status, result>>

Cancel ==
  /\ ~ ctxDone
  /\ ctxDone' = TRUE
  /\ UNCHANGED <<wanted, timer, object, bounds, pc, answer, lastTry, status, result, missed>>

TimerFires ==
  /\ timer = "running" /\ pc # "returned"
  /\ timer' = "fired"
  /\ missed' = (object # wanted)
  /\ UNCHANGED <<wanted, object, ctxDone, bounds, pc, answer, lastTry, status, result>>

\* The kind of the resource is looked up first, which may fail.
Lookup ==
  /\ pc = "start"
  /\ \/ pc' = "ask" /\ UNCHANGED result
     \/ pc' = "returned" /\ result' = "error"
  /\ UNCHANGED <<wanted, timer, object, ctxDone, bounds, answer, lastTry, status, missed>>

\* resourceClient.Get
Get ==
  /\ pc = "ask"
  /\ pc' = "answered"
  /\ \/ ~ ctxDone /\ answer' = object /\ UNCHANGED bounds
     \/ ~ ctxDone /\ answer' = "lapse" /\ Count("lapses", MaxLapses)
     \/ answer' = "error" /\ UNCHANGED bounds
  /\ UNCHANGED <<wanted, timer, object, ctxDone, lastTry, status, result, missed>>

\* The condition is not met: PollImmediate goes on or gives up.
PollOn ==
  \/ ~ lastTry /\ pc' = "wait" /\ UNCHANGED result
  \/ lastTry /\ pc' = "returned" /\ result' = "timeout"

AnswerLapse ==
  /\ pc = "answered" /\ answer = "lapse"
  /\ PollOn
  /\ UNCHANGED <<wanted, timer, object, ctxDone, bounds, answer, lastTry, status, missed>>

\* Mutant: an error is taken for an answer that says nothing.
ErrorPollsOn ==
  /\ pc = "answered" /\ answer = "error"
  /\ PollOn
  /\ UNCHANGED <<wanted, timer, object, ctxDone, bounds, answer, lastTry, status, missed>>

AnswerError ==
  /\ pc = "answered" /\ answer = "error"
  /\ pc' = "returned" /\ result' = "error"
  /\ UNCHANGED <<wanted, timer, object, ctxDone, bounds, answer, lastTry, status, missed>>

AnswerUnwanted ==
  /\ pc = "answered" /\ answer \in Existence \ {wanted}
  /\ status' = IF answer = "present" THEN "Created" ELSE "Deleted"
  /\ PollOn
  /\ UNCHANGED <<wanted, timer, object, ctxDone, bounds, answer, lastTry, missed>>

\* Mutant: the condition does not say that it is met.
WantedPollsOn ==
  /\ pc = "answered" /\ answer = wanted
  /\ PollOn
  /\ UNCHANGED <<wanted, timer, object, ctxDone, bounds, answer, lastTry, status, missed>>

AnswerWanted ==
  /\ pc = "answered" /\ answer = wanted
  /\ pc' = "found"
  /\ UNCHANGED <<wanted, timer, object, ctxDone, bounds, answer, lastTry, status, result, missed>>

Tick ==
  /\ pc = "wait"
  /\ pc' = "ask"
  /\ UNCHANGED <<wanted, timer, object, ctxDone, bounds, answer, lastTry, status, result, missed>>

TimeIsOver ==
  /\ pc = "wait" /\ timer = "fired"
  /\ pc' = "ask" /\ lastTry' = TRUE
  /\ UNCHANGED <<wanted, timer, object, ctxDone, bounds, answer, status, result, missed>>

Found ==
  /\ pc = "found"
  /\ status' = IF wanted = "present" THEN "Created" ELSE "Deleted"
  /\ pc' = "returned" /\ result' = "nil"
  /\ UNCHANGED <<wanted, timer, object, ctxDone, bounds, answer, lastTry, missed>>

Returned == pc = "returned" /\ UNCHANGED pollerVars

-----------------------------------------------------------------------------
\* The presence tracker always has a timeout.
PollerInit ==
  /\ wanted \in Existence
  /\ timer \in IF wanted = "present" THEN {"running"} ELSE {"none", "running"}
  /\ object \in Existence
  /\ ctxDone = FALSE
  /\ bounds = [what \in {"changes", "lapses"} |-> 0]
  /\ pc = "start"
  /\ answer = "none"
  /\ lastTry = FALSE
  /\ status = "Unknown"
  /\ result = "none"
  /\ missed = FALSE

Poll ==
  \/ Lookup \/ Get
  \/ AnswerLapse \/ AnswerError \/ AnswerUnwanted \/ AnswerWanted
  \/ Tick \/ TimeIsOver
  \/ Found

PollerNext == Poll \/ ResourceChanges \/ Cancel \/ TimerFires \/ Returned

PollerSpec == PollerInit /\ [][PollerNext]_pollerVars

\* The goroutine runs, time passes, and select sees a timeout that is over.
FairPollerSpec ==
  /\ PollerSpec
  /\ WF_pollerVars(Poll)
  /\ WF_pollerVars(TimerFires)
  /\ SF_pollerVars(TimeIsOver)

-----------------------------------------------------------------------------
(***************************************************************************)
(* Properties.                                                             *)
(***************************************************************************)

\* AbsenceTaskState.Status and PresenceTaskState.Status: Absent or Present is
\* the success of the task.
Succeeded ==
  \/ wanted = "absent" /\ status = "Deleted"
  \/ wanted = "present" /\ status = "Created"

\* What Track returns and what a reader of the task sees agree: the task is a
\* success exactly when Track has returned without an error.
ResultAgreesWithStatus == Succeeded <=> pc = "returned" /\ result = "nil"

\* Success is always that of an answer of the server.
SuccessIsAnswered == Succeeded => answer = wanted

\* Track times out only if the resource was not as wanted at or after the
\* timeout, or the server's last answer said nothing.
NoFalseTimeout == result = "timeout" => missed \/ answer = "lapse"

\* With a timeout, or once the context is done, Track returns.
PollingEnds == (timer # "none" \/ ctxDone) ~> pc = "returned"

\* A resource that stays as wanted ends the polling also without a timeout.
WantedIsNoticed == object = wanted ~> pc = "returned" \/ object # wanted
=============================================================================
