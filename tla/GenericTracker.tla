---------------------------- MODULE GenericTracker ----------------------------
(***************************************************************************)
(* pkg/tracker/generic: the tracker of a resource of any other kind.       *)
(*                                                                         *)
(* Track selects over what the informer of the resource and that of its    *)
(* events send it, over a timer that is started anew in each turn, and     *)
(* over its context.  Beside it runs a goroutine that waits until the      *)
(* status of the resource has had time to become stable, puts the tracker  *)
(* into the state Started and sends it the object once more.  The fields   *)
(* that both use are locked one access at a time.                          *)
(*                                                                         *)
(* An object is what NewResourceStatus makes of it.  It is never both      *)
(* ready and failed: no rule has a value for both.                         *)
(***************************************************************************)
EXTENDS Naturals, Sequences

CONSTANTS
  None,          \* no object
  MaxChanges,    \* bound: changes of the object and events about it
  MaxTimeouts,   \* bound: times the timer fires
  MayStop        \* bound: may the context end?

Object == {"ready", "failed", "progressing", "malformed"}

ASSUME GenericConstantsAssumption ==
  /\ None \notin Object
  /\ {MaxChanges, MaxTimeouts} \subseteq Nat
  /\ MayStop \in BOOLEAN

TrackerState ==
  {"Initial", "StatusStabilizing", "Started", "ResourceAdded",
   "ResourceSucceeded", "ResourceFailed", "ResourceDeleted"}

Notification == [kind : {"Added", "Modified", "Deleted"}, object : Object]

\* What Track sends, with the status in it: that of an object, of a deletion,
\* of the timer, or none in the case of an event.
Message ==
  [ch : {"added", "succeeded", "failed", "regular", "event"},
   status : Object \cup {"deleted", "timeout", "none"}]

VARIABLES
  object,      \* the object in the store of the informer
  pending,     \* what the handler of the informer still has to send, in order
  eventOffer,  \* events that the handler of their informer still has to send
  ctxDone,     \* is the context done?
  bounds,      \* how often the bounded actions were taken
  lastState,   \* t.lastState
  stableAt,    \* t.statusStableAt: "zero", "ahead" or "past"
  saved,       \* t.lastObjDuringStatusStabilization
  ticker,      \* the goroutine of the ticker
  replay,      \* the object that it sends
  loop,        \* Track: "select", "saving" an object, or "returned"
  saving,      \* that object
  out,         \* the message that Track is sending
  heard,       \* history: the object that the informer told Track of last
  stale        \* history: has a replay replaced it by another one since?

cluster == <<object, pending, eventOffer, ctxDone, bounds>>
fields  == <<lastState, stableAt, saved>>
history == <<heard, stale>>
genericVars == <<cluster, fields, ticker, replay, loop, saving, out, history>>

GenericTypeOK ==
  /\ object \in Object \cup {None}
  /\ pending \in Seq(Notification)
  /\ eventOffer \in Nat
  /\ ctxDone \in BOOLEAN
  /\ bounds \in [{"changes", "timeouts"} -> Nat]
  /\ lastState \in TrackerState
  /\ stableAt \in {"zero", "ahead", "past"}
  /\ saved \in Object \cup {None}
  /\ ticker \in {"ticking", "switched", "sending", "done", "stopped"}
  /\ replay \in Object \cup {None}
  /\ loop \in {"select", "saving", "returned"}
  /\ saving \in Object \cup {None}
  /\ out \in Seq(Message)
  /\ heard \in Object \cup {None}
  /\ stale \in BOOLEAN

Selecting == loop = "select" /\ out = <<>>

Count(what, max) ==
  /\ bounds[what] < max
  /\ bounds' = [bounds EXCEPT ![what] = @ + 1]

-----------------------------------------------------------------------------
(***************************************************************************)
(* The cluster, the informers and the context.                             *)
(***************************************************************************)
Notify(kind, o) ==
  /\ Count("changes", MaxChanges)
  /\ pending' = Append(pending, [kind |-> kind, object |-> o])
  /\ UNCHANGED <<eventOffer, ctxDone, fields, ticker, replay, loop, saving, out, history>>

ObjectAdded ==
  /\ object = None
  /\ object' \in Object
  /\ Notify("Added", object')

\* Also a new incarnation of which the informer did not see the old one go.
ObjectModified ==
  /\ object # None
  /\ object' \in Object
  /\ Notify("Modified", object')

ObjectDeleted ==
  /\ object # None
  /\ object' = None
  /\ Notify("Deleted", object)

\* The informer of the events is started with the first object.
EventArrives ==
  /\ lastState # "Initial"
  /\ Count("changes", MaxChanges)
  /\ eventOffer' = eventOffer + 1
  /\ UNCHANGED <<object, pending, ctxDone, fields, ticker, replay, loop, saving, out, history>>

Cancel ==
  /\ MayStop /\ ~ ctxDone
  /\ ctxDone' = TRUE
  /\ UNCHANGED <<object, pending, eventOffer, bounds, fields, ticker, replay, loop, saving, out, history>>

\* SendOrDone gives up when the context is done or Track has cleaned up.
DropOffer ==
  /\ ctxDone \/ loop = "returned"
  /\ \/ pending # <<>> /\ pending' = Tail(pending) /\ UNCHANGED eventOffer
     \/ eventOffer > 0 /\ eventOffer' = eventOffer - 1 /\ UNCHANGED pending
  /\ UNCHANGED <<object, ctxDone, bounds, fields, ticker, replay, loop, saving, out, history>>

-----------------------------------------------------------------------------
(***************************************************************************)
(* The goroutine of the ticker: handleStatusStabilized.                    *)
(***************************************************************************)
StabilizingTimePasses ==
  /\ stableAt = "ahead"
  /\ stableAt' = "past"
  /\ UNCHANGED <<cluster, lastState, saved, ticker, replay, loop, saving, out, history>>

\* Mutant: the object is sent again, but the state stays as it is.
SwitchesNothing ==
  /\ ticker = "ticking" /\ stableAt = "past"
  /\ ticker' = "switched"
  /\ UNCHANGED <<cluster, fields, replay, loop, saving, out, history>>

TickerSwitches ==
  /\ ticker = "ticking" /\ stableAt = "past"
  /\ lastState' = "Started"
  /\ ticker' = "switched"
  /\ UNCHANGED <<cluster, stableAt, saved, replay, loop, saving, out, history>>

TickerReads ==
  /\ ticker = "switched"
  /\ replay' = saved
  /\ ticker' = "sending"
  /\ UNCHANGED <<cluster, fields, loop, saving, out, history>>

\* The select of the goroutine may prefer the ticker even now.
TickerStops ==
  /\ ticker = "ticking" /\ loop = "returned"
  /\ ticker' = "stopped"
  /\ UNCHANGED <<cluster, fields, replay, loop, saving, out, history>>

-----------------------------------------------------------------------------
(***************************************************************************)
(* The cases of Track.                                                     *)
(***************************************************************************)
\* Mutant: a resource that becomes ready is reported as any other status.
ChannelOfSuccessRegular(state, o) ==
  CASE state = "ResourceSucceeded"                          -> "regular"
    [] state # "ResourceSucceeded" /\ o = "failed"          -> "failed"
    [] state # "ResourceSucceeded" /\ o = "ready"           -> "regular"
    [] state # "ResourceSucceeded" /\ o = "progressing"     ->
         IF state = "ResourceDeleted" THEN "added" ELSE "regular"

ChannelOf(state, o) ==
  CASE state = "ResourceSucceeded"                          -> "regular"
    [] state # "ResourceSucceeded" /\ o = "failed"          -> "failed"
    [] state # "ResourceSucceeded" /\ o = "ready"           -> "succeeded"
    [] state # "ResourceSucceeded" /\ o = "progressing"     ->
         IF state = "ResourceDeleted" THEN "added" ELSE "regular"

StateAfter(state, o) ==
  CASE state = "ResourceSucceeded"                          -> state
    [] state # "ResourceSucceeded" /\ o = "failed"          -> "ResourceFailed"
    [] state # "ResourceSucceeded" /\ o = "ready"           -> "ResourceSucceeded"
    [] state # "ResourceSucceeded" /\ o = "progressing"     ->
         IF state = "ResourceDeleted" THEN "ResourceAdded" ELSE state

\* The events watcher is started, the stabilization begins; two seconds pass
\* before the ticker looks at the other fields.
Begin(o) ==
  /\ lastState = "Initial"
  /\ lastState' = "StatusStabilizing"
  /\ stableAt' = "ahead"
  /\ saved' = o
  /\ UNCHANGED <<loop, saving, out>>

\* The state is read, and the object is stored under another lock: SaveObject.
ReadStabilizing(o) ==
  /\ lastState = "StatusStabilizing"
  /\ loop' = "saving"
  /\ saving' = o
  /\ UNCHANGED <<fields, out>>

\* Started and ResourceAdded decide alike: nothing is lost by reading and
\* writing the state at once.
Settle(o) ==
  /\ lastState \notin {"Initial", "StatusStabilizing"}
  /\ o # "malformed"
  /\ lastState' = StateAfter(lastState, o)
  /\ out' = <<[ch |-> ChannelOf(lastState, o), status |-> o]>>
  /\ UNCHANGED <<stableAt, saved, loop, saving>>

HandleResourceAddedModified(o) == Begin(o) \/ ReadStabilizing(o) \/ Settle(o)

Receive(kind) ==
  /\ Selecting
  /\ pending # <<>> /\ Head(pending).kind = kind
  /\ pending' = Tail(pending)
  /\ stale' = FALSE
  /\ UNCHANGED <<object, eventOffer, ctxDone, bounds, ticker, replay>>

HandleResourceAdded ==
  /\ Receive("Added")
  /\ heard' = Head(pending).object
  /\ HandleResourceAddedModified(heard')

HandleResourceModified ==
  /\ Receive("Modified")
  /\ heard' = Head(pending).object
  /\ HandleResourceAddedModified(heard')

HandleReplay ==
  /\ Selecting /\ ticker = "sending"
  /\ ticker' = "done"
  /\ HandleResourceAddedModified(replay)
  /\ stale' = (stale \/ replay # heard)
  /\ UNCHANGED <<cluster, replay, heard>>

\* Mutant: the object that came first is kept.
KeepFirst ==
  /\ loop = "saving"
  /\ loop' = "select"
  /\ saving' = None
  /\ UNCHANGED <<cluster, fields, ticker, replay, out, history>>

SaveObject ==
  /\ loop = "saving"
  /\ loop' = "select"
  /\ saved' = saving
  /\ saving' = None
  /\ UNCHANGED <<cluster, lastState, stableAt, ticker, replay, out, history>>

HandleResourceDeleted ==
  /\ Receive("Deleted")
  /\ heard' = None
  /\ lastState' = "ResourceDeleted"
  /\ out' = <<[ch |-> "regular", status |-> "deleted"]>>
  /\ UNCHANGED <<stableAt, saved, loop, saving>>

\* EventStatus.IsFailure is never true.
HandleEvent ==
  /\ Selecting /\ eventOffer > 0
  /\ eventOffer' = eventOffer - 1
  /\ out' = <<[ch |-> "event", status |-> "none"]>>
  /\ UNCHANGED <<object, pending, ctxDone, bounds, fields, ticker, replay, loop, saving, history>>

\* The timer may be shorter than the stabilization, and select chooses at
\* random among the cases that are ready.
HandleNoActivity ==
  /\ Selecting
  /\ Count("timeouts", MaxTimeouts)
  /\ out' = <<[ch |-> "failed", status |-> "timeout"]>>
  /\ UNCHANGED <<object, pending, eventOffer, ctxDone, fields, ticker, replay, loop, saving, history>>

Return ==
  /\ Selecting
  /\ loop' = "returned"
  /\ UNCHANGED <<eventOffer, object, ctxDone, bounds, fields, saving, out, replay>>

HandleCtxDone == ctxDone /\ Return /\ UNCHANGED <<pending, ticker, history>>

\* The events watcher does not start, or the status cannot be made.
HandleError ==
  /\ Return
  /\ \/ /\ pending # <<>> /\ Head(pending).kind # "Deleted"
        /\ \/ lastState = "Initial"
           \/ Head(pending).object = "malformed" /\ lastState # "StatusStabilizing"
        /\ pending' = Tail(pending)
        /\ heard' = Head(pending).object
        /\ stale' = FALSE
        /\ UNCHANGED ticker
     \/ /\ ticker = "sending" /\ replay = "malformed"
        /\ lastState \notin {"Initial", "StatusStabilizing"}
        /\ ticker' = "done"
        /\ stale' = (stale \/ replay # heard)
        /\ UNCHANGED <<pending, heard>>

\* Whoever receives has taken the message.
Sent ==
  /\ out # <<>>
  /\ out' = Tail(out)
  /\ UNCHANGED <<cluster, fields, ticker, replay, loop, saving, history>>

-----------------------------------------------------------------------------
GenericInit ==
  /\ object \in Object \cup {None}
  /\ pending = IF object = None THEN <<>> ELSE <<[kind |-> "Added", object |-> object]>>
  /\ eventOffer = 0
  /\ ctxDone = FALSE
  /\ bounds = [what \in {"changes", "timeouts"} |-> 0]
  /\ lastState = "Initial"
  /\ stableAt = "zero"
  /\ saved = None
  /\ ticker = "ticking"
  /\ replay = None
  /\ loop = "select"
  /\ saving = None
  /\ out = <<>>
  /\ heard = None
  /\ stale = FALSE

Ticker == StabilizingTimePasses \/ TickerSwitches \/ TickerReads \/ TickerStops

TrackGoesOn ==
  \/ HandleResourceAdded \/ HandleResourceModified \/ HandleResourceDeleted
  \/ HandleReplay \/ SaveObject
  \/ HandleEvent \/ HandleNoActivity

World ==
  \/ ObjectAdded \/ ObjectModified \/ ObjectDeleted
  \/ EventArrives \/ Cancel \/ DropOffer

GenericNext == World \/ Ticker \/ TrackGoesOn \/ HandleCtxDone \/ HandleError \/ Sent

GenericSpec == GenericInit /\ [][GenericNext]_genericVars

-----------------------------------------------------------------------------
(***************************************************************************)
(* Properties.                                                             *)
(***************************************************************************)

\* The object that waits for the end of the stabilization is the newest one
\* that Track has heard of, whatever the ticker did in the meantime.
SavedIsLatest == lastState = "StatusStabilizing" /\ loop = "select" => saved = heard
=============================================================================
