----------------------------- MODULE EventInformer -----------------------------
(***************************************************************************)
(* pkg/tracker/event, and the watcher of events of the generic tracker,    *)
(* which is written in the same way: Run of each tracker, what its handler *)
(* does with an event, and its cleanup, over the informers they share.     *)
(*                                                                         *)
(* Track is one who reads Messages and Failures until it returns; then its *)
(* deferred cleanup runs.  A tracker that wants to know of "403 Forbidden" *)
(* is one of an Event itself; what it hears of is left out.                *)
(*                                                                         *)
(* Every event is a failure; of any other the message alone is told.       *)
(***************************************************************************)
EXTENDS SharedInformer

VARIABLES
  options,   \* the InformerOptions of each tracker
  pc,        \* where each tracker is
  ctxDone,   \* is the context of its handler done?
  todo,      \* what is left of its cleanup
  initial,   \* initialEventUids
  first,     \* history: the version of each event that a new handler was given
  told       \* history: the newest version told

tracking == <<options, pc, ctxDone, todo, initial, first>>
vars     == <<watching, listener, tracking, told>>

EventInformerTypeOK ==
  /\ InformersTypeOK
  /\ options \in [Tracker -> Key]
  /\ pc \in [Tracker -> {"idle", "requested", "listed", "running", "cleaning", "over"}]
  /\ ctxDone \in [Tracker -> BOOLEAN]
  /\ todo \in [Tracker -> Seq({"stopSending", "RemoveEventHandler"})]
  /\ initial \in [Tracker -> SUBSET Event]
  /\ first \in [Event -> Version] /\ told \in [Event -> Version]

KeyOf(i) == KeyFor(options[i])

\* The informers and their factory have one lock.
Unlocked == \A i \in Tracker : pc[i] # "listed"

EventsOf(i) == {e \in Event : Involved[e] = i /\ options[i] = "lenient"}

Goto(i, place) == pc' = [pc EXCEPT ![i] = place]

-----------------------------------------------------------------------------
(***************************************************************************)
(* Run.                                                                    *)
(***************************************************************************)
GetInformer(i) ==
  /\ pc[i] = "idle" /\ Unlocked
  /\ Goto(i, "requested")
  /\ ForNamespace(options[i])
  /\ UNCHANGED <<server, store, watchErrCh, errors, stopCh, listener,
                 options, ctxDone, todo, initial, first, told>>

\* Reads the store, which is empty before the informer has started.
HandleInitialEvents(i) ==
  /\ pc[i] = "requested" /\ Unlocked
  /\ Goto(i, "listed")
  /\ initial' = [initial EXCEPT ![i] = {e \in EventsOf(i) : store[e] # 0}]
  /\ UNCHANGED <<watching, listener, options, ctxDone, todo, first, told>>

\* The new handler is given what is in the store.
AddEventHandler(i) ==
  LET k == KeyOf(i)
      stored == {e \in EventsOf(i) : store[e] # 0}
  IN /\ pc[i] = "listed"
     /\ informer[k].pc \notin {"stopping", "stopped"}
     /\ Goto(i, "running")
     /\ informer' = [informer EXCEPT ![k] = Started(@)]
     /\ listener' = [listener EXCEPT
          ![i].on = TRUE,
          ![i].queue = [n \in 1 .. Cardinality(stored) |->
             [event |-> SetToSeq(stored)[n], version |-> store[SetToSeq(stored)[n]]]]]
     /\ first' = [e \in Event |-> IF e \in stored THEN store[e] ELSE first[e]]
     /\ UNCHANGED <<server, store, watchErrCh, errors, stopCh,
                    options, ctxDone, todo, initial, told>>

\* An informer that has stopped takes no handler: Run and Track return the error.
RunFails(i) ==
  /\ pc[i] = "listed"
  /\ informer[KeyOf(i)].pc \in {"stopping", "stopped"}
  /\ Goto(i, "over")
  /\ ctxDone' = [ctxDone EXCEPT ![i] = TRUE]
  /\ UNCHANGED <<watching, listener, options, todo, initial, first, told>>

-----------------------------------------------------------------------------
(***************************************************************************)
(* The handler, in the goroutine of the listener.                          *)
(***************************************************************************)
Saying(i, what, n) == [listener[i] EXCEPT !.saying = what, !.about = n, !.queue = Tail(@)]

\* The bug EveryChangeIsTold looks for: an event that is old stays old.
HandleEventAsOld(i) ==
  LET n == Head(listener[i].queue)
  IN /\ listener[i].saying = "nothing" /\ listener[i].queue # <<>>
     /\ listener' = [listener EXCEPT ![i] =
          IF n.event \in initial[i] THEN [@ EXCEPT !.queue = Tail(@)] ELSE Saying(i, "message", n)]
     /\ UNCHANGED <<watching, tracking, told>>

\* handleEvent
HandleEvent(i) ==
  LET n == Head(listener[i].queue)
  IN /\ listener[i].saying = "nothing" /\ listener[i].queue # <<>>
     /\ IF n.event \in initial[i]
          THEN /\ initial' = [initial EXCEPT ![i] = @ \ {n.event}]
               /\ listener' = [listener EXCEPT ![i].queue = Tail(@)]
          ELSE /\ listener' = [listener EXCEPT ![i] = Saying(i, "message", n)]
               /\ UNCHANGED initial
     /\ UNCHANGED <<watching, options, pc, ctxDone, todo, first, told>>

\* The message, then the failure.
Said(i) ==
  listener' = [listener EXCEPT ![i] =
    IF @.saying = "message" THEN [@ EXCEPT !.saying = "failure"]
                            ELSE [@ EXCEPT !.saying = "nothing", !.about = <<>>]]

\* Track takes it.
Tell(i) ==
  LET n == listener[i].about
  IN /\ listener[i].saying # "nothing"
     /\ pc[i] = "running"
     /\ told' = IF listener[i].saying = "failure" THEN [told EXCEPT ![n.event] = n.version] ELSE told
     /\ Said(i)
     /\ UNCHANGED <<watching, tracking>>

\* SendOrDone
GiveUp(i) ==
  /\ listener[i].saying # "nothing"
  /\ ctxDone[i]
  /\ Said(i)
  /\ UNCHANGED <<watching, tracking, told>>

-----------------------------------------------------------------------------
(***************************************************************************)
(* The end of Track.                                                       *)
(***************************************************************************)

\* The consumer of Track leaves, or its time is over.
Cancel(i) ==
  /\ pc[i] = "running" /\ ~ ctxDone[i]
  /\ ctxDone' = [ctxDone EXCEPT ![i] = TRUE]
  /\ UNCHANGED <<watching, listener, options, pc, todo, initial, first, told>>

\* The bug CleanupReturns looks for: the handler is removed before it is released.
CleanupFromBehind == <<"RemoveEventHandler", "stopSending">>

Cleanup == <<"stopSending", "RemoveEventHandler">>

TrackReturns(i) ==
  /\ pc[i] = "running"
  /\ Goto(i, "cleaning")
  /\ todo' = [todo EXCEPT ![i] = Cleanup]
  /\ UNCHANGED <<watching, listener, options, ctxDone, initial, first, told>>

CleanupStep(i, step) ==
  /\ pc[i] = "cleaning" /\ todo[i] # <<>> /\ Head(todo[i]) = step
  /\ todo' = [todo EXCEPT ![i] = Tail(@)]
  /\ IF Len(todo[i]) = 1 THEN Goto(i, "over") ELSE UNCHANGED pc

StopSending(i) ==
  /\ CleanupStep(i, "stopSending")
  /\ ctxDone' = [ctxDone EXCEPT ![i] = TRUE]
  /\ UNCHANGED <<watching, listener, options, initial, first, told>>

\* Waits for an informer that is stopping.
RemoveEventHandler(i) ==
  /\ CleanupStep(i, "RemoveEventHandler")
  /\ informer[KeyOf(i)].pc # "stopping"
  /\ listener' = [listener EXCEPT ![i].on = FALSE, ![i].queue = <<>>]
  /\ UNCHANGED <<watching, options, ctxDone, initial, first, told>>

-----------------------------------------------------------------------------
(***************************************************************************)
(* The specification.                                                      *)
(***************************************************************************)
\* An informer waits for the goroutines of handlers that were removed before, too.
Users(k) == {i \in Tracker : KeyOf(i) = k}

Watch ==
  /\ \/ \E e \in Event : Write(e) \/ Receive(e, Users("lenient"))
     \/ \E k \in Key, err \in {"forbidden", "other"} : WatchError(k, err)
     \/ Stop \/ UserReads
  /\ UNCHANGED <<tracking, told>>

Erring(k) == (SendWatchError(k) \/ DropWatchError(k)) /\ UNCHANGED <<tracking, told>>

Stopping(k) ==
  (InformerStops(k, Users(k)) \/ InformerStopped(k, Users(k))) /\ UNCHANGED <<tracking, told>>

Handler(i) == HandleEvent(i) \/ Tell(i) \/ GiveUp(i)

Run(i) == GetInformer(i) \/ HandleInitialEvents(i) \/ AddEventHandler(i) \/ RunFails(i)

Cleaning(i) == StopSending(i) \/ RemoveEventHandler(i)

Over ==
  /\ \A k \in Key : informer[k].pc \in {"off", "stopped"}
  /\ UNCHANGED vars

Init ==
  /\ InformersInit
  /\ options \in [Tracker -> Key]
  /\ pc = [i \in Tracker |-> "idle"]
  /\ ctxDone = [i \in Tracker |-> FALSE]
  /\ todo = [i \in Tracker |-> <<>>]
  /\ initial = [i \in Tracker |-> {}]
  /\ first = [e \in Event |-> 0]
  /\ told = [e \in Event |-> 0]

Next ==
  \/ Watch
  \/ \E k \in Key : Erring(k) \/ Stopping(k)
  \/ \E i \in Tracker : Run(i) \/ Handler(i) \/ Cancel(i) \/ TrackReturns(i) \/ Cleaning(i)
  \/ Over

\* All goroutines run.  A Track that does not return reads what it is told, unless its
\* context is done: then it may be in a send that nobody takes.
Fairness ==
  /\ \A k \in Key : WF_vars(Erring(k)) /\ WF_vars(Stopping(k))
  /\ \A i \in Tracker : WF_vars(Handler(i)) /\ WF_vars(Cleaning(i))

Spec == Init /\ [][Next]_vars /\ Fairness

-----------------------------------------------------------------------------
(***************************************************************************)
(* Properties.                                                             *)
(***************************************************************************)

\* Each tracker's informer judges "403 Forbidden" as the tracker asked for, in whatever
\* order they come: it is no error for the one, and never just a warning for the other.
ForbiddenIsJudgedAsAsked ==
  \A i \in Tracker :
    pc[i] \in {"requested", "listed", "running"} =>
      /\ options[i] = "lenient" => informer[KeyOf(i)].err # "forbidden"
      /\ options[i] = "strict" => ~ informer[KeyOf(i)].warned

\* A tracker that has nothing to hear of has been told of the newest version of every
\* event, unless that is the one which its handler was given first: only one version of
\* an event can be taken for old.
EveryChangeIsTold ==
  \A i \in Tracker : \A e \in EventsOf(i) :
    /\ pc[i] = "running" /\ ~ ctxDone[i] /\ listener[i].on
    /\ listener[i].queue = <<>> /\ listener[i].saying = "nothing"
    /\ store[e] > first[e]
    => told[e] = store[e]

\* When the user stops the informers they stop, although handlers wait for a Track that
\* has returned, or the handler of a watch error for a user who has left.
InformersStop == stopCh ~> \A k \in Key : informer[k].pc \in {"off", "stopped"}

\* The cleanup of a tracker returns, also when its informer is stopping, and holds the lock
\* of its handlers while it waits for the very handler that is to be removed.
CleanupReturns == \A i \in Tracker : pc[i] = "cleaning" ~> pc[i] = "over"
=============================================================================
