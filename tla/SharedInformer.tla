---------------------------- MODULE SharedInformer ----------------------------
(***************************************************************************)
(* pkg/informer: the informers of the events of a namespace, which the     *)
(* trackers share, with the errors of their watches.                       *)
(*                                                                         *)
(* An informer is client-go's, modelled from how it is used: a reflector   *)
(* that fills a store, and for each handler a queue and a goroutine.       *)
(* Events are never removed here: nobody has a handler for that.           *)
(***************************************************************************)
EXTENDS Integers, SequencesExt

CONSTANTS
  Tracker,     \* those who use the informers
  Event,       \* the events in the API server
  Involved,    \* the tracker of the object that each event is about
  MaxVersion,  \* bound: how often an event is written
  MaxErrors,   \* bound: errors of the watches
  Capacity     \* the places of watchErrCh

ASSUME InformerAssumption ==
  /\ IsFiniteSet(Event)
  /\ Involved \in [Event -> Tracker]
  /\ MaxVersion \in Nat \ {0} /\ MaxErrors \in Nat /\ Capacity \in Nat

\* InformerOptions: is "403 Forbidden" fatal?
Key == {"lenient", "strict"}

Version == 0 .. MaxVersion

VARIABLES
  server,      \* the version of each event in the API server, 0 when there is none
  informer,    \* the informers, by their options
  store,       \* what the lenient one has of the events; what the other has is left out
  listener,    \* the handler of each tracker
  watchErrCh,  \* the fatal errors that the user has yet to read
  errors,      \* errors so far
  stopCh       \* has the user stopped the informers?

watching == <<server, informer, store, watchErrCh, errors, stopCh>>

Nobody == [options |-> "unset", pc |-> "off", err |-> "none", warned |-> FALSE]

\* An informer that is "erring" is in the handler of a watch error, one that is
\* "stopping" holds the lock of its handlers and waits for them.
Informer ==
  [options : Key \cup {"unset"}, pc : {"off", "running", "erring", "stopping", "stopped"},
   err : {"none", "forbidden", "other"}, warned : BOOLEAN]

Notification == [event : Event, version : Version]

\* What a handler that waits in a send has to say yet.
Listener ==
  [on : BOOLEAN, queue : Seq(Notification),
   saying : {"nothing", "message", "failure"}, about : Notification \cup {<<>>}]

InformersTypeOK ==
  /\ server \in [Event -> Version]
  /\ informer \in [Key -> Informer]
  /\ store \in [Event -> Version]
  /\ listener \in [Tracker -> Listener]
  /\ watchErrCh \in Seq([key : Key \cup {"others"}, err : {"forbidden", "other"}]) /\ Len(watchErrCh) <= Capacity
  /\ errors \in 0 .. MaxErrors /\ stopCh \in BOOLEAN

-----------------------------------------------------------------------------
(***************************************************************************)
(* The factory.                                                            *)
(***************************************************************************)

\* The bug ForbiddenIsJudgedAsAsked looks for: one informer for all of a namespace.
KeyForAll(options) == "lenient"

\* namespacedFactoryKey
KeyFor(options) == options

\* SetWatchErrorHandler takes the newest handler until the informer has started.
ForNamespace(options) ==
  LET k == KeyFor(options)
  IN informer' = [informer EXCEPT ![k].options = IF informer[k].pc = "off" THEN options ELSE @]

\* Informer.Run
Started(inf) == IF inf.pc = "off" THEN [inf EXCEPT !.pc = "running"] ELSE inf

-----------------------------------------------------------------------------
(***************************************************************************)
(* The reflector and its errors.                                           *)
(***************************************************************************)

\* A change is heard of by the watch, or the newest version by the next list.
Receive(e, users) ==
  /\ informer["lenient"].pc = "running" /\ ~ stopCh
  /\ store[e] < server[e]
  /\ \E v \in {store[e] + 1, server[e]} :
       /\ store' = [store EXCEPT ![e] = v]
       /\ listener' = [i \in Tracker |->
            IF i = Involved[e] /\ i \in users /\ listener[i].on
              THEN [listener[i] EXCEPT !.queue = Append(@, [event |-> e, version |-> v])]
              ELSE listener[i]]
  /\ UNCHANGED <<server, informer, watchErrCh, errors, stopCh>>

\* Errors that close a watch in an orderly way change nothing.
WatchError(k, err) ==
  /\ informer[k].pc = "running" /\ ~ stopCh
  /\ errors < MaxErrors /\ errors' = errors + 1
  /\ informer' = [informer EXCEPT ![k] =
       IF err = "forbidden" /\ @.options = "lenient"
         THEN [@ EXCEPT !.warned = TRUE]
         ELSE [@ EXCEPT !.pc = "erring", !.err = err]]
  /\ UNCHANGED <<server, store, listener, watchErrCh, stopCh>>

Resumes(k) == informer' = [informer EXCEPT ![k].pc = "running", ![k].err = "none"]

SendWatchError(k) ==
  /\ informer[k].pc = "erring"
  /\ Len(watchErrCh) < Capacity
  /\ watchErrCh' = Append(watchErrCh, [key |-> k, err |-> informer[k].err])
  /\ Resumes(k)
  /\ UNCHANGED <<server, store, listener, errors, stopCh>>

\* The bug InformersStop looks for: the send of the error does not look at stopCh.
KeepsSending(k) == FALSE

StopsSending(k) == informer[k].pc = "erring" /\ stopCh

DropWatchError(k) ==
  /\ StopsSending(k)
  /\ Resumes(k)
  /\ UNCHANGED <<server, store, listener, watchErrCh, errors, stopCh>>

-----------------------------------------------------------------------------
(***************************************************************************)
(* The end of the informers.                                               *)
(***************************************************************************)

\* The trackers that use the informer are given by the module of the trackers.
InformerStops(k, users) ==
  /\ stopCh
  /\ informer[k].pc = "running"
  /\ informer' = [informer EXCEPT ![k].pc = "stopping"]
  /\ listener' = [i \in Tracker |->
       IF i \in users THEN [listener[i] EXCEPT !.on = FALSE, !.queue = <<>>] ELSE listener[i]]
  /\ UNCHANGED <<server, store, watchErrCh, errors, stopCh>>

InformerStopped(k, users) ==
  /\ informer[k].pc = "stopping"
  /\ \A i \in users : listener[i].saying = "nothing"
  /\ informer' = [informer EXCEPT ![k].pc = "stopped"]
  /\ UNCHANGED <<server, store, listener, watchErrCh, errors, stopCh>>

Stop ==
  /\ ~ stopCh
  /\ stopCh' = TRUE
  /\ UNCHANGED <<server, informer, store, listener, watchErrCh, errors>>

\* Nobody waits for the user to read.
UserReads ==
  /\ watchErrCh # <<>>
  /\ watchErrCh' = Tail(watchErrCh)
  /\ UNCHANGED <<server, informer, store, listener, errors, stopCh>>

\* What happens in the cluster after the end is left out.
Write(e) ==
  /\ ~ stopCh
  /\ server[e] < MaxVersion
  /\ server' = [server EXCEPT ![e] = @ + 1]
  /\ UNCHANGED <<informer, store, listener, watchErrCh, errors, stopCh>>

\* Other informers of the factory, those of Pods for instance, may have had errors before:
\* watchErrCh is full until the user reads.
InformersInit ==
  /\ server \in [Event -> {0, 1}]
  /\ informer = [k \in Key |-> Nobody]
  /\ store = [e \in Event |-> 0]
  /\ listener = [i \in Tracker |-> [on |-> FALSE, queue |-> <<>>, saying |-> "nothing", about |-> <<>>]]
  /\ watchErrCh = [n \in 1 .. Capacity |-> [key |-> "others", err |-> "other"]]
  /\ errors = 0 /\ stopCh = FALSE
=============================================================================
