------------------------- MODULE EventInformerProofs -------------------------
(***************************************************************************)
(* The shared informers of events, for any number of trackers, of events,  *)
(* of versions and of errors, and any size of watchErrCh: their types, how *)
(* "403 Forbidden" is judged, and that every change of an event is told.   *)
(***************************************************************************)
EXTENDS EventInformer, FiniteSetTheorems, TLAPS

-----------------------------------------------------------------------------
(***************************************************************************)
(* The inductive invariant.                                                *)
(***************************************************************************)

\* An informer judges as its key says from the moment that it may start.
Judges(k) ==
  /\ informer[k].options \in {k, "unset"}
  /\ informer[k].pc # "off" => informer[k].options = k
  /\ informer[k].pc = "off" => informer[k].err = "none" /\ ~ informer[k].warned
  /\ informer[k].pc = "erring" => informer[k].err # "none"
  /\ informer[k].err = "forbidden" => k = "strict"
  /\ informer[k].warned => k = "lenient"

\* A tracker that has an informer has set the handler of its watch errors.
Asked(i) ==
  pc[i] \in {"requested", "listed", "running", "cleaning"} => informer[KeyOf(i)].options = KeyOf(i)

\* Before its handler is added a tracker hears of nothing, and takes for old what
\* has been in the store since.
Waiting(i) ==
  /\ pc[i] \in {"idle", "requested", "listed"} =>
       ~ listener[i].on /\ listener[i].queue = <<>> /\ listener[i].saying = "nothing"
  /\ pc[i] = "listed" => \A e \in initial[i] : e \in EventsOf(i) /\ store[e] # 0

\* A handler hears and tells of the events of its own object.
Own(i) ==
  /\ \A n \in 1 .. Len(listener[i].queue) : listener[i].queue[n].event \in EventsOf(i)
  /\ listener[i].saying # "nothing" =>
       listener[i].about \in Notification /\ listener[i].about.event \in EventsOf(i)

Mentions(q, e) == \E n \in 1 .. Len(q) : q[n].event = e

IsNewest(q, e, n) == q[n].event = e /\ \A m \in 1 .. Len(q) : m > n => q[m].event # e

IsOldest(q, e, n) == q[n].event = e /\ \A m \in 1 .. Len(q) : m < n => q[m].event # e

\* The newest version of an event is the last that waits in the queue, or is being
\* told, or was told, or is no newer than the one that the handler was given first.
EndsNew(i, e) ==
  /\ \A n \in 1 .. Len(listener[i].queue) :
       IsNewest(listener[i].queue, e, n) => listener[i].queue[n].version = store[e]
  /\ ~ Mentions(listener[i].queue, e) =>
       IF listener[i].saying # "nothing" /\ listener[i].about.event = e
         THEN listener[i].about.version = store[e]
         ELSE told[e] = store[e] \/ store[e] <= first[e]

\* What is dropped as old is the version that the handler was given first.
StartsOld(i, e) ==
  e \in initial[i] =>
    \E n \in 1 .. Len(listener[i].queue) :
      IsOldest(listener[i].queue, e, n) /\ listener[i].queue[n].version = first[e]

Hears(i) == pc[i] = "running" /\ ~ ctxDone[i] /\ listener[i].on

Informed(i) == Hears(i) => \A e \in EventsOf(i) : EndsNew(i, e) /\ StartsOld(i, e)

InformerInv ==
  /\ EventInformerTypeOK
  /\ \A k \in Key : Judges(k)
  /\ \A i \in Tracker : Asked(i) /\ Waiting(i) /\ Own(i) /\ Informed(i)

-----------------------------------------------------------------------------
(***************************************************************************)
(* Queues, and the order in which a store is listed.                       *)
(***************************************************************************)

LEMMA Appended ==
  ASSUME NEW S, NEW q \in Seq(S), NEW x \in S
  PROVE  /\ Append(q, x) \in Seq(S)
         /\ Len(Append(q, x)) = Len(q) + 1 /\ Len(q) \in Nat
         /\ Append(q, x)[Len(q) + 1] = x
         /\ \A n \in 1 .. Len(q) : Append(q, x)[n] = q[n]
OBVIOUS

LEMMA Shortened ==
  ASSUME NEW S, NEW q \in Seq(S), q # <<>>
  PROVE  /\ Tail(q) \in Seq(S) /\ Head(q) \in S /\ Head(q) = q[1]
         /\ Len(Tail(q)) = Len(q) - 1 /\ Len(q) \in Nat /\ Len(q) >= 1
         /\ \A n \in 1 .. Len(q) - 1 : Tail(q)[n] = q[n + 1]
OBVIOUS

\* A finite set is listed without repetition, and nothing of it is left out.
LEMMA Listing ==
  ASSUME NEW S, IsFiniteSet(S)
  PROVE  /\ Cardinality(S) \in Nat
         /\ SetToSeq(S) \in [1 .. Cardinality(S) -> S]
         /\ \A n, m \in 1 .. Cardinality(S) : SetToSeq(S)[n] = SetToSeq(S)[m] => n = m
         /\ \A x \in S : \E n \in 1 .. Cardinality(S) : SetToSeq(S)[n] = x
<1> DEFINE c == Cardinality(S)
           f == SetToSeq(S)
<1>1. c \in Nat /\ ExistsBijection(1 .. c, S)
  BY FS_CardinalityType
<1>2. PICK g \in [1 .. c -> S] : IsInjective(g)
  BY <1>1 DEF ExistsBijection, Bijection, Injection
<1>3. f \in [1 .. c -> S] /\ IsInjective(f)
  BY <1>2 DEF SetToSeq
<1> HIDE DEF f
<1>4. Cardinality(1 .. c) = c
  BY <1>1, FS_Interval
<1>5. f \in Surjection(1 .. c, S)
  BY <1>3, <1>4, FS_Injection DEF Injection
<1>6. QED
  BY <1>1, <1>3, <1>5 DEF Surjection, IsInjective, f

\* What a new handler is given: all that is in the store, each event once.
LEMMA GivenIs ==
  ASSUME EventInformerTypeOK, NEW i \in Tracker, AddEventHandler(i)
  PROVE  /\ listener' = [listener EXCEPT ![i].on = TRUE, ![i].queue = listener'[i].queue]
         /\ listener'[i].queue \in Seq(Notification)
         /\ \A n \in 1 .. Len(listener'[i].queue) :
              /\ listener'[i].queue[n].event \in EventsOf(i)
              /\ store[listener'[i].queue[n].event] # 0
              /\ listener'[i].queue[n].version = store[listener'[i].queue[n].event]
         /\ \A n, m \in 1 .. Len(listener'[i].queue) :
              listener'[i].queue[n].event = listener'[i].queue[m].event => n = m
         /\ \A e \in EventsOf(i) : store[e] # 0 => Mentions(listener'[i].queue, e)
<1> DEFINE stored == {e \in EventsOf(i) : store[e] # 0}
           s == SetToSeq(stored)
           c == Cardinality(stored)
           q == [n \in 1 .. c |-> [event |-> s[n], version |-> store[s[n]]]]
<1>1. IsFiniteSet(stored)
  BY InformerAssumption, FS_Subset DEF EventsOf
<1>2. /\ c \in Nat /\ s \in [1 .. c -> stored]
      /\ \A n, m \in 1 .. c : s[n] = s[m] => n = m
      /\ \A x \in stored : \E n \in 1 .. c : s[n] = x
  <2> HIDE DEF stored
  <2>1. QED
    BY <1>1, Listing
<1>3. listener' = [listener EXCEPT ![i].on = TRUE, ![i].queue = q]
  BY DEF AddEventHandler
<1>4. listener \in [Tracker -> Listener] /\ store \in [Event -> Version]
  BY DEF EventInformerTypeOK, InformersTypeOK
<1>5. \A x \in stored : x \in Event /\ x \in EventsOf(i) /\ store[x] # 0
  BY DEF EventsOf
<1>6. \A x \in Event : x \in EventsOf(i) /\ store[x] # 0 => x \in stored
  OBVIOUS
<1> HIDE DEF stored, s, c
<1>7. \A n \in 1 .. c : [event |-> s[n], version |-> store[s[n]]] \in Notification
  BY <1>2, <1>4, <1>5 DEF Notification
<1>8. q \in Seq(Notification) /\ Len(q) = c
  BY <1>2, <1>7
<1>9. \A n \in 1 .. c : q[n].event = s[n] /\ q[n].version = store[s[n]]
  OBVIOUS
<1> HIDE DEF q
<1>10. listener'[i].queue = q
  BY <1>3, <1>4 DEF Listener
<1>11. \A e \in EventsOf(i) : store[e] # 0 => Mentions(q, e)
  BY <1>2, <1>6, <1>8, <1>9 DEF Mentions, EventsOf
<1>12. \A n \in 1 .. Len(q) :
         /\ q[n].event \in EventsOf(i) /\ store[q[n].event] # 0
         /\ q[n].version = store[q[n].event]
  BY <1>2, <1>5, <1>8, <1>9
<1>13. \A n, m \in 1 .. Len(q) : q[n].event = q[m].event => n = m
  BY <1>2, <1>8, <1>9
<1>14. QED
  BY <1>3, <1>8, <1>10, <1>11, <1>12, <1>13

Place == {"idle", "requested", "listed", "running", "cleaning", "over"}

-----------------------------------------------------------------------------
(***************************************************************************)
(* Types.                                                                  *)
(***************************************************************************)

LEMMA InformerFields ==
  ASSUME NEW f \in Informer, NEW p \in {"off", "running", "erring", "stopping", "stopped"},
         NEW err \in {"none", "forbidden", "other"}, NEW o \in Key \cup {"unset"}
  PROVE  /\ [f EXCEPT !.options = o] \in Informer
         /\ [f EXCEPT !.pc = p] \in Informer
         /\ [f EXCEPT !.pc = p, !.err = err] \in Informer
         /\ [f EXCEPT !.warned = TRUE] \in Informer
BY DEF Informer

LEMMA ListenerFields ==
  ASSUME NEW l \in Listener, NEW q \in Seq(Notification)
  PROVE  /\ [l EXCEPT !.queue = q] \in Listener
         /\ [l EXCEPT !.on = TRUE, !.queue = q] \in Listener
         /\ [l EXCEPT !.on = FALSE, !.queue = q] \in Listener
         /\ \A n \in Notification :
              [l EXCEPT !.saying = "message", !.about = n, !.queue = q] \in Listener
BY DEF Listener

LEMMA SaidFields ==
  ASSUME NEW l \in Listener
  PROVE  /\ [l EXCEPT !.saying = "failure"] \in Listener
         /\ [l EXCEPT !.saying = "nothing", !.about = <<>>] \in Listener
BY DEF Listener

LEMMA InitTyped ==
  ASSUME Init
  PROVE  EventInformerTypeOK
<1>1. 0 \in Version /\ {0, 1} \subseteq Version
  BY InformerAssumption DEF Version
<1>2. server \in [Event -> Version] /\ store \in [Event -> Version]
  BY <1>1 DEF Init, InformersInit
<1>3. informer \in [Key -> Informer]
  BY DEF Init, InformersInit, Informer, Nobody
<1>4. listener \in [Tracker -> Listener]
  BY DEF Init, InformersInit, Listener
<1>5. /\ watchErrCh \in Seq([key : Key \cup {"others"}, err : {"forbidden", "other"}])
      /\ Len(watchErrCh) <= Capacity
  BY InformerAssumption DEF Init, InformersInit
<1>6. errors \in 0 .. MaxErrors /\ stopCh \in BOOLEAN
  <2>1. errors = 0 /\ stopCh = FALSE
    BY DEF Init, InformersInit
  <2>2. QED
    <3>1. errors \in 0 .. MaxErrors
      BY <2>1, InformerAssumption
    <3>2. stopCh \in BOOLEAN
      BY <2>1
    <3>3. QED
      BY <3>1, <3>2
<1>7. first \in [Event -> Version] /\ told \in [Event -> Version]
  BY <1>1 DEF Init
<1>8. QED
  BY <1>2, <1>3, <1>4, <1>5, <1>6, <1>7 DEF Init, EventInformerTypeOK, InformersTypeOK

\* The steps of the world that are not heard of, and those of the informers.
LEMMA WatchTyped ==
  ASSUME EventInformerTypeOK, \A k \in Key : Judges(k),
         Watch \/ \E k \in Key : Erring(k) \/ Stopping(k)
  PROVE  EventInformerTypeOK'
<1> USE DEF EventInformerTypeOK, InformersTypeOK
<1> DEFINE WatchError1 == [key : Key \cup {"others"}, err : {"forbidden", "other"}]
<1>1. ASSUME NEW e \in Event, Write(e), UNCHANGED <<tracking, told>>
      PROVE  EventInformerTypeOK'
  <2>1. server' \in [Event -> Version]
    BY <1>1, InformerAssumption DEF Write, Version
  <2>2. QED
    BY <1>1, <2>1 DEF Write, tracking
<1>2. ASSUME NEW e \in Event, Receive(e, Users("lenient")), UNCHANGED <<tracking, told>>
      PROVE  EventInformerTypeOK'
  <2>1. PICK v \in {store[e] + 1, server[e]} :
          /\ store' = [store EXCEPT ![e] = v]
          /\ listener' = [i \in Tracker |->
               IF i = Involved[e] /\ i \in Users("lenient") /\ listener[i].on
                 THEN [listener[i] EXCEPT !.queue = Append(@, [event |-> e, version |-> v])]
                 ELSE listener[i]]
    BY <1>2 DEF Receive
  <2>2. v \in Version /\ store[e] < server[e]
    BY <1>2, <2>1, InformerAssumption DEF Version, Receive
  <2>3. [event |-> e, version |-> v] \in Notification
    BY <2>2 DEF Notification
  <2>4. \A i \in Tracker : Append(listener[i].queue, [event |-> e, version |-> v]) \in Seq(Notification)
    BY <2>3, Appended DEF Listener
  <2>5. listener' \in [Tracker -> Listener]
    <3>1. \A i \in Tracker :
            [listener[i] EXCEPT !.queue = Append(@, [event |-> e, version |-> v])] \in Listener
      BY <2>4, ListenerFields
    <3>2. QED
      BY <2>1, <3>1
  <2>6. QED
    BY <1>2, <2>1, <2>2, <2>5 DEF Receive, tracking
<1>3. ASSUME NEW k \in Key, NEW err \in {"forbidden", "other"}, WatchError(k, err), UNCHANGED <<tracking, told>>
      PROVE  EventInformerTypeOK'
  <2>1. informer' \in [Key -> Informer]
    <3>1. [informer[k] EXCEPT !.warned = TRUE] \in Informer
      BY InformerFields
    <3>2. [informer[k] EXCEPT !.pc = "erring", !.err = err] \in Informer
      BY InformerFields
    <3>3. QED
      BY <1>3, <3>1, <3>2 DEF WatchError
  <2>2. errors' \in 0 .. MaxErrors
    BY <1>3, InformerAssumption DEF WatchError
  <2>3. QED
    BY <1>3, <2>1, <2>2 DEF WatchError, tracking
<1>4. CASE (Stop \/ UserReads) /\ UNCHANGED <<tracking, told>>
  <2>1. CASE Stop
    BY <1>4, <2>1 DEF Stop, tracking
  <2>2. CASE UserReads
    <3>1. watchErrCh' \in Seq(WatchError1) /\ Len(watchErrCh') <= Capacity
      BY <2>2, Shortened, InformerAssumption DEF UserReads
    <3>2. QED
      BY <1>4, <2>2, <3>1 DEF UserReads, tracking
  <2>3. QED
    BY <1>4, <2>1, <2>2
<1>5. ASSUME NEW k \in Key, Erring(k)
      PROVE  EventInformerTypeOK'
  <2>1. informer' \in [Key -> Informer]
    <3>1. [informer[k] EXCEPT !.pc = "running", !.err = "none"] \in Informer
      BY InformerFields
    <3>2. informer' = [informer EXCEPT ![k] = [informer[k] EXCEPT !.pc = "running", !.err = "none"]]
      BY <1>5 DEF Erring, SendWatchError, DropWatchError, Resumes, Informer
    <3>3. QED
      BY <3>1, <3>2
  <2>2. CASE SendWatchError(k)
    <3>1. informer[k].err \in {"forbidden", "other"}
      BY <2>2 DEF SendWatchError, Judges, Informer
    <3>2. [key |-> k, err |-> informer[k].err] \in WatchError1
      BY <3>1
    <3> HIDE DEF WatchError1
    <3>3. watchErrCh' \in Seq(WatchError1) /\ Len(watchErrCh') = Len(watchErrCh) + 1
      BY <2>2, <3>2, Appended DEF SendWatchError, WatchError1
    <3>4. Len(watchErrCh') <= Capacity
      <4>1. Len(watchErrCh) \in Nat
        OBVIOUS
      <4>2. QED
        BY <2>2, <3>3, <4>1, InformerAssumption DEF SendWatchError
    <3>5. QED
      BY <1>5, <2>1, <2>2, <3>3, <3>4 DEF SendWatchError, Erring, tracking, WatchError1
  <2>3. CASE DropWatchError(k)
    BY <1>5, <2>1, <2>3 DEF DropWatchError, Erring, tracking
  <2>4. QED
    BY <1>5, <2>2, <2>3 DEF Erring
<1>6. ASSUME NEW k \in Key, Stopping(k)
      PROVE  EventInformerTypeOK'
  <2>1. informer' \in [Key -> Informer]
    <3>1. \A place \in {"stopping", "stopped"} : [informer[k] EXCEPT !.pc = place] \in Informer
      BY InformerFields
    <3>2. QED
      BY <1>6, <3>1 DEF Stopping, InformerStops, InformerStopped
  <2>2. <<>> \in Seq(Notification)
    OBVIOUS
  <2>3. listener' \in [Tracker -> Listener]
    <3>1. CASE InformerStops(k, Users(k))
      <4>1. \A i \in Tracker : [listener[i] EXCEPT !.on = FALSE, !.queue = <<>>] \in Listener
        BY <2>2, ListenerFields
      <4>2. QED
        BY <3>1, <4>1 DEF InformerStops
    <3>2. CASE InformerStopped(k, Users(k))
      BY <3>2 DEF InformerStopped
    <3>3. QED
      BY <1>6, <3>1, <3>2 DEF Stopping
  <2>4. QED
    BY <1>6, <2>1, <2>3 DEF Stopping, InformerStops, InformerStopped, tracking
<1>7. QED
  BY <1>1, <1>2, <1>3, <1>4, <1>5, <1>6 DEF Watch

\* The steps of a tracker, its handler and its cleanup.
LEMMA TrackerTyped ==
  ASSUME EventInformerTypeOK, NEW i \in Tracker, Own(i),
         Run(i) \/ Handler(i) \/ Cancel(i) \/ TrackReturns(i) \/ Cleaning(i)
  PROVE  EventInformerTypeOK'
<1> USE DEF EventInformerTypeOK, InformersTypeOK
<1> DEFINE Work == {"stopSending", "RemoveEventHandler"}
<1>0. options[i] \in Key /\ KeyOf(i) \in Key
  BY DEF KeyOf, KeyFor
<1>1. CASE GetInformer(i)
  <2>1. informer' \in [Key -> Informer]
    <3>1. PICK o \in Key \cup {"unset"} : informer' = [informer EXCEPT ![options[i]].options = o]
      BY <1>0, <1>1 DEF GetInformer, ForNamespace, KeyFor, Informer
    <3>2. [informer[options[i]] EXCEPT !.options = o] \in Informer
      BY <1>0, InformerFields
    <3>3. QED
      BY <1>0, <3>1, <3>2
  <2>2. pc' \in [Tracker -> {"idle", "requested", "listed", "running", "cleaning", "over"}]
    BY <1>1 DEF GetInformer, Goto
  <2>3. QED
    BY <1>1, <2>1, <2>2 DEF GetInformer
<1>2. CASE HandleInitialEvents(i)
  <2>1. initial' \in [Tracker -> SUBSET Event]
    BY <1>2 DEF HandleInitialEvents, EventsOf
  <2>2. QED
    BY <1>2, <2>1 DEF HandleInitialEvents, Goto, watching
<1>3. CASE AddEventHandler(i)
  <2>1. informer' \in [Key -> Informer]
    <3>1. Started(informer[KeyOf(i)]) \in Informer
      BY <1>0, InformerFields DEF Started
    <3>2. QED
      BY <1>3, <3>1 DEF AddEventHandler
  <2>2. listener' \in [Tracker -> Listener]
    <3>1. PICK q \in Seq(Notification) : listener' = [listener EXCEPT ![i].on = TRUE, ![i].queue = q]
      BY <1>3, GivenIs
    <3>2. [listener[i] EXCEPT !.on = TRUE, !.queue = q] \in Listener
      BY ListenerFields
    <3>3. QED
      BY <3>1, <3>2
  <2>3. first' \in [Event -> Version]
    BY <1>3 DEF AddEventHandler
  <2>4. QED
    BY <1>3, <2>1, <2>2, <2>3 DEF AddEventHandler, Goto
<1>4. CASE RunFails(i)
  BY <1>4 DEF RunFails, Goto, watching
<1>5. CASE HandleEvent(i)
  <2>1. /\ listener[i] \in Listener /\ listener[i].queue \in Seq(Notification)
        /\ listener[i].queue # <<>>
    BY <1>5 DEF HandleEvent, Listener
  <2>2. Head(listener[i].queue) \in Notification /\ Tail(listener[i].queue) \in Seq(Notification)
    BY <2>1, Shortened
  <2>3. /\ [listener[i] EXCEPT !.queue = Tail(@)] \in Listener
        /\ Saying(i, "message", Head(listener[i].queue)) \in Listener
    BY <2>1, <2>2, ListenerFields DEF Saying
  <2>4. listener' \in [Tracker -> Listener]
    BY <1>5, <2>3 DEF HandleEvent
  <2>5. initial' \in [Tracker -> SUBSET Event]
    <3>1. initial' = initial \/ initial' = [initial EXCEPT ![i] = @ \ {Head(listener[i].queue).event}]
      BY <1>5 DEF HandleEvent
    <3> DEFINE old == Head(listener[i].queue).event
               rest == initial[i] \ {old}
    <3>2. rest \in SUBSET Event
      OBVIOUS
    <3>3. initial' = initial \/ initial' = [initial EXCEPT ![i] = rest]
      BY <3>1
    <3> HIDE DEF rest
    <3>4. QED
      BY <3>2, <3>3
  <2>6. QED
    BY <1>5, <2>4, <2>5 DEF HandleEvent, watching
<1>6. CASE Tell(i) \/ GiveUp(i)
  <2>1. listener' \in [Tracker -> Listener]
    <3>1. /\ [listener[i] EXCEPT !.saying = "failure"] \in Listener
          /\ [listener[i] EXCEPT !.saying = "nothing", !.about = <<>>] \in Listener
      BY SaidFields
    <3>2. QED
      BY <1>6, <3>1 DEF Tell, GiveUp, Said
  <2>2. told' \in [Event -> Version]
    BY <1>6 DEF Tell, GiveUp, Own, Notification
  <2>3. QED
    BY <1>6, <2>1, <2>2 DEF Tell, GiveUp, watching, tracking
<1>7. CASE Cancel(i)
  BY <1>7 DEF Cancel, watching
<1>8. CASE TrackReturns(i)
  <2>1. Cleanup \in Seq(Work)
    BY DEF Cleanup
  <2>2. todo' \in [Tracker -> Seq(Work)]
    BY <1>8, <2>1 DEF TrackReturns
  <2>3. QED
    BY <1>8, <2>2 DEF TrackReturns, Goto, watching
<1>9. CASE Cleaning(i)
  <2>1. PICK step \in Work : CleanupStep(i, step)
    BY <1>9 DEF Cleaning, StopSending, RemoveEventHandler
  <2>2. todo' \in [Tracker -> Seq(Work)]
    <3>1. todo[i] \in Seq(Work) /\ todo[i] # <<>>
      BY <2>1 DEF CleanupStep
    <3>2. Tail(todo[i]) \in Seq(Work)
      BY <3>1, Shortened
    <3>3. QED
      BY <2>1, <3>2 DEF CleanupStep
  <2>3. pc' \in [Tracker -> {"idle", "requested", "listed", "running", "cleaning", "over"}]
    BY <2>1 DEF CleanupStep, Goto
  <2>4. listener' \in [Tracker -> Listener]
    <3>1. <<>> \in Seq(Notification)
      OBVIOUS
    <3>2. [listener[i] EXCEPT !.on = FALSE, !.queue = <<>>] \in Listener
      BY <3>1, ListenerFields
    <3>3. QED
      BY <1>9, <3>2 DEF Cleaning, StopSending, RemoveEventHandler
  <2>5. ctxDone' \in [Tracker -> BOOLEAN]
    BY <1>9 DEF Cleaning, StopSending, RemoveEventHandler
  <2>6. QED
    BY <1>9, <2>2, <2>3, <2>4, <2>5 DEF Cleaning, StopSending, RemoveEventHandler, watching
<1>10. QED
  BY <1>1, <1>2, <1>3, <1>4, <1>5, <1>6, <1>7, <1>8, <1>9 DEF Run, Handler

-----------------------------------------------------------------------------
(***************************************************************************)
(* The watch errors.                                                       *)
(***************************************************************************)

\* What an informer judges by is set while it is off, and always to its own key.
LEMMA JudgesStep ==
  ASSUME EventInformerTypeOK, \A k \in Key : Judges(k), \A i \in Tracker : Asked(i),
         Next, NEW k \in Key
  PROVE  Judges(k)' /\ (informer[k].options = k => informer'[k].options = k)
<1>0. /\ informer \in [Key -> Informer] /\ \A i \in Tracker : options[i] \in Key
      /\ \A j \in Key : informer[j] \in Informer
  BY DEF EventInformerTypeOK, InformersTypeOK
<1>1. ASSUME informer' = informer
      PROVE  Judges(k)' /\ (informer[k].options = k => informer'[k].options = k)
  BY <1>1 DEF Judges
<1>2. CASE Watch
  <2>1. ASSUME NEW j \in Key, NEW err \in {"forbidden", "other"}, WatchError(j, err)
        PROVE  Judges(k)' /\ (informer[k].options = k => informer'[k].options = k)
    BY <1>0, <2>1 DEF WatchError, Judges, Informer, Key
  <2>2. QED
    BY <1>1, <1>2, <2>1 DEF Watch, Write, Receive, Stop, UserReads
<1>3. ASSUME NEW j \in Key, Erring(j) \/ Stopping(j)
      PROVE  Judges(k)' /\ (informer[k].options = k => informer'[k].options = k)
  <2>1. CASE Erring(j)
    BY <1>0, <2>1 DEF Erring, SendWatchError, DropWatchError, StopsSending, Resumes, Judges, Informer
  <2>2. CASE Stopping(j)
    <3>1. CASE InformerStops(j, Users(j))
      BY <1>0, <3>1 DEF InformerStops, Judges, Informer
    <3>2. CASE InformerStopped(j, Users(j))
      BY <1>0, <3>2 DEF InformerStopped, Judges, Informer
    <3>3. QED
      BY <2>2, <3>1, <3>2 DEF Stopping
  <2>3. QED
    BY <1>3, <2>1, <2>2
<1>4. ASSUME NEW i \in Tracker, Run(i) \/ Handler(i) \/ Cancel(i) \/ TrackReturns(i) \/ Cleaning(i)
      PROVE  Judges(k)' /\ (informer[k].options = k => informer'[k].options = k)
  <2>1. CASE GetInformer(i)
    BY <1>0, <2>1 DEF GetInformer, ForNamespace, KeyFor, Judges, Informer
  <2>2. CASE AddEventHandler(i)
    <3>1. informer' = [informer EXCEPT ![KeyOf(i)] = Started(@)]
      BY <2>2 DEF AddEventHandler
    <3>2. informer[KeyOf(i)].options = KeyOf(i) /\ KeyOf(i) \in Key
      BY <1>0, <2>2 DEF AddEventHandler, Asked, KeyOf, KeyFor
    <3>3. QED
      BY <1>0, <3>1, <3>2 DEF Started, Judges, Informer
  <2>3. QED
    BY <1>1, <1>4, <2>1, <2>2
       DEF Run, HandleInitialEvents, RunFails, Handler, HandleEvent, Tell, GiveUp, Cancel,
           TrackReturns, Cleaning, StopSending, RemoveEventHandler, watching
<1>5. CASE Over
  BY <1>1, <1>5 DEF Over, vars, watching
<1>6. QED
  BY <1>2, <1>3, <1>4, <1>5 DEF Next

LEMMA AskedStep ==
  ASSUME EventInformerTypeOK, \A k \in Key : Judges(k), \A j \in Tracker : Asked(j),
         Next, NEW i \in Tracker
  PROVE  Asked(i)'
<1> DEFINE k == KeyOf(i)
           Using == {"requested", "listed", "running", "cleaning"}
<1>1. k \in Key /\ k = options[i] /\ pc \in [Tracker -> Place]
  BY DEF KeyOf, KeyFor, EventInformerTypeOK, Place
<1>2. options' = options /\ k' = k
  BY DEF KeyOf, Next, Watch, Erring, Stopping, Run, GetInformer, HandleInitialEvents, AddEventHandler, RunFails,
         Handler, HandleEvent, Tell, GiveUp, Cancel, TrackReturns, Cleaning, StopSending, RemoveEventHandler,
         Over, vars, tracking
<1>3. informer[k].options = k => informer'[k].options = k
  BY <1>1, JudgesStep
<1>4. CASE GetInformer(i)
  <2>1. informer'[k].options = IF informer[k].pc = "off" THEN k ELSE informer[k].options
    BY <1>1, <1>4 DEF GetInformer, ForNamespace, KeyFor, EventInformerTypeOK, InformersTypeOK, Informer
  <2>2. QED
    BY <1>1, <1>2, <2>1 DEF Asked, Judges
<1>5. CASE pc'[i] \in Using => pc[i] \in Using
  BY <1>2, <1>3, <1>5 DEF Asked
<1>6. ASSUME ~ GetInformer(i)
      PROVE  pc'[i] \in Using => pc[i] \in Using
  <2>1. \A j \in Tracker, step \in {"stopSending", "RemoveEventHandler"} :
          CleanupStep(j, step) /\ pc'[i] \in Using => pc[i] \in Using
    BY <1>1 DEF CleanupStep, Goto
  <2>2. ASSUME NEW j \in Tracker, Run(j) \/ Cleaning(j) \/ TrackReturns(j)
        PROVE  pc'[i] \in Using => pc[i] \in Using
    BY <1>1, <1>6, <2>1, <2>2
       DEF Run, GetInformer, HandleInitialEvents, AddEventHandler, RunFails, Goto, TrackReturns,
           Cleaning, StopSending, RemoveEventHandler
  <2>3. CASE pc' = pc
    BY <2>3
  <2>4. QED
    BY <2>2, <2>3
       DEF Next, Watch, Erring, Stopping, Handler, HandleEvent, Tell, GiveUp, Cancel, Over, vars, tracking
<1>7. QED
  BY <1>4, <1>5, <1>6

-----------------------------------------------------------------------------
(***************************************************************************)
(* What happens to one tracker.                                            *)
(***************************************************************************)

Undisturbed(i) ==
  /\ listener'[i] = listener[i] /\ pc'[i] = pc[i]
  /\ initial'[i] = initial[i] /\ ctxDone'[i] = ctxDone[i]
  /\ \A e \in EventsOf(i) : store'[e] = store[e] /\ first'[e] = first[e] /\ told'[e] = told[e]

\* The version v of the event e is heard of.
Hearing(i, e, v) ==
  /\ store' = [store EXCEPT ![e] = v]
  /\ listener'[i] = IF listener[i].on
                      THEN [listener[i] EXCEPT !.queue = Append(@, [event |-> e, version |-> v])]
                      ELSE listener[i]
  /\ UNCHANGED <<tracking, told>>

\* The informer forgets its handlers.
Deafened(i) ==
  /\ listener'[i] = [listener[i] EXCEPT !.on = FALSE, !.queue = <<>>]
  /\ UNCHANGED <<store, tracking, told>>

Steps(i) == Run(i) \/ Handler(i) \/ Cancel(i) \/ TrackReturns(i) \/ Cleaning(i)

\* A step is one of the tracker's own, or a change of an event of its object, or the
\* end of its informer, or it does not matter to the tracker.
LEMMA WhatHappens ==
  ASSUME EventInformerTypeOK, \A j \in Tracker : Own(j), Next, NEW i \in Tracker
  PROVE  /\ EventsOf(i)' = EventsOf(i)
         /\ \/ Undisturbed(i) \/ Deafened(i) \/ Steps(i)
            \/ \E e \in EventsOf(i), v \in Version : v > store[e] /\ Hearing(i, e, v)
<1>0. /\ listener \in [Tracker -> Listener] /\ store \in [Event -> Version]
      /\ first \in [Event -> Version] /\ told \in [Event -> Version]
      /\ pc \in [Tracker -> Place] /\ initial \in [Tracker -> SUBSET Event] /\ ctxDone \in [Tracker -> BOOLEAN]
      /\ server \in [Event -> Version] /\ options \in [Tracker -> Key]
      /\ EventsOf(i) \subseteq Event
  BY DEF EventInformerTypeOK, InformersTypeOK, EventsOf, Place
<1>1. EventsOf(i)' = EventsOf(i)
  BY DEF EventsOf, Next, Watch, Erring, Stopping, Run, GetInformer, HandleInitialEvents, AddEventHandler, RunFails,
         Handler, HandleEvent, Tell, GiveUp, Cancel, TrackReturns, Cleaning, StopSending, RemoveEventHandler,
         Over, vars, tracking
<1>2. CASE UNCHANGED <<store, listener, tracking, told>>
  BY <1>1, <1>2 DEF Undisturbed, tracking
<1>3. ASSUME NEW e \in Event, Receive(e, Users("lenient")), UNCHANGED <<tracking, told>>
      PROVE  Undisturbed(i) \/ \E x \in EventsOf(i), v \in Version : v > store[x] /\ Hearing(i, x, v)
  <2>1. PICK v \in {store[e] + 1, server[e]} :
          /\ store' = [store EXCEPT ![e] = v]
          /\ listener' = [j \in Tracker |->
               IF j = Involved[e] /\ j \in Users("lenient") /\ listener[j].on
                 THEN [listener[j] EXCEPT !.queue = Append(@, [event |-> e, version |-> v])]
                 ELSE listener[j]]
    BY <1>3 DEF Receive
  <2>2. v \in Version /\ v > store[e]
    BY <1>0, <1>3, <2>1, InformerAssumption DEF Version, Receive
  <2>3. CASE e \in EventsOf(i)
    <3>1. i = Involved[e] /\ i \in Users("lenient")
      BY <2>3 DEF EventsOf, Users, KeyOf, KeyFor
    <3>2. Hearing(i, e, v)
      BY <1>3, <2>1, <3>1 DEF Hearing
    <3>3. QED
      BY <2>2, <2>3, <3>2
  <2>4. CASE e \notin EventsOf(i)
    <3>1. ~ (i = Involved[e] /\ i \in Users("lenient"))
      BY <2>4 DEF EventsOf, Users, KeyOf, KeyFor
    <3>2. listener'[i] = listener[i]
      BY <2>1, <3>1
    <3>3. \A x \in EventsOf(i) : store'[x] = store[x]
      BY <1>0, <2>1, <2>4
    <3>4. QED
      BY <1>3, <3>2, <3>3 DEF Undisturbed, tracking
  <2>5. QED
    BY <2>3, <2>4
<1>4. ASSUME NEW k \in Key, InformerStops(k, Users(k)), UNCHANGED <<tracking, told>>
      PROVE  Undisturbed(i) \/ Deafened(i)
  <2>1. listener' = [j \in Tracker |->
          IF j \in Users(k) THEN [listener[j] EXCEPT !.on = FALSE, !.queue = <<>>] ELSE listener[j]]
    BY <1>4 DEF InformerStops
  <2>2. store' = store
    BY <1>4 DEF InformerStops
  <2>3. CASE i \in Users(k)
    BY <1>4, <2>1, <2>2, <2>3 DEF Deafened
  <2>4. CASE i \notin Users(k)
    BY <1>4, <2>1, <2>2, <2>4 DEF Undisturbed, tracking
  <2>5. QED
    BY <2>3, <2>4
<1>5. ASSUME NEW j \in Tracker, j # i, Steps(j)
      PROVE  Undisturbed(i)
  <2>1. store' = store
    BY <1>5
       DEF Steps, Run, GetInformer, HandleInitialEvents, AddEventHandler, RunFails,
           Handler, HandleEvent, Tell, GiveUp, Cancel, TrackReturns, Cleaning, StopSending, RemoveEventHandler, watching
  <2>2. listener'[i] = listener[i]
    BY <1>0, <1>5
       DEF Steps, Run, GetInformer, HandleInitialEvents, AddEventHandler, RunFails,
           Handler, HandleEvent, Tell, GiveUp, Said, Cancel, TrackReturns, Cleaning, StopSending, RemoveEventHandler
  <2>3. pc'[i] = pc[i] /\ initial'[i] = initial[i] /\ ctxDone'[i] = ctxDone[i]
    BY <1>0, <1>5
       DEF Steps, Run, GetInformer, HandleInitialEvents, AddEventHandler, RunFails,
           Handler, HandleEvent, Tell, GiveUp, Cancel, TrackReturns, Cleaning, StopSending, RemoveEventHandler,
           CleanupStep, Goto, tracking
  <2>4. \A e \in EventsOf(i) : e \in Event /\ e \notin EventsOf(j)
    BY <1>5 DEF EventsOf
  <2>5. \A e \in EventsOf(i) : told'[e] = told[e]
    <3>1. CASE Tell(j)
      BY <1>0, <2>4, <3>1 DEF Tell, Own
    <3>2. CASE told' = told
      BY <3>2
    <3>3. QED
      BY <1>5, <3>1, <3>2
         DEF Steps, Run, GetInformer, HandleInitialEvents, AddEventHandler, RunFails,
             Handler, HandleEvent, GiveUp, Cancel, TrackReturns, Cleaning, StopSending, RemoveEventHandler
  <2>6. \A e \in EventsOf(i) : first'[e] = first[e]
    <3>1. CASE AddEventHandler(j)
      BY <1>0, <2>4, <3>1 DEF AddEventHandler
    <3>2. CASE first' = first
      BY <3>2
    <3>3. QED
      BY <1>5, <3>1, <3>2
         DEF Steps, Run, GetInformer, HandleInitialEvents, RunFails,
             Handler, HandleEvent, Tell, GiveUp, Cancel, TrackReturns, Cleaning, StopSending, RemoveEventHandler, tracking
  <2>7. QED
    BY <2>1, <2>2, <2>3, <2>5, <2>6 DEF Undisturbed
<1>6. CASE Watch
  BY <1>1, <1>2, <1>3, <1>6 DEF Watch, Write, WatchError, Stop, UserReads
<1>7. ASSUME NEW k \in Key, Erring(k) \/ Stopping(k)
      PROVE  Undisturbed(i) \/ Deafened(i)
  BY <1>2, <1>4, <1>7
     DEF Erring, Stopping, SendWatchError, DropWatchError, InformerStopped, Undisturbed, tracking
<1>8. CASE Over
  BY <1>2, <1>8 DEF Over, vars, watching
<1>9. QED
  BY <1>1, <1>5, <1>6, <1>7, <1>8 DEF Next, Steps

\* The fields of one tracker's listener, and of the queue, as sets of their types.
LEMMA ListenerIs ==
  ASSUME EventInformerTypeOK, NEW i \in Tracker
  PROVE  /\ listener \in [Tracker -> Listener] /\ listener[i] \in Listener
         /\ listener[i].queue \in Seq(Notification) /\ Len(listener[i].queue) \in Nat
         /\ \A n \in 1 .. Len(listener[i].queue) : listener[i].queue[n] \in Notification
         /\ store \in [Event -> Version] /\ first \in [Event -> Version] /\ told \in [Event -> Version]
         /\ pc \in [Tracker -> Place] /\ initial \in [Tracker -> SUBSET Event]
         /\ ctxDone \in [Tracker -> BOOLEAN]
<1>1. listener \in [Tracker -> Listener] /\ listener[i] \in Listener
  BY DEF EventInformerTypeOK, InformersTypeOK
<1>2. listener[i].queue \in Seq(Notification)
  BY <1>1 DEF Listener
<1>3. /\ Len(listener[i].queue) \in Nat
      /\ \A n \in 1 .. Len(listener[i].queue) : listener[i].queue[n] \in Notification
  BY <1>2
<1>4. QED
  BY <1>1, <1>2, <1>3 DEF EventInformerTypeOK, InformersTypeOK, Place

\* The handler takes the notification at the head of its queue.
LEMMA TakenIs ==
  ASSUME EventInformerTypeOK, NEW i \in Tracker, HandleEvent(i)
  PROVE  \E q \in Seq(Notification), t \in Seq(Notification), n \in Notification :
           /\ q = listener[i].queue /\ t = listener'[i].queue /\ n = q[1]
           /\ Len(t) = Len(q) - 1 /\ Len(q) \in Nat /\ Len(q) >= 1
           /\ \A m \in 1 .. Len(q) - 1 : t[m] = q[m + 1]
           /\ listener'[i].on = listener[i].on
           /\ listener[i].saying = "nothing"
           /\ \/ /\ n.event \in initial[i]
                 /\ initial'[i] = initial[i] \ {n.event}
                 /\ listener'[i].saying = "nothing"
              \/ /\ n.event \notin initial[i]
                 /\ initial'[i] = initial[i]
                 /\ listener'[i].saying = "message" /\ listener'[i].about = n
<1> DEFINE q == listener[i].queue
           t == Tail(q)
           n == Head(q)
<1>0. listener \in [Tracker -> Listener] /\ listener[i] \in Listener /\ initial \in [Tracker -> SUBSET Event]
  BY ListenerIs
<1>1. q \in Seq(Notification) /\ q # <<>> /\ listener[i].saying = "nothing"
  BY ListenerIs DEF HandleEvent
<1>2. /\ t \in Seq(Notification) /\ n \in Notification /\ n = q[1]
      /\ Len(t) = Len(q) - 1 /\ Len(q) \in Nat /\ Len(q) >= 1
      /\ \A m \in 1 .. Len(q) - 1 : t[m] = q[m + 1]
  <2> HIDE DEF q
  <2>1. QED
    BY <1>1, Shortened
<1>3. IF n.event \in initial[i]
        THEN /\ initial' = [initial EXCEPT ![i] = @ \ {n.event}]
             /\ listener' = [listener EXCEPT ![i] = [listener[i] EXCEPT !.queue = t]]
        ELSE /\ initial' = initial
             /\ listener' = [listener EXCEPT ![i] =
                               [listener[i] EXCEPT !.saying = "message", !.about = n, !.queue = t]]
  BY <1>0 DEF HandleEvent, Saying
<1> HIDE DEF q, t, n
<1>4. /\ listener'[i].queue = t /\ listener'[i].on = listener[i].on
      /\ \/ /\ n.event \in initial[i]
            /\ initial'[i] = initial[i] \ {n.event}
            /\ listener'[i].saying = "nothing"
         \/ /\ n.event \notin initial[i]
            /\ initial'[i] = initial[i]
            /\ listener'[i].saying = "message" /\ listener'[i].about = n
  <2>1. CASE n.event \in initial[i]
    BY <1>0, <1>1, <1>3, <2>1 DEF Listener
  <2>2. CASE n.event \notin initial[i]
    <3>1. listener'[i] = [listener[i] EXCEPT !.saying = "message", !.about = n, !.queue = t]
      BY <1>0, <1>3, <2>2
    <3>2. /\ listener'[i].queue = t /\ listener'[i].on = listener[i].on
          /\ listener'[i].saying = "message" /\ listener'[i].about = n
      BY <1>0, <3>1 DEF Listener
    <3>3. initial'[i] = initial[i]
      BY <1>3, <2>2
    <3>4. QED
      BY <2>2, <3>2, <3>3
  <2>3. QED
    BY <2>1, <2>2
<1>5. QED
  BY <1>1, <1>2, <1>4 DEF q

\* Track, or the end of its context, takes what the handler is saying.
LEMMA SaidIs ==
  ASSUME EventInformerTypeOK, NEW i \in Tracker, listener[i].saying # "nothing", Said(i)
  PROVE  /\ listener'[i].queue = listener[i].queue /\ listener'[i].on = listener[i].on
         /\ \/ /\ listener[i].saying = "message" /\ listener'[i].saying = "failure"
               /\ listener'[i].about = listener[i].about
            \/ /\ listener[i].saying = "failure" /\ listener'[i].saying = "nothing"
<1>0. listener \in [Tracker -> Listener] /\ listener[i] \in Listener
  BY ListenerIs
<1>1. CASE listener[i].saying = "message"
  <2>1. listener'[i] = [listener[i] EXCEPT !.saying = "failure"]
    BY <1>0, <1>1 DEF Said
  <2>2. QED
    BY <1>0, <1>1, <2>1 DEF Listener
<1>2. CASE listener[i].saying = "failure"
  <2>1. listener'[i] = [listener[i] EXCEPT !.saying = "nothing", !.about = <<>>]
    BY <1>0, <1>2 DEF Said
  <2>2. QED
    BY <1>0, <1>2, <2>1 DEF Listener
<1>3. QED
  BY <1>0, <1>1, <1>2 DEF Listener

LEMMA WaitingStep ==
  ASSUME EventInformerTypeOK, \A j \in Tracker : Own(j), Next, NEW i \in Tracker, Waiting(i)
  PROVE  Waiting(i)'
<1> USE ListenerIs
<1>0. EventsOf(i)' = EventsOf(i) /\ EventsOf(i) \subseteq Event
  BY WhatHappens DEF EventsOf
<1>1. CASE Undisturbed(i)
  BY <1>0, <1>1 DEF Undisturbed, Waiting
<1>2. CASE Deafened(i)
  BY <1>0, <1>2 DEF Deafened, Waiting, Listener, tracking
<1>3. ASSUME NEW e \in EventsOf(i), NEW v \in Version, v > store[e], Hearing(i, e, v)
      PROVE  Waiting(i)'
  <2>1. v # 0
    BY <1>0, <1>3, InformerAssumption DEF Version
  <2>2. QED
    BY <1>0, <1>3, <2>1 DEF Hearing, Waiting, tracking
<1>4. CASE Steps(i)
  <2>1. CASE Run(i)
    <3>1. CASE GetInformer(i)
      BY <1>0, <3>1 DEF GetInformer, Goto, Waiting
    <3>2. CASE HandleInitialEvents(i)
      BY <1>0, <3>2 DEF HandleInitialEvents, Goto, Waiting, watching
    <3>3. CASE AddEventHandler(i)
      BY <1>0, <3>3 DEF AddEventHandler, Goto, Waiting
    <3>4. CASE RunFails(i)
      BY <1>0, <3>4 DEF RunFails, Goto, Waiting
    <3>5. QED
      BY <2>1, <3>1, <3>2, <3>3, <3>4 DEF Run
  <2>2. CASE HandleEvent(i)
    <3>1. pc' = pc /\ store' = store
      BY <2>2 DEF HandleEvent, watching
    <3>2. listener[i].queue # <<>>
      BY <2>2 DEF HandleEvent
    <3>3. QED
      BY <3>1, <3>2 DEF Waiting
  <2>3. CASE Tell(i) \/ GiveUp(i)
    BY <2>3 DEF Tell, GiveUp, Waiting, tracking
  <2>4. CASE Cancel(i) \/ TrackReturns(i) \/ Cleaning(i)
    BY <2>4
       DEF Cancel, TrackReturns, Cleaning, StopSending, RemoveEventHandler, CleanupStep, Goto, Waiting
  <2>5. QED
    BY <1>4, <2>1, <2>2, <2>3, <2>4 DEF Steps, Handler
<1>5. QED
  BY <1>1, <1>2, <1>3, <1>4, WhatHappens

LEMMA OwnStep ==
  ASSUME EventInformerTypeOK, \A j \in Tracker : Own(j), Next, NEW i \in Tracker, Waiting(i)
  PROVE  Own(i)'
<1> USE ListenerIs
<1> DEFINE q == listener[i].queue
<1>0. EventsOf(i)' = EventsOf(i) /\ EventsOf(i) \subseteq Event
  BY WhatHappens DEF EventsOf
<1>1. CASE listener'[i] = listener[i]
  BY <1>0, <1>1 DEF Own
<1>2. CASE listener'[i] = [listener[i] EXCEPT !.on = FALSE, !.queue = <<>>]
  <2>1. /\ listener'[i].queue = <<>> /\ listener'[i].saying = listener[i].saying
        /\ listener'[i].about = listener[i].about
    BY <1>2 DEF Listener
  <2>2. Len(listener'[i].queue) = 0
    BY <2>1
  <2>3. QED
    BY <1>0, <2>1, <2>2 DEF Own
<1>3. ASSUME NEW e \in EventsOf(i), NEW v \in Version, Hearing(i, e, v), listener[i].on
      PROVE  Own(i)'
  <2> DEFINE n == [event |-> e, version |-> v]
             Q == Append(q, n)
  <2>1. n \in Notification /\ n.event = e
    BY <1>0 DEF Notification
  <2>2. Len(Q) = Len(q) + 1 /\ Q[Len(q) + 1] = n /\ \A m \in 1 .. Len(q) : Q[m] = q[m]
    <3> HIDE DEF n, q
    <3>1. QED
      BY <2>1, Appended DEF q
  <2>3. /\ listener'[i].queue = Q /\ listener'[i].saying = listener[i].saying
        /\ listener'[i].about = listener[i].about
    BY <1>3 DEF Hearing, Listener
  <2> HIDE DEF Q, n
  <2>4. \A m \in 1 .. Len(Q) : Q[m].event \in EventsOf(i)
    BY <2>1, <2>2 DEF Own
  <2>5. QED
    BY <1>0, <2>3, <2>4 DEF Own
<1>4. CASE AddEventHandler(i)
  <2>1. listener'[i].saying = "nothing"
    <3>1. PICK Q \in Seq(Notification) : listener' = [listener EXCEPT ![i].on = TRUE, ![i].queue = Q]
      BY <1>4, GivenIs
    <3>2. listener[i].saying = "nothing"
      BY <1>4 DEF AddEventHandler, Waiting
    <3>3. QED
      BY <3>1, <3>2 DEF Listener
  <2>2. QED
    <3>1. \A n \in 1 .. Len(listener'[i].queue) : listener'[i].queue[n].event \in EventsOf(i)
      BY <1>4, GivenIs
    <3>2. QED
      BY <1>0, <2>1, <3>1 DEF Own
<1>5. CASE HandleEvent(i)
  <2>1. PICK s \in Seq(Notification), t \in Seq(Notification), n \in Notification :
          /\ s = listener[i].queue /\ t = listener'[i].queue /\ n = s[1]
          /\ Len(t) = Len(s) - 1 /\ Len(s) \in Nat /\ Len(s) >= 1
          /\ \A m \in 1 .. Len(s) - 1 : t[m] = s[m + 1]
          /\ listener'[i].saying # "nothing" => listener'[i].about = n
    BY <1>5, TakenIs
  <2>2. \A m \in 1 .. Len(s) : s[m].event \in EventsOf(i)
    BY <2>1 DEF Own
  <2>3. \A m \in 1 .. Len(t) : t[m].event \in EventsOf(i)
    BY <2>1, <2>2
  <2>4. n.event \in EventsOf(i)
    BY <2>1, <2>2
  <2>5. QED
    BY <1>0, <2>1, <2>3, <2>4 DEF Own
<1>6. CASE Tell(i) \/ GiveUp(i)
  <2>1. /\ listener'[i].queue = listener[i].queue
        /\ listener'[i].saying # "nothing" =>
             listener[i].saying # "nothing" /\ listener'[i].about = listener[i].about
    BY <1>6, SaidIs DEF Tell, GiveUp
  <2>2. QED
    BY <1>0, <2>1 DEF Own
<1>7. CASE Steps(i)
  BY <1>1, <1>2, <1>4, <1>5, <1>6, <1>7
     DEF Steps, Run, GetInformer, HandleInitialEvents, RunFails, Handler, Cancel,
         TrackReturns, Cleaning, StopSending, RemoveEventHandler, watching
<1>8. QED
  BY <1>1, <1>2, <1>3, <1>7, WhatHappens DEF Undisturbed, Deafened, Hearing

-----------------------------------------------------------------------------
(***************************************************************************)
(* Every change is told.                                                   *)
(***************************************************************************)

\* A change goes to the end of the queue.
LEMMA HearingInforms ==
  ASSUME EventInformerTypeOK, NEW i \in Tracker, Own(i), Informed(i), Hears(i),
         NEW x \in EventsOf(i), NEW v \in Version, Hearing(i, x, v),
         NEW e \in EventsOf(i)
  PROVE  EndsNew(i, e)' /\ StartsOld(i, e)'
<1> DEFINE q == listener[i].queue
           c == [event |-> x, version |-> v]
           Q == Append(q, c)
<1>0. /\ listener[i] \in Listener /\ store \in [Event -> Version] /\ x \in Event
      /\ q \in Seq(Notification) /\ Len(q) \in Nat
  BY ListenerIs DEF EventsOf
<1>1. /\ listener'[i].queue = Q /\ listener'[i].saying = listener[i].saying
      /\ listener'[i].about = listener[i].about
  BY <1>0 DEF Hearing, Hears, Listener
<1>2. Len(Q) = Len(q) + 1 /\ Q[Len(q) + 1] = c /\ \A m \in 1 .. Len(q) : Q[m] = q[m]
  <2>1. c \in Notification
    BY <1>0 DEF Notification
  <2> HIDE DEF q, c
  <2>2. QED
    BY <1>0, <2>1, Appended
<1>3. c.event = x /\ c.version = v
  OBVIOUS
<1>4. EndsNew(i, e) /\ StartsOld(i, e)
  BY DEF Informed
<1>5. /\ store' = [store EXCEPT ![x] = v] /\ initial'[i] = initial[i] /\ first' = first /\ told' = told
  BY DEF Hearing, tracking
<1> HIDE DEF Q, c
<1>6. StartsOld(i, e)'
  <2> SUFFICES ASSUME e \in initial[i]
               PROVE  \E n \in 1 .. Len(Q) : IsOldest(Q, e, n) /\ Q[n].version = first[e]
    BY <1>1, <1>5 DEF StartsOld
  <2>1. PICK n \in 1 .. Len(q) : IsOldest(q, e, n) /\ q[n].version = first[e]
    BY <1>4 DEF StartsOld
  <2>2. n \in 1 .. Len(Q) /\ Q[n] = q[n]
    BY <1>0, <1>2
  <2>3. IsOldest(Q, e, n)
    BY <1>0, <1>2, <2>1, <2>2 DEF IsOldest
  <2>4. QED
    BY <2>1, <2>2, <2>3
<1>7. CASE e = x
  <2>1. store'[e] = v
    BY <1>0, <1>5, <1>7
  <2>2. Mentions(Q, e)
    BY <1>0, <1>2, <1>3, <1>7 DEF Mentions
  <2>3. ASSUME NEW n \in 1 .. Len(Q), IsNewest(Q, e, n)
        PROVE  Q[n].version = v
    <3>1. n = Len(q) + 1
      BY <1>0, <1>2, <1>3, <1>7, <2>3 DEF IsNewest
    <3>2. QED
      BY <1>2, <1>3, <3>1
  <2>4. QED
    BY <1>1, <1>6, <2>1, <2>2, <2>3 DEF EndsNew
<1>8. CASE e # x
  <2>1. store'[e] = store[e]
    BY <1>0, <1>5, <1>8
  <2>2. Mentions(q, e) => Mentions(Q, e)
    BY <1>0, <1>2 DEF Mentions
  <2>3. ASSUME NEW n \in 1 .. Len(Q), IsNewest(Q, e, n)
        PROVE  Q[n].version = store[e]
    <3>1. n \in 1 .. Len(q)
      BY <1>0, <1>2, <1>3, <1>8, <2>3 DEF IsNewest
    <3>2. IsNewest(q, e, n)
      BY <1>0, <1>2, <2>3, <3>1 DEF IsNewest
    <3>3. QED
      BY <1>2, <1>4, <3>1, <3>2 DEF EndsNew
  <2>4. QED
    BY <1>1, <1>4, <1>5, <1>6, <2>1, <2>2, <2>3 DEF EndsNew
<1>9. QED
  BY <1>7, <1>8

\* A new handler is given each event of the store once, those that are old among them.
LEMMA AddingInforms ==
  ASSUME EventInformerTypeOK, NEW i \in Tracker, Waiting(i), AddEventHandler(i),
         NEW e \in EventsOf(i)
  PROVE  EndsNew(i, e)' /\ StartsOld(i, e)'
<1> DEFINE Q == listener'[i].queue
<1>0. /\ listener \in [Tracker -> Listener] /\ store \in [Event -> Version]
      /\ first \in [Event -> Version] /\ e \in Event
  BY ListenerIs DEF EventsOf
<1>1. /\ store' = store /\ initial' = initial /\ told' = told
      /\ first' = [x \in Event |-> IF x \in EventsOf(i) /\ store[x] # 0 THEN store[x] ELSE first[x]]
  BY DEF AddEventHandler, EventsOf
<1>2. /\ \A n \in 1 .. Len(Q) : Q[n].version = store[Q[n].event]
      /\ \A n, m \in 1 .. Len(Q) : Q[n].event = Q[m].event => n = m
      /\ store[e] # 0 => Mentions(Q, e)
      /\ Len(Q) \in Nat
  <2>1. Q \in Seq(Notification)
    BY GivenIs
  <2> HIDE DEF Q
  <2>2. Len(Q) \in Nat
    BY <2>1
  <2>3. QED
    BY <2>2, GivenIs DEF Q
<1>3. listener'[i].saying = "nothing"
  <2>1. PICK s \in Seq(Notification) : listener' = [listener EXCEPT ![i].on = TRUE, ![i].queue = s]
    BY GivenIs
  <2>2. listener[i].saying = "nothing"
    BY DEF AddEventHandler, Waiting
  <2>3. QED
    BY <1>0, <2>1, <2>2 DEF Listener
<1> HIDE DEF Q
<1>4. ~ Mentions(Q, e) => store[e] <= first[e]
  BY <1>0, <1>2, InformerAssumption DEF Version
<1>5. EndsNew(i, e)'
  <2>1. \A n \in 1 .. Len(Q) : IsNewest(Q, e, n) => Q[n].version = store[e]
    BY <1>2 DEF IsNewest
  <2>2. ~ Mentions(Q, e) => store[e] <= first'[e]
    BY <1>0, <1>1, <1>2, <1>4
  <2>3. QED
    BY <1>1, <1>3, <2>1, <2>2 DEF EndsNew, Q
<1>6. StartsOld(i, e)'
  <2> SUFFICES ASSUME e \in initial[i]
               PROVE  \E n \in 1 .. Len(Q) : IsOldest(Q, e, n) /\ Q[n].version = first'[e]
    BY <1>1 DEF StartsOld, Q
  <2>1. store[e] # 0
    BY DEF Waiting, AddEventHandler
  <2>2. PICK n \in 1 .. Len(Q) : Q[n].event = e
    BY <1>2, <2>1 DEF Mentions
  <2>3. IsOldest(Q, e, n)
    <3>1. \A m \in 1 .. Len(Q) : m < n => Q[m].event # e
      BY <1>2, <2>2
    <3>2. QED
      BY <2>2, <3>1 DEF IsOldest
  <2>4. Q[n].version = first'[e]
    BY <1>0, <1>1, <1>2, <2>1, <2>2
  <2>5. QED
    BY <2>2, <2>3, <2>4
<1>7. QED
  BY <1>5, <1>6

\* What the handler takes is dropped when it is the oldest version of an event that was
\* there before, and is about to be told otherwise.
LEMMA HandlingInforms ==
  ASSUME EventInformerTypeOK, NEW i \in Tracker, Informed(i), Hears(i), HandleEvent(i),
         NEW e \in EventsOf(i)
  PROVE  EndsNew(i, e)' /\ StartsOld(i, e)'
<1>0. store' = store /\ told' = told /\ first' = first
  BY DEF HandleEvent, watching
<1>1. EndsNew(i, e) /\ StartsOld(i, e)
  BY DEF Informed
<1>2. PICK q \in Seq(Notification), t \in Seq(Notification), n \in Notification :
        /\ q = listener[i].queue /\ t = listener'[i].queue /\ n = q[1]
        /\ Len(t) = Len(q) - 1 /\ Len(q) \in Nat /\ Len(q) >= 1
        /\ \A m \in 1 .. Len(q) - 1 : t[m] = q[m + 1]
        /\ listener[i].saying = "nothing"
        /\ \/ /\ n.event \in initial[i]
              /\ initial'[i] = initial[i] \ {n.event}
              /\ listener'[i].saying = "nothing"
           \/ /\ n.event \notin initial[i]
              /\ initial'[i] = initial[i]
              /\ listener'[i].saying = "message" /\ listener'[i].about = n
  BY TakenIs
<1>3. \A m \in 1 .. Len(t) : m + 1 \in 1 .. Len(q) /\ t[m] = q[m + 1]
  BY <1>2
<1>4. \A k \in 1 .. Len(q) : k # 1 => k - 1 \in 1 .. Len(t) /\ t[k - 1] = q[k]
  <2>1. ASSUME NEW k \in 1 .. Len(q), k # 1
        PROVE  k - 1 \in 1 .. Len(t) /\ t[k - 1] = q[k]
    <3>1. k - 1 \in 1 .. Len(t) /\ (k - 1) + 1 = k
      BY <1>2, <2>1
    <3>2. QED
      BY <1>3, <3>1
  <2>2. QED
    BY <2>1
<1>5. ASSUME NEW m \in 1 .. Len(t), IsNewest(t, e, m)
      PROVE  t[m].version = store[e]
  <2>1. IsNewest(q, e, m + 1)
    <3>1. ASSUME NEW k \in 1 .. Len(q), k > m + 1
          PROVE  q[k].event # e
      <4>1. k - 1 \in 1 .. Len(t) /\ t[k - 1] = q[k] /\ k - 1 > m
        BY <1>2, <1>4, <3>1
      <4>2. QED
        BY <1>5, <4>1 DEF IsNewest
    <3>2. QED
      BY <1>3, <1>5, <3>1 DEF IsNewest
  <2>2. QED
    BY <1>1, <1>2, <1>3, <2>1 DEF EndsNew
<1>6. ~ Mentions(t, e) /\ n.event = e => n.version = store[e]
  <2>1. ASSUME ~ Mentions(t, e), n.event = e
        PROVE  IsNewest(q, e, 1)
    <3>1. ASSUME NEW k \in 1 .. Len(q), k > 1
          PROVE  q[k].event # e
      <4>1. k - 1 \in 1 .. Len(t) /\ t[k - 1] = q[k]
        BY <1>4, <3>1
      <4>2. QED
        BY <2>1, <4>1 DEF Mentions
    <3>2. QED
      BY <1>2, <2>1, <3>1 DEF IsNewest
  <2>2. 1 \in 1 .. Len(q)
    BY <1>2
  <2>3. QED
    BY <1>1, <1>2, <2>1, <2>2 DEF EndsNew
<1>7. ~ Mentions(t, e) /\ n.event # e => ~ Mentions(q, e)
  BY <1>2, <1>4 DEF Mentions
<1>8. ~ Mentions(q, e) => told[e] = store[e] \/ store[e] <= first[e]
  BY <1>1, <1>2 DEF EndsNew
<1>9. n.event = e /\ e \in initial[i] => n.version = first[e]
  <2> SUFFICES ASSUME n.event = e, e \in initial[i]
               PROVE  n.version = first[e]
    OBVIOUS
  <2>1. PICK k \in 1 .. Len(q) : IsOldest(q, e, k) /\ q[k].version = first[e]
    BY <1>1, <1>2 DEF StartsOld
  <2>2. k = 1
    BY <1>2, <2>1 DEF IsOldest
  <2>3. QED
    BY <1>2, <2>1, <2>2
<1>10. StartsOld(i, e)'
  <2> SUFFICES ASSUME e \in initial'[i]
               PROVE  \E m \in 1 .. Len(t) : IsOldest(t, e, m) /\ t[m].version = first[e]
    BY <1>0, <1>2 DEF StartsOld
  <2>1. e \in initial[i] /\ n.event # e
    BY <1>2
  <2>2. PICK k \in 1 .. Len(q) : IsOldest(q, e, k) /\ q[k].version = first[e]
    BY <1>1, <1>2, <2>1 DEF StartsOld
  <2>3. k # 1
    BY <1>2, <2>1, <2>2 DEF IsOldest
  <2>4. k - 1 \in 1 .. Len(t) /\ t[k - 1] = q[k]
    BY <1>4, <2>3
  <2>5. IsOldest(t, e, k - 1)
    <3>1. ASSUME NEW m \in 1 .. Len(t), m < k - 1
          PROVE  t[m].event # e
      <4>1. m + 1 \in 1 .. Len(q) /\ t[m] = q[m + 1] /\ m + 1 < k
        BY <1>3, <3>1
      <4>2. QED
        BY <2>2, <4>1 DEF IsOldest
    <3>2. QED
      BY <2>2, <2>4, <3>1 DEF IsOldest
  <2>6. QED
    BY <2>2, <2>4, <2>5
<1>11. CASE n.event \in initial[i] /\ listener'[i].saying = "nothing"
  <2>1. ~ Mentions(t, e) => told[e] = store[e] \/ store[e] <= first[e]
    <3>1. CASE n.event = e
      <4>1. store[e] \in Int
        BY ListenerIs, InformerAssumption DEF EventsOf, Version
      <4>2. ~ Mentions(t, e) => store[e] = first[e]
        BY <1>6, <1>9, <1>11, <3>1
      <4>3. QED
        BY <4>1, <4>2
    <3>2. CASE n.event # e
      BY <1>7, <1>8, <3>2
    <3>3. QED
      BY <3>1, <3>2
  <2>2. QED
    BY <1>0, <1>2, <1>5, <1>10, <1>11, <2>1 DEF EndsNew
<1>12. CASE listener'[i].saying = "message" /\ listener'[i].about = n
  BY <1>0, <1>2, <1>5, <1>6, <1>7, <1>8, <1>10, <1>12 DEF EndsNew
<1>13. QED
  BY <1>2, <1>11, <1>12

LEMMA TellingInforms ==
  ASSUME EventInformerTypeOK, NEW i \in Tracker, Own(i), Informed(i), Hears(i), Tell(i),
         NEW e \in EventsOf(i)
  PROVE  EndsNew(i, e)' /\ StartsOld(i, e)'
<1> DEFINE n == listener[i].about
<1>0. store' = store /\ first' = first /\ initial' = initial
  BY DEF Tell, watching, tracking
<1>1. EndsNew(i, e) /\ StartsOld(i, e)
  BY DEF Informed
<1>2. /\ listener'[i].queue = listener[i].queue
      /\ \/ /\ listener[i].saying = "message" /\ listener'[i].saying = "failure"
            /\ listener'[i].about = listener[i].about
         \/ /\ listener[i].saying = "failure" /\ listener'[i].saying = "nothing"
  BY SaidIs DEF Tell
<1>3. /\ told \in [Event -> Version] /\ e \in Event
  BY ListenerIs DEF EventsOf
<1>4. CASE listener[i].saying = "message"
  <2>1. told' = told /\ listener'[i].saying = "failure" /\ listener'[i].about = listener[i].about
    BY <1>2, <1>4 DEF Tell
  <2>2. QED
    BY <1>0, <1>1, <1>2, <1>4, <2>1 DEF EndsNew, StartsOld
<1>5. CASE listener[i].saying = "failure"
  <2>1. told' = [told EXCEPT ![n.event] = n.version] /\ listener'[i].saying = "nothing"
    BY <1>2, <1>5 DEF Tell
  <2> HIDE DEF n
  <2>2. told'[e] = IF n.event = e THEN n.version ELSE told[e]
    BY <1>3, <2>1
  <2>3. ~ Mentions(listener[i].queue, e) => told'[e] = store[e] \/ store[e] <= first[e]
    BY <1>1, <1>5, <2>2 DEF EndsNew, n
  <2>4. QED
    BY <1>0, <1>1, <1>2, <2>1, <2>3 DEF EndsNew, StartsOld
<1>6. QED
  BY <1>2, <1>4, <1>5

LEMMA InformedStep ==
  ASSUME EventInformerTypeOK, \A j \in Tracker : Own(j), Next, NEW i \in Tracker, Waiting(i), Informed(i)
  PROVE  Informed(i)'
<1>0. EventsOf(i)' = EventsOf(i)
  BY WhatHappens
<1> SUFFICES ASSUME Hears(i)', NEW e \in EventsOf(i)
             PROVE  EndsNew(i, e)' /\ StartsOld(i, e)'
  BY <1>0 DEF Informed
<1>1. /\ listener[i] \in Listener /\ listener \in [Tracker -> Listener]
      /\ pc \in [Tracker -> Place] /\ ctxDone \in [Tracker -> BOOLEAN]
  BY ListenerIs
<1>2. CASE Undisturbed(i)
  <2>1. Hears(i)
    BY <1>2 DEF Undisturbed, Hears
  <2>2. EndsNew(i, e) /\ StartsOld(i, e)
    BY <2>1 DEF Informed
  <2>3. QED
    BY <1>2, <2>2 DEF Undisturbed, EndsNew, StartsOld
<1>3. CASE Deafened(i)
  <2>1. ~ listener'[i].on
    BY <1>1, <1>3 DEF Deafened, Listener
  <2>2. QED
    BY <2>1 DEF Hears
<1>4. ASSUME NEW x \in EventsOf(i), NEW v \in Version, Hearing(i, x, v)
      PROVE  EndsNew(i, e)' /\ StartsOld(i, e)'
  <2>1. listener'[i].on = listener[i].on
    BY <1>1, <1>4 DEF Hearing, Listener
  <2>2. Hears(i)
    BY <1>4, <2>1 DEF Hearing, Hears, tracking
  <2>3. QED
    BY <1>4, <2>2, HearingInforms
<1>5. CASE AddEventHandler(i)
  BY <1>5, AddingInforms
<1>6. CASE HandleEvent(i)
  <2>1. Hears(i)
    BY <1>6, TakenIs DEF HandleEvent, Hears
  <2>2. QED
    BY <1>6, <2>1, HandlingInforms
<1>7. CASE Tell(i)
  <2>1. Hears(i)
    BY <1>7, SaidIs DEF Tell, Hears, tracking
  <2>2. QED
    BY <1>7, <2>1, TellingInforms
<1>8. CASE GetInformer(i) \/ HandleInitialEvents(i) \/ RunFails(i) \/ TrackReturns(i)
  <2>1. pc'[i] # "running"
    BY <1>1, <1>8 DEF GetInformer, HandleInitialEvents, RunFails, TrackReturns, Goto
  <2>2. QED
    BY <2>1 DEF Hears
<1>9. CASE GiveUp(i) \/ Cancel(i)
  <2>1. ctxDone'[i]
    <3>1. CASE GiveUp(i)
      BY <3>1 DEF GiveUp, tracking
    <3>2. CASE Cancel(i)
      BY <1>1, <3>2 DEF Cancel
    <3>3. QED
      BY <1>9, <3>1, <3>2
  <2>2. QED
    BY <2>1 DEF Hears
<1>10. CASE Cleaning(i)
  <2>1. pc[i] = "cleaning" /\ (pc' = pc \/ pc' = [pc EXCEPT ![i] = "over"])
    BY <1>10 DEF Cleaning, StopSending, RemoveEventHandler, CleanupStep, Goto
  <2>2. pc'[i] # "running"
    BY <1>1, <2>1
  <2>3. QED
    BY <2>2 DEF Hears
<1>11. CASE Steps(i)
  BY <1>5, <1>6, <1>7, <1>8, <1>9, <1>10, <1>11 DEF Steps, Run, Handler
<1>12. QED
  BY <1>2, <1>3, <1>4, <1>11, WhatHappens

-----------------------------------------------------------------------------
(***************************************************************************)
(* The theorems.                                                           *)
(***************************************************************************)

LEMMA InitInv ==
  ASSUME Init
  PROVE  InformerInv
<1>1. EventInformerTypeOK
  BY InitTyped
<1>2. ASSUME NEW k \in Key
      PROVE  Judges(k)
  BY DEF Init, InformersInit, Nobody, Judges
<1>3. ASSUME NEW i \in Tracker
      PROVE  Asked(i) /\ Waiting(i) /\ Own(i) /\ Informed(i)
  <2>1. pc[i] = "idle"
    BY DEF Init
  <2>2. ~ listener[i].on /\ listener[i].queue = <<>> /\ listener[i].saying = "nothing"
    BY DEF Init, InformersInit
  <2>3. Len(listener[i].queue) = 0
    BY <2>2
  <2>4. QED
    BY <2>1, <2>2, <2>3 DEF Asked, Waiting, Own, Informed, Hears
<1>4. QED
  BY <1>1, <1>2, <1>3 DEF InformerInv

LEMMA StepInv ==
  ASSUME InformerInv, [Next]_vars
  PROVE  InformerInv'
<1>1. CASE Next
  <2>1. EventInformerTypeOK'
    <3>1. CASE Over
      BY <3>1 DEF Over, vars, watching, tracking, InformerInv, EventInformerTypeOK, InformersTypeOK
    <3>2. QED
      BY <1>1, <3>1, WatchTyped, TrackerTyped DEF Next, InformerInv
  <2>2. \A k \in Key : Judges(k)'
    BY <1>1, JudgesStep DEF InformerInv
  <2>3. \A i \in Tracker : Asked(i)' /\ Waiting(i)' /\ Own(i)' /\ Informed(i)'
    BY <1>1, AskedStep, WaitingStep, OwnStep, InformedStep DEF InformerInv
  <2>4. QED
    BY <2>1, <2>2, <2>3 DEF InformerInv
<1>2. CASE UNCHANGED vars
  BY <1>2
     DEF vars, watching, tracking, InformerInv, EventInformerTypeOK, InformersTypeOK, Judges, Asked, Waiting,
         Own, Informed, Hears, EndsNew, StartsOld, KeyOf, EventsOf
<1>3. QED
  BY <1>1, <1>2

THEOREM InformerInvariance == Spec => []InformerInv
<1>1. Init => InformerInv
  BY InitInv
<1>2. InformerInv /\ [Next]_vars => InformerInv'
  BY StepInv
<1>3. QED
  BY <1>1, <1>2, PTL DEF Spec

\* The variables of the informers and of their trackers have the types that the code
\* gives them; a full watchErrCh takes no more errors.
THEOREM TypeCorrect == Spec => []EventInformerTypeOK
<1>1. InformerInv => EventInformerTypeOK
  BY DEF InformerInv
<1>2. QED
  BY <1>1, InformerInvariance, PTL

\* Whoever shares the informers of a namespace (informer.go), "403 Forbidden" is no error
\* to a tracker that asked for a lenient informer, and no mere warning to any other.
THEOREM AlwaysJudgedAsAsked == Spec => []ForbiddenIsJudgedAsAsked
<1>1. InformerInv => ForbiddenIsJudgedAsAsked
  <2> SUFFICES ASSUME InformerInv, NEW i \in Tracker, pc[i] \in {"requested", "listed", "running"}
               PROVE  /\ options[i] = "lenient" => informer[KeyOf(i)].err # "forbidden"
                      /\ options[i] = "strict" => ~ informer[KeyOf(i)].warned
    BY DEF ForbiddenIsJudgedAsAsked
  <2>1. KeyOf(i) = options[i] /\ options[i] \in Key
    BY DEF KeyOf, KeyFor, InformerInv, EventInformerTypeOK
  <2>2. QED
    BY <2>1 DEF InformerInv, Judges
<1>2. QED
  BY <1>1, InformerInvariance, PTL

\* However the listing of a store, the handler that is added to it and the changes of an
\* event interleave (event/informer.go), a tracker that has nothing to hear of has told the
\* newest version of every event that is newer than the one its handler was given first.
THEOREM NoChangeIsMissed == Spec => []EveryChangeIsTold
<1>1. InformerInv => EveryChangeIsTold
  <2> SUFFICES ASSUME InformerInv, NEW i \in Tracker, NEW e \in EventsOf(i),
                      pc[i] = "running", ~ ctxDone[i], listener[i].on,
                      listener[i].queue = <<>>, listener[i].saying = "nothing", store[e] > first[e]
               PROVE  told[e] = store[e]
    BY DEF EveryChangeIsTold
  <2>1. EndsNew(i, e)
    BY DEF InformerInv, Informed, Hears
  <2>2. ~ Mentions(listener[i].queue, e)
    <3>1. Len(listener[i].queue) = 0
      OBVIOUS
    <3>2. QED
      BY <3>1 DEF Mentions
  <2>3. store[e] \in Int /\ first[e] \in Int
    BY ListenerIs, InformerAssumption DEF InformerInv, EventsOf, Version
  <2>4. QED
    BY <2>1, <2>2, <2>3 DEF EndsNew
<1>2. QED
  BY <1>1, InformerInvariance, PTL
=============================================================================
