-------------------------- MODULE PodReadinessProofs --------------------------
(***************************************************************************)
(* A Pod is called succeeded only when its logs are over, for any number   *)
(* of containers, any Pod to begin with and any number of changes.         *)
(***************************************************************************)
EXTENDS PodReadiness, FiniteSetTheorems, SequenceTheorems, TLAPS

\* The parts of the type invariant that the argument needs.
Typed ==
  /\ t \in Tracker
  /\ pod \in Object \cup {Nil}
  /\ events \in Seq([type : {"Added", "Modified", "Deleted"}, object : Object])
  /\ goroutines \in [Container -> {"none", "waiting", "following", "exiting", "over"}]

NilIn(out) == \E i \in DOMAIN out : out[i].ch = "nil"

\* The goroutines have never been started: the deletion of the Pod was the first that
\* Start heard of.  Whoever has been told something since has no channel, and Start
\* waits in that send.
NeverStarted ==
  /\ \A c \in Container : goroutines[c] = "none"
  /\ (\A c \in Container : t.ContainerTrackerStates[c] = "") \/ NilIn(t.out)

\* A container that is not tracked is one whose goroutine is over.
UntrackedAreOver ==
  /\ t.State = "Initial" => /\ \A c \in Container : goroutines[c] = "none"
                            /\ \A c \in Container : t.ContainerTrackerStates[c] = ""
  /\ t.State # "Initial" =>
       \/ NeverStarted
       \/ \A c \in Container : c \in t.TrackedContainers \/ goroutines[c] = "over"

LogsInv == Typed /\ UntrackedAreOver

-----------------------------------------------------------------------------
(***************************************************************************)
(* The messages of a handler.                                              *)
(***************************************************************************)

LEMMA SetToSeqType ==
  ASSUME NEW S, IsFiniteSet(S)
  PROVE  Cardinality(S) \in Nat /\ SetToSeq(S) \in [1 .. Cardinality(S) -> S]
<1>1. Cardinality(S) \in Nat /\ ExistsBijection(1 .. Cardinality(S), S)
  BY FS_CardinalityType
<1>2. \E f \in [1 .. Cardinality(S) -> S] : IsInjective(f)
  BY <1>1 DEF ExistsBijection, Bijection, Injection
<1>3. QED
  BY <1>1, <1>2 DEF SetToSeq

LEMMA FunctionIsSeq ==
  ASSUME NEW S, NEW n \in Nat, NEW f \in [1 .. n -> S]
  PROVE  f \in Seq(S) /\ Len(f) = n /\ DOMAIN f = 1 .. n
OBVIOUS

LEMMA ToContainersIs ==
  ASSUME NEW d \in Tracker, NEW cs \in SUBSET Container
  PROVE  /\ ToContainers(d, cs) \in Seq(Message)
         /\ cs # {} /\ (\A c \in cs : d.ContainerTrackerStates[c] = "") =>
              Len(ToContainers(d, cs)) > 0 /\ ToContainers(d, cs)[1].ch = "nil"
<1>1. Cardinality(cs) \in Nat /\ SetToSeq(cs) \in [1 .. Cardinality(cs) -> cs]
  BY PodConstantsAssumption, FS_Subset, SetToSeqType
<1>2. cs # {} => Cardinality(cs) > 0
  BY <1>1, PodConstantsAssumption, FS_Subset, FS_EmptySet
<1>3. /\ ToContainers(d, cs) \in [1 .. Cardinality(cs) -> Message]
      /\ \A i \in 1 .. Cardinality(cs) :
           d.ContainerTrackerStates[SetToSeq(cs)[i]] = "" => ToContainers(d, cs)[i].ch = "nil"
  BY <1>1 DEF ToContainers, Message, BlankStatus, PodStatus
<1>4. ToContainers(d, cs) \in Seq(Message) /\ Len(ToContainers(d, cs)) = Cardinality(cs)
  BY <1>1, <1>3, FunctionIsSeq
<1>5. ASSUME cs # {}, \A c \in cs : d.ContainerTrackerStates[c] = ""
      PROVE  ToContainers(d, cs)[1].ch = "nil"
  <2>1. 1 \in 1 .. Cardinality(cs)
    <3>1. Cardinality(cs) > 0
      BY <1>2, <1>5
    <3>2. QED
      BY <1>1, <3>1
  <2>2. SetToSeq(cs)[1] \in cs
    BY <1>1, <2>1
  <2>3. QED
    BY <1>3, <1>5, <2>1, <2>2
<1>6. QED
  BY <1>1, <1>2, <1>4, <1>5

LEMMA ContainerErrorsIs ==
  ASSUME NEW s \in PodStatus, NEW cs \in SUBSET Container
  PROVE  /\ ContainerErrors(cs, s) \in Seq(Message)
         /\ \A i \in DOMAIN ContainerErrors(cs, s) : ContainerErrors(cs, s)[i].ch = "ContainerError"
<1>1. Cardinality(cs) \in Nat /\ SetToSeq(cs) \in [1 .. Cardinality(cs) -> cs]
  BY PodConstantsAssumption, FS_Subset, SetToSeqType
<1>2. \A i \in 1 .. Cardinality(cs) :
        [ch |-> "ContainerError", c |-> SetToSeq(cs)[i], status |-> s] \in Message
  BY <1>1 DEF Message
<1>3. QED
  BY <1>1, <1>2 DEF ContainerErrors

LEMMA AppendLast ==
  ASSUME NEW a \in Seq(Message), NEW m \in Message
  PROVE  a \o <<m>> \in Seq(Message) /\ Len(a \o <<m>>) > 0 /\ Last(a \o <<m>>) = m
<1>1. a \o <<m>> = Append(a, m)
  BY AppendIsConcat
<1>2. /\ Append(a, m) \in Seq(Message) /\ Len(Append(a, m)) = Len(a) + 1
      /\ Append(a, m)[Len(a) + 1] = m
  BY AppendProperties
<1>3. Len(a) \in Nat
  BY LenProperties
<1>4. QED
  BY <1>1, <1>2, <1>3 DEF Last

LEMMA ConcatLast ==
  ASSUME NEW a \in Seq(Message), NEW b \in Seq(Message), NEW m \in Message
  PROVE  /\ a \o b \o <<m>> \in Seq(Message)
         /\ Len(a \o b \o <<m>>) > 0
         /\ Last(a \o b \o <<m>>) = m
         /\ Len(a) > 0 => (a \o b \o <<m>>)[1] = a[1]
<1>1. /\ a \o b \in Seq(Message)
      /\ Len(a \o b) = Len(a) + Len(b)
      /\ \A i \in 1 .. Len(a) + Len(b) : (a \o b)[i] = IF i <= Len(a) THEN a[i] ELSE b[i - Len(a)]
  BY ConcatProperties
<1>2. a \o b \o <<m>> = Append(a \o b, m)
  BY <1>1, AppendIsConcat
<1>3. /\ Append(a \o b, m) \in Seq(Message)
      /\ Len(Append(a \o b, m)) = Len(a \o b) + 1
      /\ \A i \in 1 .. Len(a \o b) : Append(a \o b, m)[i] = (a \o b)[i]
      /\ Append(a \o b, m)[Len(a \o b) + 1] = m
  BY <1>1, AppendProperties
<1>4. Len(a) \in Nat /\ Len(b) \in Nat
  BY LenProperties
<1>5. QED
  BY <1>1, <1>2, <1>3, <1>4 DEF Last

-----------------------------------------------------------------------------
(***************************************************************************)
(* The handlers.                                                           *)
(***************************************************************************)

LEMMA SucceededPodIsComplete ==
  ASSUME NEW o \in Object, Phase(o) = "Succeeded"
  PROVE  \A c \in Container : o.cs[c] = "completed"
<1>1. o.cs \in [Container -> ContainerState]
  BY DEF Object
<1>2. CASE o.mark = "evicted" \/ (AllEnded(o) /\ \E c \in Container : o.cs[c] = "crashed")
  BY <1>2 DEF Phase, AllEnded, Ended
<1>3. CASE o.mark # "evicted" /\ ~ AllEnded(o)
  BY <1>3 DEF Phase, AllEnded, Ended
<1>4. CASE o.mark # "evicted" /\ AllEnded(o) /\ \A c \in Container : o.cs[c] # "crashed"
  BY <1>1, <1>4 DEF AllEnded, Ended
<1>5. QED
  BY <1>2, <1>3, <1>4

LEMMA NewStatusIs ==
  ASSUME NEW d \in Tracker, NEW o \in Object
  PROVE  /\ NewStatus(d, o) \in PodStatus
         /\ NewStatus(d, o).succeeded => d.TrackedContainers = {} /\ Phase(o) = "Succeeded"
BY DEF NewStatus, PodStatus, Object, Tracker

LEMMA ChannelIs ==
  ASSUME NEW state \in TrackerState, NEW s \in PodStatus
  PROVE  /\ Channel(state, s) \in {"Added", "Status", "Ready", "Succeeded", "Failed"}
         /\ Channel(state, s) = "Succeeded" => s.succeeded
         /\ state = "Initial" => Channel(state, s) # "Status"
BY DEF Channel, TrackerState, PodStatus

\* handlePodState: what it keeps of the containers, and what it tells last.
LEMMA HandleStateIs ==
  ASSUME NEW d \in Tracker, NEW o \in Object
  PROVE  LET e == HandleState(d, o) IN
         /\ e \in Tracker /\ e.State # "Initial" /\ Len(e.out) > 0
         /\ d.State = "Initial" => e.TrackedContainers = Container
         /\ d.State # "Initial" => e.TrackedContainers = d.TrackedContainers
         /\ Last(e.out).ch = "Succeeded" => d.TrackedContainers = {} /\ Phase(o) = "Succeeded"
         /\ d.State # "Initial" /\ (\A c \in Container : d.ContainerTrackerStates[c] = "") =>
              \/ NilIn(e.out)
              \/ /\ \A c \in Container : e.ContainerTrackerStates[c] = ""
                 /\ Container # {} => Phase(o) # "Succeeded"
<1> DEFINE e == HandleState(d, o)
           s == NewStatus(d, o)
           ch == Channel(d.State, s)
           run == RunContainersTrackers(d)
           started == Started(run, o)
           a == ToContainers(run, started)
           b == ContainerErrors(Broken(o), s)
           m == [ch |-> ch, c |-> Nil, status |-> s]
<1>1. /\ run \in Tracker /\ run.State = d.State
      /\ d.State = "Initial" => run.TrackedContainers = Container
      /\ d.State # "Initial" => run = d
  BY DEF RunContainersTrackers, Tracker, ContainerTrackerState
<1>2. /\ s \in PodStatus
      /\ s.succeeded => d.TrackedContainers = {} /\ Phase(o) = "Succeeded"
  BY NewStatusIs
<1>3. /\ ch \in {"Added", "Status", "Ready", "Succeeded", "Failed"}
      /\ ch = "Succeeded" => s.succeeded
      /\ d.State = "Initial" => ch # "Status"
  BY <1>2, ChannelIs DEF Tracker
<1>4. started \in SUBSET Container /\ Broken(o) \in SUBSET Container
  BY DEF Started, Broken
<1>5. a \in Seq(Message) /\ b \in Seq(Message) /\ m \in Message
  BY <1>1, <1>2, <1>3, <1>4, ToContainersIs, ContainerErrorsIs DEF Message
<1>6. /\ a \o b \o <<m>> \in Seq(Message)
      /\ Len(a \o b \o <<m>>) > 0
      /\ Last(a \o b \o <<m>>) = m
      /\ Len(a) > 0 => (a \o b \o <<m>>)[1] = a[1]
  BY <1>5, ConcatLast
<1>7. e = [run EXCEPT !.lastObject = o,
                      !.LastStatus = s,
                      !.State = IF ch = "Status" THEN @ ELSE ch,
                      !.ContainerTrackerStates =
                        [c \in Container |-> IF c \in started THEN NewContainerState(d) ELSE @[c]],
                      !.out = a \o b \o <<m>>]
  BY DEF HandleState, Told
<1>8. NewContainerState(d) \in ContainerTrackerState
  BY DEF NewContainerState, ContainerTrackerState
<1>9. /\ e.out = a \o b \o <<m>>
      /\ e.State = (IF ch = "Status" THEN run.State ELSE ch)
      /\ e.TrackedContainers = run.TrackedContainers
      /\ e.ContainerTrackerStates =
           [c \in Container |-> IF c \in started THEN NewContainerState(d)
                                                 ELSE run.ContainerTrackerStates[c]]
  BY <1>1, <1>7 DEF Tracker
<1>10. e \in Tracker
  <2>1. e.State \in TrackerState
    BY <1>1, <1>3, <1>9 DEF Tracker, TrackerState
  <2>2. e.ContainerTrackerStates \in [Container -> ContainerTrackerState]
    BY <1>1, <1>8, <1>9 DEF Tracker
  <2>3. QED
    BY <1>1, <1>2, <1>6, <1>7, <1>9, <2>1, <2>2 DEF Tracker
<1>11. ASSUME d.State # "Initial", \A c \in Container : d.ContainerTrackerStates[c] = ""
       PROVE  \/ NilIn(e.out)
              \/ /\ \A c \in Container : e.ContainerTrackerStates[c] = ""
                 /\ Container # {} => Phase(o) # "Succeeded"
  <2>1. CASE started # {}
    <3>1. Len(a) > 0 /\ a[1].ch = "nil"
      BY <1>1, <1>4, <1>11, <2>1, ToContainersIs
    <3>2. e.out[1].ch = "nil" /\ 1 \in DOMAIN e.out
      BY <1>6, <1>9, <3>1, LenProperties
    <3>3. QED
      BY <3>2 DEF NilIn
  <2>2. CASE started = {}
    <3>1. \A c \in Container : e.ContainerTrackerStates[c] = ""
      BY <1>1, <1>9, <1>11, <2>2
    <3>2. ASSUME NEW c \in Container, Phase(o) = "Succeeded"
          PROVE  c \in started
      BY <1>1, <1>11, <3>2, SucceededPodIsComplete DEF Started, Ended, NewContainerState
    <3>3. QED
      BY <2>2, <3>1, <3>2
  <2>3. QED
    BY <2>1, <2>2
<1>12. /\ e.State # "Initial" /\ Len(e.out) > 0
       /\ Last(e.out).ch = "Succeeded" => d.TrackedContainers = {} /\ Phase(o) = "Succeeded"
  <2>1. m.ch = ch
    OBVIOUS
  <2> HIDE DEF s, ch, run, started, a, b, m, e
  <2>2. QED
    BY <1>1, <1>2, <1>3, <1>6, <1>9, <2>1
<1>13. /\ d.State = "Initial" => e.TrackedContainers = Container
       /\ d.State # "Initial" => e.TrackedContainers = d.TrackedContainers
  BY <1>1, <1>9
<1> HIDE DEF s, ch, run, started, a, b, m
<1>14. QED
  BY <1>10, <1>11, <1>12, <1>13

LEMMA ResetIs ==
  ASSUME NEW d \in Tracker
  PROVE  LET e == ResetOnDelete(d) IN
         /\ e \in Tracker /\ e.State = "Deleted" /\ Len(e.out) > 0 /\ Last(e.out).ch = "Deleted"
         /\ e.TrackedContainers = d.TrackedContainers
         /\ \A c \in Container : e.ContainerTrackerStates[c] = ""
<1> DEFINE e == ResetOnDelete(d)
           undone == {c \in Container :
                        d.ContainerTrackerStates[c] \notin {"", "ContainerTrackerDone"}}
           a == ToContainers(d, undone)
           m == [ch |-> "Deleted", c |-> Nil, status |-> BlankStatus]
<1>1. BlankStatus \in PodStatus
  BY DEF BlankStatus, PodStatus
<1>2. a \in Seq(Message) /\ m \in Message
  BY <1>1, ToContainersIs DEF Message
<1>3. a \o <<m>> \in Seq(Message) /\ Len(a \o <<m>>) > 0 /\ Last(a \o <<m>>) = m
  BY <1>2, AppendLast
<1>4. e = [d EXCEPT !.State = "Deleted", !.lastObject = Nil, !.LastStatus = BlankStatus,
                    !.ContainerTrackerStates = [c \in Container |-> ""],
                    !.out = a \o <<m>>]
  BY DEF ResetOnDelete, Told
<1>5. /\ m.ch = "Deleted" /\ "Deleted" \in TrackerState
      /\ [c \in Container |-> ""] \in [Container -> ContainerTrackerState]
  BY DEF TrackerState, ContainerTrackerState
<1>6. QED
  <2> HIDE DEF undone, a, m
  <2>1. /\ e.State = "Deleted" /\ e.out = a \o <<m>> /\ e.TrackedContainers = d.TrackedContainers
        /\ e.ContainerTrackerStates = [c \in Container |-> ""]
    BY <1>4 DEF Tracker
  <2>2. e \in Tracker
    BY <1>1, <1>3, <1>4, <1>5 DEF Tracker
  <2>3. QED
    BY <1>3, <1>5, <2>1, <2>2

LEMMA ContainerDoneIs ==
  ASSUME NEW d \in Tracker, NEW c \in Container, d.State # "Initial", d.out = <<>>
  PROVE  LET e == ContainerDone(d, c) IN
         /\ e \in Tracker /\ e.State # "Initial"
         /\ e.TrackedContainers = d.TrackedContainers \ {c}
         /\ e.out # <<>> /\ Last(e.out).ch = "Succeeded" => d.TrackedContainers \ {c} = {}
<1> DEFINE e == ContainerDone(d, c)
           rest == [d EXCEPT !.TrackedContainers = @ \ {c}]
<1>1. /\ rest \in Tracker /\ rest.State # "Initial" /\ rest.out = <<>>
      /\ rest.TrackedContainers = d.TrackedContainers \ {c}
  BY DEF Tracker
<1>2. CASE d.lastObject = Nil
  BY <1>1, <1>2 DEF ContainerDone
<1>3. CASE d.lastObject # Nil
  <2>1. d.lastObject \in Object
    BY <1>3 DEF Tracker
  <2>2. e = HandleState(rest, d.lastObject)
    BY <1>3 DEF ContainerDone
  <2>3. LET h == HandleState(rest, d.lastObject)
        IN /\ h \in Tracker /\ h.State # "Initial"
           /\ h.TrackedContainers = rest.TrackedContainers
           /\ Last(h.out).ch = "Succeeded" => rest.TrackedContainers = {}
    <3> HIDE DEF rest
    <3>1. QED
      BY <1>1, <2>1, HandleStateIs
  <2>4. QED
    BY <1>1, <2>2, <2>3
<1>4. QED
  BY <1>2, <1>3

-----------------------------------------------------------------------------
(***************************************************************************)
(* Every step keeps LogsInv.                                               *)
(***************************************************************************)

LEMMA InitInv == ReadinessInit => LogsInv
<1> SUFFICES ASSUME ReadinessInit PROVE LogsInv
  OBVIOUS
<1>1. PICK ignoreLogs \in BOOLEAN :
        t = [ignoreLogs |-> ignoreLogs, State |-> "Initial", lastObject |-> Nil,
             LastStatus |-> BlankStatus, TrackedContainers |-> {},
             ContainerTrackerStates |-> [c \in Container |-> ""], out |-> <<>>]
  BY DEF ReadinessInit, Init
<1>2. t \in Tracker
  <2>1. /\ BlankStatus \in PodStatus
        /\ [c \in Container |-> ""] \in [Container -> ContainerTrackerState]
        /\ "Initial" \in TrackerState /\ <<>> \in Seq(Message)
    BY DEF TrackerState, ContainerTrackerState, BlankStatus, PodStatus
  <2>2. QED
    BY <1>1, <2>1 DEF Tracker
<1>3. pod \in Object \cup {Nil}
  BY FirstAssumption DEF ReadinessInit, Init
<1>4. events \in Seq([type : {"Added", "Modified", "Deleted"}, object : Object])
  <2> DEFINE added == [type |-> "Added", object |-> pod]
  <2>0. events = IF pod = Nil THEN <<>> ELSE <<added>>
    BY DEF ReadinessInit, Init
  <2>1. CASE pod = Nil
    BY <2>0, <2>1
  <2>2. CASE pod # Nil
    <3>1. added \in [type : {"Added", "Modified", "Deleted"}, object : Object]
      BY <1>3, <2>2
    <3> HIDE DEF added
    <3>2. QED
      BY <2>0, <2>2, <3>1
  <2>3. QED
    BY <2>1, <2>2
<1>5. /\ goroutines = [c \in Container |-> "none"]
      /\ \A c \in Container : t.ContainerTrackerStates[c] = ""
  BY <1>1 DEF ReadinessInit, Init
<1>6. QED
  BY <1>1, <1>2, <1>3, <1>4, <1>5 DEF LogsInv, Typed, UntrackedAreOver

Event == [type : {"Added", "Modified", "Deleted"}, object : Object]

\* The changes of the cluster leave the tracker and its goroutines alone.
LEMMA ClusterKeeps == LogsInv /\ Cluster => LogsInv'
<1> SUFFICES ASSUME LogsInv, Cluster PROVE LogsInv'
  OBVIOUS
<1>1. t' = t /\ goroutines' = goroutines
  BY DEF Cluster, ObjectAdded, ObjectModified, ObjectDeleted, ProbeEvent, EventDropped, PodChange,
         containers
<1>2. events \in Seq(Event) /\ pod \in Object \cup {Nil}
  BY DEF LogsInv, Typed, Event
<1>3. \A type \in {"Added", "Modified", "Deleted"}, o \in Object :
        Append(events, [type |-> type, object |-> o]) \in Seq(Event)
  BY <1>2, AppendProperties DEF Event
<1>4. pod' \in Object \cup {Nil} /\ events' \in Seq(Event)
  <2>1. CASE ObjectAdded
    BY <1>3, <2>1, FirstAssumption DEF ObjectAdded, Notify
  <2>2. CASE ObjectModified
    BY <1>3, <2>2 DEF ObjectModified, Notify, Successor
  <2>3. CASE ObjectDeleted
    BY <1>2, <1>3, <2>3 DEF ObjectDeleted, Notify
  <2>4. CASE ProbeEvent
    BY <1>2, <2>4 DEF ProbeEvent
  <2>5. CASE EventDropped
    BY <1>2, <2>5, HeadTailProperties DEF EventDropped
  <2>6. QED
    BY <2>1, <2>2, <2>3, <2>4, <2>5 DEF Cluster
<1>5. QED
  BY <1>1, <1>4 DEF LogsInv, Typed, Event, UntrackedAreOver, NeverStarted

LEMMA Delivered ==
  ASSUME Typed, NEW type, Delivers(type)
  PROVE  /\ Head(events).object \in Object
         /\ events' \in Seq([type : {"Added", "Modified", "Deleted"}, object : Object])
<1>1. events \in Seq(Event)
  BY DEF Typed, Event
<1>2. Head(events) \in Event /\ Tail(events) \in Seq(Event)
  BY <1>1, HeadTailProperties DEF Delivers
<1>3. QED
  BY <1>2 DEF Delivers, Event

\* When Start selects, a message of nil is not among those to send.
LEMMA NothingToSend == ~ NilIn(<<>>)
BY DEF NilIn

LEMMA HandleObjectKeeps ==
  ASSUME LogsInv, NEW type, HandleObject(type)
  PROVE  /\ LogsInv'
         /\ t.State # "Initial" /\ Tells(t', "Succeeded") =>
              \A c \in Container : goroutines'[c] = "over"
<1> DEFINE o == Head(events).object
<1>1. /\ t \in Tracker /\ t.out = <<>> /\ t' = HandleState(t, o) /\ pod' = pod
      /\ goroutines' = IF t.State = "Initial" THEN [c \in Container |-> "waiting"] ELSE goroutines
      /\ Delivers(type) /\ Typed
  BY DEF LogsInv, Typed, HandleObject, Selecting
<1>2. /\ o \in Object
      /\ events' \in Seq([type : {"Added", "Modified", "Deleted"}, object : Object])
  BY <1>1, Delivered
<1>3. /\ t' \in Tracker /\ t'.State # "Initial" /\ Len(t'.out) > 0
      /\ t.State = "Initial" => t'.TrackedContainers = Container
      /\ t.State # "Initial" => t'.TrackedContainers = t.TrackedContainers
      /\ Last(t'.out).ch = "Succeeded" => t.TrackedContainers = {} /\ Phase(o) = "Succeeded"
      /\ t.State # "Initial" /\ (\A c \in Container : t.ContainerTrackerStates[c] = "") =>
           \/ NilIn(t'.out)
           \/ /\ \A c \in Container : t'.ContainerTrackerStates[c] = ""
              /\ Container # {} => Phase(o) # "Succeeded"
  <2> HIDE DEF o
  <2>1. QED
    BY <1>1, <1>2, HandleStateIs
<1>4. Typed'
  BY <1>1, <1>2, <1>3 DEF Typed
<1>5. CASE t.State = "Initial"
  BY <1>1, <1>3, <1>4, <1>5 DEF LogsInv, UntrackedAreOver
<1>6. CASE t.State # "Initial" /\ NeverStarted
  <2>1. \A c \in Container : t.ContainerTrackerStates[c] = ""
    BY <1>1, <1>6, NothingToSend DEF NeverStarted
  <2>2. NeverStarted'
    BY <1>1, <1>3, <1>6, <2>1 DEF NeverStarted
  <2>3. ~ (Tells(t', "Succeeded") /\ Container # {})
    BY <1>3, <1>6, <2>1 DEF Tells, NilIn
  <2>4. QED
    BY <1>3, <1>4, <2>2, <2>3 DEF LogsInv, UntrackedAreOver
<1>7. CASE t.State # "Initial" /\ \A c \in Container : c \in t.TrackedContainers \/ goroutines[c] = "over"
  BY <1>1, <1>3, <1>4, <1>7 DEF LogsInv, UntrackedAreOver, Tells
<1>8. QED
  BY <1>5, <1>6, <1>7 DEF LogsInv, UntrackedAreOver

LEMMA HandleObjectDeletedKeeps ==
  ASSUME LogsInv, HandleObjectDeleted
  PROVE  LogsInv' /\ ~ Tells(t', "Succeeded")
<1>1. /\ t \in Tracker /\ t' = ResetOnDelete(t) /\ pod' = pod /\ goroutines' = goroutines
      /\ Delivers("Deleted") /\ Typed
  BY DEF LogsInv, Typed, HandleObjectDeleted, containers
<1>2. events' \in Seq([type : {"Added", "Modified", "Deleted"}, object : Object])
  BY <1>1, Delivered
<1>3. /\ t' \in Tracker /\ t'.State = "Deleted" /\ Last(t'.out).ch = "Deleted"
      /\ t'.TrackedContainers = t.TrackedContainers
      /\ \A c \in Container : t'.ContainerTrackerStates[c] = ""
  BY <1>1, ResetIs
<1>4. QED
  BY <1>1, <1>2, <1>3 DEF LogsInv, Typed, UntrackedAreOver, NeverStarted, Tells

LEMMA HandleObjectFailedKeeps ==
  ASSUME LogsInv, HandleObjectFailed
  PROVE  LogsInv' /\ ~ Tells(t', "Succeeded")
<1>1. PICK cs \in {{}} \cup {{c} : c \in Container} :
        t' = [t EXCEPT !.out = ContainerErrors(cs, t.LastStatus)]
  BY DEF HandleObjectFailed
<1>2. /\ t \in Tracker /\ t.out = <<>> /\ UNCHANGED <<pod, events, goroutines>>
      /\ cs \in SUBSET Container
  BY <1>1 DEF LogsInv, Typed, HandleObjectFailed, Selecting, containers
<1>3. /\ ContainerErrors(cs, t.LastStatus) \in Seq(Message)
      /\ \A i \in DOMAIN ContainerErrors(cs, t.LastStatus) :
           ContainerErrors(cs, t.LastStatus)[i].ch = "ContainerError"
  BY <1>2, ContainerErrorsIs DEF Tracker
<1>4. /\ t' \in Tracker /\ t'.State = t.State /\ t'.TrackedContainers = t.TrackedContainers
      /\ t'.ContainerTrackerStates = t.ContainerTrackerStates
      /\ t'.out = ContainerErrors(cs, t.LastStatus)
  BY <1>1, <1>2, <1>3 DEF Tracker
<1>5. ~ Tells(t', "Succeeded")
  <2>1. ASSUME t'.out # <<>> PROVE Last(t'.out).ch = "ContainerError"
    <3>1. Len(t'.out) \in DOMAIN t'.out
      BY <1>3, <1>4, <2>1, LenProperties, EmptySeq
    <3>2. QED
      BY <1>3, <1>4, <3>1 DEF Last
  <2>2. QED
    BY <2>1 DEF Tells
<1>6. QED
  BY <1>2, <1>4, <1>5, NothingToSend DEF LogsInv, Typed, UntrackedAreOver, NeverStarted

LEMMA HandleContainerDoneKeeps ==
  ASSUME LogsInv, NEW c \in Container, HandleContainerDone(c)
  PROVE  /\ LogsInv'
         /\ Tells(t', "Succeeded") => \A k \in Container : goroutines'[k] = "over"
<1>1. /\ t \in Tracker /\ t.out = <<>> /\ t' = ContainerDone(t, c) /\ UNCHANGED <<pod, events>>
      /\ goroutines[c] = "exiting" /\ goroutines' = [goroutines EXCEPT ![c] = "over"]
      /\ goroutines \in [Container -> {"none", "waiting", "following", "exiting", "over"}]
  BY DEF LogsInv, Typed, HandleContainerDone, Selecting, cluster
<1>2. /\ t.State # "Initial"
      /\ \A k \in Container : k \in t.TrackedContainers \/ goroutines[k] = "over"
  BY <1>1 DEF LogsInv, UntrackedAreOver, NeverStarted
<1>3. /\ t' \in Tracker /\ t'.State # "Initial"
      /\ t'.TrackedContainers = t.TrackedContainers \ {c}
      /\ t'.out # <<>> /\ Last(t'.out).ch = "Succeeded" => t.TrackedContainers \ {c} = {}
  BY <1>1, <1>2, ContainerDoneIs
<1>4. \A k \in Container : k \in t'.TrackedContainers \/ goroutines'[k] = "over"
  BY <1>1, <1>2, <1>3
<1>5. QED
  BY <1>1, <1>3, <1>4 DEF LogsInv, Typed, UntrackedAreOver, Tells

\* The goroutine of a container moves only when the container is tracked.
LEMMA ContainerKeeps ==
  ASSUME LogsInv, NEW c \in Container,
         TakeState(c) \/ ContainerCancelled(c) \/ FollowingEnds(c)
  PROVE  LogsInv' /\ t' = t
<1>1. /\ UNCHANGED <<pod, events, t>>
      /\ goroutines[c] \in {"waiting", "following"}
      /\ \E g \in {"following", "exiting"} : goroutines' = [goroutines EXCEPT ![c] = g]
      /\ goroutines \in [Container -> {"none", "waiting", "following", "exiting", "over"}]
  BY DEF TakeState, ContainerCancelled, FollowingEnds, ContainerStep, cluster, LogsInv, Typed
<1>2. /\ t.State # "Initial"
      /\ \A k \in Container : k \in t.TrackedContainers \/ goroutines[k] = "over"
  BY <1>1 DEF LogsInv, UntrackedAreOver, NeverStarted
<1>3. QED
  BY <1>1, <1>2 DEF LogsInv, Typed, UntrackedAreOver

\* A send that is taken was not one to a nil channel.
LEMMA SendKeeps ==
  ASSUME LogsInv, t.out # <<>>, Head(t.out).ch # "nil", t' = [t EXCEPT !.out = Tail(@)],
         UNCHANGED <<pod, events, goroutines>>
  PROVE  LogsInv'
<1>1. t \in Tracker /\ t.out \in Seq(Message)
  BY DEF LogsInv, Typed, Tracker
<1>2. /\ Tail(t.out) \in Seq(Message) /\ Len(Tail(t.out)) = Len(t.out) - 1
      /\ \A i \in 1 .. Len(Tail(t.out)) : Tail(t.out)[i] = t.out[i + 1]
  BY <1>1, HeadTailProperties
<1>3. Head(t.out) = t.out[1]
  BY <1>1
<1>4. /\ t' \in Tracker /\ t'.State = t.State /\ t'.out = Tail(t.out)
      /\ t'.TrackedContainers = t.TrackedContainers
      /\ t'.ContainerTrackerStates = t.ContainerTrackerStates
  BY <1>1, <1>2 DEF Tracker
<1>5. ASSUME NilIn(t.out) PROVE NilIn(Tail(t.out))
  <2>1. PICK i \in DOMAIN t.out : t.out[i].ch = "nil"
    BY <1>5 DEF NilIn
  <2>2. i \in 1 .. Len(t.out) /\ i # 1 /\ Len(t.out) \in Nat
    BY <1>1, <1>3, <2>1, LenProperties
  <2>3. i - 1 \in 1 .. Len(Tail(t.out)) /\ Tail(t.out)[i - 1] = t.out[i]
    BY <1>2, <2>2
  <2>4. DOMAIN Tail(t.out) = 1 .. Len(Tail(t.out))
    BY <1>2, LenProperties
  <2>5. QED
    BY <2>1, <2>3, <2>4 DEF NilIn
<1>6. QED
  BY <1>4, <1>5 DEF LogsInv, Typed, UntrackedAreOver, NeverStarted

\* LogsEndBeforeSuccess, as the step that it is about.
LogsStep ==
  t.out = <<>> /\ Tells(t', "Succeeded") /\ t.State # "Initial" =>
    \A c \in Container : goroutines'[c] = "over"

LEMMA StepInv == LogsInv /\ [ReadinessNext]_allVars => LogsInv' /\ (LogsStep \/ UNCHANGED allVars)
<1> SUFFICES ASSUME LogsInv, [ReadinessNext]_allVars
             PROVE  LogsInv' /\ (LogsStep \/ UNCHANGED allVars)
  OBVIOUS
<1> DEFINE Silent == UNCHANGED <<pod, events, goroutines, t>>
           Sending == /\ t.out # <<>> /\ Head(t.out).ch # "nil" /\ t' = [t EXCEPT !.out = Tail(@)]
                      /\ UNCHANGED <<pod, events, goroutines>>
<1>1. CASE Cluster
  <2>1. t' = t
    BY <1>1 DEF Cluster, ObjectAdded, ObjectModified, ObjectDeleted, ProbeEvent, EventDropped,
                PodChange
  <2>2. QED
    BY <1>1, <2>1, ClusterKeeps DEF LogsStep, Tells
<1>2. CASE HandleObjectAdded \/ HandleObjectModified
  BY <1>2, HandleObjectKeeps DEF HandleObjectAdded, HandleObjectModified, LogsStep
<1>3. CASE HandleObjectDeleted
  BY <1>3, HandleObjectDeletedKeeps DEF LogsStep
<1>4. CASE HandleObjectFailed
  BY <1>4, HandleObjectFailedKeeps DEF LogsStep
<1>5. CASE \E c \in Container : HandleContainerDone(c)
  BY <1>5, HandleContainerDoneKeeps DEF LogsStep
<1>6. CASE \E c \in Container : TakeState(c) \/ ContainerCancelled(c) \/ FollowingEnds(c)
  BY <1>6, ContainerKeeps DEF LogsStep, Tells
<1>7. CASE Silent
  BY <1>7 DEF LogsInv, Typed, UntrackedAreOver, NeverStarted, LogsStep, Tells
<1>8. CASE Sending
  BY <1>8, SendKeeps DEF LogsStep
<1>9. CASE SendToContainer
  BY <1>8, <1>9 DEF SendToContainer, cluster
<1>10. CASE Start
  BY <1>2, <1>3, <1>4, <1>5, <1>9, <1>10 DEF Start
<1>11. CASE Enqueues
  BY <1>8, <1>11 DEF Enqueues, Enqueue, Buffered, Sends, Sent, cluster, containers
<1>12. CASE Reading
  <2>1. CASE \E ch \in Buffered : ReadBuffered(ch)
    BY <1>7, <2>1 DEF ReadBuffered, vars, cluster, containers
  <2>2. CASE \E ch \in {"Ready", "Succeeded", "Failed", "Deleted", "ContainerError"} : ReadUnbuffered(ch)
    BY <1>8, <2>2 DEF ReadUnbuffered, Sends, Sent, cluster, containers
  <2>3. CASE ReadReturn
    BY <1>7, <2>3 DEF ReadReturn, vars, cluster, containers
  <2>4. QED
    BY <1>12, <2>1, <2>2, <2>3 DEF Reading
<1>13. CASE StreamError \/ \E c \in Container : ContainerGoes(c)
  BY <1>6, <1>13 DEF StreamError, StreamBreaks, ContainerGoes, LogsEnd
<1>14. CASE StartCancelled \/ StartError \/ RelayCancels \/ Cancel \/ Over \/ Quiet \/ Hangs
            \/ UNCHANGED allVars
  BY <1>7, <1>14 DEF StartCancelled, HandleCtxDone, StartError, StartFails, RelayCancels, Cancel,
                     Over, Quiet, Hangs, allVars, vars, cluster, containers
<1>15. QED
  BY <1>1, <1>10, <1>11, <1>12, <1>13, <1>14 DEF ReadinessNext

-----------------------------------------------------------------------------
(***************************************************************************)
(* The theorem.                                                            *)
(***************************************************************************)

\* A Pod that Start has seen before its end is called succeeded only when the logs of all
\* its containers are over: handleContainersState starts them and ContainerDone, and
\* nothing else, takes a container off those that are tracked.
THEOREM LogsEndFirst == ReadinessSpec => LogsEndBeforeSuccess
<1>1. LogsInv /\ [ReadinessNext]_allVars =>
        [t.out = <<>> /\ Tells(t', "Succeeded") /\ t.State # "Initial" =>
           \A c \in Container : goroutines'[c] = "over"]_allVars
  BY StepInv DEF LogsStep
<1>2. LogsInv /\ [ReadinessNext]_allVars => LogsInv'
  BY StepInv
<1>3. QED
  BY InitInv, <1>1, <1>2, PTL DEF ReadinessSpec, LogsEndBeforeSuccess
=============================================================================
