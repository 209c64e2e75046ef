--------------------------- MODULE LastWillProofs ---------------------------
(***************************************************************************)
(* Theorems about LastWill for any number of listeners, clients and        *)
(* connections.                                                            *)
(***************************************************************************)
EXTENDS LastWill, FiniteSetTheorems, TLAPS

(* A Connect event is of a task whose listener waits for the answer, and     *)
(* there is one for each.                                                    *)
IsConnect(i) == i \in 1 .. Len(events) /\ events[i].type = "Connect"

EventsSound ==
  /\ \A i \in 1 .. Len(events) : IsConnect(i) => phase[events[i].task] = "connecting"
  /\ \A i, j \in 1 .. Len(events) :
       IsConnect(i) /\ IsConnect(j) /\ events[i].task = events[j].task => i = j

FreeSound == \A t \in Tasks : phase[t] = "free" => connect[t] = None /\ will_rx[t] = None

IInv == TypeOK /\ EventsSound /\ FreeSound /\ HandlersSound

-----------------------------------------------------------------------------
(* A CONNECT packet names a client, a listener and two flags. *)
LEMMA ConnectFields ==
  ASSUME NEW p \in Connects
  PROVE  p.client \in Clients /\ p.listener \in Listeners
<1> QED BY LastWillAssumption

(* The events of each kind. *)
LEMMA EventTypes ==
  /\ \A t \in Tasks : /\ [type |-> "Connect", task |-> t] \in Events
                      /\ [type |-> "Disconnect", task |-> t] \in Events
                      /\ [type |-> "DeviceData", task |-> t] \in Events
  /\ \A c \in Clients : [type |-> "PublishWill", client |-> c] \in Events
<1> QED BY DEF Events

(* The event at the head of the channel, and what is left behind it. *)
LEMMA HeadEvent ==
  ASSUME events \in Seq(Events), events # <<>>
  PROVE  /\ Head(events) \in Events /\ Head(events) = events[1] /\ 1 \in 1 .. Len(events)
         /\ Tail(events) \in Seq(Events) /\ Len(Tail(events)) = Len(events) - 1
         /\ \A i \in 1 .. Len(Tail(events)) :
              Tail(events)[i] = events[i + 1] /\ i + 1 \in 1 .. Len(events)
<1> QED OBVIOUS

(* An event added to the channel. *)
LEMMA AppendEvent ==
  ASSUME events \in Seq(Events), NEW e \in Events
  PROVE  /\ Append(events, e) \in Seq(Events)
         /\ Len(Append(events, e)) = Len(events) + 1 /\ Len(events) \in Nat
         /\ Append(events, e)[Len(events) + 1] = e
         /\ \A i \in 1 .. Len(events) : Append(events, e)[i] = events[i]
<1> QED OBVIOUS

-----------------------------------------------------------------------------
(* The type invariant. *)

LEMMA TypeInit == Init => TypeOK
<1> SUFFICES ASSUME Init PROVE TypeOK
  OBVIOUS
<1>1. IsFiniteSet({}) /\ Cardinality({}) = 0
  BY FS_EmptySet
<1>2. phase \in [Tasks -> Phases]
  BY DEF Init, Phases
<1> QED BY <1>1, <1>2, LastWillAssumption DEF Init, TypeOK

LEMMA TypeNext == IInv /\ [Next]_vars => TypeOK'
<1> SUFFICES ASSUME IInv, [Next]_vars PROVE TypeOK'
  OBVIOUS
<1> USE DEF IInv
<1>1. ASSUME NEW t \in Tasks, NEW p \in Connects, Decline(t, p) PROVE TypeOK'
  BY <1>1 DEF Decline, TypeOK, Phases, router
<1>2. ASSUME NEW t \in Tasks, NEW p \in Connects, Accept(t, p) PROVE TypeOK'
  <2>1. p.client \in Clients /\ p.listener \in Listeners /\ p # None
    BY ConnectFields, LastWillAssumption
  <2>2. phase' \in [Tasks -> Phases]
    BY <1>2 DEF Accept, TypeOK, Phases
  <2>3. connect' = [connect EXCEPT ![t] = p]
    BY <1>2 DEF Accept
  <2>4. connect' \in [Tasks -> Connects \cup {None}]
    BY <2>3 DEF TypeOK
  <2>5. /\ \A u \in Tasks : phase'[u] \notin {"free", "done"} => connect'[u] # None
        /\ \A u \in (connections \cup failed)' : connect'[u] # None
    BY <1>2, <2>1, <2>3 DEF Accept, TypeOK, router
  <2>6. handlers' \in [Listeners -> [Clients -> Tasks \cup {None}]]
    BY <1>2, <2>1 DEF Accept, TypeOK
  <2>7. will_rx' \in [Tasks -> {None, "Fire", "Cancel"}]
    BY <1>2, <2>1 DEF Accept, TypeOK, Verdict
  <2>8. events' \in Seq(Events)
    <3>1. events' = Append(events, [type |-> "Connect", task |-> t]) /\ events \in Seq(Events)
      BY <1>2 DEF Accept, TypeOK
    <3> QED BY <3>1, AppendEvent, EventTypes
  <2> QED BY <1>2, <2>2, <2>4, <2>5, <2>6, <2>7, <2>8 DEF Accept, TypeOK, router
<1>3. ASSUME NEW t \in Tasks, NEW p \in Connects, Panic(t, p) PROVE TypeOK'
  <2>1. p.client \in Clients /\ p.listener \in Listeners
    BY ConnectFields
  <2>2. handlers' \in [Listeners -> [Clients -> Tasks \cup {None}]]
    BY <1>3, <2>1 DEF Panic, TypeOK
  <2>3. phase' \in [Tasks -> Phases] /\ poisoned' \subseteq Listeners
    BY <1>3, <2>1 DEF Panic, TypeOK, Phases
  <2> QED BY <1>3, <2>2, <2>3 DEF Panic, TypeOK, router
<1>4. ASSUME NEW t \in Tasks, Established(t) PROVE TypeOK'
  BY <1>4 DEF Established, TypeOK, Phases, router
<1>5. ASSUME NEW t \in Tasks, NewFails(t) PROVE TypeOK'
  BY <1>5 DEF NewFails, TypeOK, Phases, router
<1>6. ASSUME NEW t \in Tasks, SayGoodbye(t) PROVE TypeOK'
  <2>1. /\ events' = Append(events, [type |-> "DeviceData", task |-> t])
        /\ events \in Seq(Events)
    BY <1>6 DEF SayGoodbye, TypeOK
  <2>2. events' \in Seq(Events)
    BY <2>1, AppendEvent, EventTypes
  <2> QED BY <1>6, <2>2 DEF SayGoodbye, TypeOK, Phases, router
<1>7. ASSUME NEW t \in Tasks, NetworkEnds(t) PROVE TypeOK'
  <2>1. /\ events' = Append(events, [type |-> "Disconnect", task |-> t])
        /\ events \in Seq(Events)
    BY <1>7 DEF NetworkEnds, TypeOK
  <2>2. events' \in Seq(Events)
    BY <2>1, AppendEvent, EventTypes
  <2> QED BY <1>7, <2>2 DEF NetworkEnds, Running, TypeOK, Phases, router
<1>8. ASSUME NEW t \in Tasks, RouterDrops(t) PROVE TypeOK'
  BY <1>8 DEF RouterDrops, Running, TypeOK, Phases, router
<1>9. ASSUME NEW t \in Tasks, Told(t) PROVE TypeOK'
  <2>1. Client(t) \in Clients
    BY <1>9, ConnectFields DEF Told, TypeOK, Client
  <2> QED BY <1>9, <2>1, EventTypes DEF Told, TypeOK, Phases, router
<1>10. ASSUME NEW t \in Tasks, DelayPassed(t) PROVE TypeOK'
  <2>1. Client(t) \in Clients /\ Listener(t) \in Listeners
    BY <1>10, ConnectFields DEF DelayPassed, TypeOK, Client, Listener
  <2>2. handlers' \in [Listeners -> [Clients -> Tasks \cup {None}]]
    <3>1. handlers \in [Listeners -> [Clients -> Tasks \cup {None}]]
      BY DEF TypeOK
    <3>2. \/ handlers' = handlers
          \/ handlers' = [handlers EXCEPT ![Listener(t)][Client(t)] = None]
      BY <1>10 DEF DelayPassed
    <3> QED BY <2>1, <3>1, <3>2
  <2>3. events' \in Seq(Events)
    <3> DEFINE e == [type |-> "PublishWill", client |-> Client(t)]
    <3>1. events' \in {events, Append(events, e)} /\ events \in Seq(Events)
      BY <1>10 DEF DelayPassed, TypeOK
    <3>2. e \in Events
      BY <2>1, EventTypes
    <3> HIDE DEF e
    <3> QED BY <3>1, <3>2, AppendEvent
  <2>4. phase' \in [Tasks -> Phases]
    BY <1>10 DEF DelayPassed, TypeOK, Phases
  <2>5. \A u \in Tasks : phase'[u] \notin {"free", "done"} => connect[u] # None
    BY <1>10 DEF DelayPassed, TypeOK
  <2> QED BY <1>10, <2>2, <2>3, <2>4, <2>5 DEF DelayPassed, TypeOK, router
<1>11. CASE HandleConnect
  <2> DEFINE t == Head(events).task
             others == {u \in connections : Client(u) # Client(t)}
  <2>0. \/ connections' = others \cup {t} /\ ~Full(others)
        \/ connections' = others
        \/ connections' = connections
    BY <1>11 DEF HandleConnect
  <2>1. t \in Tasks /\ connect[t] # None /\ Client(t) \in Clients
    <3>1. t \in Tasks /\ phase[t] = "connecting"
      BY <1>11, HeadEvent DEF HandleConnect, Happens, TypeOK, Events, EventsSound, IsConnect
    <3> QED BY <3>1, ConnectFields DEF TypeOK, Client
  <2>2. IsFiniteSet(others) /\ Cardinality(others) <= Cardinality(connections)
    BY FS_Subset DEF TypeOK
  <2>3. /\ IsFiniteSet(others \cup {t})
        /\ Cardinality(others \cup {t}) \in {Cardinality(others), Cardinality(others) + 1}
    BY <2>2, FS_AddElement
  <2>4. /\ Cardinality(others) \in Nat /\ Cardinality(connections) \in Nat
    BY <2>2, FS_CardinalityType DEF TypeOK
  <2>5. connections' \in {connections, others, others \cup {t}}
    BY <2>0
  <2>6. IsFiniteSet(connections') /\ Cardinality(connections') <= MaxConnections
    <3>1. IsFiniteSet(connections) /\ Cardinality(connections) <= MaxConnections
          /\ MaxConnections \in Nat
      BY LastWillAssumption DEF TypeOK
    <3>2. CASE connections' = others \cup {t} /\ ~Full(others)
      <4>1. Cardinality(others) + 1 <= MaxConnections
        BY <3>1, <3>2, <2>4 DEF Full
      <4>2. Cardinality(connections') <= MaxConnections
        <5> HIDE DEF others
        <5> QED BY <4>1, <3>1, <3>2, <2>3, <2>4
      <4> QED BY <4>2, <3>2, <2>3
    <3>3. CASE connections' = others
      <4> HIDE DEF others
      <4> QED BY <3>1, <3>3, <2>2, <2>4
    <3>4. CASE connections' = connections
      BY <3>1, <3>4
    <3> QED BY <2>0, <3>2, <3>3, <3>4
  <2>7. connections' \subseteq Tasks /\ \A u \in connections' : connect[u] # None
    BY <2>1, <2>5 DEF TypeOK
  <2>8. last_wills' \in [Clients -> Tasks \cup {None}]
    BY <1>11, <2>1 DEF HandleConnect, TypeOK
  <2>9. phase' \in [Tasks -> Phases] /\ failed' \subseteq Tasks
    BY <1>11, <2>1 DEF HandleConnect, TypeOK, Phases
  <2>10. /\ \A u \in failed' : connect[u] # None
         /\ \A u \in Tasks : phase'[u] \notin {"free", "done"} => connect[u] # None
    BY <1>11, <2>1 DEF HandleConnect, TypeOK
  <2>11. events' \in Seq(Events)
    BY <1>11, HeadEvent DEF HandleConnect, Happens, TypeOK
  <2> QED BY <1>11, <2>6, <2>7, <2>8, <2>9, <2>10, <2>11 DEF HandleConnect, TypeOK, router
<1>12. CASE HandleDisconnect
  <2>1. IsFiniteSet(connections') /\ Cardinality(connections') <= Cardinality(connections)
    BY <1>12, FS_Subset DEF HandleDisconnect, TypeOK
  <2>2. Cardinality(connections') \in Nat /\ Cardinality(connections) \in Nat
    BY <2>1, FS_CardinalityType DEF TypeOK
  <2>3. events' \in Seq(Events)
    BY <1>12, HeadEvent DEF HandleDisconnect, Happens, TypeOK
  <2>4. IsFiniteSet(connections') /\ Cardinality(connections') <= MaxConnections
    BY <2>1, <2>2, LastWillAssumption DEF TypeOK
  <2>5. connections' \subseteq connections
    BY <1>12 DEF HandleDisconnect
  <2> QED BY <1>12, <2>3, <2>4, <2>5 DEF HandleDisconnect, TypeOK
<1>13. CASE HandleGoodbye
  <2>1. IsFiniteSet(connections') /\ Cardinality(connections') <= Cardinality(connections)
    BY <1>13, FS_Subset DEF HandleGoodbye, TypeOK
  <2>2. Cardinality(connections') \in Nat /\ Cardinality(connections) \in Nat
    BY <2>1, FS_CardinalityType DEF TypeOK
  <2>3. events' \in Seq(Events)
    BY <1>13, HeadEvent DEF HandleGoodbye, Happens, TypeOK
  <2>4. last_wills' \in [Clients -> Tasks \cup {None}]
    BY <1>13 DEF HandleGoodbye, TypeOK
  <2>5. IsFiniteSet(connections') /\ Cardinality(connections') <= MaxConnections
    BY <2>1, <2>2, LastWillAssumption DEF TypeOK
  <2>6. connections' \subseteq connections
    BY <1>13 DEF HandleGoodbye
  <2> QED BY <1>13, <2>3, <2>4, <2>5, <2>6 DEF HandleGoodbye, TypeOK
<1>14. CASE HandlePublishWill
  <2>1. Head(events).client \in Clients
    BY <1>14, HeadEvent DEF HandlePublishWill, Happens, TypeOK, Events
  <2>2. events' \in Seq(Events)
    BY <1>14, HeadEvent DEF HandlePublishWill, Happens, TypeOK
  <2>3. last_wills' \in [Clients -> Tasks \cup {None}] /\ published' \subseteq Tasks
    BY <1>14, <2>1 DEF HandlePublishWill, TypeOK
  <2> QED BY <1>14, <2>2, <2>3 DEF HandlePublishWill, TypeOK, router
<1>15. CASE UNCHANGED vars
  BY <1>15 DEF vars, router, TypeOK
<1> QED BY <1>1, <1>2, <1>3, <1>4, <1>5, <1>6, <1>7, <1>8, <1>9, <1>10, <1>11, <1>12, <1>13,
           <1>14, <1>15 DEF Next, Router
-----------------------------------------------------------------------------
(* The Connect events of the channel. *)

(* An event that is not a Connect and a step that leaves every connecting    *)
(* task where it is keep EventsSound.                                        *)
LEMMA OtherEvent ==
  ASSUME TypeOK, EventsSound, NEW e \in Events, e.type # "Connect",
         events' \in {events, Append(events, e)},
         \A u \in Tasks : phase[u] = "connecting" => phase'[u] = "connecting"
  PROVE  EventsSound'
<1>1. /\ Len(events) \in Nat /\ Len(events') \in {Len(events), Len(events) + 1}
      /\ \A i \in 1 .. Len(events) : events'[i] = events[i]
      /\ Len(events') = Len(events) + 1 => events'[Len(events) + 1].type # "Connect"
  BY AppendEvent DEF TypeOK
<1>2. \A i \in 1 .. Len(events') : IsConnect(i)' => i \in 1 .. Len(events) /\ IsConnect(i)
  BY <1>1 DEF IsConnect
<1>3. \A i \in 1 .. Len(events) : IsConnect(i) => events[i].task \in Tasks
  BY DEF IsConnect, TypeOK, Events
<1> QED BY <1>1, <1>2, <1>3 DEF EventsSound, IsConnect

(* The router takes the event at the head of the channel; only the task of a *)
(* Connect may leave "connecting".                                           *)
LEMMA TakenEvent ==
  ASSUME TypeOK, EventsSound, events # <<>>, events' = Tail(events),
         \A u \in Tasks : phase'[u] = phase[u] 
                            \/ (events[1].type = "Connect" /\ u = events[1].task)
  PROVE  EventsSound'
<1>1. /\ Len(events) \in Nat /\ Len(events') = Len(events) - 1 /\ 1 \in 1 .. Len(events)
      /\ \A i \in 1 .. Len(events') : events'[i] = events[i + 1] /\ i + 1 \in 1 .. Len(events)
  BY HeadEvent DEF TypeOK
<1>2. \A i \in 1 .. Len(events') : IsConnect(i)' => IsConnect(i + 1)
  BY <1>1 DEF IsConnect
<1>3. \A i \in 1 .. Len(events) : IsConnect(i) => events[i].task \in Tasks
  BY DEF IsConnect, TypeOK, Events
<1>4. \A i \in 1 .. Len(events') : IsConnect(i)' => phase'[events'[i].task] = "connecting"
  <2> SUFFICES ASSUME NEW i \in 1 .. Len(events'), IsConnect(i)'
               PROVE  phase'[events'[i].task] = "connecting"
    OBVIOUS
  <2>1. IsConnect(i + 1) /\ events'[i] = events[i + 1] /\ i + 1 \in 1 .. Len(events) /\ i + 1 # 1
    BY <1>1, <1>2
  <2>2. phase[events[i + 1].task] = "connecting" /\ events[i + 1].task \in Tasks
    BY <2>1, <1>3 DEF EventsSound
  <2>3. ~(events[1].type = "Connect" /\ events[i + 1].task = events[1].task)
    BY <2>1, <1>1 DEF EventsSound, IsConnect
  <2> QED BY <2>1, <2>2, <2>3
<1>5. \A i, j \in 1 .. Len(events') :
        IsConnect(i)' /\ IsConnect(j)' /\ events'[i].task = events'[j].task => i = j
  <2> SUFFICES ASSUME NEW i \in 1 .. Len(events'), NEW j \in 1 .. Len(events'), IsConnect(i)',
                      IsConnect(j)', events'[i].task = events'[j].task
               PROVE  i = j
    OBVIOUS
  <2>1. i + 1 = j + 1
    BY <1>1, <1>2 DEF EventsSound
  <2> QED BY <2>1
<1> QED BY <1>4, <1>5 DEF EventsSound

(* Every step keeps what EventsSound says of the channel. *)
LEMMA EventsNext == IInv /\ [Next]_vars => EventsSound'
<1> SUFFICES ASSUME IInv, [Next]_vars PROVE EventsSound'
  OBVIOUS
<1> USE DEF IInv
<1>0. ASSUME events' = events,
             \A u \in Tasks : phase[u] = "connecting" => phase'[u] = "connecting"
      PROVE  EventsSound'
  BY <1>0 DEF EventsSound, IsConnect, TypeOK, Events
<1>1. ASSUME NEW t \in Tasks, NEW p \in Connects, Decline(t, p) \/ Panic(t, p) PROVE EventsSound'
  BY <1>0, <1>1 DEF Decline, Panic, Comes, TypeOK
<1>2. ASSUME NEW t \in Tasks, NEW p \in Connects, Accept(t, p) PROVE EventsSound'
  <2> DEFINE e == [type |-> "Connect", task |-> t]
  <2>1. /\ Len(events) \in Nat /\ Len(events') = Len(events) + 1
        /\ events'[Len(events) + 1] = e
        /\ \A i \in 1 .. Len(events) : events'[i] = events[i]
    BY <1>2, AppendEvent, EventTypes DEF Accept, TypeOK
  <2>2. \A i \in 1 .. Len(events) : IsConnect(i) =>
          events[i].task \in Tasks /\ events[i].task # t
    BY <1>2 DEF IsConnect, TypeOK, Events, EventsSound, Accept, Comes
  <2>3. \A i \in 1 .. Len(events') : IsConnect(i)' => IsConnect(i) \/ i = Len(events) + 1
    BY <2>1 DEF IsConnect
  <2>4. \A i \in 1 .. Len(events') : IsConnect(i)' => phase'[events'[i].task] = "connecting"
    BY <1>2, <2>1, <2>2, <2>3 DEF EventsSound, IsConnect, Accept, TypeOK
  <2>5. \A i, j \in 1 .. Len(events') :
          IsConnect(i)' /\ IsConnect(j)' /\ events'[i].task = events'[j].task => i = j
    BY <2>1, <2>2, <2>3 DEF EventsSound, IsConnect
  <2> QED BY <2>4, <2>5 DEF EventsSound
<1>3. ASSUME NEW t \in Tasks, Established(t) \/ NewFails(t) \/ RouterDrops(t) PROVE EventsSound'
  BY <1>0, <1>3 DEF Established, NewFails, RouterDrops, Running, TypeOK
<1>4. ASSUME NEW t \in Tasks, SayGoodbye(t) \/ NetworkEnds(t) PROVE EventsSound'
  <2>1. PICK e \in Events : e.type # "Connect" /\ events' = Append(events, e)
    BY <1>4, EventTypes DEF SayGoodbye, NetworkEnds
  <2>2. \A u \in Tasks : phase[u] = "connecting" => phase'[u] = "connecting"
    BY <1>4 DEF SayGoodbye, NetworkEnds, Running, TypeOK
  <2> QED BY <2>1, <2>2, OtherEvent
<1>5. ASSUME NEW t \in Tasks, Told(t) \/ DelayPassed(t) PROVE EventsSound'
  <2> DEFINE e == [type |-> "PublishWill", client |-> Client(t)]
  <2>1. e \in Events /\ e.type # "Connect"
    BY <1>5, ConnectFields, EventTypes DEF Told, DelayPassed, TypeOK, Client
  <2>2. events' \in {events, Append(events, e)}
    BY <1>5 DEF Told, DelayPassed
  <2>3. \A u \in Tasks : phase[u] = "connecting" => phase'[u] = "connecting"
    BY <1>5 DEF Told, DelayPassed, TypeOK
  <2> HIDE DEF e
  <2> QED BY <2>1, <2>2, <2>3, OtherEvent
<1>6. CASE Router
  <2>1. events # <<>> /\ events' = Tail(events) /\ Head(events) = events[1]
    BY <1>6, HeadEvent DEF Router, HandleConnect, HandleDisconnect, HandleGoodbye,
                           HandlePublishWill, Happens, TypeOK
  <2>2. \A u \in Tasks : phase'[u] = phase[u]
                           \/ (events[1].type = "Connect" /\ u = events[1].task)
    BY <1>6, <2>1 DEF Router, HandleConnect, HandleDisconnect, HandleGoodbye,
                      HandlePublishWill, Happens, TypeOK
  <2> QED BY <2>1, <2>2, TakenEvent
<1>7. CASE UNCHANGED vars
  BY <1>0, <1>7 DEF vars
<1> QED BY <1>1, <1>2, <1>3, <1>4, <1>5, <1>6, <1>7 DEF Next

-----------------------------------------------------------------------------
(* The map of handlers and the channels. *)

(* A connection that has not come yet has neither a packet nor a message. *)
LEMMA FreeNext == IInv /\ [Next]_vars => FreeSound'
<1> SUFFICES ASSUME IInv, [Next]_vars PROVE FreeSound'
  OBVIOUS
<1> USE DEF IInv
<1>1. ASSUME NEW t \in Tasks, NEW p \in Connects, Accept(t, p) PROVE FreeSound'
  <2> DEFINE earlier == handlers[p.listener][p.client]
  <2>1. p.listener \in Listeners /\ p.client \in Clients
    BY ConnectFields
  <2>2. /\ \A u \in Tasks : phase'[u] = "free" => phase[u] = "free" /\ u # t
        /\ \A u \in Tasks : u # t => connect'[u] = connect[u]
    BY <1>1 DEF Accept, TypeOK
  <2>3. earlier # None => connect[earlier] # None
    BY <2>1 DEF HandlersSound, TypeOK
  <2>4. \A u \in Tasks : will_rx'[u] = will_rx[u] \/ (u = earlier /\ earlier # None)
    BY <1>1 DEF Accept, TypeOK
  <2> HIDE DEF earlier
  <2> QED BY <2>2, <2>3, <2>4 DEF FreeSound
<1>2. CASE connect' = connect /\ will_rx' = will_rx
           /\ \A u \in Tasks : phase'[u] = "free" => phase[u] = "free"
  BY <1>2 DEF FreeSound
<1>3. ASSUME NEW t \in Tasks,
             \/ \E p \in Connects : Panic(t, p) \/ Decline(t, p)
             \/ Established(t) \/ NewFails(t) \/ SayGoodbye(t) \/ NetworkEnds(t)
             \/ RouterDrops(t) \/ Told(t) \/ DelayPassed(t)
      PROVE  FreeSound'
  BY <1>2, <1>3 DEF Panic, Decline, Established, NewFails, SayGoodbye, NetworkEnds, RouterDrops,
                    Told, DelayPassed, TypeOK
<1>4. CASE Router
  BY <1>2, <1>4 DEF Router, HandleConnect, HandleDisconnect, HandleGoodbye, HandlePublishWill,
                    TypeOK
<1>5. CASE UNCHANGED vars
  BY <1>2, <1>5 DEF vars
<1> QED BY <1>1, <1>3, <1>4, <1>5 DEF Next

(* A step that leaves the map and the channels alone, and ends no task whose *)
(* channel is in the map unless it failed or the lock is poisoned.           *)
LEMMA QuietStep ==
  ASSUME TypeOK, HandlersSound,
         UNCHANGED <<handlers, will_rx, poisoned, connect>>, failed \subseteq failed',
         \A u \in Tasks :
           /\ Receiving(u)' => Receiving(u)
           /\ Receiving(u) /\ will_rx[u] = None =>
                Receiving(u)' \/ u \in failed' \/ Listener(u) \in poisoned
  PROVE  HandlersSound'
<1>2. \A u \in Tasks : Listener(u)' = Listener(u) /\ Client(u)' = Client(u)
  BY DEF Listener, Client
<1>3. ASSUME NEW l \in Listeners, NEW c \in Clients, NEW t \in Tasks, handlers'[l][c] = t
      PROVE  /\ Receiving(t)' \/ t \in failed' \/ l \in poisoned'
             /\ will_rx'[t] = None
             /\ connect'[t] # None /\ Listener(t)' = l /\ Client(t)' = c
  BY <1>2, <1>3 DEF HandlersSound
<1>4. \A t \in Tasks : Receiving(t)' /\ will_rx'[t] = None =>
        handlers'[Listener(t)'][Client(t)'] = t
  BY <1>2 DEF HandlersSound
<1>5. \A l \in poisoned' : \E t \in failed' : Listener(t)' = l
  BY <1>2 DEF HandlersSound, TypeOK
<1> QED BY <1>3, <1>4, <1>5 DEF HandlersSound

(* The earlier task of the client gets its message and gives up its place in *)
(* the map.                                                                  *)
LEMMA AcceptHandlers ==
  ASSUME IInv, NEW t \in Tasks, NEW p \in Connects, Accept(t, p)
  PROVE  HandlersSound'
<1> DEFINE lp == p.listener
           cp == p.client
           earlier == handlers[lp][cp]
<1> USE DEF IInv
<1>1. lp \in Listeners /\ cp \in Clients /\ p # None /\ phase[t] = "free"
  BY ConnectFields, LastWillAssumption DEF Accept, Comes
<1>2. /\ connect[t] = None /\ will_rx[t] = None
  BY <1>1 DEF FreeSound
<1>3. /\ Listener(t)' = lp /\ Client(t)' = cp /\ connect'[t] # None
      /\ \A u \in Tasks : u # t => /\ Listener(u)' = Listener(u) /\ Client(u)' = Client(u)
                                   /\ connect'[u] = connect[u]
  BY <1>1 DEF Accept, Listener, Client, TypeOK
<1>4. /\ Receiving(t)'
      /\ \A u \in Tasks : u # t => (Receiving(u)' <=> Receiving(u))
  BY DEF Accept, Receiving, TypeOK
<1>5. \A l \in Listeners, c \in Clients :
        handlers'[l][c] = IF l = lp /\ c = cp THEN t ELSE handlers[l][c]
  BY <1>1 DEF Accept, TypeOK
<1>6. /\ earlier # None => earlier \in Tasks /\ earlier # t
      /\ \A l \in Listeners, c \in Clients : handlers[l][c] # None =>
           handlers[l][c] \in Tasks /\ handlers[l][c] # t
  <2>1. \A l \in Listeners, c \in Clients : handlers[l][c] # None => handlers[l][c] \in Tasks
    BY DEF TypeOK
  <2>2. \A l \in Listeners, c \in Clients : handlers[l][c] # t
    BY <1>2 DEF HandlersSound
  <2> QED BY <2>1, <2>2, <1>1
<1>7. \A u \in Tasks : IF earlier # None /\ u = earlier THEN will_rx'[u] # None
                       ELSE will_rx'[u] = will_rx[u]
  <2>1. Verdict(p.clean) \in {"Fire", "Cancel"}
    BY DEF Verdict
  <2>2. "Fire" # None /\ "Cancel" # None
    BY LastWillAssumption
  <2>3. will_rx' = IF earlier = None THEN will_rx
                   ELSE [will_rx EXCEPT ![earlier] = Verdict(p.clean)]
    BY DEF Accept
  <2> HIDE DEF earlier
  <2> QED BY <2>1, <2>2, <2>3 DEF TypeOK
<1>8. poisoned' = poisoned /\ failed' = failed
  BY DEF Accept
<1> HIDE DEF lp, cp
<1>9. ASSUME NEW l \in Listeners, NEW c \in Clients, NEW u \in Tasks, handlers'[l][c] = u
      PROVE  /\ Receiving(u)' \/ u \in failed' \/ l \in poisoned'
             /\ will_rx'[u] = None
             /\ connect'[u] # None /\ Listener(u)' = l /\ Client(u)' = c
  <2>1. CASE l = lp /\ c = cp
    <3>1. u = t
      BY <2>1, <1>5, <1>9
    <3> HIDE DEF earlier
    <3> QED BY <2>1, <3>1, <1>2, <1>3, <1>4, <1>6, <1>7
  <2>2. CASE ~(l = lp /\ c = cp)
    <3>1. handlers[l][c] = u /\ u # t
      BY <2>2, <1>5, <1>6, <1>9, LastWillAssumption
    <3>2. /\ Receiving(u) \/ u \in failed \/ l \in poisoned
          /\ will_rx[u] = None /\ connect[u] # None /\ Listener(u) = l /\ Client(u) = c
      BY <3>1 DEF HandlersSound
    <3>3. u # earlier \/ earlier = None
      BY <2>2, <3>2, <1>1 DEF HandlersSound, lp, cp
    <3> HIDE DEF earlier
    <3> QED BY <3>1, <3>2, <3>3, <1>3, <1>4, <1>7, <1>8
  <2> QED BY <2>1, <2>2
<1>10. ASSUME NEW u \in Tasks, Receiving(u)', will_rx'[u] = None
       PROVE  handlers'[Listener(u)'][Client(u)'] = u
  <2>1. CASE u = t
    BY <2>1, <1>1, <1>3, <1>5 DEF lp, cp
  <2>2. CASE u # t
    <3>1. Receiving(u) /\ will_rx[u] = None /\ ~(earlier # None /\ u = earlier)
      BY <2>2, <1>4, <1>7, <1>10
    <3>2. connect[u] # None
      BY <3>1 DEF Receiving, TypeOK
    <3>3. Listener(u) \in Listeners /\ Client(u) \in Clients
      BY <3>2, ConnectFields DEF TypeOK, Listener, Client
    <3>4. handlers[Listener(u)][Client(u)] = u /\ u # None
      BY <3>1, LastWillAssumption DEF HandlersSound
    <3>5. ~(Listener(u) = lp /\ Client(u) = cp)
      BY <3>1, <3>4
    <3> QED BY <2>2, <3>3, <3>4, <3>5, <1>3, <1>5
  <2> QED BY <2>1, <2>2
<1>11. ASSUME NEW l \in poisoned' PROVE \E u \in failed' : Listener(u)' = l
  <2>1. PICK u \in failed : Listener(u) = l
    BY <1>8, <1>11 DEF HandlersSound
  <2>2. u \in Tasks /\ u # t
    BY <1>2 DEF TypeOK
  <2> QED BY <2>1, <2>2, <1>3, <1>8
<1> QED BY <1>9, <1>10, <1>11 DEF HandlersSound

(* An entry leaves the map: its task has ended, or the lock is poisoned over *)
(* it.                                                                       *)
LEMMA EntryLeaves ==
  ASSUME TypeOK, HandlersSound, NEW l0 \in Listeners, NEW c0 \in Clients, NEW h \in Tasks,
         handlers[l0][c0] = h, handlers' = [handlers EXCEPT ![l0][c0] = None],
         UNCHANGED <<will_rx, connect, failed>>,
         poisoned \subseteq poisoned', poisoned' \subseteq poisoned \cup {l0},
         poisoned' # poisoned => h \in failed, ~Receiving(h)',
         \A u \in Tasks : u # h => (Receiving(u)' <=> Receiving(u))
  PROVE  HandlersSound'
<1>1. \A l \in Listeners, c \in Clients :
        handlers'[l][c] = IF l = l0 /\ c = c0 THEN None ELSE handlers[l][c]
  BY DEF TypeOK
<1>2. \A u \in Tasks : Listener(u)' = Listener(u) /\ Client(u)' = Client(u)
  BY DEF Listener, Client
<1>3. Listener(h) = l0 /\ Client(h) = c0
  BY DEF HandlersSound, TypeOK
<1>4. ASSUME NEW l \in Listeners, NEW c \in Clients, NEW u \in Tasks, handlers'[l][c] = u
      PROVE  /\ Receiving(u)' \/ u \in failed' \/ l \in poisoned'
             /\ will_rx'[u] = None
             /\ connect'[u] # None /\ Listener(u)' = l /\ Client(u)' = c
  <2>1. handlers[l][c] = u /\ ~(l = l0 /\ c = c0)
    BY <1>1, <1>4, LastWillAssumption
  <2>2. /\ Receiving(u) \/ u \in failed \/ l \in poisoned
        /\ will_rx[u] = None /\ connect[u] # None /\ Listener(u) = l /\ Client(u) = c
    BY <2>1 DEF HandlersSound
  <2>3. u # h
    BY <2>1, <2>2, <1>3
  <2> QED BY <2>1, <2>2, <2>3, <1>2
<1>5. ASSUME NEW u \in Tasks, Receiving(u)', will_rx'[u] = None
      PROVE  handlers'[Listener(u)'][Client(u)'] = u
  <2>1. u # h /\ Receiving(u) /\ will_rx[u] = None
    BY <1>5
  <2>2. connect[u] # None
    BY <2>1 DEF Receiving, TypeOK
  <2>3. Listener(u) \in Listeners /\ Client(u) \in Clients
    BY <2>2, ConnectFields DEF TypeOK, Listener, Client
  <2>4. handlers[Listener(u)][Client(u)] = u
    BY <2>1 DEF HandlersSound
  <2> QED BY <2>1, <2>3, <2>4, <1>1, <1>2
<1>6. ASSUME NEW l \in poisoned' PROVE \E u \in failed' : Listener(u)' = l
  <2>1. CASE l \in poisoned
    BY <2>1, <1>2 DEF HandlersSound, TypeOK
  <2>2. CASE l \notin poisoned
    BY <2>2, <1>2, <1>3, <1>6
  <2> QED BY <2>1, <2>2
<1> QED BY <1>4, <1>5, <1>6 DEF HandlersSound

(* Every step keeps the map and the channels in agreement. *)
LEMMA HandlersNext == IInv /\ [Next]_vars => HandlersSound'
<1> SUFFICES ASSUME IInv, [Next]_vars PROVE HandlersSound'
  OBVIOUS
<1> USE DEF IInv
<1>1. ASSUME NEW t \in Tasks, NEW p \in Connects, Accept(t, p) PROVE HandlersSound'
  BY <1>1, AcceptHandlers
<1>2. ASSUME NEW t \in Tasks, NEW p \in Connects, Panic(t, p) PROVE HandlersSound'
  <2> DEFINE lp == p.listener
             cp == p.client
             h  == handlers[lp][cp]
  <2>1. lp \in Listeners /\ cp \in Clients
    BY ConnectFields
  <2>2. h \in Tasks /\ h # None /\ ~Receiving(h) /\ lp \notin poisoned
    BY <1>2, <2>1 DEF Panic, TypeOK
  <2>3. /\ handlers' = [handlers EXCEPT ![lp][cp] = None]
        /\ poisoned' = poisoned \cup {lp}
        /\ UNCHANGED <<will_rx, connect, failed>>
    BY <1>2 DEF Panic
  <2>4. \A u \in Tasks : Receiving(u)' <=> Receiving(u)
    BY <1>2 DEF Panic, Comes, Receiving, TypeOK
  <2>5. h \in failed
    BY <2>1, <2>2 DEF HandlersSound
  <2> HIDE DEF lp, cp
  <2>6. ~Receiving(handlers[lp][cp]) /\ \A u \in Tasks : u = handlers[lp][cp] => ~Receiving(u)'
    BY <2>2, <2>4
  <2> QED BY <2>1, <2>2, <2>3, <2>4, <2>5, <2>6, EntryLeaves
<1>3. ASSUME NEW t \in Tasks,
             \/ \E p \in Connects : Decline(t, p)
             \/ Established(t) \/ NewFails(t) \/ SayGoodbye(t) \/ NetworkEnds(t)
             \/ RouterDrops(t)
      PROVE  HandlersSound'
  <2>1. /\ UNCHANGED <<handlers, will_rx, poisoned, connect>>
        /\ failed \subseteq failed'
    BY <1>3 DEF Decline, Established, NewFails, SayGoodbye, NetworkEnds, RouterDrops
  <2>2. \A u \in Tasks : /\ Receiving(u)' => Receiving(u)
                         /\ Receiving(u) => Receiving(u)' \/ u \in failed'
    BY <1>3 DEF Decline, Comes, Established, NewFails, SayGoodbye, NetworkEnds, RouterDrops,
                Running, Receiving, TypeOK
  <2> QED BY <2>1, <2>2, QuietStep
<1>4. ASSUME NEW t \in Tasks, Told(t) PROVE HandlersSound'
  <2>1. UNCHANGED <<handlers, will_rx, poisoned, connect, failed>>
    BY <1>4 DEF Told
  <2>2. \A u \in Tasks : /\ Receiving(u)' => Receiving(u)
                         /\ Receiving(u) /\ will_rx[u] = None => Receiving(u)'
    BY <1>4 DEF Told, Receiving, TypeOK
  <2> QED BY <2>1, <2>2, QuietStep
<1>5. ASSUME NEW t \in Tasks, DelayPassed(t) PROVE HandlersSound'
  <2>1. /\ UNCHANGED <<will_rx, poisoned, connect, failed>>
        /\ phase[t] = "waiting" /\ will_rx[t] = None /\ Receiving(t)
    BY <1>5 DEF DelayPassed, Receiving
  <2>2. /\ ~Receiving(t)'
        /\ \A u \in Tasks : u # t => (Receiving(u)' <=> Receiving(u))
    BY <1>5 DEF DelayPassed, Receiving, TypeOK
  <2>3. CASE Listener(t) \in poisoned
    <3>1. handlers' = handlers
      BY <1>5, <2>3 DEF DelayPassed
    <3>2. \A u \in Tasks : /\ Receiving(u)' => Receiving(u)
                           /\ Receiving(u) => Receiving(u)' \/ Listener(u) \in poisoned
      BY <2>1, <2>2, <2>3
    <3> QED BY <2>1, <3>1, <3>2, QuietStep
  <2>4. CASE Listener(t) \notin poisoned
    <3>1. Listener(t) \in Listeners /\ Client(t) \in Clients
      BY <2>1, ConnectFields DEF TypeOK, Listener, Client
    <3>2. handlers[Listener(t)][Client(t)] = t
      BY <2>1 DEF HandlersSound
    <3>3. handlers' = [handlers EXCEPT ![Listener(t)][Client(t)] = None]
      BY <1>5, <2>4 DEF DelayPassed
    <3> QED BY <2>1, <2>2, <3>1, <3>2, <3>3, EntryLeaves
  <2> QED BY <2>3, <2>4
<1>6. CASE HandleConnect
  <2> DEFINE t == Head(events).task
  <2>1. phase[t] = "connecting" /\ t \in Tasks
    BY <1>6, HeadEvent DEF HandleConnect, Happens, TypeOK, Events, EventsSound, IsConnect
  <2>2. /\ UNCHANGED <<handlers, will_rx, poisoned, connect>>
        /\ \/ failed' = failed /\ phase' = [phase EXCEPT ![t] = "writing"]
           \/ failed' = failed \cup {t} /\ phase' = [phase EXCEPT ![t] = "done"]
    BY <1>6 DEF HandleConnect
  <2> HIDE DEF t
  <2>3. \A u \in Tasks : /\ Receiving(u)' => Receiving(u)
                         /\ Receiving(u) => Receiving(u)' \/ u \in failed'
    BY <2>1, <2>2 DEF Receiving, TypeOK
  <2> QED BY <2>2, <2>3, QuietStep
<1>7. CASE HandleDisconnect \/ HandleGoodbye \/ HandlePublishWill \/ UNCHANGED vars
  <2>1. UNCHANGED <<handlers, will_rx, poisoned, connect, failed, phase>>
    BY <1>7 DEF HandleDisconnect, HandleGoodbye, HandlePublishWill, vars
  <2>2. \A u \in Tasks : Receiving(u)' <=> Receiving(u)
    BY <2>1 DEF Receiving
  <2> QED BY <2>1, <2>2, QuietStep
<1> QED BY <1>1, <1>2, <1>3, <1>4, <1>5, <1>6, <1>7 DEF Next, Router

-----------------------------------------------------------------------------
(* The inductive invariant. *)

LEMMA InductiveInit == Init => IInv
<1> SUFFICES ASSUME Init PROVE IInv
  OBVIOUS
<1>1. TypeOK
  BY TypeInit
<1>2. EventsSound
  BY DEF Init, EventsSound, IsConnect
<1>3. FreeSound
  BY DEF Init, FreeSound
<1>4. HandlersSound
  BY LastWillAssumption DEF Init, HandlersSound, Receiving
<1> QED BY <1>1, <1>2, <1>3, <1>4 DEF IInv

(* IInv is inductive. *)
LEMMA Inductive == Spec => []IInv
<1>1. IInv /\ [Next]_vars => IInv'
  BY TypeNext, EventsNext, FreeNext, HandlersNext DEF IInv
<1> QED BY <1>1, InductiveInit, PTL DEF Spec
-----------------------------------------------------------------------------
(* Whose will is published.  Besides what IInv says of the maps, the invariant *)
(* follows a will from its task to the router.                               *)

(* What WillTaken allows for a connection whose will is published while the  *)
(* router still has it.                                                      *)
Excused(t) ==
  \/ connect[t].clean
  \/ \E u \in Tasks \ {t} :
       connect[u] # None /\ Client(u) = Client(t)
       /\ (Listener(u) # Listener(t) \/ connect[u].clean)

(* The i-th event connects, or ends, the connection of t. *)
Enters(i, t) == events[i].type = "Connect" /\ events[i].task = t
Ends(i, t) == events[i].type = "Disconnect" /\ events[i].task = t

(* No task is told what to do with its will while it waits for the router,   *)
(* and one told to fire it has a successor with a clean session.             *)
ToldSound ==
  /\ \A t \in Tasks : phase[t] = "connecting" => will_rx[t] = None
  /\ \A t \in Tasks : will_rx[t] = "Fire" =>
       /\ connect[t] # None
       /\ \E u \in Tasks : /\ connect[u] # None /\ connect[u].clean
                           /\ Client(u) = Client(t) /\ Listener(u) = Listener(t)

(* A will is kept under its own client, and no connection has a refused id. *)
WillsOwned ==
  /\ \A c \in Clients : last_wills[c] # None =>
       connect[last_wills[c]] # None /\ Client(last_wills[c]) = c
  /\ \A t \in connections : Client(t) \notin InvalidIds

(* Once the router has answered the task in the map, it has no other          *)
(* connection of the client but an excused one.                              *)
Superseded ==
  \A u \in Tasks, t \in connections :
    /\ u # t /\ connect[u] # None /\ Client(u) = Client(t)
    /\ handlers[Listener(u)][Client(u)] = u /\ phase[u] # "connecting"
    => Excused(t)

(* A connection whose task waits with its will is gone, or will be before     *)
(* anything that is sent from now on is handled.                             *)
LeavingSound ==
  /\ \A t \in connections : phase[t] = "waiting" => \E i \in 1 .. Len(events) : Ends(i, t)
  /\ \A i \in 1 .. Len(events), t \in Tasks : Ends(i, t) => phase[t] \in {"waiting", "done"}

(* When the i-th event is handled, the router does not have t. *)
GoneBy(i, t) ==
  \/ t \notin connections /\ \A j \in 1 .. i - 1 : ~Enters(j, t)
  \/ \E j \in 1 .. i - 1 : Ends(j, t)

(* A request to publish a will finds of its client's connections only       *)
(* excused ones.                                                             *)
RequestsSound ==
  \A i \in 1 .. Len(events), t \in Tasks :
    events[i].type = "PublishWill" /\ connect[t] # None /\ Client(t) = events[i].client
    => Excused(t) \/ GoneBy(i, t)

(* The invariant behind WillTaken. *)
WInv == IInv /\ ToldSound /\ WillsOwned /\ Superseded /\ LeavingSound /\ RequestsSound

(* A connection's packet never changes. *)
LEMMA PacketsStay ==
  ASSUME IInv, [Next]_vars
  PROVE  \A u \in Tasks : connect[u] # None => connect'[u] = connect[u]
<1> USE DEF IInv
<1>1. ASSUME NEW t \in Tasks, NEW p \in Connects, Accept(t, p)
      PROVE  \A u \in Tasks : connect[u] # None => connect'[u] = connect[u]
  BY <1>1 DEF Accept, Comes, FreeSound, TypeOK
<1>2. CASE connect' = connect
  BY <1>2
<1>3. ASSUME NEW t \in Tasks,
             \/ \E p \in Connects : Panic(t, p) \/ Decline(t, p)
             \/ Established(t) \/ NewFails(t) \/ SayGoodbye(t) \/ NetworkEnds(t)
             \/ RouterDrops(t) \/ Told(t) \/ DelayPassed(t)
      PROVE  connect' = connect
  BY <1>3 DEF Panic, Decline, Established, NewFails, SayGoodbye, NetworkEnds, RouterDrops,
              Told, DelayPassed
<1>4. CASE Router \/ UNCHANGED vars
  BY <1>2, <1>4 DEF Router, HandleConnect, HandleDisconnect, HandleGoodbye, HandlePublishWill,
                    vars
<1> QED BY <1>1, <1>2, <1>3, <1>4 DEF Next

(* So what excused a connection goes on to excuse it. *)
LEMMA ExcusesStay ==
  ASSUME \A u \in Tasks : connect[u] # None => connect'[u] = connect[u],
         NEW t \in Tasks, connect[t] # None, Excused(t)
  PROVE  Excused(t)'
<1>1. connect'[t] = connect[t]
  OBVIOUS
<1>2. CASE connect[t].clean
  BY <1>1, <1>2 DEF Excused
<1>3. ASSUME NEW u \in Tasks \ {t}, connect[u] # None, Client(u) = Client(t),
             Listener(u) # Listener(t) \/ connect[u].clean
      PROVE  Excused(t)'
  <2>1. connect'[u] = connect[u]
    BY <1>3
  <2> QED BY <1>1, <1>3, <2>1 DEF Excused, Client, Listener
<1> QED BY <1>2, <1>3 DEF Excused

(* The type of an event, and of the task or the client it names. *)
LEMMA EventFields ==
  ASSUME TypeOK, NEW i \in 1 .. Len(events)
  PROVE  /\ events[i] \in Events
         /\ events[i].type \in {"Connect", "Disconnect", "DeviceData"} => events[i].task \in Tasks
         /\ events[i].type = "PublishWill" => events[i].client \in Clients
         /\ events[i].type \in {"Connect", "Disconnect", "DeviceData", "PublishWill"}
<1> QED BY DEF TypeOK, Events

(* A task whose Connect is not answered waits for the answer. *)
LEMMA EntersConnecting ==
  ASSUME IInv, NEW i \in 1 .. Len(events), NEW t \in Tasks, Enters(i, t)
  PROVE  phase[t] = "connecting"
<1> QED BY DEF IInv, EventsSound, IsConnect, Enters

(* The task of a Connect event at the head of the channel. *)
LEMMA ConnectHead ==
  ASSUME IInv, HandleConnect
  PROVE  /\ Head(events).task \in Tasks /\ phase[Head(events).task] = "connecting"
         /\ Enters(1, Head(events).task) /\ connect[Head(events).task] # None
<1>1. 1 \in 1 .. Len(events) /\ Head(events) = events[1] /\ events[1].type = "Connect"
  BY HeadEvent DEF HandleConnect, Happens, IInv, TypeOK
<1>2. Head(events).task \in Tasks /\ Enters(1, Head(events).task)
  BY <1>1, EventFields DEF Enters, IInv
<1>3. phase[Head(events).task] = "connecting"
  BY <1>1, <1>2, EntersConnecting
<1> QED BY <1>2, <1>3 DEF IInv, TypeOK

-----------------------------------------------------------------------------
(* What tasks are told. *)

(* Every step keeps what tasks may have been told: only a clean session has  *)
(* its predecessor fire its will.                                            *)
LEMMA ToldNext == WInv /\ [Next]_vars => ToldSound'
<1> SUFFICES ASSUME WInv, [Next]_vars PROVE ToldSound'
  OBVIOUS
<1> USE DEF WInv, IInv
<1>0. \A u \in Tasks : connect[u] # None => connect'[u] = connect[u]
  BY PacketsStay
<1>1. ASSUME will_rx' = will_rx,
             \A u \in Tasks : phase'[u] = "connecting" => phase[u] = "connecting"
      PROVE  ToldSound'
  <2>1. \A t \in Tasks : phase'[t] = "connecting" => will_rx'[t] = None
    BY <1>1 DEF ToldSound
  <2>2. ASSUME NEW t \in Tasks, will_rx'[t] = "Fire"
        PROVE  /\ connect'[t] # None
               /\ \E u \in Tasks : /\ connect'[u] # None /\ connect'[u].clean
                                   /\ Client(u)' = Client(t)' /\ Listener(u)' = Listener(t)'
    <3>1. PICK u \in Tasks : /\ connect[u] # None /\ connect[u].clean
                             /\ Client(u) = Client(t) /\ Listener(u) = Listener(t)
      BY <1>1, <2>2 DEF ToldSound
    <3>2. connect'[t] = connect[t] /\ connect[t] # None /\ connect'[u] = connect[u]
      BY <1>0, <1>1, <2>2, <3>1 DEF ToldSound
    <3> QED BY <3>1, <3>2 DEF Client, Listener
  <2> QED BY <2>1, <2>2 DEF ToldSound
<1>2. ASSUME NEW t \in Tasks, NEW p \in Connects, Accept(t, p) PROVE ToldSound'
  <2> DEFINE earlier == handlers[p.listener][p.client]
  <2>1. p.listener \in Listeners /\ p.client \in Clients
    BY ConnectFields
  <2>2. earlier \in Tasks \cup {None}
    BY <2>1 DEF TypeOK
  <2>3. earlier # None =>
          connect[earlier] # None /\ Listener(earlier) = p.listener /\ Client(earlier) = p.client
    BY <2>1, <2>2 DEF HandlersSound
  <2>4. /\ phase' = [phase EXCEPT ![t] = "connecting"]
        /\ connect' = [connect EXCEPT ![t] = p]
        /\ phase[t] = "free" /\ connect[t] = None /\ will_rx[t] = None
        /\ \A u \in Tasks : phase[u] = "connecting" => Listener(u) # p.listener
    BY <1>2 DEF Accept, Comes, FreeSound, Blocked
  <2>5. will_rx' = IF earlier = None THEN will_rx
                   ELSE [will_rx EXCEPT ![earlier] = Verdict(p.clean)]
    BY <1>2 DEF Accept
  <2>6. connect'[t] = p /\ p # None
    BY <2>4, LastWillAssumption DEF TypeOK
  <2> HIDE DEF earlier
  <2>7. \A u \in Tasks : phase'[u] = "connecting" => will_rx'[u] = None
    <3> SUFFICES ASSUME NEW u \in Tasks, phase'[u] = "connecting" PROVE will_rx'[u] = None
      OBVIOUS
    <3>1. u = t \/ phase[u] = "connecting"
      BY <2>4 DEF TypeOK
    <3>2. will_rx[u] = None
      BY <2>4, <3>1 DEF ToldSound
    <3>3. earlier # None => u # earlier
      BY <2>2, <2>3, <2>4, <3>1
    <3> QED BY <2>2, <2>5, <3>2, <3>3 DEF TypeOK
  <2>8. ASSUME NEW u \in Tasks, will_rx'[u] = "Fire"
        PROVE  /\ connect'[u] # None
               /\ \E v \in Tasks : /\ connect'[v] # None /\ connect'[v].clean
                                   /\ Client(v)' = Client(u)' /\ Listener(v)' = Listener(u)'
    <3>1. CASE will_rx[u] = "Fire"
      <4>1. PICK v \in Tasks : /\ connect[v] # None /\ connect[v].clean
                               /\ Client(v) = Client(u) /\ Listener(v) = Listener(u)
        BY <3>1 DEF ToldSound
      <4>2. connect'[u] = connect[u] /\ connect[u] # None /\ connect'[v] = connect[v]
        BY <1>0, <3>1, <4>1 DEF ToldSound
      <4> QED BY <4>1, <4>2 DEF Client, Listener
    <3>2. CASE will_rx[u] # "Fire"
      <4>1. earlier # None /\ u = earlier /\ Verdict(p.clean) = "Fire"
        BY <2>2, <2>5, <2>8, <3>2 DEF TypeOK
      <4>2. p.clean
        BY <4>1 DEF Verdict
      <4>3. connect'[u] = connect[u] /\ connect[u] # None
        BY <1>0, <2>3, <4>1
      <4> QED BY <2>3, <2>6, <4>1, <4>2, <4>3 DEF Client, Listener
    <3> QED BY <3>1, <3>2
  <2> QED BY <2>7, <2>8 DEF ToldSound
<1>3. ASSUME NEW t \in Tasks,
             \/ \E p \in Connects : Panic(t, p) \/ Decline(t, p)
             \/ Established(t) \/ NewFails(t) \/ SayGoodbye(t) \/ NetworkEnds(t)
             \/ RouterDrops(t) \/ Told(t) \/ DelayPassed(t)
      PROVE  ToldSound'
  <2>1. will_rx' = will_rx
    BY <1>3 DEF Panic, Decline, Established, NewFails, SayGoodbye, NetworkEnds, RouterDrops,
                Told, DelayPassed
  <2>2. \A u \in Tasks : phase'[u] = "connecting" => phase[u] = "connecting"
    BY <1>3 DEF Panic, Decline, Established, NewFails, SayGoodbye, NetworkEnds, RouterDrops,
                Told, DelayPassed, TypeOK
  <2> QED BY <1>1, <2>1, <2>2
<1>4. CASE Router
  <2>1. will_rx' = will_rx
    BY <1>4 DEF Router, HandleConnect, HandleDisconnect, HandleGoodbye, HandlePublishWill
  <2>2. \A u \in Tasks : phase'[u] = "connecting" => phase[u] = "connecting"
    BY <1>4 DEF Router, HandleConnect, HandleDisconnect, HandleGoodbye, HandlePublishWill, TypeOK
  <2> QED BY <1>1, <2>1, <2>2
<1>5. CASE UNCHANGED vars
  BY <1>1, <1>5 DEF vars
<1> QED BY <1>2, <1>3, <1>4, <1>5 DEF Next
-----------------------------------------------------------------------------
(* Whose wills the router keeps. *)

(* Every step keeps the wills under their clients. *)
LEMMA WillsNext == WInv /\ [Next]_vars => WillsOwned'
<1> SUFFICES ASSUME WInv, [Next]_vars PROVE WillsOwned'
  OBVIOUS
<1> USE DEF WInv, IInv
<1>0. \A u \in Tasks : connect[u] # None => connect'[u] = connect[u]
  BY PacketsStay
<1>1. ASSUME \A c \in Clients : last_wills'[c] \in {last_wills[c], None},
             connections' \subseteq connections
      PROVE  WillsOwned'
  <2>1. \A c \in Clients : last_wills'[c] # None =>
          connect'[last_wills'[c]] # None /\ connect'[last_wills'[c]].client = c
    <3> SUFFICES ASSUME NEW c \in Clients, last_wills'[c] # None
                 PROVE  connect'[last_wills'[c]] # None /\ connect'[last_wills'[c]].client = c
      OBVIOUS
    <3>1. /\ last_wills'[c] = last_wills[c] /\ last_wills[c] \in Tasks
          /\ connect[last_wills[c]] # None /\ Client(last_wills[c]) = c
      BY <1>1 DEF WillsOwned, TypeOK
    <3> QED BY <1>0, <3>1 DEF Client
  <2>2. \A t \in connections' : Client(t)' \notin InvalidIds
    BY <1>0, <1>1 DEF WillsOwned, TypeOK, Client
  <2> QED BY <2>1, <2>2 DEF WillsOwned, Client
<1>2. ASSUME NEW t \in Tasks,
             \/ \E p \in Connects : Accept(t, p) \/ Panic(t, p) \/ Decline(t, p)
             \/ Established(t) \/ NewFails(t) \/ SayGoodbye(t) \/ NetworkEnds(t)
             \/ RouterDrops(t) \/ Told(t) \/ DelayPassed(t)
      PROVE  WillsOwned'
  <2>1. UNCHANGED <<last_wills, connections>>
    BY <1>2 DEF Accept, Panic, Decline, Established, NewFails, SayGoodbye, NetworkEnds,
                RouterDrops, Told, DelayPassed, router
  <2> QED BY <1>1, <2>1
<1>3. CASE HandleConnect
  <2> DEFINE t == Head(events).task
             c == Client(t)
             others == {u \in connections : Client(u) # c}
  <2>1. t \in Tasks /\ connect[t] # None
    BY <1>3, ConnectHead
  <2>2. c \in Clients
    BY <2>1, ConnectFields DEF TypeOK, Client
  <2>3. connect' = connect
    BY <1>3 DEF HandleConnect
  <2>4. CASE /\ c \notin InvalidIds
             /\ connections' = others \cup {t}
             /\ last_wills' = IF connect[t].will THEN [last_wills EXCEPT ![c] = t] ELSE last_wills
    <3>1. \A d \in Clients : last_wills'[d] = last_wills[d] \/ (d = c /\ last_wills'[d] = t)
      BY <2>2, <2>4 DEF TypeOK
    <3> HIDE DEF t
    <3>2. \A d \in Clients : last_wills'[d] # None =>
            connect[last_wills'[d]] # None /\ Client(last_wills'[d]) = d
      BY <2>1, <3>1 DEF WillsOwned
    <3>3. \A u \in connections' : Client(u) \notin InvalidIds
      BY <2>4 DEF WillsOwned
    <3> QED BY <2>3, <3>2, <3>3 DEF WillsOwned, Client
  <2>5. CASE /\ connections' = IF c \in InvalidIds THEN connections ELSE others
             /\ last_wills' = last_wills
    BY <1>1, <2>5
  <2> QED BY <1>3, <2>4, <2>5 DEF HandleConnect
<1>4. CASE HandleDisconnect \/ HandleGoodbye \/ HandlePublishWill
  <2>1. connections' \subseteq connections
    BY <1>4 DEF HandleDisconnect, HandleGoodbye, HandlePublishWill
  <2>2. \A c \in Clients : last_wills'[c] \in {last_wills[c], None}
    BY <1>4 DEF HandleDisconnect, HandleGoodbye, HandlePublishWill, TypeOK
  <2> QED BY <1>1, <2>1, <2>2
<1>5. CASE UNCHANGED vars
  BY <1>1, <1>5 DEF vars, router
<1> QED BY <1>2, <1>3, <1>4, <1>5 DEF Next, Router

-----------------------------------------------------------------------------
(* The connections a client's new one has replaced. *)

(* A step that connects nobody and puts no task into the map that has its    *)
(* answer keeps Superseded.                                                  *)
LEMMA SupersededStays ==
  ASSUME WInv, \A u \in Tasks : connect[u] # None => connect'[u] = connect[u],
         connections' \subseteq connections,
         \A u \in Tasks : connect'[u] # None
                            /\ handlers'[Listener(u)'][Client(u)'] = u /\ phase'[u] # "connecting"
                          => /\ connect[u] # None /\ phase[u] # "connecting"
                             /\ handlers[Listener(u)][Client(u)] = u
  PROVE  Superseded'
<1> SUFFICES ASSUME NEW u \in Tasks, NEW t \in connections', u # t, connect'[u] # None,
                    Client(u)' = Client(t)', handlers'[Listener(u)'][Client(u)'] = u,
                    phase'[u] # "connecting"
             PROVE  Excused(t)'
  BY DEF Superseded
<1>1. t \in connections /\ t \in Tasks /\ connect[t] # None
  BY DEF WInv, IInv, TypeOK
<1>2. connect'[t] = connect[t] /\ connect'[u] = connect[u]
  BY <1>1
<1>3. Client(u) = Client(t)
  BY <1>2 DEF Client
<1>4. Excused(t)
  BY <1>1, <1>3 DEF WInv, Superseded
<1> QED BY <1>1, <1>4, ExcusesStay

(* Every step keeps Superseded: the router drops a client's connection when  *)
(* it takes the next, and refuses no client it has a connection of.           *)
LEMMA SupersededNext == WInv /\ [Next]_vars => Superseded'
<1> SUFFICES ASSUME WInv, [Next]_vars PROVE Superseded'
  OBVIOUS
<1> USE DEF WInv, IInv
<1>0. \A u \in Tasks : connect[u] # None => connect'[u] = connect[u]
  BY PacketsStay
<1>1. ASSUME connections' \subseteq connections, handlers' = handlers, connect' = connect,
             \A u \in Tasks : phase'[u] # "connecting" => phase[u] # "connecting"
      PROVE  Superseded'
  <2>1. \A u \in Tasks : Listener(u)' = Listener(u) /\ Client(u)' = Client(u)
    BY <1>1 DEF Listener, Client
  <2> QED BY <1>0, <1>1, <2>1, SupersededStays
<1>2. ASSUME NEW t \in Tasks, NEW p \in Connects, Accept(t, p) PROVE Superseded'
  <2>1. p.listener \in Listeners /\ p.client \in Clients
    BY ConnectFields
  <2>2. /\ phase' = [phase EXCEPT ![t] = "connecting"]
        /\ connect' = [connect EXCEPT ![t] = p]
        /\ handlers' = [handlers EXCEPT ![p.listener][p.client] = t]
        /\ connections' = connections
    BY <1>2 DEF Accept, router
  <2>3. ASSUME NEW u \in Tasks, connect'[u] # None,
               handlers'[Listener(u)'][Client(u)'] = u, phase'[u] # "connecting"
        PROVE  /\ connect[u] # None /\ phase[u] # "connecting"
               /\ handlers[Listener(u)][Client(u)] = u
    <3>1. u # t /\ connect'[u] = connect[u] /\ phase'[u] = phase[u]
      BY <2>2, <2>3 DEF TypeOK
    <3>2. Listener(u)' = Listener(u) /\ Client(u)' = Client(u)
      BY <3>1 DEF Listener, Client
    <3>3. Listener(u) \in Listeners /\ Client(u) \in Clients
      BY <2>3, <3>1, ConnectFields DEF TypeOK, Listener, Client
    <3>4. handlers[Listener(u)][Client(u)] = u
      BY <2>1, <2>2, <2>3, <3>1, <3>2, <3>3 DEF TypeOK
    <3> QED BY <2>3, <3>1, <3>4
  <2> QED BY <1>0, <2>2, <2>3, SupersededStays
<1>3. ASSUME NEW l \in Listeners, NEW d \in Clients,
             handlers' = [handlers EXCEPT ![l][d] = None], connect' = connect,
             connections' = connections,
             \A u \in Tasks : phase'[u] # "connecting" => phase[u] # "connecting"
      PROVE  Superseded'
  <2>1. \A u \in Tasks : Listener(u)' = Listener(u) /\ Client(u)' = Client(u)
    BY <1>3 DEF Listener, Client
  <2>2. \A u \in Tasks : connect[u] # None => Listener(u) \in Listeners /\ Client(u) \in Clients
    BY ConnectFields DEF TypeOK, Listener, Client
  <2>3. \A m \in Listeners, e \in Clients :
          handlers'[m][e] = handlers[m][e] \/ handlers'[m][e] = None
    BY <1>3 DEF TypeOK
  <2>4. \A u \in Tasks : u # None
    BY LastWillAssumption
  <2>5. \A u \in Tasks : connect'[u] # None
                           /\ handlers'[Listener(u)'][Client(u)'] = u /\ phase'[u] # "connecting"
                         => /\ connect[u] # None /\ phase[u] # "connecting"
                            /\ handlers[Listener(u)][Client(u)] = u
    BY <1>3, <2>1, <2>2, <2>3, <2>4
  <2> QED BY <1>0, <1>3, <2>5, SupersededStays
<1>4. ASSUME NEW t \in Tasks, NEW p \in Connects, Panic(t, p) PROVE Superseded'
  <2>1. p.listener \in Listeners /\ p.client \in Clients
    BY ConnectFields
  <2>2. \A u \in Tasks : phase'[u] # "connecting" => phase[u] # "connecting"
    BY <1>4 DEF Panic, Comes, TypeOK
  <2>3. UNCHANGED <<connect, connections>>
        /\ handlers' = [handlers EXCEPT ![p.listener][p.client] = None]
    BY <1>4 DEF Panic, router
  <2> QED BY <1>3, <2>1, <2>2, <2>3
<1>5. ASSUME NEW t \in Tasks, DelayPassed(t) PROVE Superseded'
  <2>1. \A u \in Tasks : phase'[u] # "connecting" => phase[u] # "connecting"
    BY <1>5 DEF DelayPassed, TypeOK
  <2>2. UNCHANGED <<connect, connections>>
    BY <1>5 DEF DelayPassed, router
  <2>3. Listener(t) \in Listeners /\ Client(t) \in Clients
    BY <1>5, ConnectFields DEF DelayPassed, TypeOK, Listener, Client
  <2>4. CASE handlers' = handlers
    BY <1>1, <2>1, <2>2, <2>4
  <2>5. CASE handlers' = [handlers EXCEPT ![Listener(t)][Client(t)] = None]
    BY <1>3, <2>1, <2>2, <2>3, <2>5
  <2> QED BY <1>5, <2>4, <2>5 DEF DelayPassed
<1>6. ASSUME NEW t \in Tasks,
             \/ \E p \in Connects : Decline(t, p)
             \/ Established(t) \/ NewFails(t) \/ SayGoodbye(t) \/ NetworkEnds(t)
             \/ RouterDrops(t) \/ Told(t)
      PROVE  Superseded'
  <2>1. UNCHANGED <<connect, connections, handlers>>
    BY <1>6 DEF Decline, Established, NewFails, SayGoodbye, NetworkEnds, RouterDrops, Told, router
  <2>2. \A u \in Tasks : phase'[u] # "connecting" => phase[u] # "connecting"
    BY <1>6 DEF Decline, Comes, Established, NewFails, SayGoodbye, NetworkEnds, RouterDrops, Told,
                Running, TypeOK
  <2> QED BY <1>1, <2>1, <2>2
<1>7. CASE HandleConnect
  <2> DEFINE t == Head(events).task
             others == {u \in connections : Client(u) # Client(t)}
  <2>1. t \in Tasks /\ connect[t] # None /\ phase[t] = "connecting"
    BY <1>7, ConnectHead
  <2>2. /\ UNCHANGED <<connect, handlers>>
        /\ \/ /\ connections' = others \cup {t}
              /\ phase' = [phase EXCEPT ![t] = "writing"]
           \/ /\ connections' = IF Client(t) \in InvalidIds THEN connections ELSE others
              /\ phase' = [phase EXCEPT ![t] = "done"]
    BY <1>7 DEF HandleConnect
  <2> HIDE DEF t
  <2>4. \A u \in Tasks : /\ Listener(u)' = Listener(u) /\ Client(u)' = Client(u)
                         /\ phase'[u] = phase[u] \/ u = t
    BY <2>1, <2>2 DEF Listener, Client, TypeOK
  <2>5. \A u \in connections' : Client(u) # Client(t) \/ u = t
    BY <2>2 DEF WillsOwned
  <2>6. \A u \in connections' : u = t \/ u \in connections
    BY <2>2
  <2> SUFFICES ASSUME NEW u \in Tasks, NEW v \in connections', u # v, connect'[u] # None,
                      Client(u)' = Client(v)', handlers'[Listener(u)'][Client(u)'] = u,
                      phase'[u] # "connecting"
               PROVE  Excused(v)'
    BY DEF Superseded
  <2>7. v \in Tasks /\ connect[v] # None
    BY <2>1, <2>6 DEF TypeOK
  <2>8. Client(u) = Client(v) /\ handlers[Listener(u)][Client(u)] = u /\ connect[u] # None
    BY <2>2, <2>4, <2>7
  <2>9. CASE v = t
    \* The map would lead to t, which waits for the answer, unless u came to another listener.
    <3>1. handlers[Listener(t)][Client(t)] = t
      BY <2>1 DEF HandlersSound, ToldSound, Receiving
    <3>2. Listener(u) # Listener(t)
      BY <2>8, <2>9, <3>1
    <3>3. Excused(v)
      BY <2>8, <2>9, <3>2 DEF Excused
    <3> QED BY <1>0, <2>7, <3>3, ExcusesStay
  <2>10. CASE v # t
    <3>1. v \in connections /\ Client(v) # Client(t) /\ u # t
      BY <2>5, <2>6, <2>8, <2>10
    <3>2. phase[u] # "connecting"
      BY <2>4, <3>1
    <3>3. Excused(v)
      BY <2>8, <3>1, <3>2 DEF Superseded
    <3> QED BY <1>0, <2>7, <3>3, ExcusesStay
  <2> QED BY <2>9, <2>10
<1>8. CASE HandleDisconnect \/ HandleGoodbye \/ HandlePublishWill
  <2>1. connections' \subseteq connections /\ UNCHANGED <<connect, handlers, phase>>
    BY <1>8 DEF HandleDisconnect, HandleGoodbye, HandlePublishWill
  <2> QED BY <1>1, <2>1
<1>9. CASE UNCHANGED vars
  BY <1>1, <1>9 DEF vars, router
<1> QED BY <1>2, <1>4, <1>5, <1>6, <1>7, <1>8, <1>9 DEF Next, Router

-----------------------------------------------------------------------------
(* The connections whose tasks wait with their wills. *)

(* A step that adds nothing but perhaps an event, and brings no task to wait *)
(* or back.                                                                  *)
LEMMA LeavingStays ==
  ASSUME WInv, NEW e \in Events, events' \in {events, Append(events, e)},
         e.type # "Disconnect", connections' = connections,
         \A u \in Tasks : /\ phase'[u] = "waiting" => phase[u] = "waiting" \/ u \notin connections
                          /\ phase[u] \in {"waiting", "done"} => phase'[u] \in {"waiting", "done"}
  PROVE  LeavingSound'
<1> USE DEF WInv, IInv
<1>1. /\ Len(events) \in Nat /\ Len(events') \in {Len(events), Len(events) + 1}
      /\ \A i \in 1 .. Len(events) : events'[i] = events[i] /\ i \in 1 .. Len(events')
      /\ Len(events') = Len(events) + 1 => events'[Len(events) + 1].type # "Disconnect"
  BY AppendEvent DEF TypeOK
<1>2. \A i \in 1 .. Len(events), t \in Tasks : Ends(i, t)' <=> Ends(i, t)
  BY <1>1 DEF Ends
<1>3. ASSUME NEW t \in connections', phase'[t] = "waiting"
      PROVE  \E i \in 1 .. Len(events') : Ends(i, t)'
  <2>1. t \in connections /\ t \in Tasks /\ phase[t] = "waiting"
    BY <1>3 DEF TypeOK
  <2>2. PICK i \in 1 .. Len(events) : Ends(i, t)
    BY <2>1 DEF LeavingSound
  <2> QED BY <1>1, <1>2, <2>1, <2>2
<1>4. ASSUME NEW i \in 1 .. Len(events'), NEW t \in Tasks, Ends(i, t)'
      PROVE  phase'[t] \in {"waiting", "done"}
  <2>1. i \in 1 .. Len(events) /\ Ends(i, t)
    BY <1>1, <1>2, <1>4 DEF Ends
  <2> QED BY <2>1 DEF LeavingSound
<1> QED BY <1>3, <1>4 DEF LeavingSound

(* The router takes an event; if it ends a connection, that is the one lost. *)
LEMMA LeavingTaken ==
  ASSUME WInv, events # <<>>, events' = Tail(events),
         \A t \in connections' : /\ ~Ends(1, t)
                                 /\ t \in connections \/ phase'[t] # "waiting",
         \A u \in Tasks : /\ phase'[u] = "waiting" => phase[u] = "waiting"
                          /\ phase[u] \in {"waiting", "done"} => phase'[u] = phase[u],
         connections' \subseteq Tasks
  PROVE  LeavingSound'
<1> USE DEF WInv, IInv
<1>1. /\ Len(events) \in Nat /\ Len(events') = Len(events) - 1 /\ 1 \in 1 .. Len(events)
      /\ \A i \in 1 .. Len(events') : events'[i] = events[i + 1] /\ i + 1 \in 1 .. Len(events)
  BY HeadEvent DEF TypeOK
<1>2. ASSUME NEW t \in connections', phase'[t] = "waiting"
      PROVE  \E i \in 1 .. Len(events') : Ends(i, t)'
  <2>1. PICK i \in 1 .. Len(events) : Ends(i, t)
    BY <1>2 DEF LeavingSound
  <2>2. i # 1
    BY <1>2, <2>1
  <2>3. i - 1 \in 1 .. Len(events') /\ events'[i - 1] = events[i]
    BY <1>1, <2>2
  <2> QED BY <2>1, <2>3 DEF Ends
<1>3. ASSUME NEW i \in 1 .. Len(events'), NEW t \in Tasks, Ends(i, t)'
      PROVE  phase'[t] \in {"waiting", "done"}
  <2>1. i + 1 \in 1 .. Len(events) /\ Ends(i + 1, t)
    BY <1>1, <1>3 DEF Ends
  <2> QED BY <2>1 DEF LeavingSound
<1> QED BY <1>2, <1>3 DEF LeavingSound

(* Every step keeps LeavingSound: a task reports the end of its network       *)
(* before it waits.                                                          *)
LEMMA LeavingNext == WInv /\ [Next]_vars => LeavingSound'
<1> SUFFICES ASSUME WInv, [Next]_vars PROVE LeavingSound'
  OBVIOUS
<1> USE DEF WInv, IInv
<1>0. ASSUME events' = events, connections' = connections,
             \A u \in Tasks : /\ phase'[u] = "waiting" =>
                                   phase[u] = "waiting" \/ u \notin connections
                              /\ phase[u] \in {"waiting", "done"} =>
                                   phase'[u] \in {"waiting", "done"}
      PROVE  LeavingSound'
  <2>1. \A i \in 1 .. Len(events), t \in Tasks : Ends(i, t)' <=> Ends(i, t)
    BY <1>0 DEF Ends
  <2>2. connections \subseteq Tasks
    BY DEF TypeOK
  <2> QED BY <1>0, <2>1, <2>2 DEF LeavingSound
<1>1. ASSUME NEW t \in Tasks, NEW p \in Connects, Accept(t, p) PROVE LeavingSound'
  <2> DEFINE e == [type |-> "Connect", task |-> t]
  <2>1. e \in Events /\ e.type # "Disconnect" /\ events' = Append(events, e)
    BY <1>1, EventTypes DEF Accept
  <2>2. connections' = connections
        /\ \A u \in Tasks : /\ phase'[u] = "waiting" => phase[u] = "waiting"
                            /\ phase[u] \in {"waiting", "done"} => phase'[u] \in {"waiting", "done"}
    BY <1>1 DEF Accept, Comes, router, TypeOK
  <2> HIDE DEF e
  <2> QED BY <2>1, <2>2, LeavingStays
<1>2. ASSUME NEW t \in Tasks,
             \/ \E p \in Connects : Panic(t, p) \/ Decline(t, p)
             \/ Established(t) \/ NewFails(t) \/ RouterDrops(t)
      PROVE  LeavingSound'
  <2>1. UNCHANGED <<events, connections>>
    BY <1>2 DEF Panic, Decline, Established, NewFails, RouterDrops, router
  <2>2. \A u \in Tasks : /\ phase'[u] = "waiting" => phase[u] = "waiting" \/ u \notin connections
                         /\ phase[u] \in {"waiting", "done"} => phase'[u] \in {"waiting", "done"}
    BY <1>2 DEF Panic, Decline, Comes, Established, NewFails, RouterDrops, Running, TypeOK
  <2> QED BY <1>0, <2>1, <2>2
<1>3. ASSUME NEW t \in Tasks, SayGoodbye(t) PROVE LeavingSound'
  <2> DEFINE e == [type |-> "DeviceData", task |-> t]
  <2>1. e \in Events /\ e.type # "Disconnect" /\ events' = Append(events, e)
    BY <1>3, EventTypes DEF SayGoodbye
  <2>2. connections' = connections
        /\ \A u \in Tasks : /\ phase'[u] = "waiting" => phase[u] = "waiting"
                            /\ phase[u] \in {"waiting", "done"} => phase'[u] \in {"waiting", "done"}
    BY <1>3 DEF SayGoodbye, router, TypeOK
  <2> HIDE DEF e
  <2> QED BY <2>1, <2>2, LeavingStays
<1>4. ASSUME NEW t \in Tasks, Told(t) \/ DelayPassed(t) PROVE LeavingSound'
  <2> DEFINE e == [type |-> "PublishWill", client |-> Client(t)]
  <2>1. e \in Events /\ e.type # "Disconnect"
    BY <1>4, ConnectFields, EventTypes DEF Told, DelayPassed, TypeOK, Client
  <2>2. events' \in {events, Append(events, e)}
    BY <1>4 DEF Told, DelayPassed
  <2>3. connections' = connections
        /\ \A u \in Tasks : /\ phase'[u] = "waiting" => phase[u] = "waiting"
                            /\ phase[u] \in {"waiting", "done"} => phase'[u] \in {"waiting", "done"}
    BY <1>4 DEF Told, DelayPassed, router, TypeOK
  <2> HIDE DEF e
  <2> QED BY <2>1, <2>2, <2>3, LeavingStays
<1>5. ASSUME NEW t \in Tasks, NetworkEnds(t) PROVE LeavingSound'
  <2> DEFINE e == [type |-> "Disconnect", task |-> t]
  <2>0. PICK n \in Nat : n = Len(events)
    BY DEF TypeOK
  <2>1. /\ Len(events') = n + 1 /\ events'[n + 1] = e
        /\ \A i \in 1 .. n : events'[i] = events[i]
    BY <1>5, <2>0, AppendEvent, EventTypes DEF NetworkEnds, TypeOK
  <2>2. connections' = connections /\ phase' = [phase EXCEPT ![t] = "waiting"]
    BY <1>5 DEF NetworkEnds, router
  <2>3. \A i \in 1 .. n, u \in Tasks : Ends(i, u)' <=> Ends(i, u)
    BY <2>1 DEF Ends
  <2>4. \A u \in Tasks : Ends(n + 1, u)' <=> u = t
    BY <2>1 DEF Ends
  <2> HIDE DEF e
  <2>5. ASSUME NEW u \in connections', phase'[u] = "waiting"
        PROVE  \E i \in 1 .. n + 1 : Ends(i, u)'
    <3>1. u \in Tasks /\ u \in connections
      BY <2>2 DEF TypeOK
    <3>2. CASE u = t
      BY <2>1, <2>4, <3>2
    <3>3. CASE u # t
      <4>1. PICK i \in 1 .. n : Ends(i, u)
        BY <2>0, <2>2, <2>5, <3>1, <3>3 DEF LeavingSound, TypeOK
      <4> QED BY <2>1, <2>3, <3>1, <4>1
    <3> QED BY <3>2, <3>3
  <2>6. ASSUME NEW i \in 1 .. n + 1, NEW u \in Tasks, Ends(i, u)'
        PROVE  phase'[u] \in {"waiting", "done"}
    <3>1. CASE i = n + 1
      BY <2>2, <2>4, <2>6, <3>1 DEF TypeOK
    <3>2. CASE i # n + 1
      <4>1. i \in 1 .. n /\ Ends(i, u)
        BY <2>1, <2>3, <2>6, <3>2
      <4>2. phase[u] \in {"waiting", "done"}
        BY <2>0, <4>1 DEF LeavingSound
      <4> QED BY <2>2, <4>2 DEF TypeOK
    <3> QED BY <3>1, <3>2
  <2> QED BY <2>1, <2>5, <2>6 DEF LeavingSound
<1>6. CASE HandleConnect
  <2> DEFINE t == Head(events).task
  <2>1. t \in Tasks /\ phase[t] = "connecting" /\ Enters(1, t)
    BY <1>6, ConnectHead
  <2>2. /\ events # <<>> /\ events' = Tail(events)
        /\ connections' \subseteq connections \cup {t}
        /\ phase' \in {[phase EXCEPT ![t] = "writing"], [phase EXCEPT ![t] = "done"]}
    BY <1>6 DEF HandleConnect, Happens
  <2> HIDE DEF t
  <2>3. \A u \in Tasks : ~Ends(1, u)
    BY <2>1 DEF Ends, Enters
  <2>4. \A u \in Tasks : /\ phase'[u] = "waiting" => phase[u] = "waiting"
                         /\ phase[u] \in {"waiting", "done"} => phase'[u] = phase[u]
    BY <2>1, <2>2 DEF TypeOK
  <2>5. phase'[t] # "waiting" /\ connections' \subseteq Tasks
    BY <2>1, <2>2, <2>4 DEF TypeOK
  <2>6. \A u \in connections' : ~Ends(1, u) /\ (u \in connections \/ phase'[u] # "waiting")
    BY <2>2, <2>3, <2>5
  <2> QED BY <2>2, <2>4, <2>5, <2>6, LeavingTaken
<1>7. CASE HandleDisconnect \/ HandleGoodbye \/ HandlePublishWill
  <2>1. /\ events # <<>> /\ events' = Tail(events) /\ Head(events) = events[1]
        /\ connections' \subseteq connections /\ phase' = phase
    BY <1>7, HeadEvent DEF HandleDisconnect, HandleGoodbye, HandlePublishWill, Happens, TypeOK
  <2>2. \A u \in connections' : ~Ends(1, u)
    BY <1>7, <2>1 DEF HandleDisconnect, HandleGoodbye, HandlePublishWill, Happens, Ends
  <2>3. connections' \subseteq Tasks
    BY <2>1 DEF TypeOK
  <2>4. \A u \in connections' : ~Ends(1, u) /\ (u \in connections \/ phase'[u] # "waiting")
    BY <2>1, <2>2
  <2> QED BY <2>1, <2>3, <2>4, LeavingTaken
<1>8. CASE UNCHANGED vars
  BY <1>0, <1>8 DEF vars, router
<1> QED BY <1>1, <1>2, <1>3, <1>4, <1>5, <1>6, <1>7, <1>8 DEF Next, Router

-----------------------------------------------------------------------------
(* The requests to publish a will. *)

(* A step of the listeners: what a request in the channel finds is as before. *)
LEMMA OldRequests ==
  ASSUME WInv, NEW n \in Nat, n = Len(events),
         \A u \in Tasks : connect[u] # None => connect'[u] = connect[u],
         connections' = connections, \A i \in 1 .. n : events'[i] = events[i],
         NEW i \in 1 .. n, NEW t \in Tasks,
         events[i].type = "PublishWill", connect'[t] # None, Client(t)' = events[i].client
  PROVE  (Excused(t) \/ GoneBy(i, t))'
<1> USE DEF WInv, IInv
<1>1. \A j \in 1 .. i - 1 : j \in 1 .. n /\ events'[j] = events[j]
  OBVIOUS
<1>2. \A j \in 1 .. i - 1 : (Enters(j, t)' <=> Enters(j, t)) /\ (Ends(j, t)' <=> Ends(j, t))
  BY <1>1 DEF Enters, Ends
<1>3. CASE connect[t] = None
  <2>1. t \notin connections /\ phase[t] # "connecting"
    BY <1>3 DEF TypeOK
  <2>2. \A j \in 1 .. i - 1 : ~Enters(j, t)
    BY <1>1, <2>1, EntersConnecting
  <2> QED BY <1>2, <2>1, <2>2 DEF GoneBy
<1>4. CASE connect[t] # None
  <2>1. Client(t) = events[i].client
    BY <1>4 DEF Client
  <2>2. Excused(t) \/ GoneBy(i, t)
    BY <1>4, <2>1 DEF RequestsSound
  <2>3. GoneBy(i, t) => GoneBy(i, t)'
    BY <1>2 DEF GoneBy
  <2>4. Excused(t) => Excused(t)'
    BY <1>4, ExcusesStay
  <2> QED BY <2>2, <2>3, <2>4
<1> QED BY <1>3, <1>4

(* So it is enough to look at a request that is new. *)
LEMMA RequestsGrow ==
  ASSUME WInv, NEW e \in Events, events' \in {events, Append(events, e)},
         \A u \in Tasks : connect[u] # None => connect'[u] = connect[u],
         connections' = connections, NEW n \in Nat, n = Len(events),
         ASSUME events' = Append(events, e), e.type = "PublishWill",
                NEW t \in Tasks, connect'[t] # None, Client(t)' = e.client
         PROVE  (Excused(t) \/ GoneBy(n + 1, t))'
  PROVE  RequestsSound'
<1>0. events \in Seq(Events)
  BY DEF WInv, IInv, TypeOK
<1>1. /\ Len(events') = IF events' = events THEN n ELSE n + 1
      /\ \A i \in 1 .. n : events'[i] = events[i]
      /\ events' # events => events' = Append(events, e) /\ events'[n + 1] = e
  <2>1. CASE events' = events
    BY <2>1
  <2>2. CASE events' = Append(events, e)
    <3>1. /\ Len(Append(events, e)) = n + 1 /\ Append(events, e)[n + 1] = e
          /\ \A i \in 1 .. n : Append(events, e)[i] = events[i]
      BY ONLY <1>0, AppendEvent, n = Len(events), e \in Events
    <3>2. events' # events
      BY ONLY <2>2, <3>1, n = Len(events), n \in Nat
    <3> QED BY ONLY <2>2, <3>1, <3>2
  <2> QED BY <2>1, <2>2
<1> SUFFICES ASSUME NEW i \in 1 .. Len(events'), NEW t \in Tasks, events'[i].type = "PublishWill",
                    connect'[t] # None, Client(t)' = events'[i].client
             PROVE  (Excused(t) \/ GoneBy(i, t))'
  BY DEF RequestsSound
<1>2. CASE i \in 1 .. n
  <2>1. events'[i] = events[i]
    BY <1>1, <1>2
  <2> QED BY <1>1, <1>2, <2>1, OldRequests
<1>3. CASE i \notin 1 .. n
  <2>1. i = n + 1 /\ events' = Append(events, e) /\ events'[i] = e
    BY <1>1, <1>3
  <2> QED BY <2>1
<1> QED BY <1>2, <1>3

(* A task that lets its will be published has lost its own connection, and   *)
(* every other of its client is one that it was told of, one its own         *)
(* replaced, or one of another listener.                                     *)
LEMMA IssuerFinds ==
  ASSUME WInv, NEW u \in Tasks, phase[u] = "waiting", ~Blocked(Listener(u)),
         will_rx[u] \in {None, "Fire"}, NEW t \in Tasks, connect[t] # None, Client(t) = Client(u),
         NEW n \in Nat, n = Len(events)
  PROVE  Excused(t) \/ GoneBy(n + 1, t)
<1> USE DEF WInv, IInv
<1>0. connect[u] # None
  BY DEF TypeOK
<1>1. CASE t = u
  <2>1. \A j \in 1 .. n : ~Enters(j, u)
    BY EntersConnecting
  <2>2. u \in connections => \E j \in 1 .. n : Ends(j, u)
    BY DEF LeavingSound
  <2> QED BY <1>1, <2>1, <2>2 DEF GoneBy
<1>2. CASE t # u /\ Listener(u) # Listener(t)
  BY <1>0, <1>2 DEF Excused
<1>3. CASE t # u /\ Listener(u) = Listener(t) /\ will_rx[u] = "Fire"
  <2>1. PICK v \in Tasks : /\ connect[v] # None /\ connect[v].clean
                           /\ Client(v) = Client(u) /\ Listener(v) = Listener(u)
    BY <1>3 DEF ToldSound
  <2> QED BY <2>1 DEF Excused
<1>4. CASE t # u /\ Listener(u) = Listener(t) /\ will_rx[u] = None
  <2>1. handlers[Listener(u)][Client(u)] = u
    BY <1>4 DEF HandlersSound, Receiving
  <2>2. t \in connections => Excused(t)
    BY <1>0, <1>4, <2>1 DEF Superseded
  <2>3. phase[t] # "connecting"
    BY <1>4 DEF Blocked
  <2>4. \A j \in 1 .. n : ~Enters(j, t)
    BY <2>3, EntersConnecting
  <2> QED BY <2>2, <2>4 DEF GoneBy
<1> QED BY <1>1, <1>2, <1>3, <1>4 DEF TypeOK

(* The router takes an event: a connection comes only by its Connect, and     *)
(* its Disconnect takes it away.                                             *)
LEMMA RequestsTaken ==
  ASSUME WInv, events # <<>>, events' = Tail(events), connect' = connect,
         \A t \in connections' : t \in connections \/ Enters(1, t),
         \A t \in connections' : ~Ends(1, t)
  PROVE  RequestsSound'
<1> USE DEF WInv, IInv
<1>0. PICK n \in Nat : n = Len(events)
  BY DEF TypeOK
<1>1. /\ n = Len(events) /\ Len(events') = n - 1
      /\ \A i \in 1 .. n - 1 : events'[i] = events[i + 1] /\ i + 1 \in 1 .. n
  BY <1>0, HeadEvent DEF TypeOK
<1> SUFFICES ASSUME NEW i \in 1 .. n - 1, NEW t \in Tasks, events'[i].type = "PublishWill",
                    connect[t] # None, Client(t) = events'[i].client
             PROVE  (Excused(t) \/ GoneBy(i, t))'
  BY <1>1 DEF RequestsSound, Client
<1>2. Excused(t) \/ GoneBy(i + 1, t)
  BY <1>1 DEF RequestsSound
<1>3. Excused(t) => Excused(t)'
  BY ExcusesStay
<1>4. \A j \in 1 .. i - 1 : j + 1 \in 1 .. i /\ j \in 1 .. n - 1
  BY <1>1
<1>5. \A j \in 1 .. i - 1 : (Enters(j, t)' <=> Enters(j + 1, t)) /\ (Ends(j, t)' <=> Ends(j + 1, t))
  BY <1>1, <1>4 DEF Enters, Ends
<1>6. 1 \in 1 .. i /\ 1 \in 1 .. n
  OBVIOUS
<1>7. ASSUME t \notin connections, \A j \in 1 .. i : ~Enters(j, t)
      PROVE  GoneBy(i, t)'
  <2>1. t \notin connections'
    BY <1>6, <1>7
  <2>2. \A j \in 1 .. i - 1 : ~Enters(j, t)'
    BY <1>4, <1>5, <1>7
  <2> QED BY <2>1, <2>2 DEF GoneBy
<1>8. ASSUME NEW j \in 1 .. i, Ends(j, t)
      PROVE  GoneBy(i, t)'
  <2>1. CASE j = 1
    <3>1. t \notin connections'
      BY <1>8, <2>1
    <3>2. j \in 1 .. n
      BY <1>6, <2>1
    <3>3. phase[t] # "connecting"
      BY <1>1, <1>8, <3>2 DEF LeavingSound
    <3>4. \A k \in 1 .. i : k \in 1 .. n /\ ~Enters(k, t)
      BY <1>1, <3>3, EntersConnecting
    <3>5. \A k \in 1 .. i - 1 : ~Enters(k, t)'
      BY <1>4, <1>5, <3>4
    <3> QED BY <3>1, <3>5 DEF GoneBy
  <2>2. CASE j # 1
    <3>1. j - 1 \in 1 .. i - 1 /\ (j - 1) + 1 = j
      BY <2>2
    <3>2. Ends(j - 1, t)'
      BY <1>5, <1>8, <3>1
    <3> QED BY <3>1, <3>2 DEF GoneBy
  <2> QED BY <2>1, <2>2
<1>9. (i + 1) - 1 = i
  OBVIOUS
<1> QED BY <1>2, <1>3, <1>7, <1>8, <1>9 DEF GoneBy

(* Every step keeps RequestsSound. *)
LEMMA RequestsNext == WInv /\ [Next]_vars => RequestsSound'
<1> SUFFICES ASSUME WInv, [Next]_vars PROVE RequestsSound'
  OBVIOUS
<1> USE DEF WInv, IInv
<1>0. \A u \in Tasks : connect[u] # None => connect'[u] = connect[u]
  BY PacketsStay
<1>n. PICK n \in Nat : n = Len(events)
  BY DEF TypeOK
<1>1. ASSUME NEW e \in Events, e.type # "PublishWill",
             events' \in {events, Append(events, e)}, connections' = connections
      PROVE  RequestsSound'
  BY <1>0, <1>n, <1>1, RequestsGrow
<1>2. ASSUME NEW t \in Tasks,
             \/ \E p \in Connects : Accept(t, p) \/ Panic(t, p) \/ Decline(t, p)
             \/ Established(t) \/ NewFails(t) \/ SayGoodbye(t) \/ NetworkEnds(t)
             \/ RouterDrops(t)
      PROVE  RequestsSound'
  <2>1. PICK e \in Events : e.type # "PublishWill" /\ events' \in {events, Append(events, e)}
    <3>1. /\ [type |-> "Connect", task |-> t] \in Events
          /\ [type |-> "Disconnect", task |-> t] \in Events
          /\ [type |-> "DeviceData", task |-> t] \in Events
      BY EventTypes
    <3> QED BY <1>2, <3>1 DEF Accept, Panic, Decline, Established, NewFails, SayGoodbye,
                              NetworkEnds, RouterDrops
  <2>2. connections' = connections
    BY <1>2 DEF Accept, Panic, Decline, Established, NewFails, SayGoodbye, NetworkEnds,
                RouterDrops, router
  <2> QED BY <1>1, <2>1, <2>2
<1>3. ASSUME NEW u \in Tasks, Told(u) \/ DelayPassed(u) PROVE RequestsSound'
  <2> DEFINE e == [type |-> "PublishWill", client |-> Client(u)]
  <2>1. e \in Events /\ e.client = Client(u)
    BY <1>3, ConnectFields, EventTypes DEF Told, DelayPassed, TypeOK, Client
  <2>2. /\ events' \in {events, Append(events, e)} /\ connections' = connections
        /\ connect' = connect /\ phase[u] = "waiting" /\ ~Blocked(Listener(u))
    BY <1>3 DEF Told, DelayPassed, router
  <2>3. events' = Append(events, e) => will_rx[u] \in {None, "Fire"}
    <3>1. Len(Append(events, e)) # Len(events)
      BY <2>1, AppendEvent DEF TypeOK
    <3> QED BY <1>3, <3>1 DEF Told, DelayPassed, TypeOK
  <2> HIDE DEF e
  <2>4. ASSUME events' = Append(events, e), e.type = "PublishWill",
               NEW t \in Tasks, connect'[t] # None, Client(t)' = e.client
        PROVE  (Excused(t) \/ GoneBy(n + 1, t))'
    <3>1. connect[t] # None /\ Client(t) = Client(u)
      BY <2>1, <2>2, <2>4 DEF Client
    <3>2. Excused(t) \/ GoneBy(n + 1, t)
      BY <1>n, <2>2, <2>3, <2>4, <3>1, IssuerFinds
    <3>3. Excused(t) => Excused(t)'
      BY <1>0, <3>1, ExcusesStay
    <3>4. \A j \in 1 .. (n + 1) - 1 : events'[j] = events[j]
      BY <1>n, <2>1, <2>4, AppendEvent DEF TypeOK
    <3>5. GoneBy(n + 1, t) => GoneBy(n + 1, t)'
      BY <2>2, <3>4 DEF GoneBy, Enters, Ends
    <3> QED BY <3>2, <3>3, <3>5
  <2> QED BY <1>0, <1>n, <2>1, <2>2, <2>4, RequestsGrow
<1>4. CASE HandleConnect
  <2>1. /\ events # <<>> /\ events' = Tail(events) /\ connect' = connect
        /\ connections' \subseteq connections \cup {Head(events).task}
    BY <1>4 DEF HandleConnect, Happens
  <2>2. Enters(1, Head(events).task) /\ \A t \in Tasks : ~Ends(1, t)
    BY <1>4, ConnectHead DEF Enters, Ends
  <2>3. connections' \subseteq Tasks
    BY <1>4, <2>1, ConnectHead DEF TypeOK
  <2>4. \A t \in connections' : t \in connections \/ Enters(1, t)
    BY <2>1, <2>2
  <2>5. \A t \in connections' : ~Ends(1, t)
    BY <2>2, <2>3
  <2> QED BY <2>1, <2>4, <2>5, RequestsTaken
<1>5. CASE HandleDisconnect \/ HandleGoodbye \/ HandlePublishWill
  <2>1. /\ events # <<>> /\ events' = Tail(events) /\ Head(events) = events[1]
        /\ connections' \subseteq connections /\ connect' = connect
    BY <1>5, HeadEvent DEF HandleDisconnect, HandleGoodbye, HandlePublishWill, Happens, TypeOK
  <2>2. \A t \in connections' : ~Ends(1, t)
    BY <1>5, <2>1 DEF HandleDisconnect, HandleGoodbye, HandlePublishWill, Happens, Ends
  <2>3. \A t \in connections' : t \in connections \/ Enters(1, t)
    BY <2>1
  <2> QED BY <2>1, <2>2, <2>3, RequestsTaken
<1>6. CASE UNCHANGED vars
  <2>1. UNCHANGED <<events, connections>>
    BY <1>6 DEF vars, router
  <2>2. ASSUME NEW i \in 1 .. Len(events), NEW t \in Tasks,
               events[i].type = "PublishWill", connect'[t] # None, Client(t)' = events[i].client
        PROVE  (Excused(t) \/ GoneBy(i, t))'
    BY <1>0, <1>n, <2>1, <2>2, OldRequests
  <2> QED BY <2>1, <2>2 DEF RequestsSound
<1> QED BY <1>2, <1>3, <1>4, <1>5, <1>6 DEF Next, Router

-----------------------------------------------------------------------------
(* The invariant is inductive, and a step from it publishes only the will of  *)
(* an excused connection, or of one the router does not have.                *)

(* It holds at first. *)
LEMMA WillsInit == Init => WInv
<1> SUFFICES ASSUME Init PROVE WInv
  OBVIOUS
<1>1. IInv
  BY InductiveInit
<1>2. Len(events) = 0 /\ connections = {}
  BY DEF Init
<1>3. ToldSound /\ WillsOwned
  BY LastWillAssumption DEF Init, ToldSound, WillsOwned
<1>4. Superseded /\ LeavingSound /\ RequestsSound
  BY <1>2 DEF Superseded, LeavingSound, RequestsSound
<1> QED BY <1>1, <1>3, <1>4 DEF WInv

(* And always. *)
LEMMA WillsInductive == Spec => []WInv
<1>1. IInv /\ [Next]_vars => IInv'
  BY TypeNext, EventsNext, FreeNext, HandlersNext DEF IInv
<1>2. WInv /\ [Next]_vars => WInv'
  BY <1>1, ToldNext, WillsNext, SupersededNext, LeavingNext, RequestsNext DEF WInv
<1> QED BY <1>2, WillsInit, PTL DEF Spec

(* What a step publishes. *)
LEMMA WillStep ==
  ASSUME WInv, [Next]_vars, NEW t \in published' \ published
  PROVE  t \notin connections \/ Excused(t)
<1> USE DEF WInv, IInv
<1>1. HandlePublishWill
  <2>1. ASSUME NEW u \in Tasks,
               \/ \E p \in Connects : Accept(u, p) \/ Panic(u, p) \/ Decline(u, p)
               \/ Established(u) \/ NewFails(u) \/ SayGoodbye(u) \/ NetworkEnds(u)
               \/ RouterDrops(u) \/ Told(u) \/ DelayPassed(u)
        PROVE  published' = published
    BY <2>1 DEF Accept, Panic, Decline, Established, NewFails, SayGoodbye, NetworkEnds,
                RouterDrops, Told, DelayPassed, router
  <2>2. HandleConnect \/ HandleDisconnect \/ HandleGoodbye => published' = published
    BY DEF HandleConnect, HandleDisconnect, HandleGoodbye
  <2>3. UNCHANGED vars => published' = published
    BY DEF vars, router
  <2> QED BY <2>1, <2>2, <2>3 DEF Next, Router
<1>2. /\ 1 \in 1 .. Len(events) /\ events[1].type = "PublishWill"
      /\ t = last_wills[events[1].client] /\ t # None
  BY <1>1, HeadEvent DEF HandlePublishWill, Happens, TypeOK
<1>3. events[1].client \in Clients
  BY <1>2, EventFields
<1>4. t \in Tasks /\ connect[t] # None /\ Client(t) = events[1].client
  BY <1>2, <1>3 DEF WillsOwned, TypeOK
<1>5. Excused(t) \/ GoneBy(1, t)
  BY <1>2, <1>4 DEF RequestsSound
<1> QED BY <1>5 DEF GoneBy

(* The will of a connection the router has is published only if its client   *)
(* came back with a clean session or through another listener                *)
(* (broker.rs:543-550 and 622-632).                                          *)
THEOREM WillsAreTaken == Spec => WillTaken
<1>1. WInv /\ [Next]_vars =>
        [\A t \in published' \ published :
           \/ t \notin connections
           \/ connect[t].clean
           \/ \E u \in Tasks \ {t} :
                connect[u] # None /\ Client(u) = Client(t)
                /\ (Listener(u) # Listener(t) \/ connect[u].clean)]_published
  BY WillStep DEF Excused
<1> QED BY <1>1, WillsInductive, PTL DEF Spec, WillTaken

-----------------------------------------------------------------------------
(* Every variable has its type, every task that runs has its packet, and the *)
(* router never has more connections than max_connections (routing.rs:296).   *)
THEOREM TypeCorrect == Spec => []TypeOK
<1>1. IInv => TypeOK
  BY DEF IInv
<1> QED BY <1>1, Inductive, PTL

(* The listeners' maps and the tasks' channels agree (broker.rs:543-556 and   *)
(* 606-623): the map leads to each client's task as long as it waits, and    *)
(* nothing but a failed RemoteLink::new leaves a map unusable.               *)
THEOREM HandlersAgree == Spec => []HandlersSound
<1>1. IInv => HandlersSound
  BY DEF IInv
<1> QED BY <1>1, Inductive, PTL

=============================================================================
