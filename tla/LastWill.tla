------------------------------ MODULE LastWill ------------------------------
(***************************************************************************)
(* The life of a connection in its listener, and what becomes of its will: *)
(* remote() in server/broker.rs with RemoteLink in link/remote.rs, and the  *)
(* part of the router that keeps the wills.                                *)
(*                                                                         *)
(* A listener runs its tasks on one thread.  From the CONNECT packet to    *)
(* the router's answer a task does not give that thread away: it tells the *)
(* client's earlier task what to do with its will, puts the channel to     *)
(* itself in the listener's map of handlers, and blocks until the router   *)
(* has answered.  The will delay is a timeout that may end at any moment.  *)
(* That the router may use a connection id again is in Router, not here.    *)
(***************************************************************************)
EXTENDS Integers, Sequences, FiniteSets

CONSTANTS
  Listeners, Clients,
  Connects,        \* CONNECT packets, each with the listener it comes to
  Tasks,           \* connections, numbered as they come
  InvalidIds,      \* clients whose id the router refuses
  MaxConnections,  \* max_connections of the router
  None

ASSUME LastWillAssumption ==
  /\ Connects \subseteq [client : Clients, listener : Listeners, clean : BOOLEAN, will : BOOLEAN]
  /\ Tasks \subseteq Nat /\ InvalidIds \subseteq Clients /\ MaxConnections \in Nat
  /\ None \notin Tasks /\ None \notin Connects /\ None \notin {"Fire", "Cancel"}

VARIABLES
  phase,        \* where the task of each connection stands
  connect,      \* what its CONNECT packet said, once there is one
  will_rx,      \* the message in its channel
  handlers,     \* awaiting_will_handler of each listener: whose channel it holds
  poisoned,     \* listeners whose map a task left locked by a panic
  events,       \* the router's channel
  connections,  \* the connections of the router
  last_wills,   \* the router's wills, by client: whose will it is
  failed,       \* connections whose RemoteLink::new failed (history)
  published     \* connections whose will was published (history)

router == <<connections, last_wills, published>>
vars   == <<phase, connect, will_rx, handlers, poisoned, events, router, failed>>

Phases   == {"free", "connecting", "writing", "live", "leaving", "waiting", "done"}
Events   == [type : {"Connect", "Disconnect", "DeviceData"}, task : Tasks]
              \cup [type : {"PublishWill"}, client : Clients]

Client(t)   == connect[t].client
Listener(t) == connect[t].listener

Init ==
  /\ phase = [t \in Tasks |-> "free"]
  /\ connect = [t \in Tasks |-> None]
  /\ will_rx = [t \in Tasks |-> None]
  /\ handlers = [l \in Listeners |-> [c \in Clients |-> None]]
  /\ poisoned = {}
  /\ events = <<>>
  /\ connections = {} /\ last_wills = [c \in Clients |-> None]
  /\ failed = {} /\ published = {}

-----------------------------------------------------------------------------
(* The listener. *)

(* While a task waits for the router's answer its listener does nothing else. *)
Blocked(l) ==
  \E t \in Tasks : phase[t] = "connecting" /\ Listener(t) = l

(* The task runs: its end of the channel exists. *)
Receiving(t) == phase[t] \in {"connecting", "writing", "live", "leaving", "waiting"}

Comes(t) == phase[t] = "free" /\ \A u \in Tasks : u < t => phase[u] # "free"

(* The lock is poisoned: the task ends there.  (One whose mqtt_connect fails   *)
(* has no part in any of this.)                                               *)
Decline(t, p) ==
  /\ Comes(t) /\ ~Blocked(p.listener) /\ p.listener \in poisoned
  /\ phase' = [phase EXCEPT ![t] = "done"]
  /\ UNCHANGED <<connect, will_rx, handlers, poisoned, events, router, failed>>

(* Slip: a new session cancels the will, a continued one fires it. *)
SlipVerdict(clean) == IF clean THEN "Cancel" ELSE "Fire"

Verdict(clean) == IF clean THEN "Fire" ELSE "Cancel"

(* The earlier task of the client is told, its channel replaced by this      *)
(* one's, and the router asked.                                              *)
Accept(t, p) ==
  LET earlier == handlers[p.listener][p.client] IN
  /\ Comes(t) /\ ~Blocked(p.listener) /\ p.listener \notin poisoned
  /\ earlier # None => Receiving(earlier)
  /\ connect' = [connect EXCEPT ![t] = p]
  /\ will_rx' = IF earlier = None THEN will_rx
                ELSE [will_rx EXCEPT ![earlier] = Verdict(p.clean)]
  /\ handlers' = [handlers EXCEPT ![p.listener][p.client] = t]
  /\ events' = Append(events, [type |-> "Connect", task |-> t])
  /\ phase' = [phase EXCEPT ![t] = "connecting"]
  /\ UNCHANGED <<poisoned, router, failed>>

(* try_send finds no receiver: the task panics with the map locked. *)
Panic(t, p) ==
  LET earlier == handlers[p.listener][p.client] IN
  /\ Comes(t) /\ ~Blocked(p.listener) /\ p.listener \notin poisoned
  /\ earlier # None /\ ~Receiving(earlier)
  /\ handlers' = [handlers EXCEPT ![p.listener][p.client] = None]
  /\ poisoned' = poisoned \cup {p.listener}
  /\ phase' = [phase EXCEPT ![t] = "done"]
  /\ UNCHANGED <<connect, will_rx, events, router, failed>>

(* The CONNACK is written while other tasks run, and may not get out.         *)
Established(t) ==
  /\ phase[t] = "writing" /\ ~Blocked(Listener(t))
  /\ phase' = [phase EXCEPT ![t] = "live"]
  /\ UNCHANGED <<connect, will_rx, handlers, poisoned, events, router, failed>>

NewFails(t) ==
  /\ phase[t] = "writing" /\ ~Blocked(Listener(t))
  /\ phase' = [phase EXCEPT ![t] = "done"]
  /\ failed' = failed \cup {t}
  /\ UNCHANGED <<connect, will_rx, handlers, poisoned, events, router>>

(* The client sends DISCONNECT. *)
SayGoodbye(t) ==
  /\ phase[t] = "live" /\ ~Blocked(Listener(t))
  /\ phase' = [phase EXCEPT ![t] = "leaving"]
  /\ events' = Append(events, [type |-> "DeviceData", task |-> t])
  /\ UNCHANGED <<connect, will_rx, handlers, poisoned, router, failed>>

Running(t) == phase[t] \in {"live", "leaving"} /\ ~Blocked(Listener(t))

(* start() ends with the network, or with the router's end of the link, of    *)
(* which the router need not be told.                                         *)
NetworkEnds(t) ==
  /\ Running(t)
  /\ phase' = [phase EXCEPT ![t] = "waiting"]
  /\ events' = Append(events, [type |-> "Disconnect", task |-> t])
  /\ UNCHANGED <<connect, will_rx, handlers, poisoned, router, failed>>

RouterDrops(t) ==
  /\ Running(t) /\ t \notin connections
  /\ phase' = [phase EXCEPT ![t] = "waiting"]
  /\ UNCHANGED <<connect, will_rx, handlers, poisoned, events, router, failed>>

(* The client is back before the delay has passed. *)
Told(t) ==
  /\ phase[t] = "waiting" /\ will_rx[t] # None /\ ~Blocked(Listener(t))
  /\ phase' = [phase EXCEPT ![t] = "done"]
  /\ events' = IF will_rx[t] = "Cancel" THEN events
               ELSE Append(events, [type |-> "PublishWill", client |-> Client(t)])
  /\ UNCHANGED <<connect, will_rx, handlers, poisoned, router, failed>>

(* Slip: the channel stays in the map. *)
SlipDelayPassed(t) ==
  /\ phase[t] = "waiting" /\ will_rx[t] = None /\ ~Blocked(Listener(t))
  /\ phase' = [phase EXCEPT ![t] = "done"]
  /\ events' = IF Listener(t) \in poisoned THEN events
               ELSE Append(events, [type |-> "PublishWill", client |-> Client(t)])
  /\ UNCHANGED <<connect, will_rx, handlers, poisoned, router, failed>>

(* The delay has passed: the channel leaves the map.  The lock may be         *)
(* poisoned, and the will is lost.                                            *)
DelayPassed(t) ==
  /\ phase[t] = "waiting" /\ will_rx[t] = None /\ ~Blocked(Listener(t))
  /\ phase' = [phase EXCEPT ![t] = "done"]
  /\ IF Listener(t) \in poisoned THEN UNCHANGED <<handlers, events>>
     ELSE /\ handlers' = [handlers EXCEPT ![Listener(t)][Client(t)] = None]
          /\ events' = Append(events, [type |-> "PublishWill", client |-> Client(t)])
  /\ UNCHANGED <<connect, will_rx, poisoned, router, failed>>

-----------------------------------------------------------------------------
(* The router takes one event after the other. *)

Happens(type) == events # <<>> /\ Head(events).type = type

(* Slip: one connection too many. *)
SlipFull(others) == Cardinality(others) > MaxConnections

Full(others) == Cardinality(others) >= MaxConnections

(* An earlier connection of the client goes even if this one is refused. *)
HandleConnect ==
  /\ Happens("Connect")
  /\ LET t      == Head(events).task
         c      == Client(t)
         others == {u \in connections : Client(u) # c}
     IN  \/ /\ c \notin InvalidIds /\ ~Full(others)
            /\ connections' = others \cup {t}
            /\ last_wills' = IF connect[t].will THEN [last_wills EXCEPT ![c] = t] ELSE last_wills
            /\ phase' = [phase EXCEPT ![t] = "writing"]
            /\ UNCHANGED failed
         \/ /\ c \in InvalidIds \/ Full(others)
            /\ connections' = IF c \in InvalidIds THEN connections ELSE others
            /\ phase' = [phase EXCEPT ![t] = "done"]
            /\ failed' = failed \cup {t}
            /\ UNCHANGED last_wills
  /\ events' = Tail(events)
  /\ UNCHANGED <<connect, will_rx, handlers, poisoned, published>>

HandleDisconnect ==
  /\ Happens("Disconnect")
  /\ connections' = connections \ {Head(events).task}
  /\ events' = Tail(events)
  /\ UNCHANGED <<phase, connect, will_rx, handlers, poisoned, last_wills, published, failed>>

(* A DISCONNECT packet takes the client's will with it. *)
HandleGoodbye ==
  /\ Happens("DeviceData")
  /\ LET t == Head(events).task
     IN  /\ connections' = connections \ {t}
         /\ last_wills' = IF t \in connections THEN [last_wills EXCEPT ![Client(t)] = None]
                          ELSE last_wills
  /\ events' = Tail(events)
  /\ UNCHANGED <<phase, connect, will_rx, handlers, poisoned, published, failed>>

(* handle_last_will: whoever's will it is that the router has for the client. *)
HandlePublishWill ==
  /\ Happens("PublishWill")
  /\ LET c == Head(events).client
     IN  /\ published' = published \cup ({last_wills[c]} \ {None})
         /\ last_wills' = [last_wills EXCEPT ![c] = None]
  /\ events' = Tail(events)
  /\ UNCHANGED <<phase, connect, will_rx, handlers, poisoned, connections, failed>>

Router == HandleConnect \/ HandleDisconnect \/ HandleGoodbye \/ HandlePublishWill

Next ==
  \/ \E t \in Tasks :
       \/ \E p \in Connects : Accept(t, p) \/ Panic(t, p) \/ Decline(t, p)
       \/ Established(t) \/ NewFails(t)
       \/ SayGoodbye(t) \/ NetworkEnds(t) \/ RouterDrops(t)
       \/ Told(t) \/ DelayPassed(t)
  \/ Router

Spec == Init /\ [][Next]_vars

(* The router handles its events and a task that can go on does; nothing      *)
(* says that a client comes, leaves or goes away.                             *)
FairSpec ==
  /\ Spec /\ WF_vars(Router)
  /\ \A t \in Tasks : 
       WF_vars(\/ Established(t) \/ NewFails(t)
               \/ RouterDrops(t) \/ Told(t) \/ DelayPassed(t))

-----------------------------------------------------------------------------
(* Type correctness, with the router's limit (routing.rs:296).               *)
TypeOK ==
  /\ phase \in [Tasks -> Phases]
  /\ connect \in [Tasks -> Connects \cup {None}]
  /\ \A t \in Tasks : phase[t] \notin {"free", "done"} => connect[t] # None
  /\ will_rx \in [Tasks -> {None, "Fire", "Cancel"}]
  /\ handlers \in [Listeners -> [Clients -> Tasks \cup {None}]]
  /\ poisoned \subseteq Listeners
  /\ events \in Seq(Events)
  /\ connections \subseteq Tasks /\ last_wills \in [Clients -> Tasks \cup {None}]
  /\ failed \subseteq Tasks /\ published \subseteq Tasks
  /\ \A t \in connections \cup failed : connect[t] # None
  /\ IsFiniteSet(connections) /\ Cardinality(connections) <= MaxConnections

(***************************************************************************)
(* The map and the channels agree (broker.rs:543-556 and 606-623): every    *)
(* channel in the map leads to its client's task, which still receives      *)
(* unless RemoteLink::new failed; a task's channel leaves the map with a    *)
(* message, so that none waits for a sender that is gone, which would lose   *)
(* its will; and only such a failure makes a map unusable.                  *)
(***************************************************************************)
HandlersSound ==
  /\ \A l \in Listeners, c \in Clients, t \in Tasks : handlers[l][c] = t =>
       /\ Receiving(t) \/ t \in failed \/ l \in poisoned
       /\ will_rx[t] = None
       /\ connect[t] # None /\ Listener(t) = l /\ Client(t) = c
  /\ \A t \in Tasks : Receiving(t) /\ will_rx[t] = None => handlers[Listener(t)][Client(t)] = t
  /\ \A l \in poisoned : \E t \in failed : Listener(t) = l

(***************************************************************************)
(* The will of a connection the router has is published only if its         *)
(* client came back with a clean session, or through another listener,      *)
(* whose map does not know of the first (broker.rs:543-550, 622-632): the    *)
(* router's map holds one will per client, whosever it is.                  *)
(***************************************************************************)
WillTaken ==
  [][\A t \in published' \ published :
       \/ t \notin connections
       \/ connect[t].clean
       \/ \E u \in Tasks \ {t} :
            connect[u] # None /\ Client(u) = Client(t)
            /\ (Listener(u) # Listener(t) \/ connect[u].clean)]_published

(***************************************************************************)
(* When the last task of a client is done, the router has no will of it      *)
(* left, unless a connection to one of the listeners failed in              *)
(* RemoteLink::new (broker.rs:543-632, routing.rs:874-881, 1100-1110).        *)
(***************************************************************************)
WillsSettle ==
  \A c \in Clients :
    []<>(\/ last_wills[c] = None
         \/ \E t \in Tasks : connect[t] # None /\ Client(t) = c /\ phase[t] # "done"
         \/ failed # {})
=============================================================================
