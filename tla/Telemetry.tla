----------------------------- MODULE Telemetry -----------------------------
(***************************************************************************)
(* TelemetryHandler, the WebSocket route that registers its clients, and   *)
(* the telemetry loop of main.py.                                          *)
(*                                                                         *)
(* Several tasks broadcast at the same time: the read loop and the HTTP    *)
(* requests, whose events are published through the event bus, and the     *)
(* loop that sends snapshots.  A broadcast visits a copy of the client     *)
(* list and may wait in send_json for any client that is slow; meanwhile   *)
(* clients are registered, leave, and are removed by other broadcasts.  An *)
(* action is what one coroutine does between two suspensions.  Which of    *)
(* several waiting coroutines is resumed first is left open.               *)
(***************************************************************************)
EXTENDS Naturals, Sequences, FiniteSets, SequencesExt

CONSTANTS
    Clients,      \* WebSocket objects, each of which connects once at most
    Publishers,   \* tasks that publish events
    Ticker,       \* the task of telemetry_loop
    MaxClients,   \* max_ws_clients
    Rates,        \* values of rate_hz that clients ask for
    MaxEvents,    \* bound: events published
    Idle          \* "no broadcast under way"

ASSUME TickerAssumption == Ticker \notin Publishers
ASSUME MaxClientsAssumption == MaxClients \in Nat
ASSUME RatesAssumption == Rates \subseteq Nat

\* A suspended broadcast: the copied list, the place of the client that it
\* waits for, the clients to be removed at the end, and whether the tick is odd.
Broadcasts ==
    [list : Seq(Clients), at : Nat, toRemove : SUBSET Clients, odd : BOOLEAN]

ASSUME IdleAssumption == Idle \notin Broadcasts

VARIABLES
    clients,     \* _clients
    rate,        \* _rate_by_client
    gauge,       \* ws_clients_connected
    odd,         \* _tick % 2 = 1
    route,       \* where the route of each WebSocket is
    gone,        \* WebSockets whose connection is closed
    broadcast,   \* per task: the local variables of a suspended broadcast
    sent,        \* per publisher: how many events it has published
    late,        \* history: clients whose accept() made their route wait
    joined,      \* history: per connected client, sent when it was registered
    got          \* history: per connected client and publisher, the events sent to it

registry == <<clients, rate, gauge>>
history == <<late, joined, got>>
vars == <<registry, odd, route, gone, broadcast, sent, history>>

Tasks == Publishers \cup {Ticker}

\* Nothing has been sent to a client.
Nothing == [p \in Publishers |-> <<>>]

-----------------------------------------------------------------------------
Init ==
    /\ clients = <<>> /\ rate = <<>> /\ gauge = 0
    /\ odd = FALSE
    /\ route = [c \in Clients |-> "new"]
    /\ gone = {}
    /\ broadcast = [t \in Tasks |-> Idle]
    /\ sent = [p \in Publishers |-> 0]
    /\ late = {}
    /\ joined = [c \in Clients |-> sent]
    /\ got = [c \in Clients |-> Nothing]

-----------------------------------------------------------------------------
(* The registry *)

\* Mutant of Admitted: the capacity is off by one.
AdmittedOneMore(r) == Len(clients) <= MaxClients /\ r \in {1, 2}

\* connect() accepts a client.
Admitted(r) == Len(clients) < MaxClients /\ r \in {1, 2}

\* connect() after accept().
Register(c, r) ==
    /\ route' = [route EXCEPT ![c] = "serving"]
    /\ clients' = Append(clients, c)
    /\ rate' = [d \in DOMAIN rate \cup {c} |-> IF d = c THEN r ELSE rate[d]]
    /\ gauge' = Len(clients')
    /\ joined' = [joined EXCEPT ![c] = sent]

\* The clients of S are removed from the list, which the others stay in in order.
RemoveFromList(S) ==
    LET staying == {i \in DOMAIN clients : clients[i] \notin S}
    IN  \E order \in Surjection(1 .. Cardinality(staying), staying) :
          /\ \A i, j \in DOMAIN order : i < j => order[i] < order[j]
          /\ clients' = [i \in DOMAIN order |-> clients[order[i]]]

\* Mutant of Unregister: the gauge counts calls of disconnect().
UnregisterCountingCalls(S) ==
    /\ RemoveFromList(S)
    /\ rate' = [c \in DOMAIN rate \ S |-> rate[c]]
    /\ gauge' = IF gauge >= Cardinality(S) THEN gauge - Cardinality(S) ELSE 0

\* disconnect() of each of S, which may have been removed before.
Unregister(S) ==
    /\ RemoveFromList(S)
    /\ rate' = [c \in DOMAIN rate \ S |-> rate[c]]
    /\ gauge' = Len(clients')

-----------------------------------------------------------------------------
(* The route *)

\* The connection of c is closed; its history is of no interest any more.
Closed(c) ==
    /\ gone' = gone \cup {c}
    /\ joined' = [joined EXCEPT ![c] = [p \in Publishers |-> 0]]
    /\ got' = [got EXCEPT ![c] = Nothing]

\* The request is refused: the socket is closed.
Refuse(c) ==
    /\ route[c] = "new"
    /\ \E r \in Rates : ~Admitted(r)
    /\ route' = [route EXCEPT ![c] = "ended"]
    /\ Closed(c)
    /\ UNCHANGED <<registry, odd, broadcast, sent, late>>

\* accept() returns at once.
Connect(c) ==
    /\ route[c] = "new"
    /\ \E r \in Rates : Admitted(r) /\ Register(c, r)
    /\ UNCHANGED <<odd, gone, broadcast, sent, late, got>>

\* accept() waits for its transport; the check of the capacity is behind it.
\* (The rate is drawn when it is used.)
AcceptWaits(c) ==
    /\ route[c] = "new"
    /\ \E r \in Rates : Admitted(r)
    /\ route' = [route EXCEPT ![c] = "accepting"]
    /\ late' = late \cup {c}
    /\ UNCHANGED <<registry, odd, gone, broadcast, sent, joined, got>>

Accepted(c) ==
    /\ route[c] = "accepting"
    /\ \E r \in Rates \cap {1, 2} : Register(c, r)
    /\ UNCHANGED <<odd, gone, broadcast, sent, late, got>>

\* accept() raises: nothing has been registered.
AcceptFails(c) ==
    /\ route[c] = "accepting" /\ c \in gone
    /\ route' = [route EXCEPT ![c] = "ended"]
    /\ UNCHANGED <<registry, odd, gone, broadcast, sent, history>>

\* receive_text() raises WebSocketDisconnect.
Disconnected(c) ==
    /\ route[c] = "serving" /\ c \in gone
    /\ route' = [route EXCEPT ![c] = "ended"]
    /\ Unregister({c})
    /\ UNCHANGED <<odd, gone, broadcast, sent, history>>

\* receive_text() raises anything else, as for a binary frame: the route ends
\* and the server closes the connection, but nobody calls disconnect().
RouteFails(c) ==
    /\ route[c] = "serving"
    /\ route' = [route EXCEPT ![c] = "ended"]
    /\ Closed(c)
    /\ UNCHANGED <<registry, odd, broadcast, sent, late>>

\* The other end, or the server's ping timeout, closes the connection.
Leave(c) ==
    /\ route[c] \in {"accepting", "serving"} /\ c \notin gone
    /\ Closed(c)
    /\ UNCHANGED <<registry, odd, route, broadcast, sent, late>>

-----------------------------------------------------------------------------
(* Broadcasts *)

\* Mutant of Copied: the loop runs over the list itself.
CopiedNot(b) == clients

\* The list a broadcast iterates over.
Copied(b) == b.list

\* A snapshot on an odd tick skips the clients of rate 1, the default.
Due(b, c) == b.odd => c \in DOMAIN rate /\ rate[c] # 1

\* Mutant of Failed: an exception of send_json is ignored.
FailedIgnored(b, visited) == {}

\* The clients visited that are not connected any more, or whose send_json raises.
Failed(b, visited) == {c \in visited \cap gone : Due(b, c)}

\* send_json writes the event of t to the clients visited.
Deliver(t, visited) ==
    got' = [c \in Clients |-> [p \in Publishers |->
              IF p = t /\ c \in visited \ gone
              THEN Append(got[c][p], sent'[p]) ELSE got[c][p]]]

\* The broadcast b of t goes on behind b.at, to a client that makes it wait or
\* to its end, where it removes the clients that have failed.
Proceed(t, b) ==
    LET list == Copied(b)
        Visited(k) == {list[i] : i \in b.at + 1 .. k}
    IN  \/ \E k \in b.at + 1 .. Len(list) :
             /\ Due(b, list[k]) /\ list[k] \notin gone
             /\ broadcast' = [broadcast EXCEPT ![t] =
                  [b EXCEPT !.at = k, !.toRemove = @ \cup Failed(b, Visited(k))]]
             /\ UNCHANGED registry
             /\ Deliver(t, Visited(k))
        \/ /\ broadcast' = [broadcast EXCEPT ![t] = Idle]
           /\ Deliver(t, Visited(Len(list)))
           /\ Unregister(b.toRemove \cup Failed(b, Visited(Len(list))))

NewBroadcast(isOdd) == [list |-> clients, at |-> 0, toRemove |-> {}, odd |-> isOdd]

\* publish_event()
PublishEvent(p) ==
    /\ broadcast[p] = Idle /\ SumFunction(sent) < MaxEvents
    /\ sent' = [sent EXCEPT ![p] = @ + 1]
    /\ Proceed(p, NewBroadcast(FALSE))
    /\ UNCHANGED <<odd, route, gone, late, joined>>

\* broadcast_snapshot(), which returns at once if there are no clients.
BroadcastSnapshot ==
    /\ broadcast[Ticker] = Idle /\ clients # <<>>
    /\ odd' = ~odd
    /\ UNCHANGED <<route, gone, sent, late, joined>>
    /\ Proceed(Ticker, NewBroadcast(odd'))

\* A waiting send_json ends: the frame is accepted, or the connection is closed
\* and it raises.
Resume(t) ==
    /\ broadcast[t] # Idle
    /\ UNCHANGED <<odd, route, gone, sent, late, joined>>
    /\ LET b == broadcast[t]
       IN  Proceed(t, [b EXCEPT !.toRemove = @ \cup ({b.list[b.at]} \cap gone)])

Next ==
    \/ \E c \in Clients :
         \/ Refuse(c) \/ Connect(c) \/ AcceptWaits(c) \/ Accepted(c) \/ AcceptFails(c)
         \/ Disconnected(c) \/ RouteFails(c) \/ Leave(c)
    \/ \E p \in Publishers : PublishEvent(p)
    \/ BroadcastSnapshot
    \/ \E t \in Tasks : Resume(t)

\* A send_json that waits ends, and the telemetry loop wakes from its sleep.
Fairness ==
    /\ WF_vars(BroadcastSnapshot)
    /\ \A t \in Tasks : WF_vars(Resume(t))

Spec == Init /\ [][Next]_vars /\ Fairness

-----------------------------------------------------------------------------
(* Properties *)

Registered == ToSet(clients)

\* The types.
TypeOK ==
    /\ clients \in Seq(Clients) /\ rate \in [Registered -> {1, 2}]
    /\ gauge \in Nat /\ odd \in BOOLEAN
    /\ route \in [Clients -> {"new", "accepting", "serving", "ended"}]
    /\ gone \subseteq Clients /\ late \subseteq Clients
    /\ broadcast \in [Tasks -> Broadcasts \cup {Idle}]
    /\ sent \in [Publishers -> Nat]
    /\ joined \in [Clients -> [Publishers -> Nat]]
    /\ got \in [Clients -> [Publishers -> Seq(Nat)]]

\* The client list, the rates and the gauge tell the same story, however often
\* one client is removed: by its route and by every broadcast that met it dead.
RegistryAgrees ==
    /\ IsInjective(clients)
    /\ DOMAIN rate = Registered
    /\ gauge = Len(clients)

\* max_ws_clients holds, except for clients whose accept() made their route wait
\* between the check of the capacity and the registration: each of them may
\* exceed it by one.
CapacityExceededByLateOnly ==
    Len(clients) <= MaxClients + Cardinality(Registered \cap late)

\* A client that is connected gets every event published since it was
\* registered, each once and each publisher's in order, whoever else comes,
\* leaves, fails or is slow in the meantime; only the event of a broadcast that
\* has not come to it yet may be missing.
EventsInFull ==
    \A c \in Registered \ gone, p \in Publishers :
        LET b == broadcast[p]
            pending == b # Idle /\ \E i \in b.at + 1 .. Len(b.list) : b.list[i] = c
            due == sent[p] - joined[c][p] - (IF pending THEN 1 ELSE 0)
        IN  got[c][p] = [i \in 1 .. due |-> joined[c][p] + i]

\* A client whose connection is closed leaves the registry, even if its route
\* ended without calling disconnect(): a later snapshot fails on it.
GoneIsForgotten ==
    \A c \in Clients : c \in gone ~> c \notin Registered
=============================================================================
