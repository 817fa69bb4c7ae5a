--------------------------- MODULE TelemetryProofs ---------------------------
(***************************************************************************)
(* Theorems about Telemetry, for any number of clients and publishers, any *)
(* capacity, and any interleaving of broadcasts with clients that come,    *)
(* leave and fail.                                                         *)
(***************************************************************************)
EXTENDS Telemetry, FiniteSetTheorems, TLAPS

\* What a broadcast that is suspended has copied is a list of clients that were
\* registered once, each there once; it waits for one of them.
Copies ==
    \A t \in Tasks : broadcast[t] # Idle =>
        /\ IsInjective(broadcast[t].list)
        /\ broadcast[t].at \in DOMAIN broadcast[t].list
        /\ \A i \in DOMAIN broadcast[t].list :
             route[broadcast[t].list[i]] \in {"serving", "ended"}
        /\ t \in Publishers => ~broadcast[t].odd

\* Only who has got through accept() is in the registry, and whoever is not has
\* been sent nothing; a route that waits in accept() is known to be late.
Admission ==
    /\ \A c \in Registered : route[c] \in {"serving", "ended"}
    /\ \A c \in Clients : route[c] \in {"new", "accepting"} => got[c] = Nothing
    /\ \A c \in Clients : route[c] = "accepting" => c \in late

\* Who is registered without having made accept() wait fits the capacity.
Capacity ==
    /\ IsFiniteSet(Registered)
    /\ Cardinality(Registered \ late) <= MaxClients

\* The broadcast b has not come to c yet.
Ahead(b, c) == \E i \in b.at + 1 .. Len(b.list) : b.list[i] = c

\* How many events of p the client c must have got.
Owed(c, p) == sent[p] - joined[c][p]
                - (IF broadcast[p] # Idle /\ Ahead(broadcast[p], c) THEN 1 ELSE 0)

\* EventsInFull, with the numbers known to make sense.
Served ==
    \A c \in Registered \ gone, p \in Publishers :
        /\ Owed(c, p) \in Nat
        /\ got[c][p] = [i \in 1 .. Owed(c, p) |-> joined[c][p] + i]

TelemetryInv == RegistryAgrees /\ Copies /\ Admission

-----------------------------------------------------------------------------
(* The list of clients *)

\* Who is left in the list when the clients of S are removed.
LEMMA Removed ==
    ASSUME TypeOK, IsInjective(clients), NEW S, RemoveFromList(S)
    PROVE  /\ clients' \in Seq(Clients)
           /\ IsInjective(clients')
           /\ Registered' = Registered \ S
<1> DEFINE staying == {i \in DOMAIN clients : clients[i] \notin S}
<1>1. clients \in Seq(Clients) /\ DOMAIN clients = 1 .. Len(clients) /\ Len(clients) \in Nat
  BY DEF TypeOK
<1>2. IsFiniteSet(staying) /\ Cardinality(staying) \in Nat
  <2>1. IsFiniteSet(1 .. Len(clients))
    BY <1>1, FS_Interval
  <2>2. staying \in SUBSET (1 .. Len(clients))
    BY <1>1
  <2>3. QED
    BY <2>1, <2>2, FS_Subset, FS_CardinalityType
<1>3. PICK order \in Surjection(1 .. Cardinality(staying), staying) :
          /\ \A i, j \in DOMAIN order : i < j => order[i] < order[j]
          /\ clients' = [i \in DOMAIN order |-> clients[order[i]]]
  BY DEF RemoveFromList
<1> DEFINE n == Cardinality(staying)
<1>4. /\ order \in [1 .. n -> staying]
      /\ DOMAIN order = 1 .. n
      /\ \A i \in staying : \E k \in 1 .. n : order[k] = i
  BY <1>3 DEF Surjection
<1>5. \A i \in staying : i \in DOMAIN clients /\ i \in Nat /\ clients[i] \in Clients /\ clients[i] \notin S
  BY <1>1
<1>6. n \in Nat
  BY <1>2
<1> HIDE DEF staying, n
<1>7. clients' \in [1 .. n -> Clients]
  BY <1>3, <1>4, <1>5
<1>8. clients' \in Seq(Clients)
  BY <1>6, <1>7
<1>9. ASSUME NEW i \in DOMAIN clients', NEW j \in DOMAIN clients', clients'[i] = clients'[j]
      PROVE  i = j
  <2>1. i \in 1 .. n /\ j \in 1 .. n
    BY <1>7
  <2>2. order[i] \in staying /\ order[j] \in staying /\ clients[order[i]] = clients[order[j]]
    BY <1>3, <1>4, <1>9, <2>1
  <2>3. order[i] = order[j]
    BY <1>5, <2>2 DEF IsInjective
  <2>4. order[i] \in Nat
    BY <1>5, <2>2
  <2>5. i < j => order[i] < order[j]
    BY <1>3, <1>4, <2>1
  <2>6. j < i => order[j] < order[i]
    BY <1>3, <1>4, <2>1
  <2>7. QED
    BY <1>6, <2>1, <2>3, <2>4, <2>5, <2>6
<1>10. Registered' = {clients'[k] : k \in DOMAIN clients'}
  BY DEF Registered, ToSet
<1>11. Registered = {clients[i] : i \in DOMAIN clients}
  BY DEF Registered, ToSet
<1>12. ASSUME NEW c
       PROVE  c \in Registered' <=> c \in Registered /\ c \notin S
  <2>1. ASSUME c \in Registered'
        PROVE  c \in Registered /\ c \notin S
    <3>1. PICK k \in DOMAIN clients' : c = clients'[k]
      BY <1>10, <2>1
    <3>2. k \in 1 .. n /\ c = clients[order[k]]
      BY <1>3, <1>7, <1>4, <3>1
    <3>3. order[k] \in staying
      BY <1>4, <3>2
    <3>4. QED
      BY <1>5, <1>11, <3>2, <3>3
  <2>2. ASSUME c \in Registered, c \notin S
        PROVE  c \in Registered'
    <3>1. PICK i \in DOMAIN clients : c = clients[i]
      BY <1>11, <2>2
    <3>2. i \in staying
      BY <2>2, <3>1 DEF staying
    <3>3. PICK k \in 1 .. n : order[k] = i
      BY <1>4, <3>2
    <3>4. k \in DOMAIN clients' /\ clients'[k] = c
      BY <1>3, <1>4, <3>1, <3>3
    <3>5. QED
      BY <1>10, <3>4
  <2>3. QED
    BY <2>1, <2>2
<1>13. QED
  BY <1>8, <1>9, <1>12 DEF IsInjective

\* The registry has nothing but clients in it.
LEMMA RegisteredType ==
    ASSUME TypeOK
    PROVE  Registered \subseteq Clients
<1>1. clients \in Seq(Clients)
  BY DEF TypeOK
<1>2. QED
  BY <1>1 DEF Registered, ToSet

\* As many clients are registered as the list is long.
LEMMA ListSize ==
    ASSUME TypeOK, IsInjective(clients)
    PROVE  IsFiniteSet(Registered) /\ Cardinality(Registered) = Len(clients)
<1>1. clients \in Seq(Clients) /\ DOMAIN clients = 1 .. Len(clients) /\ Len(clients) \in Nat
  BY DEF TypeOK
<1>2. Registered = {clients[i] : i \in DOMAIN clients}
  BY DEF Registered, ToSet
<1>3. clients \in [1 .. Len(clients) -> Registered]
  BY <1>1, <1>2
<1>4. clients \in Bijection(1 .. Len(clients), Registered)
  BY <1>1, <1>2, <1>3 DEF Bijection, Injection, Surjection
<1>5. ExistsBijection(1 .. Len(clients), Registered)
  BY <1>4 DEF ExistsBijection
<1>6. IsFiniteSet(1 .. Len(clients)) /\ Cardinality(1 .. Len(clients)) = Len(clients)
  <2>1. PICK n \in Nat : n = Len(clients)
    BY <1>1
  <2>2. IsFiniteSet(1 .. n) /\ Cardinality(1 .. n) = n
    BY FS_Interval
  <2>3. QED
    BY <2>1, <2>2
<1>7. QED
  BY <1>5, <1>6, FS_Bijection

\* What connect() does to the list and the rates.
LEMMA Registering ==
    ASSUME TypeOK, RegistryAgrees, NEW c \in Clients, c \notin Registered,
           NEW r \in {1, 2}, Register(c, r)
    PROVE  /\ clients' \in Seq(Clients)
           /\ Registered' = Registered \cup {c}
           /\ rate' \in [Registered' -> {1, 2}]
           /\ RegistryAgrees'
           /\ gauge' \in Nat
<1>1. /\ clients' = Append(clients, c)
      /\ rate' = [d \in DOMAIN rate \cup {c} |-> IF d = c THEN r ELSE rate[d]]
      /\ gauge' = Len(clients')
  BY DEF Register
<1>2. clients \in Seq(Clients) /\ DOMAIN clients = 1 .. Len(clients) /\ Len(clients) \in Nat
  BY DEF TypeOK
<1>3. /\ clients' \in Seq(Clients)
      /\ DOMAIN clients' = 1 .. Len(clients) + 1
      /\ \A i \in 1 .. Len(clients) : clients'[i] = clients[i]
      /\ clients'[Len(clients) + 1] = c
      /\ Len(clients') = Len(clients) + 1
  BY <1>1, <1>2
<1>4. /\ Registered' = {clients'[i] : i \in DOMAIN clients'}
      /\ Registered = {clients[i] : i \in DOMAIN clients}
  BY DEF Registered, ToSet
<1>5. \A i \in DOMAIN clients' : i \in DOMAIN clients \/ i = Len(clients) + 1
  BY <1>2, <1>3
<1>6. DOMAIN clients \subseteq DOMAIN clients' /\ Len(clients) + 1 \in DOMAIN clients'
  BY <1>2, <1>3
<1>7. Registered' = Registered \cup {c}
  BY <1>2, <1>3, <1>4, <1>5, <1>6
<1>8. \A i \in DOMAIN clients : clients[i] # c
  BY <1>4
<1>9. IsInjective(clients')
  <2>1. \A i, j \in DOMAIN clients : clients[i] = clients[j] => i = j
    BY DEF RegistryAgrees, IsInjective
  <2>2. QED
    BY <1>2, <1>3, <1>5, <1>8, <2>1 DEF IsInjective
<1>10. DOMAIN rate = Registered /\ \A d \in Registered : rate[d] \in {1, 2}
  BY DEF TypeOK
<1>11. DOMAIN rate' = Registered'
  BY <1>1, <1>7, <1>10
<1>12. rate' \in [Registered' -> {1, 2}]
  BY <1>1, <1>7, <1>10
<1>13. QED
  BY <1>1, <1>2, <1>3, <1>7, <1>9, <1>11, <1>12 DEF RegistryAgrees

\* What disconnect() does to the list and the rates.
LEMMA Unregistering ==
    ASSUME TypeOK, RegistryAgrees, NEW S, Unregister(S)
    PROVE  /\ clients' \in Seq(Clients)
           /\ Registered' = Registered \ S
           /\ rate' \in [Registered' -> {1, 2}]
           /\ RegistryAgrees'
           /\ gauge' \in Nat
<1>1. /\ RemoveFromList(S)
      /\ rate' = [c \in DOMAIN rate \ S |-> rate[c]]
      /\ gauge' = Len(clients')
  BY DEF Unregister
<1>2. /\ clients' \in Seq(Clients)
      /\ IsInjective(clients')
      /\ Registered' = Registered \ S
  BY <1>1, Removed DEF RegistryAgrees
<1>3. DOMAIN rate = Registered /\ \A d \in Registered : rate[d] \in {1, 2}
  BY DEF TypeOK
<1>4. DOMAIN rate' = Registered'
  BY <1>1, <1>2, <1>3
<1>5. rate' \in [Registered' -> {1, 2}]
  BY <1>1, <1>2, <1>3
<1>6. Len(clients') \in Nat
  BY <1>2
<1>7. QED
  BY <1>1, <1>2, <1>4, <1>5, <1>6 DEF RegistryAgrees

-----------------------------------------------------------------------------
(* The steps of a route *)

\* A step that leaves the registry and the broadcasts alone, lets nobody back
\* in front of accept(), and forgets only the history of closed connections.
LEMMA RouteStep ==
    ASSUME TypeOK, TelemetryInv, Served,
           UNCHANGED <<registry, odd, broadcast, sent>>,
           route' \in [Clients -> {"new", "accepting", "serving", "ended"}],
           \A d \in Clients : route[d] \in {"serving", "ended"}
                                => route'[d] \in {"serving", "ended"},
           gone \subseteq gone', gone' \subseteq Clients,
           late \subseteq late', late' \subseteq Clients,
           \A d \in Clients : route'[d] = "accepting" => d \in late',
           joined' \in [Clients -> [Publishers -> Nat]],
           got' \in [Clients -> [Publishers -> Seq(Nat)]],
           \A d \in Clients : got'[d] \in {got[d], Nothing},
           \A d \in Clients \ gone' : joined'[d] = joined[d] /\ got'[d] = got[d]
    PROVE  TypeOK' /\ TelemetryInv' /\ Served'
<1>1. Registered' = Registered /\ Registered \subseteq Clients
  <2>1. clients' = clients /\ clients \in Seq(Clients)
    BY DEF TypeOK, registry
  <2>2. QED
    BY <2>1 DEF Registered, ToSet
<1>2. TypeOK'
  BY <1>1 DEF TypeOK, registry
<1>3. RegistryAgrees'
  BY <1>1 DEF TelemetryInv, RegistryAgrees, registry
<1>4. Copies'
  <2>1. ASSUME NEW t \in Tasks, broadcast[t] # Idle, NEW i \in DOMAIN broadcast[t].list
        PROVE  broadcast[t].list[i] \in Clients
    BY <2>1 DEF TypeOK, Broadcasts
  <2>2. QED
    BY <2>1 DEF TelemetryInv, Copies
<1>5. Admission'
  BY <1>1 DEF TelemetryInv, Admission, TypeOK
<1>6. ASSUME NEW c \in Registered \ gone', NEW p \in Publishers
      PROVE  Owed(c, p)' = Owed(c, p) /\ joined'[c] = joined[c] /\ got'[c] = got[c]
  BY <1>1, <1>6 DEF Owed, Ahead
<1>7. Served'
  <2> SUFFICES ASSUME NEW c \in Registered' \ gone', NEW p \in Publishers
               PROVE  /\ Owed(c, p)' \in Nat
                      /\ got'[c][p] = [i \in 1 .. Owed(c, p)' |-> joined'[c][p] + i]
    BY DEF Served
  <2>1. c \in Registered \ gone /\ c \in Registered \ gone'
    BY <1>1
  <2>2. /\ Owed(c, p) \in Nat
        /\ got[c][p] = [i \in 1 .. Owed(c, p) |-> joined[c][p] + i]
    BY <2>1 DEF Served
  <2>3. Owed(c, p)' = Owed(c, p) /\ joined'[c] = joined[c] /\ got'[c] = got[c]
    BY <1>6, <2>1
  <2>4. QED
    BY <2>2, <2>3
<1>8. QED
  BY <1>2, <1>3, <1>4, <1>5, <1>7 DEF TelemetryInv

\* Closed(c) keeps the types and forgets the history of c only.
LEMMA Closing ==
    ASSUME TypeOK, NEW c \in Clients, Closed(c)
    PROVE  /\ gone \subseteq gone' /\ gone' \subseteq Clients
           /\ joined' \in [Clients -> [Publishers -> Nat]]
           /\ got' \in [Clients -> [Publishers -> Seq(Nat)]]
           /\ \A d \in Clients : got'[d] \in {got[d], Nothing}
           /\ \A d \in Clients \ gone' : joined'[d] = joined[d] /\ got'[d] = got[d]
<1>1. /\ gone' = gone \cup {c}
      /\ joined' = [joined EXCEPT ![c] = [p \in Publishers |-> 0]]
      /\ got' = [got EXCEPT ![c] = Nothing]
  BY DEF Closed
<1>2. Nothing \in [Publishers -> Seq(Nat)]
  BY DEF Nothing
<1>3. [p \in Publishers |-> 0] \in [Publishers -> Nat]
  OBVIOUS
<1>4. QED
  BY <1>1, <1>2, <1>3 DEF TypeOK

\* Whoever is registered now was not before accept() returned; what was sent
\* before does not count.
LEMMA RegisterStep ==
    ASSUME TypeOK, TelemetryInv, Served,
           NEW c \in Clients, route[c] \in {"new", "accepting"},
           NEW r \in {1, 2}, Register(c, r),
           UNCHANGED <<odd, gone, broadcast, sent, late, got>>
    PROVE  TypeOK' /\ TelemetryInv' /\ Served'
<1>1. c \notin Registered
  BY DEF TelemetryInv, Admission
<1>2. /\ clients' \in Seq(Clients)
      /\ Registered' = Registered \cup {c}
      /\ rate' \in [Registered' -> {1, 2}]
      /\ RegistryAgrees'
      /\ gauge' \in Nat
  BY <1>1, Registering DEF TelemetryInv
<1>3. /\ route' = [route EXCEPT ![c] = "serving"]
      /\ joined' = [joined EXCEPT ![c] = sent]
  BY DEF Register
<1>4. TypeOK'
  BY <1>2, <1>3 DEF TypeOK
<1>5. ASSUME NEW t \in Tasks, broadcast[t] # Idle, NEW i \in DOMAIN broadcast[t].list
      PROVE  /\ broadcast[t].list[i] \in Clients
             /\ broadcast[t].list[i] # c
  <2>1. broadcast[t] \in Broadcasts
    BY <1>5 DEF TypeOK
  <2>2. broadcast[t].list[i] \in Clients
    BY <1>5, <2>1 DEF Broadcasts
  <2>3. route[broadcast[t].list[i]] \in {"serving", "ended"}
    BY <1>5 DEF TelemetryInv, Copies
  <2>4. QED
    BY <2>2, <2>3
<1>6. Copies'
  BY <1>3, <1>5 DEF TelemetryInv, Copies, TypeOK
<1>7. Admission'
  BY <1>2, <1>3 DEF TelemetryInv, Admission, TypeOK
<1>8. Served'
  <2> SUFFICES ASSUME NEW d \in Registered' \ gone', NEW p \in Publishers
               PROVE  /\ Owed(d, p)' \in Nat
                      /\ got'[d][p] = [i \in 1 .. Owed(d, p)' |-> joined'[d][p] + i]
    BY DEF Served
  <2>1. CASE d = c
    <3>1. joined'[c][p] = sent[p] /\ sent[p] \in Nat
      BY <1>3 DEF TypeOK
    <3>2. ASSUME broadcast[p] # Idle
          PROVE  ~Ahead(broadcast[p], c)
      <4>1. p \in Tasks
        BY DEF Tasks
      <4>2. /\ broadcast[p].at \in DOMAIN broadcast[p].list
            /\ broadcast[p].list \in Seq(Clients)
        BY <3>2, <4>1 DEF TelemetryInv, Copies, TypeOK, Broadcasts
      <4>3. \A i \in broadcast[p].at + 1 .. Len(broadcast[p].list) :
              i \in DOMAIN broadcast[p].list
        BY <4>2
      <4>4. QED
        BY <1>5, <3>2, <4>1, <4>3 DEF Ahead
    <3>3. Owed(c, p)' = 0
      BY <3>1, <3>2 DEF Owed, Ahead
    <3>4. got'[c][p] = <<>>
      BY DEF TelemetryInv, Admission, Nothing
    <3>5. [i \in 1 .. 0 |-> joined'[c][p] + i] = <<>>
      OBVIOUS
    <3>6. QED
      BY <2>1, <3>3, <3>4, <3>5
  <2>2. CASE d # c
    <3>1. d \in Registered \ gone /\ d \in Clients
      BY <1>2, <2>2, RegisteredType
    <3>2. /\ Owed(d, p) \in Nat
          /\ got[d][p] = [i \in 1 .. Owed(d, p) |-> joined[d][p] + i]
      BY <3>1 DEF Served
    <3>3. joined'[d] = joined[d]
      BY <1>3, <2>2, <3>1 DEF TypeOK
    <3>4. Owed(d, p)' = Owed(d, p)
      BY <3>3 DEF Owed, Ahead
    <3>5. QED
      BY <3>2, <3>3, <3>4
  <2>3. QED
    BY <2>1, <2>2
<1>9. QED
  BY <1>2, <1>4, <1>6, <1>7, <1>8 DEF TelemetryInv

\* Whoever leaves takes nothing from the others.
LEMMA DisconnectedStep ==
    ASSUME TypeOK, TelemetryInv, Served, NEW c \in Clients, Disconnected(c)
    PROVE  TypeOK' /\ TelemetryInv' /\ Served'
<1>1. /\ route' = [route EXCEPT ![c] = "ended"] /\ route[c] = "serving"
      /\ Unregister({c})
      /\ UNCHANGED <<odd, gone, broadcast, sent, late, joined, got>>
  BY DEF Disconnected, history
<1>2. /\ clients' \in Seq(Clients)
      /\ Registered' = Registered \ {c}
      /\ rate' \in [Registered' -> {1, 2}]
      /\ RegistryAgrees'
      /\ gauge' \in Nat
  BY <1>1, Unregistering DEF TelemetryInv
<1>3. TypeOK'
  BY <1>1, <1>2 DEF TypeOK
<1>4. Copies'
  BY <1>1 DEF TelemetryInv, Copies, TypeOK
<1>5. Admission'
  BY <1>1, <1>2 DEF TelemetryInv, Admission, TypeOK
<1>6. Served'
  BY <1>1, <1>2 DEF Served, Owed, Ahead
<1>7. QED
  BY <1>2, <1>3, <1>4, <1>5, <1>6 DEF TelemetryInv

-----------------------------------------------------------------------------
(* The steps of a broadcast *)

\* The list with the next number at its end.
LEMMA OneMore ==
    ASSUME NEW j \in Nat, NEW n \in Nat
    PROVE  Append([i \in 1 .. n |-> j + i], j + n + 1) = [i \in 1 .. n + 1 |-> j + i]
<1> DEFINE s == [i \in 1 .. n |-> j + i]
           t == [i \in 1 .. n + 1 |-> j + i]
<1>1. s \in Seq(Nat) /\ Len(s) = n
  <2>1. \A i \in 1 .. n : j + i \in Nat
    OBVIOUS
  <2>2. s \in [1 .. n -> Nat]
    BY <2>1
  <2>3. QED
    BY <2>2
<1>2. t \in Seq(Nat) /\ Len(t) = n + 1
  <2>1. \A i \in 1 .. n + 1 : j + i \in Nat
    OBVIOUS
  <2>2. t \in [1 .. n + 1 -> Nat]
    BY <2>1
  <2>3. QED
    BY <2>2
<1>3. \A i \in 1 .. n : s[i] = t[i]
  OBVIOUS
<1>4. t[n + 1] = j + n + 1
  OBVIOUS
<1> HIDE DEF s, t
<1>5. Append(s, j + n + 1) \in Seq(Nat) /\ Len(Append(s, j + n + 1)) = n + 1
  BY <1>1
<1>6. \A i \in 1 .. n + 1 : Append(s, j + n + 1)[i] = t[i]
  BY <1>1, <1>3, <1>4
<1>7. Append(s, j + n + 1) = t
  BY <1>2, <1>5, <1>6
<1>8. QED
  BY <1>7 DEF s, t

\* How far Proceed comes, and whom it writes to on the way.
LEMMA Proceeding ==
    ASSUME TypeOK, NEW t \in Tasks, NEW b \in Broadcasts,
           b.at \in 0 .. Len(b.list), Proceed(t, b)
    PROVE  \E k \in b.at .. Len(b.list) :
             /\ got' = [c \in Clients |-> [p \in Publishers |->
                          IF p = t /\ (\E i \in b.at + 1 .. k : b.list[i] = c) /\ c \notin gone
                          THEN Append(got[c][p], sent'[p]) ELSE got[c][p]]]
             /\ \/ /\ k # b.at
                   /\ \E S \in SUBSET Clients :
                        broadcast' = [broadcast EXCEPT ![t] =
                                       [b EXCEPT !.at = k, !.toRemove = S]]
                   /\ UNCHANGED registry
                \/ /\ k = Len(b.list)
                   /\ broadcast' = [broadcast EXCEPT ![t] = Idle]
                   /\ \E S : Unregister(S)
<1> DEFINE Visited(k) == {b.list[i] : i \in b.at + 1 .. k}
<1>1. b.list \in Seq(Clients) /\ b.at \in Nat /\ b.toRemove \subseteq Clients
  BY DEF Broadcasts
<1>2. gone \subseteq Clients
  BY DEF TypeOK
<1>3. ASSUME NEW k, Deliver(t, Visited(k))
      PROVE  got' = [c \in Clients |-> [p \in Publishers |->
                       IF p = t /\ (\E i \in b.at + 1 .. k : b.list[i] = c) /\ c \notin gone
                       THEN Append(got[c][p], sent'[p]) ELSE got[c][p]]]
  <2>1. \A c : c \in Visited(k) \ gone
                 <=> (\E i \in b.at + 1 .. k : b.list[i] = c) /\ c \notin gone
    OBVIOUS
  <2>2. got' = [c \in Clients |-> [p \in Publishers |->
                  IF p = t /\ c \in Visited(k) \ gone
                  THEN Append(got[c][p], sent'[p]) ELSE got[c][p]]]
    BY <1>3 DEF Deliver
  <2>3. QED
    BY <2>1, <2>2
<1>4. CASE \E k \in b.at + 1 .. Len(b.list) :
             /\ Deliver(t, Visited(k))
             /\ broadcast' = [broadcast EXCEPT ![t] =
                  [b EXCEPT !.at = k, !.toRemove = @ \cup Failed(b, Visited(k))]]
             /\ UNCHANGED registry
  <2>1. PICK k \in b.at + 1 .. Len(b.list) :
             /\ Deliver(t, Visited(k))
             /\ broadcast' = [broadcast EXCEPT ![t] =
                  [b EXCEPT !.at = k, !.toRemove = @ \cup Failed(b, Visited(k))]]
             /\ UNCHANGED registry
    BY <1>4
  <2>2. k \in b.at .. Len(b.list) /\ k # b.at
    BY <1>1, <2>1
  <2>3. Failed(b, Visited(k)) \subseteq Clients
    BY <1>2 DEF Failed
  <2>4. b.toRemove \cup Failed(b, Visited(k)) \in SUBSET Clients
    BY <1>1, <2>3
  <2>5. [b EXCEPT !.at = k, !.toRemove = @ \cup Failed(b, Visited(k))]
          = [b EXCEPT !.at = k, !.toRemove = b.toRemove \cup Failed(b, Visited(k))]
    BY DEF Broadcasts
  <2> HIDE DEF Visited
  <2>6. \E S \in SUBSET Clients :
          broadcast' = [broadcast EXCEPT ![t] = [b EXCEPT !.at = k, !.toRemove = S]]
    BY <2>1, <2>4, <2>5
  <2>7. got' = [c \in Clients |-> [p \in Publishers |->
                  IF p = t /\ (\E i \in b.at + 1 .. k : b.list[i] = c) /\ c \notin gone
                  THEN Append(got[c][p], sent'[p]) ELSE got[c][p]]]
    BY <1>3, <2>1
  <2>8. UNCHANGED registry
    BY <2>1
  <2>9. QED
    BY <2>2, <2>6, <2>7, <2>8
<1>5. CASE /\ broadcast' = [broadcast EXCEPT ![t] = Idle]
           /\ Deliver(t, Visited(Len(b.list)))
           /\ Unregister(b.toRemove \cup Failed(b, Visited(Len(b.list))))
  <2>1. Len(b.list) \in b.at .. Len(b.list)
    BY <1>1
  <2> HIDE DEF Visited
  <2>2. QED
    BY <1>3, <1>5, <2>1
<1>6. QED
  BY <1>4, <1>5 DEF Proceed, Copied

\* A broadcast that proceeds gives every client that it comes to the next number
\* of its publisher, and nobody else anything.
LEMMA BroadcastStep ==
    ASSUME TypeOK, TelemetryInv, Served,
           NEW t \in Tasks, NEW b \in Broadcasts,
           b.at \in 0 .. Len(b.list),
           IsInjective(b.list),
           \A i \in DOMAIN b.list : route[b.list[i]] \in {"serving", "ended"},
           t \in Publishers => ~b.odd,
           odd' \in BOOLEAN,
           sent' \in [Publishers -> Nat],
           \A p \in Publishers : p # t => sent'[p] = sent[p],
           UNCHANGED <<route, gone, late, joined>>,
           t \in Publishers => \A c \in Registered \ gone :
               LET n == sent'[t] - joined[c][t] - (IF Ahead(b, c) THEN 1 ELSE 0)
               IN  n \in Nat /\ got[c][t] = [i \in 1 .. n |-> joined[c][t] + i],
           Proceed(t, b)
    PROVE  TypeOK' /\ TelemetryInv' /\ Served' /\ Registered' \subseteq Registered
<1> DEFINE Reached(c, k) == \E i \in b.at + 1 .. k : b.list[i] = c
<1>1. PICK k \in b.at .. Len(b.list) :
             /\ got' = [c \in Clients |-> [p \in Publishers |->
                          IF p = t /\ Reached(c, k) /\ c \notin gone
                          THEN Append(got[c][p], sent'[p]) ELSE got[c][p]]]
             /\ \/ /\ k # b.at
                   /\ \E S \in SUBSET Clients :
                        broadcast' = [broadcast EXCEPT ![t] =
                                       [b EXCEPT !.at = k, !.toRemove = S]]
                   /\ UNCHANGED registry
                \/ /\ k = Len(b.list)
                   /\ broadcast' = [broadcast EXCEPT ![t] = Idle]
                   /\ \E S : Unregister(S)
  BY Proceeding
<1>2. /\ b.list \in Seq(Clients) /\ Len(b.list) \in Nat
      /\ DOMAIN b.list = 1 .. Len(b.list)
      /\ b.at \in Nat /\ k \in Nat /\ b.odd \in BOOLEAN
  BY DEF Broadcasts
<1>3. \/ /\ k \in DOMAIN b.list
         /\ broadcast'[t] \in Broadcasts
         /\ broadcast'[t].list = b.list
         /\ broadcast'[t].at = k
         /\ broadcast'[t].odd = b.odd
         /\ broadcast' = [broadcast EXCEPT ![t] = broadcast'[t]]
         /\ UNCHANGED registry
      \/ /\ k = Len(b.list)
         /\ broadcast'[t] = Idle
         /\ broadcast' = [broadcast EXCEPT ![t] = Idle]
         /\ \E S : Unregister(S)
  <2>1. CASE /\ k # b.at
             /\ \E S \in SUBSET Clients :
                  broadcast' = [broadcast EXCEPT ![t] = [b EXCEPT !.at = k, !.toRemove = S]]
             /\ UNCHANGED registry
    <3>1. PICK S \in SUBSET Clients :
            broadcast' = [broadcast EXCEPT ![t] = [b EXCEPT !.at = k, !.toRemove = S]]
      BY <2>1
    <3>2. broadcast'[t] = [b EXCEPT !.at = k, !.toRemove = S]
      BY <3>1 DEF TypeOK
    <3>3. k \in DOMAIN b.list
      BY <1>2, <2>1
    <3>4. [b EXCEPT !.at = k, !.toRemove = S] \in Broadcasts
      BY <1>2 DEF Broadcasts
    <3>5. /\ [b EXCEPT !.at = k, !.toRemove = S].list = b.list
          /\ [b EXCEPT !.at = k, !.toRemove = S].at = k
          /\ [b EXCEPT !.at = k, !.toRemove = S].odd = b.odd
      BY DEF Broadcasts
    <3>6. QED
      BY <2>1, <3>1, <3>2, <3>3, <3>4, <3>5
  <2>2. CASE /\ k = Len(b.list)
             /\ broadcast' = [broadcast EXCEPT ![t] = Idle]
             /\ \E S : Unregister(S)
    BY <2>2 DEF TypeOK
  <2>3. QED
    BY <1>1, <2>1, <2>2
<1>4. \A u \in Tasks : u # t => broadcast'[u] = broadcast[u]
  BY <1>3 DEF TypeOK
<1>5. \A c \in Clients, p \in Publishers :
        got'[c][p] = IF p = t /\ Reached(c, k) /\ c \notin gone
                     THEN Append(got[c][p], sent'[p]) ELSE got[c][p]
  BY <1>1
<1>6. /\ clients' \in Seq(Clients)
      /\ Registered' \subseteq Registered
      /\ rate' \in [Registered' -> {1, 2}]
      /\ RegistryAgrees'
      /\ gauge' \in Nat
  <2>1. CASE UNCHANGED registry
    BY <2>1 DEF registry, TypeOK, TelemetryInv, RegistryAgrees, Registered
  <2>2. CASE \E S : Unregister(S)
    BY <2>2, Unregistering DEF TelemetryInv
  <2>3. QED
    BY <1>3, <2>1, <2>2
<1>7. got' \in [Clients -> [Publishers -> Seq(Nat)]]
  <2>1. ASSUME NEW c \in Clients, NEW p \in Publishers
        PROVE  /\ got[c][p] \in Seq(Nat)
               /\ Append(got[c][p], sent'[p]) \in Seq(Nat)
    <3>1. got[c][p] \in Seq(Nat) /\ sent'[p] \in Nat
      BY DEF TypeOK
    <3>2. QED
      BY <3>1
  <2> HIDE DEF Reached
  <2>2. QED
    BY <1>1, <2>1
<1>8. broadcast' \in [Tasks -> Broadcasts \cup {Idle}]
  BY <1>3 DEF TypeOK
<1>9. TypeOK'
  BY <1>6, <1>7, <1>8 DEF TypeOK
<1>10. Copies'
  <2> SUFFICES ASSUME NEW u \in Tasks, broadcast'[u] # Idle
               PROVE  /\ IsInjective(broadcast'[u].list)
                      /\ broadcast'[u].at \in DOMAIN broadcast'[u].list
                      /\ \A i \in DOMAIN broadcast'[u].list :
                           route'[broadcast'[u].list[i]] \in {"serving", "ended"}
                      /\ u \in Publishers => ~broadcast'[u].odd
    BY DEF Copies
  <2>1. CASE u = t
    BY <1>3, <2>1
  <2>2. CASE u # t
    BY <1>4, <2>2 DEF TelemetryInv, Copies
  <2>3. QED
    BY <2>1, <2>2
<1>11. Admission'
  <2>1. ASSUME NEW c \in Clients, Reached(c, k)
        PROVE  route[c] \in {"serving", "ended"}
    <3>1. PICK i \in b.at + 1 .. k : b.list[i] = c
      BY <2>1
    <3>2. i \in DOMAIN b.list
      BY <1>2
    <3>3. QED
      BY <3>1, <3>2
  <2> HIDE DEF Reached
  <2>2. ASSUME NEW c \in Clients, route[c] \in {"new", "accepting"}
        PROVE  got'[c] = Nothing
    <3>1. got[c] = Nothing /\ ~Reached(c, k)
      BY <2>1, <2>2 DEF TelemetryInv, Admission
    <3>2. got'[c] = [p \in Publishers |-> got[c][p]]
      BY <1>1, <3>1
    <3>3. QED
      BY <3>1, <3>2 DEF Nothing
  <2>3. QED
    BY <1>6, <2>2 DEF TelemetryInv, Admission
<1>12. Served'
  <2> SUFFICES ASSUME NEW c \in Registered' \ gone', NEW p \in Publishers
               PROVE  /\ Owed(c, p)' \in Nat
                      /\ got'[c][p] = [i \in 1 .. Owed(c, p)' |-> joined'[c][p] + i]
    BY DEF Served
  <2>1. c \in Registered \ gone /\ c \in Clients /\ c \notin gone
    BY <1>6, RegisteredType
  <2>2. CASE p # t
    <3>1. p \in Tasks
      BY DEF Tasks
    <3>2. Owed(c, p)' = Owed(c, p)
      BY <1>4, <2>2, <3>1 DEF Owed, Ahead
    <3>3. got'[c][p] = got[c][p]
      BY <1>5, <2>1, <2>2
    <3>4. /\ Owed(c, p) \in Nat
          /\ got[c][p] = [i \in 1 .. Owed(c, p) |-> joined[c][p] + i]
      BY <2>1 DEF Served
    <3>5. QED
      BY <3>2, <3>3, <3>4
  <2>3. CASE p = t
    <3> DEFINE n == sent'[t] - joined[c][t] - (IF Ahead(b, c) THEN 1 ELSE 0)
               j == joined[c][t]
    <3>1. n \in Nat /\ got[c][t] = [i \in 1 .. n |-> j + i]
      BY <2>1, <2>3
    <3>2. j \in Nat /\ sent'[t] \in Nat
      BY <2>1, <2>3 DEF TypeOK
    <3>3. Owed(c, t)' = sent'[t] - j
                          - (IF broadcast'[t] # Idle /\ Ahead(broadcast'[t], c) THEN 1 ELSE 0)
      BY DEF Owed, Ahead
    <3>4. CASE Reached(c, k)
      <4>1. Ahead(b, c)
        BY <1>2, <3>4 DEF Ahead
      <4>2. sent'[t] = j + n + 1
        BY <3>2, <4>1
      <4>3. got'[c][t] = Append(got[c][t], sent'[t])
        BY <1>5, <2>1, <2>3, <3>4
      <4>4. ~(broadcast'[t] # Idle /\ Ahead(broadcast'[t], c))
        <5>1. ASSUME NEW i \in b.at + 1 .. k, b.list[i] = c,
                     NEW m \in k + 1 .. Len(b.list), b.list[m] = c
              PROVE  FALSE
          <6>1. i \in DOMAIN b.list /\ m \in DOMAIN b.list /\ i # m
            BY <1>2
          <6>2. QED
            BY <5>1, <6>1 DEF IsInjective
        <5>2. QED
          BY <1>3, <3>4, <5>1 DEF Ahead
      <4>5. Owed(c, t)' = n + 1
        BY <3>1, <3>2, <3>3, <4>2, <4>4
      <4>6. got'[c][t] = [i \in 1 .. n + 1 |-> j + i]
        <5> HIDE DEF n, j
        <5>1. QED
          BY <3>1, <3>2, <4>2, <4>3, OneMore
      <4>7. QED
        BY <2>3, <3>1, <4>5, <4>6
    <3>5. CASE ~Reached(c, k)
      <4>1. got'[c][t] = got[c][t]
        BY <1>5, <2>1, <2>3, <3>5
      <4>2. Ahead(b, c) <=> broadcast'[t] # Idle /\ Ahead(broadcast'[t], c)
        <5>1. CASE broadcast'[t] = Idle /\ k = Len(b.list)
          BY <3>5, <5>1 DEF Ahead
        <5>2. CASE broadcast'[t] # Idle /\ broadcast'[t].list = b.list /\ broadcast'[t].at = k
          <6>1. \A i \in b.at + 1 .. Len(b.list) :
                  i \in b.at + 1 .. k \/ i \in k + 1 .. Len(b.list)
            BY <1>2
          <6>2. \A i \in k + 1 .. Len(b.list) : i \in b.at + 1 .. Len(b.list)
            BY <1>2
          <6>3. QED
            BY <3>5, <5>2, <6>1, <6>2 DEF Ahead
        <5>3. QED
          BY <1>3, <5>1, <5>2, IdleAssumption
      <4>3. Owed(c, t)' = n
        BY <3>3, <4>2
      <4>4. QED
        BY <2>3, <3>1, <4>1, <4>3
    <3>6. QED
      BY <3>4, <3>5
  <2>4. QED
    BY <2>2, <2>3
<1>13. QED
  BY <1>6, <1>9, <1>10, <1>11, <1>12 DEF TelemetryInv

\* Publishing begins a broadcast of the next number to all who are registered.
LEMMA PublishStep ==
    ASSUME TypeOK, TelemetryInv, Served, NEW p \in Publishers, PublishEvent(p)
    PROVE  TypeOK' /\ TelemetryInv' /\ Served' /\ Registered' \subseteq Registered
<1> DEFINE b == NewBroadcast(FALSE)
<1>1. /\ broadcast[p] = Idle
      /\ sent' = [sent EXCEPT ![p] = @ + 1]
      /\ Proceed(p, b)
      /\ UNCHANGED <<odd, route, gone, late, joined>>
  BY DEF PublishEvent
<1>2. clients \in Seq(Clients) /\ DOMAIN clients = 1 .. Len(clients) /\ Len(clients) \in Nat
  BY DEF TypeOK
<1>3. /\ b.list = clients /\ b.at = 0 /\ ~b.odd
      /\ b \in Broadcasts
  BY <1>2 DEF NewBroadcast, Broadcasts
<1>4. \A i \in DOMAIN clients : clients[i] \in Registered
  BY DEF Registered, ToSet
<1>5. \A i \in DOMAIN b.list : route[b.list[i]] \in {"serving", "ended"}
  BY <1>3, <1>4 DEF TelemetryInv, Admission
<1>6. sent'[p] = sent[p] + 1 /\ sent' \in [Publishers -> Nat]
      /\ \A q \in Publishers : q # p => sent'[q] = sent[q]
  BY <1>1 DEF TypeOK
<1> HIDE DEF b
<1>7. ASSUME NEW c \in Registered \ gone
      PROVE  LET n == sent'[p] - joined[c][p] - (IF Ahead(b, c) THEN 1 ELSE 0)
             IN  n \in Nat /\ got[c][p] = [i \in 1 .. n |-> joined[c][p] + i]
  <2>1. Ahead(b, c)
    <3>1. PICK i \in DOMAIN clients : clients[i] = c
      BY DEF Registered, ToSet
    <3>2. QED
      BY <1>2, <1>3, <3>1 DEF Ahead
  <2>2. joined[c][p] \in Nat /\ sent[p] \in Nat
    BY RegisteredType DEF TypeOK
  <2>3. /\ Owed(c, p) = sent[p] - joined[c][p]
        /\ Owed(c, p) \in Nat
        /\ got[c][p] = [i \in 1 .. Owed(c, p) |-> joined[c][p] + i]
    BY <1>1, <1>7, <2>2 DEF Served, Owed
  <2>4. sent'[p] - joined[c][p] - 1 = Owed(c, p)
    BY <1>6, <2>2, <2>3
  <2>5. QED
    BY <2>1, <2>3, <2>4
<1>8. p \in Tasks /\ odd' \in BOOLEAN /\ IsInjective(b.list) /\ b.at \in 0 .. Len(b.list)
  BY <1>1, <1>2, <1>3 DEF Tasks, TypeOK, TelemetryInv, RegistryAgrees
<1>9. QED
  BY <1>1, <1>3, <1>5, <1>6, <1>7, <1>8, BroadcastStep

\* A snapshot is no event.
LEMMA SnapshotStep ==
    ASSUME TypeOK, TelemetryInv, Served, BroadcastSnapshot
    PROVE  TypeOK' /\ TelemetryInv' /\ Served' /\ Registered' \subseteq Registered
<1> DEFINE b == NewBroadcast(odd')
<1>1. /\ Proceed(Ticker, b)
      /\ odd' = ~odd
      /\ UNCHANGED <<route, gone, sent, late, joined>>
  BY DEF BroadcastSnapshot
<1>2. clients \in Seq(Clients) /\ DOMAIN clients = 1 .. Len(clients) /\ Len(clients) \in Nat
  BY DEF TypeOK
<1>3. odd' \in BOOLEAN
  BY <1>1 DEF TypeOK
<1>4. /\ b.list = clients /\ b.at = 0
      /\ b \in Broadcasts
  BY <1>2, <1>3 DEF NewBroadcast, Broadcasts
<1>5. \A i \in DOMAIN clients : clients[i] \in Registered
  BY DEF Registered, ToSet
<1>6. \A i \in DOMAIN b.list : route[b.list[i]] \in {"serving", "ended"}
  BY <1>4, <1>5 DEF TelemetryInv, Admission
<1>7. Ticker \in Tasks /\ Ticker \notin Publishers
      /\ IsInjective(b.list) /\ b.at \in 0 .. Len(b.list)
  BY <1>2, <1>4, TickerAssumption DEF Tasks, TelemetryInv, RegistryAgrees
<1>8. sent' \in [Publishers -> Nat] /\ \A q \in Publishers : q # Ticker => sent'[q] = sent[q]
  BY <1>1 DEF TypeOK
<1> HIDE DEF b
<1>9. QED
  BY <1>1, <1>3, <1>4, <1>6, <1>7, <1>8, BroadcastStep

\* A broadcast that waited goes on behind the client it waited for.
LEMMA ResumeStep ==
    ASSUME TypeOK, TelemetryInv, Served, NEW t \in Tasks, Resume(t)
    PROVE  TypeOK' /\ TelemetryInv' /\ Served' /\ Registered' \subseteq Registered
<1> DEFINE o == broadcast[t]
           b == [o EXCEPT !.toRemove = @ \cup ({o.list[o.at]} \cap gone)]
<1>1. /\ o # Idle
      /\ UNCHANGED <<odd, route, gone, sent, late, joined>>
      /\ Proceed(t, b)
  BY DEF Resume
<1>2. o \in Broadcasts
  BY <1>1 DEF TypeOK
<1>3. gone \subseteq Clients
  BY DEF TypeOK
<1>4. /\ b \in Broadcasts
      /\ b.list = o.list /\ b.at = o.at /\ b.odd = o.odd
  BY <1>2, <1>3 DEF Broadcasts
<1>5. /\ IsInjective(o.list)
      /\ o.at \in DOMAIN o.list
      /\ \A i \in DOMAIN o.list : route[o.list[i]] \in {"serving", "ended"}
      /\ t \in Publishers => ~o.odd
  BY <1>1 DEF TelemetryInv, Copies
<1>6. o.at \in 0 .. Len(o.list)
  BY <1>2, <1>5 DEF Broadcasts
<1>7. odd' \in BOOLEAN /\ sent' \in [Publishers -> Nat]
      /\ \A p \in Publishers : sent'[p] = sent[p]
  BY <1>1 DEF TypeOK
<1> HIDE DEF b
<1>8. ASSUME t \in Publishers, NEW c \in Registered \ gone
      PROVE  LET n == sent'[t] - joined[c][t] - (IF Ahead(b, c) THEN 1 ELSE 0)
             IN  n \in Nat /\ got[c][t] = [i \in 1 .. n |-> joined[c][t] + i]
  <2>1. Ahead(b, c) <=> Ahead(o, c)
    BY <1>4 DEF Ahead
  <2>2. Owed(c, t) = sent[t] - joined[c][t] - (IF Ahead(o, c) THEN 1 ELSE 0)
    BY <1>1 DEF Owed
  <2>3. /\ Owed(c, t) \in Nat
        /\ got[c][t] = [i \in 1 .. Owed(c, t) |-> joined[c][t] + i]
    BY <1>8 DEF Served
  <2>4. Owed(c, t) = sent'[t] - joined[c][t] - (IF Ahead(b, c) THEN 1 ELSE 0)
    BY <1>7, <1>8, <2>1, <2>2
  <2>5. QED
    BY <2>3, <2>4
<1>9. QED
  <2> HIDE DEF o
  <2>1. /\ IsInjective(b.list) /\ b.at \in 0 .. Len(b.list)
        /\ \A i \in DOMAIN b.list : route[b.list[i]] \in {"serving", "ended"}
        /\ t \in Publishers => ~b.odd
    BY <1>4, <1>5, <1>6
  <2>2. QED
    BY <1>1, <1>4, <1>7, <1>8, <2>1, BroadcastStep

-----------------------------------------------------------------------------
(* The invariant *)

\* At first nobody is registered and nothing has been sent.
LEMMA Initially == Init => TypeOK /\ TelemetryInv /\ Capacity /\ Served
<1> SUFFICES ASSUME Init
             PROVE  TypeOK /\ TelemetryInv /\ Capacity /\ Served
  OBVIOUS
<1>1. clients = <<>> /\ Registered = {}
  BY DEF Init, Registered, ToSet
<1>2. clients \in Seq(Clients) /\ Len(clients) = 0 /\ DOMAIN clients = {}
  BY <1>1
<1>3. Nothing \in [Publishers -> Seq(Nat)]
  BY DEF Nothing
<1>4. TypeOK
  <2>1. rate \in [Registered -> {1, 2}]
    <3>1. rate \in Seq({1, 2}) /\ Len(rate) = 0 /\ DOMAIN rate = {}
      BY DEF Init
    <3>2. rate \in [1 .. Len(rate) -> {1, 2}]
      BY <3>1
    <3>3. 1 .. Len(rate) = Registered
      BY <1>1, <3>1
    <3>4. QED
      BY <3>2, <3>3
  <2>2. sent \in [Publishers -> Nat] /\ joined \in [Clients -> [Publishers -> Nat]]
    BY DEF Init
  <2>3. /\ broadcast \in [Tasks -> Broadcasts \cup {Idle}]
        /\ got \in [Clients -> [Publishers -> Seq(Nat)]]
    BY <1>3 DEF Init
  <2>4. QED
    BY <1>2, <2>1, <2>2, <2>3 DEF Init, TypeOK
<1>5. TelemetryInv
  BY <1>1, <1>2 DEF Init, TelemetryInv, RegistryAgrees, IsInjective, Copies, Admission
<1>6. IsFiniteSet(Registered) /\ Cardinality(Registered \ late) = 0
  <2>1. Registered \ late = {}
    BY <1>1
  <2>2. QED
    BY <1>1, <2>1, FS_EmptySet
<1>7. Capacity
  BY <1>6, MaxClientsAssumption DEF Capacity
<1>8. Served
  BY <1>1 DEF Served
<1>9. QED
  BY <1>4, <1>5, <1>7, <1>8

\* Every step keeps the types, the registry, and what each client has got.
LEMMA EveryStep ==
    ASSUME TypeOK, TelemetryInv, Served, [Next]_vars
    PROVE  TypeOK' /\ TelemetryInv' /\ Served'
<1>1. ASSUME NEW c \in Clients, Refuse(c)
      PROVE  TypeOK' /\ TelemetryInv' /\ Served'
  <2>1. /\ route[c] = "new" /\ route' = [route EXCEPT ![c] = "ended"]
        /\ Closed(c)
        /\ UNCHANGED <<registry, odd, broadcast, sent>> /\ late' = late
    BY <1>1 DEF Refuse
  <2>2. \A d \in Clients : route'[d] = "accepting" => d \in late'
    BY <2>1 DEF TypeOK, TelemetryInv, Admission
  <2>3. QED
    BY <2>1, <2>2, Closing, RouteStep DEF TypeOK
<1>2. ASSUME NEW c \in Clients, Connect(c)
      PROVE  TypeOK' /\ TelemetryInv' /\ Served'
  <2>1. PICK r \in Rates : Admitted(r) /\ Register(c, r)
    BY <1>2 DEF Connect
  <2>2. r \in {1, 2}
    BY <2>1 DEF Admitted
  <2>3. QED
    BY <1>2, <2>1, <2>2, RegisterStep DEF Connect
<1>3. ASSUME NEW c \in Clients, AcceptWaits(c)
      PROVE  TypeOK' /\ TelemetryInv' /\ Served'
  <2>1. /\ route[c] = "new" /\ route' = [route EXCEPT ![c] = "accepting"]
        /\ late' = late \cup {c}
        /\ UNCHANGED <<registry, odd, gone, broadcast, sent, joined, got>>
    BY <1>3 DEF AcceptWaits
  <2>2. \A d \in Clients : route'[d] = "accepting" => d \in late'
    BY <2>1 DEF TypeOK, TelemetryInv, Admission
  <2>3. QED
    BY <2>1, <2>2, RouteStep DEF TypeOK
<1>4. ASSUME NEW c \in Clients, Accepted(c)
      PROVE  TypeOK' /\ TelemetryInv' /\ Served'
  <2>1. PICK r \in Rates \cap {1, 2} : Register(c, r)
    BY <1>4 DEF Accepted
  <2>2. QED
    BY <1>4, <2>1, RegisterStep DEF Accepted
<1>5. ASSUME NEW c \in Clients, AcceptFails(c)
      PROVE  TypeOK' /\ TelemetryInv' /\ Served'
  <2>1. /\ route[c] = "accepting" /\ route' = [route EXCEPT ![c] = "ended"]
        /\ UNCHANGED <<registry, odd, gone, broadcast, sent, late, joined, got>>
    BY <1>5 DEF AcceptFails, history
  <2>2. \A d \in Clients : route'[d] = "accepting" => d \in late'
    BY <2>1 DEF TypeOK, TelemetryInv, Admission
  <2>3. QED
    BY <2>1, <2>2, RouteStep DEF TypeOK
<1>6. ASSUME NEW c \in Clients, Disconnected(c)
      PROVE  TypeOK' /\ TelemetryInv' /\ Served'
  BY <1>6, DisconnectedStep
<1>7. ASSUME NEW c \in Clients, RouteFails(c) \/ Leave(c)
      PROVE  TypeOK' /\ TelemetryInv' /\ Served'
  <2>1. /\ route' \in {route, [route EXCEPT ![c] = "ended"]}
        /\ Closed(c)
        /\ UNCHANGED <<registry, odd, broadcast, sent>> /\ late' = late
    BY <1>7 DEF RouteFails, Leave
  <2>2. \A d \in Clients : route'[d] = "accepting" => d \in late'
    BY <2>1 DEF TypeOK, TelemetryInv, Admission
  <2>3. QED
    BY <2>1, <2>2, Closing, RouteStep DEF TypeOK
<1>8. CASE UNCHANGED vars
  <2>1. UNCHANGED <<registry, odd, broadcast, sent, route, gone, late, joined, got>>
    BY <1>8 DEF vars, history
  <2>2. \A d \in Clients : route'[d] = "accepting" => d \in late'
    BY <2>1 DEF TelemetryInv, Admission
  <2>3. QED
    BY <2>1, <2>2, RouteStep DEF TypeOK
<1>9. QED
  BY <1>1, <1>2, <1>3, <1>4, <1>5, <1>6, <1>7, <1>8,
     PublishStep, SnapshotStep, ResumeStep DEF Next

\* Every step keeps the capacity for those who have not made accept() wait.
LEMMA CapacityStep ==
    ASSUME TypeOK, TelemetryInv, Served, Capacity, [Next]_vars
    PROVE  Capacity'
<1>1. /\ IsFiniteSet(Registered)
      /\ Cardinality(Registered \ late) <= MaxClients
      /\ MaxClients \in Nat
  BY MaxClientsAssumption DEF Capacity
<1>2. ASSUME Registered' \ late' \subseteq Registered \ late, IsFiniteSet(Registered')
      PROVE  Capacity'
  <2>1. IsFiniteSet(Registered \ late)
    BY <1>1, FS_Subset
  <2>2. /\ IsFiniteSet(Registered' \ late')
        /\ Cardinality(Registered' \ late') <= Cardinality(Registered \ late)
    BY <1>2, <2>1, FS_Subset
  <2>3. Cardinality(Registered' \ late') \in Nat /\ Cardinality(Registered \ late) \in Nat
    BY <2>1, <2>2, FS_CardinalityType
  <2>4. QED
    BY <1>1, <1>2, <2>2, <2>3 DEF Capacity
<1>3. ASSUME Registered' \subseteq Registered, late \subseteq late'
      PROVE  Capacity'
  <2>1. IsFiniteSet(Registered')
    BY <1>1, <1>3, FS_Subset
  <2>2. QED
    BY <1>2, <1>3, <2>1
<1>4. ASSUME NEW c \in Clients, c \notin Registered, NEW r \in {1, 2}, Register(c, r)
      PROVE  Registered' = Registered \cup {c} /\ IsFiniteSet(Registered')
  <2>1. Registered' = Registered \cup {c}
    BY <1>4, Registering DEF TelemetryInv
  <2>2. QED
    BY <1>1, <2>1, FS_AddElement
<1>5. ASSUME NEW c \in Clients, Connect(c)
      PROVE  Capacity'
  <2>1. PICK r \in Rates : Admitted(r) /\ Register(c, r)
    BY <1>5 DEF Connect
  <2>2. c \notin Registered
    BY <1>5 DEF Connect, TelemetryInv, Admission
  <2>3. Registered' = Registered \cup {c} /\ IsFiniteSet(Registered')
    BY <1>4, <2>1, <2>2 DEF Admitted
  <2>4. Cardinality(Registered) < MaxClients /\ Cardinality(Registered) \in Nat
    BY <2>1, ListSize, FS_CardinalityType DEF Admitted, TelemetryInv, RegistryAgrees
  <2>5. Cardinality(Registered') <= MaxClients /\ Cardinality(Registered') \in Nat
    BY <1>1, <2>3, <2>4, FS_AddElement
  <2>6. /\ Cardinality(Registered' \ late') <= Cardinality(Registered')
        /\ IsFiniteSet(Registered' \ late')
    BY <2>3, FS_Subset
  <2>7. Cardinality(Registered' \ late') \in Nat
    BY <2>6, FS_CardinalityType
  <2>8. QED
    BY <1>1, <2>3, <2>5, <2>6, <2>7 DEF Capacity
<1>6. ASSUME NEW c \in Clients, Accepted(c)
      PROVE  Capacity'
  <2>1. PICK r \in Rates \cap {1, 2} : Register(c, r)
    BY <1>6 DEF Accepted
  <2>2. c \notin Registered /\ c \in late /\ late' = late
    BY <1>6 DEF Accepted, TelemetryInv, Admission
  <2>3. Registered' = Registered \cup {c} /\ IsFiniteSet(Registered')
    BY <1>4, <2>1, <2>2
  <2>4. QED
    BY <1>2, <2>2, <2>3
<1>7. ASSUME NEW c \in Clients, Disconnected(c)
      PROVE  Capacity'
  <2>1. Unregister({c}) /\ late' = late
    BY <1>7 DEF Disconnected, history
  <2>2. Registered' \subseteq Registered
    BY <2>1, Unregistering DEF TelemetryInv
  <2>3. QED
    BY <1>3, <2>1, <2>2
<1>8. ASSUME UNCHANGED registry, late \subseteq late'
      PROVE  Capacity'
  BY <1>3, <1>8 DEF registry, Registered
<1>9. ASSUME NEW c \in Clients,
             Refuse(c) \/ AcceptWaits(c) \/ AcceptFails(c) \/ RouteFails(c) \/ Leave(c)
      PROVE  Capacity'
  BY <1>8, <1>9 DEF Refuse, AcceptWaits, AcceptFails, RouteFails, Leave, Closed, history
<1>10. ASSUME NEW p \in Publishers, PublishEvent(p)
       PROVE  Capacity'
  BY <1>3, <1>10, PublishStep DEF PublishEvent
<1>11. CASE BroadcastSnapshot
  BY <1>3, <1>11, SnapshotStep DEF BroadcastSnapshot
<1>12. ASSUME NEW t \in Tasks, Resume(t)
       PROVE  Capacity'
  BY <1>3, <1>12, ResumeStep DEF Resume
<1>13. CASE UNCHANGED vars
  BY <1>8, <1>13 DEF vars, history
<1>14. QED
  BY <1>5, <1>6, <1>7, <1>9, <1>10, <1>11, <1>12, <1>13 DEF Next

\* So the four parts hold together in every reachable state.
LEMMA TelemetryInvariant == Spec => [](TypeOK /\ TelemetryInv /\ Capacity /\ Served)
<1>1. TypeOK /\ TelemetryInv /\ Capacity /\ Served /\ [Next]_vars
        => (TypeOK /\ TelemetryInv /\ Capacity /\ Served)'
  BY EveryStep, CapacityStep
<1>2. QED
  BY <1>1, Initially, PTL DEF Spec

-----------------------------------------------------------------------------
\* Every variable keeps its type, whatever the clients and the tasks do.
THEOREM TelemetryTypeCorrect == Spec => []TypeOK
BY TelemetryInvariant, PTL

\* However often and by whomever a client is removed, nobody is twice in the
\* list, everyone in it has a rate and nobody else, and the gauge counts them.
THEOREM RegistryIsConsistent == Spec => []RegistryAgrees
<1>1. TelemetryInv => RegistryAgrees
  BY DEF TelemetryInv
<1>2. QED
  BY <1>1, TelemetryInvariant, PTL

\* max_ws_clients is exceeded by no more than the clients whose accept() waited
\* behind the check of the capacity.
THEOREM CapacityHolds == Spec => []CapacityExceededByLateOnly
<1>1. TypeOK /\ TelemetryInv /\ Capacity => CapacityExceededByLateOnly
  <2> SUFFICES ASSUME TypeOK, TelemetryInv, Capacity
               PROVE  CapacityExceededByLateOnly
    OBVIOUS
  <2>1. IsFiniteSet(Registered) /\ Cardinality(Registered) = Len(clients)
    BY ListSize DEF TelemetryInv, RegistryAgrees
  <2> DEFINE onTime == Registered \ late
             behind == Registered \cap late
  <2>2. IsFiniteSet(onTime) /\ IsFiniteSet(behind)
    BY <2>1, FS_Subset
  <2>3. Cardinality(onTime) \in Nat /\ Cardinality(behind) \in Nat
    BY <2>2, FS_CardinalityType
  <2>4. Registered = onTime \cup behind /\ onTime \cap behind = {}
    OBVIOUS
  <2> HIDE DEF onTime, behind
  <2>5. Cardinality(Registered) = Cardinality(onTime) + Cardinality(behind)
                                    - Cardinality(onTime \cap behind)
    BY <2>2, <2>4, FS_Union
  <2>6. Cardinality(onTime \cap behind) = 0
    BY <2>4, FS_EmptySet
  <2>7. Cardinality(onTime) <= MaxClients
    BY DEF Capacity, onTime
  <2>8. Len(clients) <= MaxClients + Cardinality(behind)
    BY <2>1, <2>3, <2>5, <2>6, <2>7, MaxClientsAssumption
  <2>9. QED
    BY <2>8 DEF CapacityExceededByLateOnly, behind
<1>2. QED
  BY <1>1, TelemetryInvariant, PTL

\* No client misses an event, gets one twice or two of a publisher in the wrong
\* order, for any number of broadcasts under way at the same time over lists
\* that were copied at different moments.
THEOREM EventsArriveInFull == Spec => []EventsInFull
<1>1. Served => EventsInFull
  <2> SUFFICES ASSUME Served, NEW c \in Registered \ gone, NEW p \in Publishers
               PROVE  LET b == broadcast[p]
                          pending == b # Idle /\ \E i \in b.at + 1 .. Len(b.list) : b.list[i] = c
                          due == sent[p] - joined[c][p] - (IF pending THEN 1 ELSE 0)
                      IN  got[c][p] = [i \in 1 .. due |-> joined[c][p] + i]
    BY DEF EventsInFull
  <2>1. got[c][p] = [i \in 1 .. Owed(c, p) |-> joined[c][p] + i]
    BY DEF Served
  <2>2. QED
    BY <2>1 DEF Owed, Ahead
<1>2. QED
  BY <1>1, TelemetryInvariant, PTL
=============================================================================
