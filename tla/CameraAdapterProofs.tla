------------------------ MODULE CameraAdapterProofs ------------------------
(***************************************************************************)
(* Proofs about CameraAdapter, for any set of temperatures.                *)
(*                                                                         *)
(* That the cache and the view are what the server has, once all it sent   *)
(* has been handled, is not inductive: it says nothing while messages are  *)
(* under way.  MirrorInv does: of every property, the newest message under *)
(* way about it tells what the server has, and if there is none the cache  *)
(* and the view have it already.  An emission makes a newest message or    *)
(* says nothing of a property it leaves alone; a handler takes the oldest  *)
(* message, which is the newest only if it is the last about its property. *)
(***************************************************************************)
EXTENDS CameraAdapter, SequenceTheorems, TLAPS

-----------------------------------------------------------------------------
(* The types. *)
LEMMA MessageTypes ==
  ASSUME NEW d \in Devices
  PROVE  /\ \A n \in Names : Define(d, n) \in Messages /\ Update(d, n) \in Messages
         /\ \A n \in Names : Delete(n) \in Messages
         /\ DeleteAll \in Messages
         /\ ThermalProperties(d) \in Seq(Messages)
<1>1. /\ \A n \in Names \ {"TEMPERATURE"} : Value(d, n) \in BOOLEAN
      /\ Value(d, "TEMPERATURE") \in Readings
    BY DEF Value, Devices, Names, Thermal, Reading, Readings
<1>2. \A n \in Names : Define(d, n) \in Messages /\ Update(d, n) \in Messages
    BY <1>1 DEF Define, Update, Messages
<1>3. \A n \in Names : Delete(n) \in Messages
    BY DEF Delete, Messages
<1>4. DeleteAll \in Messages
    BY DEF Messages
<1>5. ThermalProperties(d) \in Seq(Messages)
    BY <1>2 DEF ThermalProperties, Names, Thermal
<1> QED
    BY <1>2, <1>3, <1>4, <1>5

LEMMA MessageParts ==
  ASSUME NEW m \in Messages
  PROVE  /\ m.kind \in {"define", "update"} =>
              /\ m.name \in Names
              /\ m.name # "TEMPERATURE" => m.value \in BOOLEAN
              /\ m.name = "TEMPERATURE" => m.value \in Readings
         /\ m.kind = "delete" => m.name \in Names
         /\ m.kind \in {"define", "update", "delete", "delete all"}
<1>1. CASE m \in [kind : {"define", "update"}, name : Names \ {"TEMPERATURE"},
                  value : BOOLEAN]
    BY <1>1
<1>2. CASE m \in [kind : {"define", "update"}, name : {"TEMPERATURE"}, value : Readings]
    BY <1>2 DEF Names, Thermal
<1>3. CASE m \in [kind : {"delete"}, name : Names]
    BY <1>3
<1>4. CASE m = DeleteAll
    BY <1>4 DEF DeleteAll
<1> QED
    BY <1>1, <1>2, <1>3, <1>4 DEF Messages

LEMMA EmitType ==
  ASSUME channel \in Seq(Messages), NEW messages \in Seq(Messages), Emit(messages)
  PROVE  channel' \in Seq(Messages)
BY ConcatProperties DEF Emit

LEMMA SendType ==
  ASSUME commands \in Seq({"connect", "disconnect"}),
         NEW command \in {"connect", "disconnect"}, Send(command)
  PROVE  commands' \in Seq({"connect", "disconnect"})
BY AppendProperties DEF Send

(* What is received is a message, and the rest are. *)
LEMMA ReceiveType ==
  ASSUME channel \in Seq(Messages), NEW kind, Receive(kind)
  PROVE  /\ Head(channel) \in Messages /\ Head(channel).kind = kind
         /\ channel' \in Seq(Messages)
BY HeadTailProperties DEF Receive

LEMMA DefaultsType ==
  Defaults \in [cooler : BOOLEAN, full : BOOLEAN, temp : Temps, target : Temps,
                state : CoolerStates]
BY TempsAssumption DEF Defaults, CoolerStates

Views == [cooler : BOOLEAN, full : BOOLEAN, temp : Temps, target : Temps,
          state : CoolerStates]

LEMMA ApplyType ==
  ASSUME view \in Views, deviceConnected \in BOOLEAN, NEW n \in Names, NEW value,
         n # "TEMPERATURE" => value \in BOOLEAN,
         n = "TEMPERATURE" => value \in Readings,
         Apply(n, value)
  PROVE  view' \in Views /\ deviceConnected' \in BOOLEAN
<1>1. \A v : CoolerState(v) \in CoolerStates
    BY DEF CoolerState, CoolerStates
<1>2. CASE n = "CONNECTION"
    BY <1>2 DEF Apply
<1>3. CASE n = "COOLER"
    BY <1>1, <1>3 DEF Apply, Derived, Views
<1>4. CASE n = "POWER"
    BY <1>1, <1>4 DEF Apply, Derived, Views
<1>5. CASE n = "TEMPERATURE"
    BY <1>5 DEF Apply, Views, Readings
<1> QED
    BY <1>2, <1>3, <1>4, <1>5 DEF Names, Thermal

LEMMA MergedType ==
  ASSUME NEW n \in Names, NEW value,
         n # "TEMPERATURE" => value \in BOOLEAN,
         n = "TEMPERATURE" => value \in Readings,
         cache["TEMPERATURE"] \in Readings \cup {Absent}
  PROVE  /\ n # "TEMPERATURE" => Merged(n, value) \in BOOLEAN /\ Merged(n, value) = value
         /\ n = "TEMPERATURE" => /\ Merged(n, value) \in Readings
                                 /\ Merged(n, value).temp = value.temp
                                 /\ \/ Merged(n, value) = value
                                    \/ value.target = 0 /\ cache[n] # Absent
BY DEF Merged, Readings

LEMMA AdapterTypeInit == Init => TypeOK
<1> SUFFICES ASSUME Init PROVE TypeOK
    OBVIOUS
<1>1. device \in Devices
    BY TempsAssumption DEF Init, Devices
<1>2. channel \in Seq(Messages) /\ commands \in Seq({"connect", "disconnect"})
    BY EmptySeq DEF Init
<1>3. cache = [n \in Names |-> Absent]
    BY DEF Init, EmptyCache
<1> QED
    BY <1>1, <1>2, <1>3, DefaultsType DEF Init, TypeOK, Names, Thermal

Cached(c) == /\ DOMAIN c = Names
             /\ \A n \in Names \ {"TEMPERATURE"} : c[n] \in BOOLEAN \cup {Absent}
             /\ c["TEMPERATURE"] \in Readings \cup {Absent}

LEMMA CacheType ==
  /\ Cached(EmptyCache)
  /\ Cached(cache) =>
       \A n \in Names : \A v :
         /\ cache' = [cache EXCEPT ![n] = v]
         /\ \/ v = Absent
            \/ (n # "TEMPERATURE" => v \in BOOLEAN) /\ (n = "TEMPERATURE" => v \in Readings)
         => Cached(cache')
BY DEF Cached, EmptyCache, Names, Thermal

LEMMA AdapterTypeStep == TypeOK /\ [Next]_vars => TypeOK'
<1> SUFFICES ASSUME TypeOK, [Next]_vars PROVE TypeOK'
    OBVIOUS
<1>0. /\ device \in Devices /\ channel \in Seq(Messages)
      /\ commands \in Seq({"connect", "disconnect"})
      /\ Cached(cache) /\ view \in Views /\ deviceConnected \in BOOLEAN
    BY DEF TypeOK, Cached, Views
<1> DEFINE NewTypes ==
             /\ present' \in BOOLEAN /\ device' \in Devices
             /\ link' \in {"up", "down", "closing", "closed"}
             /\ channel' \in Seq(Messages)
             /\ commands' \in Seq({"connect", "disconnect"})
             /\ Cached(cache') /\ ready' \in BOOLEAN /\ deviceConnected' \in BOOLEAN
             /\ view' \in Views /\ timer' \in {"none", "sleeping"}
<1>1. NewTypes => TypeOK'
    BY DEF TypeOK, Cached, Views
<1>2. \A d \in Devices : /\ [d EXCEPT !.on = FALSE] \in Devices
                         /\ [d EXCEPT !.on = TRUE] \in Devices
    BY DEF Devices
<1>3. \A messages \in Seq(Messages) : Emit(messages) => channel' \in Seq(Messages)
    BY <1>0, EmitType
<1>4. SwitchedOff => device' \in Devices /\ channel' \in Seq(Messages)
  <2> SUFFICES ASSUME SwitchedOff PROVE device' \in Devices /\ channel' \in Seq(Messages)
      OBVIOUS
  <2>1. device' \in Devices
      BY <1>0, <1>2 DEF SwitchedOff
  <2>2. /\ Delete("COOLER") \in Messages /\ Delete("POWER") \in Messages
        /\ Delete("TEMPERATURE") \in Messages /\ Update(device', "CONNECTION") \in Messages
      BY <2>1, MessageTypes DEF Names, Thermal
  <2>3. <<Delete("COOLER"), Delete("POWER"), Delete("TEMPERATURE"),
          Update(device', "CONNECTION")>> \in Seq(Messages)
      BY <2>2
  <2> QED
      BY <1>3, <2>1, <2>3 DEF SwitchedOff
<1>5. CASE Unplug \/ Plug
  <2>1. <<DeleteAll>> \in Seq(Messages) /\ <<Define(device, "CONNECTION")>> \in Seq(Messages)
      BY <1>0, MessageTypes DEF Names
  <2>2. NewTypes
      BY <1>0, <1>2, <1>3, <1>5, <2>1 DEF Unplug, Plug, TypeOK, adapter
  <2> QED
      BY <1>1, <2>2
<1>6. CASE DeviceDrops
  <2>1. NewTypes
      BY <1>0, <1>4, <1>6 DEF DeviceDrops, TypeOK, adapter
  <2> QED
      BY <1>1, <2>1
<1>7. CASE ThermalChanges
  <2>1. PICK n \in Thermal, d \in Devices : device' = d /\ Emit(<<Update(d, n)>>)
      BY <1>7 DEF ThermalChanges
  <2>2. Update(d, n) \in Messages
      BY MessageTypes DEF Names
  <2>3. <<Update(d, n)>> \in Seq(Messages)
      BY <2>2
  <2>4. NewTypes
      BY <1>0, <1>3, <1>7, <2>1, <2>3 DEF ThermalChanges, TypeOK, adapter
  <2> QED
      BY <1>1, <2>4
<1>8. CASE Answer
  <2>1. ASSUME NEW command, Obeys(command)
        PROVE  /\ commands' \in Seq({"connect", "disconnect"})
               /\ UNCHANGED <<present, link, cache, adapter>>
      BY <1>0, <2>1, HeadTailProperties DEF Obeys
  <2>2. CASE DeviceConnects
    <3> DEFINE d == [device EXCEPT !.on = TRUE]
               m == (IF device.on THEN <<>> ELSE ThermalProperties(device))
                       \o <<Update(device', "CONNECTION")>>
    <3>1. device' = d /\ d \in Devices /\ Emit(m) /\ Obeys("connect")
        BY <1>0, <1>2, <2>2 DEF DeviceConnects
    <3>2. (IF device.on THEN <<>> ELSE ThermalProperties(device)) \in Seq(Messages)
        BY <1>0, MessageTypes, EmptySeq
    <3>3. <<Update(device', "CONNECTION")>> \in Seq(Messages)
        BY <3>1, MessageTypes DEF Names
    <3>4. m \in Seq(Messages)
        BY <3>2, <3>3, ConcatProperties
    <3>5. NewTypes
        BY <1>0, <1>3, <2>1, <3>1, <3>4 DEF TypeOK, adapter
    <3> QED
        BY <1>1, <3>5
  <2>3. CASE DeviceRefuses
    <3>1. <<Update(device, "CONNECTION")>> \in Seq(Messages)
        BY <1>0, MessageTypes DEF Names
    <3>2. NewTypes
        BY <1>0, <1>3, <2>1, <2>3, <3>1 DEF DeviceRefuses, TypeOK, adapter
    <3> QED
        BY <1>1, <3>2
  <2>4. CASE DeviceDisconnects
    <3>1. NewTypes
        BY <1>0, <1>4, <2>1, <2>4 DEF DeviceDisconnects, TypeOK, adapter
    <3> QED
        BY <1>1, <3>1
  <2>5. CASE NobodyThere
    <3>1. NewTypes
        BY <1>0, <2>1, <2>5 DEF NobodyThere, TypeOK, adapter
    <3> QED
        BY <1>1, <3>1
  <2> QED
      BY <1>8, <2>2, <2>3, <2>4, <2>5 DEF Answer
<1>9. CASE LinkLost
  <2>1. NewTypes
      BY <1>0, <1>9, EmptySeq DEF LinkLost, TypeOK, server, adapter
  <2> QED
      BY <1>1, <2>1
<1>10. CASE LinkEstablished
  <2>1. <<Define(device, "CONNECTION")>> \in Seq(Messages)
      BY <1>0, MessageTypes DEF Names
  <2>2. (IF device.on THEN ThermalProperties(device) ELSE <<>>) \in Seq(Messages)
      BY <1>0, MessageTypes, EmptySeq
  <2>3. channel' \in Seq(Messages)
      BY <1>10, <2>1, <2>2, ConcatProperties, EmptySeq DEF LinkEstablished
  <2>4. NewTypes
      BY <1>0, <1>10, <2>3, CacheType DEF LinkEstablished, TypeOK, server, adapter
  <2> QED
      BY <1>1, <2>4
<1>11. CASE Defined \/ Updated
  <2> DEFINE n == Head(channel).name
             v == Head(channel).value
             w == IF Defined THEN v ELSE Merged(n, v)
  <2>1. Head(channel) \in Messages /\ Head(channel).kind \in {"define", "update"}
        /\ channel' \in Seq(Messages) /\ UNCHANGED <<server, link, ready>>
      BY <1>0, <1>11, ReceiveType DEF Defined, Updated, Receive
  <2>2. /\ n \in Names
        /\ n # "TEMPERATURE" => v \in BOOLEAN
        /\ n = "TEMPERATURE" => v \in Readings
      BY <2>1, MessageParts
  <2>3. /\ n # "TEMPERATURE" => w \in BOOLEAN
        /\ n = "TEMPERATURE" => w \in Readings
      BY <1>0, <2>2, MergedType DEF Cached
  <2>4. cache' = [cache EXCEPT ![n] = w] /\ Apply(n, w)
      BY <1>11 DEF Defined, Updated, Receive
  <2>5. commands' \in Seq({"connect", "disconnect"}) /\ timer' \in {"none", "sleeping"}
      BY <1>0, <1>11, SendType DEF Defined, Updated, TypeOK
  <2> HIDE DEF n, v, w
  <2>6. view' \in Views /\ deviceConnected' \in BOOLEAN
      BY <1>0, <2>2, <2>3, <2>4, ApplyType
  <2>7. Cached(cache')
      BY <1>0, <2>2, <2>3, <2>4, CacheType
  <2>8. NewTypes
      BY <1>0, <2>1, <2>5, <2>6, <2>7 DEF server, TypeOK
  <2> QED
      BY <1>1, <2>8
<1>12. CASE Deleted
  <2>1. channel' \in Seq(Messages) /\ UNCHANGED <<server, link, ready>>
      BY <1>0, <1>12, ReceiveType DEF Deleted, Receive
  <2>2. Receive("delete") => Head(channel).name \in Names
    <3> SUFFICES ASSUME Receive("delete") PROVE Head(channel).name \in Names
        OBVIOUS
    <3>1. Head(channel) \in Messages /\ Head(channel).kind = "delete"
        BY <1>0, ReceiveType
    <3> QED
        BY <3>1, MessageParts
  <2>3. Cached(cache')
      BY <1>0, <1>12, <2>2, CacheType DEF Deleted
  <2>4. NewTypes
      BY <1>0, <1>12, <2>1, <2>3 DEF Deleted, TypeOK, server
  <2> QED
      BY <1>1, <2>4
<1>13. CASE Autoconnect
  <2>1. commands' \in Seq({"connect", "disconnect"})
      BY <1>0, <1>13, SendType DEF Autoconnect
  <2>2. NewTypes
      BY <1>0, <1>13, <2>1 DEF Autoconnect, TypeOK, server
  <2> QED
      BY <1>1, <2>2
<1>14. ASSUME NEW command \in {"connect", "disconnect"}, Request(command)
       PROVE  TypeOK'
  <2>1. commands' \in Seq({"connect", "disconnect"})
      BY <1>0, <1>14, SendType DEF Request
  <2>2. NewTypes
      BY <1>0, <1>14, <2>1 DEF Request, TypeOK, server, adapter
  <2> QED
      BY <1>1, <2>2
<1>15. CASE Close
  <2>1. NewTypes
      BY <1>0, <1>15 DEF Close, TypeOK, server
  <2> QED
      BY <1>1, <2>1
<1>16. CASE Closed
  <2>1. NewTypes
      BY <1>0, <1>16, EmptySeq DEF Closed, TypeOK, server
  <2> QED
      BY <1>1, <2>1
<1>17. CASE UNCHANGED vars
  <2>1. NewTypes
      BY <1>0, <1>17 DEF vars, server, wires, adapter, TypeOK
  <2> QED
      BY <1>1, <2>1
<1> QED
    BY <1>5, <1>6, <1>7, <1>8, <1>9, <1>10, <1>11, <1>12, <1>13, <1>14, <1>15, <1>16,
       <1>17 DEF Next, Handle

(* Every variable keeps its type, and only the messages described travel.  *)
THEOREM AdapterTypeCorrect == Spec => []TypeOK
BY AdapterTypeInit, AdapterTypeStep, PTL DEF Spec

-----------------------------------------------------------------------------
(* The state of the cooler is derived from the switch and the power in the *)
(* branches that change them, and nothing else changes them.               *)
LEMMA CoolerApply ==
  ASSUME view \in Views, CoolerStateAgrees, NEW n \in Names, NEW value,
         n # "TEMPERATURE" => value \in BOOLEAN, Apply(n, value)
  PROVE  CoolerStateAgrees'
<1>1. ASSUME NEW v \in Views
      PROVE  /\ Derived(v) = [v EXCEPT !.state = CoolerState(v)]
             /\ Derived(v).cooler = v.cooler /\ Derived(v).full = v.full
             /\ Derived(v).state = "OFF" <=> ~v.cooler
             /\ Derived(v).state = "ALARM" <=> v.cooler /\ v.full
    BY DEF Derived, CoolerState, Views
<1>2. CASE n = "CONNECTION"
    BY <1>2 DEF Apply, CoolerStateAgrees
<1>3. CASE n = "COOLER"
  <2>1. [view EXCEPT !.cooler = value] \in Views
      BY <1>3 DEF Views
  <2> QED
      BY <1>1, <1>3, <2>1 DEF Apply, CoolerStateAgrees
<1>4. CASE n = "POWER"
  <2>1. [view EXCEPT !.full = value] \in Views
      BY <1>4 DEF Views
  <2> QED
      BY <1>1, <1>4, <2>1 DEF Apply, CoolerStateAgrees
<1>5. CASE n = "TEMPERATURE"
    BY <1>5 DEF Apply, CoolerStateAgrees, Views
<1> QED
    BY <1>2, <1>3, <1>4, <1>5 DEF Names, Thermal

(* What is handled is a property of a name with a value of its type: as it *)
(* came, or, for an update of a temperature, merged with what was cached.  *)
HandledAs(m, value) ==
  /\ m.name # "TEMPERATURE" => value \in BOOLEAN /\ value = m.value
  /\ m.name = "TEMPERATURE" =>
       /\ m.value \in Readings /\ value \in Readings /\ value.temp = m.value.temp
       /\ value = m.value \/ (m.value.target = 0 /\ cache[m.name] # Absent)
  /\ cache' = [cache EXCEPT ![m.name] = value]
  /\ Apply(m.name, value)

LEMMA HandledParts ==
  ASSUME TypeOK, Defined \/ Updated
  PROVE  /\ Head(channel) \in Messages /\ Head(channel).name \in Names
         /\ Head(channel).kind \in {"define", "update"}
         /\ \E value : HandledAs(Head(channel), value)
<1>1. Head(channel) \in Messages /\ Head(channel).kind \in {"define", "update"}
    BY ReceiveType DEF Defined, Updated, Receive, TypeOK
<1> DEFINE n == Head(channel).name
           v == Head(channel).value
<1>2. /\ n \in Names
      /\ n # "TEMPERATURE" => v \in BOOLEAN
      /\ n = "TEMPERATURE" => v \in Readings
    BY <1>1, MessageParts
<1>3. \E w \in {v, Merged(n, v)} : cache' = [cache EXCEPT ![n] = w] /\ Apply(n, w)
    BY DEF Defined, Updated
<1>4. cache["TEMPERATURE"] \in Readings \cup {Absent}
    BY DEF TypeOK
<1>5. ASSUME NEW w \in {v, Merged(n, v)}, cache' = [cache EXCEPT ![n] = w], Apply(n, w)
      PROVE  HandledAs(Head(channel), w)
  <2>1. /\ n # "TEMPERATURE" => w \in BOOLEAN /\ w = v
        /\ n = "TEMPERATURE" => /\ w \in Readings /\ w.temp = v.temp
                                /\ w = v \/ (v.target = 0 /\ cache[n] # Absent)
    <3> HIDE DEF n, v
    <3>1. /\ n # "TEMPERATURE" => Merged(n, v) = v
          /\ n = "TEMPERATURE" => /\ Merged(n, v) \in Readings
                                  /\ Merged(n, v).temp = v.temp
                                  /\ \/ Merged(n, v) = v
                                     \/ v.target = 0 /\ cache[n] # Absent
        BY <1>2, <1>4, MergedType
    <3> QED
        BY <1>2, <1>5, <3>1
  <2> QED
      BY <1>2, <1>5, <2>1 DEF HandledAs
<1> QED
    BY <1>1, <1>2, <1>3, <1>5

LEMMA CoolerInit == Init => CoolerStateAgrees
BY DEF Init, Defaults, CoolerStateAgrees

LEMMA CoolerStep == TypeOK /\ CoolerStateAgrees /\ [Next]_vars => CoolerStateAgrees'
<1> SUFFICES ASSUME TypeOK, CoolerStateAgrees, [Next]_vars PROVE CoolerStateAgrees'
    OBVIOUS
<1>1. CASE Defined \/ Updated
  <2>1. PICK value : HandledAs(Head(channel), value)
      BY <1>1, HandledParts
  <2>2. Head(channel).name \in Names /\ view \in Views
      BY <1>1, HandledParts DEF TypeOK, Views
  <2> QED
      BY <2>1, <2>2, CoolerApply DEF HandledAs
<1>2. CASE UNCHANGED view
    BY <1>2 DEF CoolerStateAgrees
<1>3. Defined \/ Updated \/ UNCHANGED view
    BY DEF Next, vars, adapter, Unplug, Plug, DeviceDrops, ThermalChanges, Answer,
           DeviceConnects, DeviceRefuses, DeviceDisconnects, NobodyThere, Obeys, LinkLost,
           LinkEstablished, Handle, Deleted, Autoconnect, Request, Close, Closed
<1> QED
    BY <1>1, <1>2, <1>3

(* Whatever is defined, updated, deleted and lost, in whatever order, the  *)
(* derived state agrees with the switch and the power it is derived from.  *)
THEOREM CoolerStateIsDerived == Spec => []CoolerStateAgrees
BY CoolerInit, CoolerStep, AdapterTypeCorrect, PTL DEF Spec

-----------------------------------------------------------------------------
(* The mirrors.  Of each property the newest message under way tells what  *)
(* the server has; when no message about it is under way, the cache and    *)
(* the view have what the server has.  Messages are about one property, or *)
(* about all.                                                              *)
Concerns(m, n) == m.kind = "delete all" \/ m.name = n

Newest(s, n, i) ==
  /\ i \in 1 .. Len(s) /\ Concerns(s[i], n)
  /\ \A j \in i + 1 .. Len(s) : ~Concerns(s[j], n)

Unmentioned(s, n) == \A i \in 1 .. Len(s) : ~Concerns(s[i], n)

Has(n) == present /\ (n = "CONNECTION" \/ device.on)

Says(m, has, value) ==
  IF has THEN m.kind \in {"define", "update"} /\ m.value = value
         ELSE m.kind \in {"delete", "delete all"}

Agrees(m, n) == Says(m, Has(n), Value(device, n))

CacheAgrees(n) ==
  IF Has(n)
    THEN \/ cache[n] = Value(device, n)
         \/ /\ n = "TEMPERATURE" /\ device.target = 0
            /\ cache[n] # Absent /\ cache[n].temp = device.temp
    ELSE cache[n] = Absent

ViewAgrees(n) ==
  Has(n) => /\ n = "CONNECTION" => deviceConnected = device.on
            /\ n = "COOLER" => view.cooler = device.cooler
            /\ n = "POWER" => view.full = device.full
            /\ n = "TEMPERATURE" => /\ view.temp = device.temp
                                    /\ device.target # 0 => view.target = device.target

Tracks(n) ==
  /\ \A i : Newest(channel, n, i) => Agrees(channel[i], n)
  /\ Unmentioned(channel, n) => CacheAgrees(n) /\ ViewAgrees(n)

MirrorInv ==
  /\ device.on => present
  /\ link = "up" => \A n \in Names : Tracks(n)

(* The server emits: either nothing about n, and n stays what it was, or a *)
(* newest message about n that agrees with what n becomes.                 *)
LEMMA TracksEmitted ==
  ASSUME channel \in Seq(Messages), NEW s \in Seq(Messages), channel' = channel \o s,
         NEW n \in Names, Tracks(n), UNCHANGED <<cache, view, deviceConnected>>,
         \/ /\ Unmentioned(s, n)
            /\ Has(n)' = Has(n)
            /\ Has(n) => /\ Value(device, n)' = Value(device, n)
                         /\ n = "COOLER" => device'.cooler = device.cooler
                         /\ n = "POWER" => device'.full = device.full
                         /\ n = "CONNECTION" => device'.on = device.on
                         /\ n = "TEMPERATURE" => /\ device'.temp = device.temp
                                                 /\ device'.target = device.target
         \/ \E i \in 1 .. Len(s) :
               Newest(s, n, i) /\ Says(s[i], Has(n)', Value(device', n))
  PROVE  Tracks(n)'
<1> DEFINE l == Len(channel)
<1>1. /\ l \in Nat /\ Len(s) \in Nat /\ Len(channel') = l + Len(s)
      /\ \A i \in 1 .. l : channel'[i] = channel[i]
      /\ \A i \in 1 .. Len(s) : channel'[l + i] = s[i]
    BY ConcatProperties, LenProperties
<1>2. CASE Unmentioned(s, n)
  <2>1. \A i \in l + 1 .. l + Len(s) : ~Concerns(channel'[i], n)
    <3> SUFFICES ASSUME NEW i \in l + 1 .. l + Len(s)
                 PROVE  ~Concerns(channel'[i], n)
        OBVIOUS
    <3>1. i - l \in 1 .. Len(s) /\ l + (i - l) = i
        BY <1>1
    <3>2. channel'[i] = s[i - l]
        BY <1>1, <3>1
    <3> QED
        BY <1>2, <3>1, <3>2 DEF Unmentioned
  <2>2. \A i : Newest(channel', n, i) => Newest(channel, n, i) /\ channel'[i] = channel[i]
      BY <1>1, <2>1 DEF Newest
  <2>3. Unmentioned(channel', n) => Unmentioned(channel, n)
      BY <1>1 DEF Unmentioned
  <2>4. ~\E i \in 1 .. Len(s) : Newest(s, n, i)
      BY <1>2 DEF Unmentioned, Newest
  <2>5. /\ Has(n)' = Has(n)
        /\ Has(n) => /\ Value(device, n)' = Value(device, n)
                     /\ n = "COOLER" => device'.cooler = device.cooler
                     /\ n = "POWER" => device'.full = device.full
                     /\ n = "CONNECTION" => device'.on = device.on
                     /\ n = "TEMPERATURE" => /\ device'.temp = device.temp
                                             /\ device'.target = device.target
      BY <2>4
  <2>6. ASSUME NEW i, Newest(channel', n, i)
        PROVE  Says(channel'[i], Has(n)', Value(device', n))
    <3>1. Says(channel[i], Has(n), Value(device, n)) /\ channel'[i] = channel[i]
        BY <2>2, <2>6 DEF Tracks, Agrees
    <3>2. Has(n) => Value(device', n) = Value(device, n)
        BY <2>5
    <3> QED
        BY <2>5, <3>1, <3>2 DEF Says
  <2>7. ASSUME Unmentioned(channel', n)
        PROVE  CacheAgrees(n)' /\ ViewAgrees(n)'
    <3>1. CacheAgrees(n) /\ ViewAgrees(n)
        BY <2>3, <2>7 DEF Tracks
    <3>2. CacheAgrees(n)'
        BY <2>5, <3>1 DEF CacheAgrees, Value, Reading
    <3>3. ViewAgrees(n)'
        BY <2>5, <3>1 DEF ViewAgrees
    <3> QED
        BY <3>2, <3>3
  <2> QED
      BY <2>6, <2>7 DEF Tracks, Agrees
<1>3. ASSUME NEW k \in 1 .. Len(s), Newest(s, n, k), Says(s[k], Has(n)', Value(device', n))
      PROVE  Tracks(n)'
  <2>1. channel'[l + k] = s[k] /\ Concerns(channel'[l + k], n) /\ l + k \in 1 .. Len(channel')
      BY <1>1, <1>3 DEF Newest
  <2>2. ~Unmentioned(channel', n)
      BY <2>1 DEF Unmentioned
  <2>3. \A i : Newest(channel', n, i) => i = l + k
    <3> SUFFICES ASSUME NEW i, Newest(channel', n, i) PROVE i = l + k
        OBVIOUS
    <3>1. i \in 1 .. l + Len(s) /\ \A j \in i + 1 .. l + Len(s) : ~Concerns(channel'[j], n)
        BY <1>1 DEF Newest
    <3>3. ~(i < l + k)
      <4>1. i < l + k => l + k \in i + 1 .. l + Len(s)
          BY <1>1, <3>1
      <4> QED
          BY <2>1, <3>1, <4>1
    <3>2. ASSUME i > l + k PROVE FALSE
      <4>1. i - l \in k + 1 .. Len(s) /\ l + (i - l) = i /\ i - l \in 1 .. Len(s)
          BY <1>1, <3>1, <3>2
      <4>2. channel'[i] = s[i - l]
          BY <1>1, <4>1
      <4> QED
          BY <1>3, <4>1, <4>2 DEF Newest
    <3>4. i \in Int /\ l + k \in Int
        BY <1>1, <3>1
    <3> HIDE DEF l
    <3> QED
        BY <3>2, <3>3, <3>4
  <2> QED
      BY <1>3, <2>1, <2>2, <2>3 DEF Tracks, Agrees
<1> QED
    BY <1>2, <1>3

LEMMA ConcernsWhom ==
  \A n, k : /\ \A d : Concerns(Define(d, k), n) <=> k = n
            /\ \A d : Concerns(Update(d, k), n) <=> k = n
            /\ Concerns(Delete(k), n) <=> k = n
            /\ Concerns(DeleteAll, n)
BY DEF Concerns, Define, Update, Delete, DeleteAll

LEMMA NewestIsOne ==
  ASSUME NEW s, Len(s) \in Nat, NEW n, NEW i, NEW j, Newest(s, n, i), Newest(s, n, j)
  PROVE  i = j
BY DEF Newest

(* What the server tells when a connection is made: all it has, in an      *)
(* order that has each property once.                                      *)
LEMMA TracksTold ==
  ASSUME NEW s \in Seq(Messages), channel' = s, NEW n \in Names,
         \/ Unmentioned(s, n) /\ ~Has(n)' /\ cache'[n] = Absent
         \/ \E i \in 1 .. Len(s) :
               Newest(s, n, i) /\ Says(s[i], Has(n)', Value(device', n))
  PROVE  Tracks(n)'
<1>1. Len(s) \in Nat
    BY LenProperties
<1>2. CASE Unmentioned(s, n) /\ ~Has(n)' /\ cache'[n] = Absent
  <2>1. \A i : ~Newest(s, n, i)
      BY <1>2 DEF Unmentioned, Newest
  <2> QED
      BY <1>2, <2>1 DEF Tracks, CacheAgrees, ViewAgrees
<1>3. ASSUME NEW i \in 1 .. Len(s), Newest(s, n, i), Says(s[i], Has(n)', Value(device', n))
      PROVE  Tracks(n)'
  <2>1. ~Unmentioned(s, n)
      BY <1>3 DEF Unmentioned, Newest
  <2>2. \A j : Newest(s, n, j) => j = i
      BY <1>1, <1>3, NewestIsOne
  <2> QED
      BY <1>3, <2>1, <2>2 DEF Tracks, Agrees
<1> QED
    BY <1>2, <1>3

(* The front message is handled: if it was the newest about n, it agrees   *)
(* with what the server has, and so must what the handler makes of it.     *)
LEMMA TracksReceived ==
  ASSUME channel \in Seq(Messages), channel # <<>>, channel' = Tail(channel),
         UNCHANGED <<present, device>>, NEW n \in Names, Tracks(n),
         IF Concerns(Head(channel), n)
           THEN Agrees(Head(channel), n) => CacheAgrees(n)' /\ ViewAgrees(n)'
           ELSE CacheAgrees(n) /\ ViewAgrees(n) => CacheAgrees(n)' /\ ViewAgrees(n)'
  PROVE  Tracks(n)'
<1>1. /\ Len(channel) \in Nat /\ Len(channel) > 0 /\ Head(channel) = channel[1]
      /\ Len(channel') = Len(channel) - 1
      /\ \A i \in 1 .. Len(channel') : channel'[i] = channel[i + 1]
    BY HeadTailProperties, LenProperties, EmptySeq
<1>2. ASSUME NEW i, Newest(channel', n, i)
      PROVE  Says(channel'[i], Has(n)', Value(device', n))
  <2>1. i \in 1 .. Len(channel') /\ i + 1 \in 1 .. Len(channel) /\ channel'[i] = channel[i + 1]
      BY <1>1, <1>2 DEF Newest
  <2>2. \A j \in i + 2 .. Len(channel) : ~Concerns(channel[j], n)
    <3> SUFFICES ASSUME NEW j \in i + 2 .. Len(channel) PROVE ~Concerns(channel[j], n)
        OBVIOUS
    <3>1. j - 1 \in i + 1 .. Len(channel') /\ j - 1 \in 1 .. Len(channel') /\ (j - 1) + 1 = j
        BY <1>1, <2>1
    <3>2. channel'[j - 1] = channel[j]
        BY <1>1, <3>1
    <3> QED
        BY <1>2, <3>1, <3>2 DEF Newest
  <2>3. Newest(channel, n, i + 1)
    <3>1. (i + 1) + 1 = i + 2
        BY <2>1
    <3> QED
        BY <1>2, <2>1, <2>2, <3>1 DEF Newest
  <2> QED
      BY <2>1, <2>3 DEF Tracks, Agrees, Has
<1>3. ASSUME Unmentioned(channel', n)
      PROVE  CacheAgrees(n)' /\ ViewAgrees(n)'
  <2>1. \A j \in 2 .. Len(channel) : ~Concerns(channel[j], n)
    <3> SUFFICES ASSUME NEW j \in 2 .. Len(channel) PROVE ~Concerns(channel[j], n)
        OBVIOUS
    <3>1. j - 1 \in 1 .. Len(channel') /\ (j - 1) + 1 = j
        BY <1>1
    <3> QED
        BY <1>1, <1>3, <3>1 DEF Unmentioned
  <2>2. CASE Concerns(channel[1], n)
    <3>1. Newest(channel, n, 1)
        BY <1>1, <2>1, <2>2 DEF Newest
    <3> QED
        BY <1>1, <2>2, <3>1 DEF Tracks
  <2>3. CASE ~Concerns(channel[1], n)
    <3>1. Unmentioned(channel, n)
        BY <1>1, <2>1, <2>3 DEF Unmentioned
    <3> QED
        BY <1>1, <2>3, <3>1 DEF Tracks
  <2> QED
      BY <2>2, <2>3
<1> QED
    BY <1>2, <1>3 DEF Tracks, Agrees

LEMMA MirrorHandled ==
  ASSUME TypeOK, Defined \/ Updated, NEW n \in Names, Tracks(n)
  PROVE  Tracks(n)'
<1>1. PICK value : HandledAs(Head(channel), value)
    BY HandledParts
<1> DEFINE m == Head(channel)
<1>2. /\ m \in Messages /\ m.name \in Names /\ m.kind \in {"define", "update"}
      /\ Concerns(m, n) <=> m.name = n
    BY HandledParts DEF Concerns
<1>3. /\ channel # <<>> /\ channel' = Tail(channel) /\ UNCHANGED <<present, device>>
    BY DEF Defined, Updated, Receive, server
<1>4. /\ channel \in Seq(Messages) /\ DOMAIN cache = Names /\ view \in Views
      /\ device \in Devices
    BY DEF TypeOK, Views
<1>5. cache' = [cache EXCEPT ![m.name] = value] /\ Apply(m.name, value)
    BY <1>1 DEF HandledAs
<1>6. ASSUME m.name = n, Agrees(m, n)
      PROVE  CacheAgrees(n)' /\ ViewAgrees(n)'
  <2>1. Has(n) /\ m.value = Value(device, n) /\ Has(n)'
      BY <1>2, <1>3, <1>6 DEF Agrees, Says, Has
  <2>2. /\ cache'[n] = value
        /\ n # "TEMPERATURE" => value = Value(device, n)
        /\ n = "TEMPERATURE" =>
             /\ value \in Readings /\ value.temp = device.temp
             /\ value = Value(device, n) \/ (device.target = 0 /\ value # Absent)
      BY <1>1, <1>4, <1>5, <1>6, <2>1, AbsentAssumption DEF HandledAs, Value, Reading, Names, Thermal
  <2>3. CacheAgrees(n)'
      BY <1>3, <2>1, <2>2 DEF CacheAgrees
  <2>4. ViewAgrees(n)'
    <3>1. CASE n = "CONNECTION"
        BY <1>3, <1>5, <1>6, <2>2, <3>1 DEF ViewAgrees, Apply, Value
    <3>2. CASE n = "COOLER"
        BY <1>3, <1>4, <1>5, <1>6, <2>2, <3>2 DEF ViewAgrees, Apply, Value, Derived, Views
    <3>3. CASE n = "POWER"
        BY <1>3, <1>4, <1>5, <1>6, <2>2, <3>3 DEF ViewAgrees, Apply, Value, Derived, Views
    <3>4. CASE n = "TEMPERATURE"
      <4>1. view'.temp = value.temp /\ view'.target = value.target
          BY <1>4, <1>5, <1>6, <3>4 DEF Apply, Views
      <4>2. device.target # 0 => value.target = device.target
          BY <2>2, <3>4 DEF Value, Reading
      <4> QED
          BY <1>3, <2>2, <3>4, <4>1, <4>2 DEF ViewAgrees
    <3> QED
        BY <3>1, <3>2, <3>3, <3>4 DEF Names, Thermal
  <2> QED
      BY <2>3, <2>4
<1>7. ASSUME m.name # n, CacheAgrees(n), ViewAgrees(n)
      PROVE  CacheAgrees(n)' /\ ViewAgrees(n)'
  <2>1. cache'[n] = cache[n] /\ Has(n)' = Has(n)
      BY <1>3, <1>4, <1>5, <1>7 DEF Has
  <2>2. CacheAgrees(n)'
      BY <1>3, <1>7, <2>1 DEF CacheAgrees
  <2>3. /\ n = "CONNECTION" => UNCHANGED deviceConnected
        /\ n = "COOLER" => view'.cooler = view.cooler
        /\ n = "POWER" => view'.full = view.full
        /\ n = "TEMPERATURE" => view'.temp = view.temp /\ view'.target = view.target
      BY <1>2, <1>4, <1>5, <1>7 DEF Apply, Derived, Views, Names, Thermal
  <2>4. ViewAgrees(n)'
      BY <1>3, <1>7, <2>1, <2>3 DEF ViewAgrees
  <2> QED
      BY <2>2, <2>4
<1> HIDE DEF m
<1>8. IF Concerns(m, n)
        THEN Agrees(m, n) => CacheAgrees(n)' /\ ViewAgrees(n)'
        ELSE CacheAgrees(n) /\ ViewAgrees(n) => CacheAgrees(n)' /\ ViewAgrees(n)'
    BY <1>2, <1>6, <1>7
<1> QED
    BY <1>3, <1>4, <1>8, TracksReceived DEF m

LEMMA MirrorDeleted ==
  ASSUME TypeOK, Deleted, NEW n \in Names, Tracks(n)
  PROVE  Tracks(n)'
<1>1. /\ channel # <<>> /\ channel' = Tail(channel) /\ channel \in Seq(Messages)
      /\ UNCHANGED <<present, device, deviceConnected, view>>
    BY DEF Deleted, Receive, server, TypeOK
<1>2. Has(n)' = Has(n)
    BY <1>1 DEF Has
<1>3. CASE Concerns(Head(channel), n)
  <2>1. Agrees(Head(channel), n) => ~Has(n)
      BY DEF Deleted, Receive, Agrees, Says
  <2>2. cache'[n] = Absent
      BY <1>3 DEF Deleted, Receive, Concerns, EmptyCache, TypeOK
  <2>3. Agrees(Head(channel), n) => CacheAgrees(n)' /\ ViewAgrees(n)'
      BY <1>2, <2>1, <2>2 DEF CacheAgrees, ViewAgrees
  <2> QED
      BY <1>1, <1>3, <2>3, TracksReceived
<1>4. CASE ~Concerns(Head(channel), n)
  <2>1. cache'[n] = cache[n]
      BY <1>4 DEF Deleted, Receive, Concerns, TypeOK
  <2>2. CacheAgrees(n) /\ ViewAgrees(n) => CacheAgrees(n)' /\ ViewAgrees(n)'
      BY <1>1, <1>2, <2>1 DEF CacheAgrees, ViewAgrees
  <2> QED
      BY <1>1, <1>4, <2>2, TracksReceived
<1> QED
    BY <1>3, <1>4

(* The camera is switched off: the thermal properties go, and CONNECTION   *)
(* says so.                                                                *)
LEMMA MirrorSwitchedOff ==
  ASSUME TypeOK, SwitchedOff, link = "up", present, UNCHANGED <<present, cache>>,
         UNCHANGED <<view, deviceConnected>>, NEW n \in Names, Tracks(n)
  PROVE  Tracks(n)'
<1> DEFINE t == <<Delete("COOLER"), Delete("POWER"), Delete("TEMPERATURE"),
                  Update(device', "CONNECTION")>>
<1>1. device' \in Devices /\ ~device'.on /\ channel' = channel \o t /\ channel \in Seq(Messages)
    BY DEF SwitchedOff, Emit, Linked, TypeOK, Devices
<1>2. /\ Delete("COOLER") \in Messages /\ Delete("POWER") \in Messages
      /\ Delete("TEMPERATURE") \in Messages /\ Update(device', "CONNECTION") \in Messages
    BY <1>1, MessageTypes DEF Names, Thermal
<1>3. /\ t \in Seq(Messages) /\ Len(t) = 4
      /\ t[1] = Delete("COOLER") /\ t[2] = Delete("POWER") /\ t[3] = Delete("TEMPERATURE")
      /\ t[4] = Update(device', "CONNECTION")
    BY <1>2
<1>4. PICK s \in Seq(Messages) :
        /\ channel' = channel \o s /\ Len(s) = 4
        /\ s[1] = Delete("COOLER") /\ s[2] = Delete("POWER") /\ s[3] = Delete("TEMPERATURE")
        /\ s[4] = Update(device', "CONNECTION")
  <2> HIDE DEF t
  <2> QED
      BY <1>1, <1>3
<1>5. ASSUME NEW i \in 1 .. 4, Newest(s, n, i), Says(s[i], Has(n)', Value(device', n))
      PROVE  Tracks(n)'
    BY <1>1, <1>4, <1>5, TracksEmitted
<1>6. ASSUME NEW k
      PROVE  /\ Concerns(s[1], k) <=> k = "COOLER"
             /\ Concerns(s[2], k) <=> k = "POWER"
             /\ Concerns(s[3], k) <=> k = "TEMPERATURE"
             /\ Concerns(s[4], k) <=> k = "CONNECTION"
    BY <1>4 DEF Concerns, Delete, Update
<1>7. ASSUME NEW i \in 1 .. 4, Concerns(s[i], n),
             \A j \in 1 .. 4 : j > i => ~Concerns(s[j], n)
      PROVE  Newest(s, n, i)
    BY <1>4, <1>7 DEF Newest
<1>8. CASE n = "CONNECTION"
  <2>1. Newest(s, n, 4)
      BY <1>6, <1>7, <1>8
  <2>2. Says(s[4], Has(n)', Value(device', n))
      BY <1>1, <1>4, <1>8 DEF Says, Has, Update
  <2> QED
      BY <1>5, <2>1, <2>2
<1>9. CASE n # "CONNECTION"
  <2>1. ~Has(n)'
      BY <1>1, <1>9 DEF Has
  <2>2. \A i \in 1 .. 3 : Says(s[i], Has(n)', Value(device', n))
    <3>1. \A i \in 1 .. 3 : s[i].kind = "delete"
      <4>1. s[1].kind = "delete" /\ s[2].kind = "delete" /\ s[3].kind = "delete"
          BY <1>4 DEF Delete
      <4>2. \A i \in 1 .. 3 : i = 1 \/ i = 2 \/ i = 3
          OBVIOUS
      <4> QED
          BY <4>1, <4>2
    <3> QED
        BY <2>1, <3>1 DEF Says
  <2>3. \E i \in 1 .. 3 : Newest(s, n, i)
    <3>1. CASE n = "COOLER"
      <4>1. Newest(s, n, 1)
          BY <1>6, <1>7, <3>1
      <4> QED
          BY <4>1
    <3>2. CASE n = "POWER"
      <4>1. Newest(s, n, 2)
          BY <1>6, <1>7, <3>2
      <4> QED
          BY <4>1
    <3>3. CASE n = "TEMPERATURE"
      <4>1. Newest(s, n, 3)
          BY <1>6, <1>7, <3>3
      <4> QED
          BY <4>1
    <3> QED
        BY <1>9, <3>1, <3>2, <3>3 DEF Names, Thermal
  <2> QED
      BY <1>5, <2>2, <2>3
<1> QED
    BY <1>8, <1>9

(* One message is emitted. *)
LEMMA TracksEmittedOne ==
  ASSUME channel \in Seq(Messages), NEW m \in Messages, channel' = channel \o <<m>>,
         NEW n \in Names, Tracks(n), UNCHANGED <<cache, view, deviceConnected>>,
         IF Concerns(m, n)
           THEN Says(m, Has(n)', Value(device', n))
           ELSE /\ Has(n)' = Has(n)
                /\ Has(n) => /\ Value(device, n)' = Value(device, n)
                             /\ n = "COOLER" => device'.cooler = device.cooler
                             /\ n = "POWER" => device'.full = device.full
                             /\ n = "CONNECTION" => device'.on = device.on
                             /\ n = "TEMPERATURE" => /\ device'.temp = device.temp
                                                     /\ device'.target = device.target
  PROVE  Tracks(n)'
<1>1. PICK s \in Seq(Messages) : channel' = channel \o s /\ Len(s) = 1 /\ s[1] = m
  <2>1. <<m>> \in Seq(Messages) /\ Len(<<m>>) = 1 /\ <<m>>[1] = m
      OBVIOUS
  <2> QED
      BY <2>1
<1>2. CASE Concerns(m, n)
  <2>1. Newest(s, n, 1) /\ Says(s[1], Has(n)', Value(device', n)) /\ 1 \in 1 .. Len(s)
      BY <1>1, <1>2 DEF Newest
  <2> QED
      BY <1>1, <2>1, TracksEmitted
<1>3. CASE ~Concerns(m, n)
  <2>1. Unmentioned(s, n)
      BY <1>1, <1>3 DEF Unmentioned
  <2> QED
      BY <1>1, <1>3, <2>1, TracksEmitted
<1> QED
    BY <1>2, <1>3

LEMMA MirrorUnplugged ==
  ASSUME TypeOK, Unplug, link = "up", NEW n \in Names, Tracks(n)
  PROVE  Tracks(n)'
<1>1. /\ channel \in Seq(Messages) /\ channel' = channel \o <<DeleteAll>>
      /\ UNCHANGED <<cache, view, deviceConnected>> /\ ~present'
    BY DEF TypeOK, Unplug, Emit, Linked, adapter
<1>2. DeleteAll \in Messages /\ Concerns(DeleteAll, n)
    BY ConcernsWhom DEF Messages
<1>3. Says(DeleteAll, Has(n)', Value(device', n))
    BY <1>1 DEF Says, DeleteAll, Has
<1> QED
    BY <1>1, <1>2, <1>3, TracksEmittedOne

LEMMA MirrorPlugged ==
  ASSUME TypeOK, Plug, link = "up", device.on => present, NEW n \in Names, Tracks(n)
  PROVE  Tracks(n)'
<1> DEFINE m == Define(device, "CONNECTION")
<1>1. /\ channel \in Seq(Messages) /\ channel' = channel \o <<m>>
      /\ UNCHANGED <<device, cache, view, deviceConnected>>
      /\ ~present /\ present' /\ ~device.on
    BY DEF TypeOK, Plug, Emit, Linked, adapter
<1>2. m \in Messages /\ (Concerns(m, n) <=> n = "CONNECTION")
    BY MessageTypes, ConcernsWhom DEF Names, TypeOK
<1>3. n = "CONNECTION" => Says(m, Has(n)', Value(device', n))
    BY <1>1 DEF Says, Define, Has
<1>4. n # "CONNECTION" => ~Has(n) /\ ~Has(n)'
    BY <1>1 DEF Has
<1>5. n # "CONNECTION" => Has(n)' = Has(n)
    BY <1>1 DEF Has
<1> HIDE DEF m
<1>6. CASE n = "CONNECTION"
    BY <1>1, <1>2, <1>3, <1>6, TracksEmittedOne
<1>7. CASE n # "CONNECTION"
    BY <1>1, <1>2, <1>4, <1>5, <1>7, TracksEmittedOne
<1> QED
    BY <1>6, <1>7

LEMMA MirrorThermal ==
  ASSUME TypeOK, ThermalChanges, link = "up", NEW n \in Names, Tracks(n)
  PROVE  Tracks(n)'
<1>1. PICK k \in Thermal, d \in Devices :
        /\ \A other \in Names \ {k} : Value(d, other) = Value(device, other)
        /\ device' = d
        /\ Emit(<<Update(d, k)>>)
    BY DEF ThermalChanges
<1> DEFINE m == Update(d, k)
<1>2. /\ channel \in Seq(Messages) /\ channel' = channel \o <<m>>
      /\ UNCHANGED <<present, cache, view, deviceConnected>>
      /\ present /\ device.on
    BY <1>1 DEF TypeOK, ThermalChanges, Emit, Linked, adapter
<1>3. m \in Messages /\ (Concerns(m, n) <=> n = k)
    BY <1>1, MessageTypes, ConcernsWhom DEF Names
<1>4. d.on = device.on
    BY <1>1 DEF Value, Names, Thermal
<1>5. n = k => Says(m, Has(n)', Value(device', n))
    BY <1>1, <1>2, <1>4 DEF Says, Update, Has
<1>6. Has(n)' = Has(n)
    BY <1>1, <1>2, <1>4 DEF Has
<1>7. n # k => /\ Value(device', n) = Value(device, n)
               /\ n = "COOLER" => device'.cooler = device.cooler
               /\ n = "POWER" => device'.full = device.full
               /\ n = "CONNECTION" => device'.on = device.on
               /\ n = "TEMPERATURE" => /\ device'.temp = device.temp
                                       /\ device'.target = device.target
  <2>1. n # k => Value(device', n) = Value(device, n)
      BY <1>1
  <2>2. n = "TEMPERATURE" /\ Value(device', n) = Value(device, n)
          => device'.temp = device.temp /\ device'.target = device.target
      BY DEF Value, Reading
  <2> QED
      BY <2>1, <2>2 DEF Value
<1> HIDE DEF m
<1> QED
    BY <1>2, <1>3, <1>5, <1>6, <1>7, TracksEmittedOne

(* The server answers a "connect", or a handshake, with what it has, each  *)
(* property once.                                                          *)
LEMMA ToldOnce ==
  ASSUME NEW d \in Devices, NEW m \in Messages, NEW first \in BOOLEAN,
         \A n : Concerns(m, n) <=> n = "CONNECTION"
  PROVE  \E s \in Seq(Messages) :
           /\ s = IF first THEN <<m>> \o ThermalProperties(d)
                           ELSE ThermalProperties(d) \o <<m>>
           /\ Len(s) = 4
           /\ \A n \in Names : \E i \in 1 .. 4 :
                /\ Newest(s, n, i)
                /\ s[i] = IF n = "CONNECTION" THEN m ELSE Define(d, n)
<1> DEFINE c == Define(d, "COOLER")
           p == Define(d, "POWER")
           t == Define(d, "TEMPERATURE")
<1>1. /\ c \in Messages /\ p \in Messages /\ t \in Messages
      /\ \A n : /\ Concerns(c, n) <=> n = "COOLER"
                /\ Concerns(p, n) <=> n = "POWER"
                /\ Concerns(t, n) <=> n = "TEMPERATURE"
    BY MessageTypes, ConcernsWhom DEF Names, Thermal
<1>2. ThermalProperties(d) = <<c, p, t>>
    BY DEF ThermalProperties
<1> HIDE DEF c, p, t
<1>4. CASE first
  <2>1. PICK s \in Seq(Messages) :
          s = <<m>> \o <<c, p, t>> /\ Len(s) = 4
            /\ s[1] = m /\ s[2] = c /\ s[3] = p /\ s[4] = t
    <3>1. PICK a \in Seq(Messages), b \in Seq(Messages) :
            /\ a = <<m>> /\ b = <<c, p, t>> /\ Len(a) = 1 /\ Len(b) = 3
            /\ a[1] = m /\ b[1] = c /\ b[2] = p /\ b[3] = t
      <4>1. <<m>> \in Seq(Messages) /\ Len(<<m>>) = 1 /\ <<m>>[1] = m
          BY <1>1
      <4>2. <<c, p, t>> \in Seq(Messages) /\ Len(<<c, p, t>>) = 3 /\ <<c, p, t>>[1] = c /\ <<c, p, t>>[2] = p /\ <<c, p, t>>[3] = t
          BY <1>1
      <4> QED
          BY <4>1, <4>2
    <3>2. /\ a \o b \in Seq(Messages) /\ Len(a \o b) = 4
          /\ \A i \in 1 .. 1 : (a \o b)[i] = a[i]
          /\ \A i \in 1 .. 3 : (a \o b)[1 + i] = b[i]
        BY <3>1, ConcatProperties
    <3>3. (a \o b)[1] = m /\ (a \o b)[2] = c /\ (a \o b)[3] = p /\ (a \o b)[4] = t
        BY <3>1, <3>2
    <3> QED
        BY <3>1, <3>2, <3>3
  <2>2. Newest(s, "CONNECTION", 1) /\ Newest(s, "COOLER", 2) /\ Newest(s, "POWER", 3)
          /\ Newest(s, "TEMPERATURE", 4)
    <3>1. Len(s) = 4
        BY <2>1
    <3>2. \A j \in 1 .. 4 : j = 1 \/ j = 2 \/ j = 3 \/ j = 4
        OBVIOUS
    <3>3. ASSUME NEW k
          PROVE  /\ Concerns(s[1], k) <=> k = "CONNECTION"
                 /\ Concerns(s[2], k) <=> k = "COOLER"
                 /\ Concerns(s[3], k) <=> k = "POWER"
                 /\ Concerns(s[4], k) <=> k = "TEMPERATURE"
        BY <1>1, <2>1
    <3>4. Newest(s, "CONNECTION", 1)
      <4>1. /\ Concerns(s[1], "CONNECTION")
            /\ \A j \in 1 .. 4 : j # 1 => ~Concerns(s[j], "CONNECTION")
          BY <3>2, <3>3
      <4> QED
          BY <3>1, <4>1 DEF Newest
    <3>5. Newest(s, "COOLER", 2)
      <4>1. /\ Concerns(s[2], "COOLER")
            /\ \A j \in 1 .. 4 : j # 2 => ~Concerns(s[j], "COOLER")
          BY <3>2, <3>3
      <4> QED
          BY <3>1, <4>1 DEF Newest
    <3>6. Newest(s, "POWER", 3)
      <4>1. /\ Concerns(s[3], "POWER")
            /\ \A j \in 1 .. 4 : j # 3 => ~Concerns(s[j], "POWER")
          BY <3>2, <3>3
      <4> QED
          BY <3>1, <4>1 DEF Newest
    <3>7. Newest(s, "TEMPERATURE", 4)
      <4>1. /\ Concerns(s[4], "TEMPERATURE")
            /\ \A j \in 1 .. 4 : j # 4 => ~Concerns(s[j], "TEMPERATURE")
          BY <3>2, <3>3
      <4> QED
          BY <3>1, <4>1 DEF Newest
    <3> QED
        BY <3>4, <3>5, <3>6, <3>7
  <2>3. \A n \in Names : \E i \in 1 .. 4 :
          Newest(s, n, i) /\ s[i] = IF n = "CONNECTION" THEN m ELSE Define(d, n)
      BY <2>1, <2>2 DEF Names, Thermal, c, p, t
  <2> QED
      BY <1>2, <1>4, <2>1, <2>3
<1>5. CASE ~first
  <2>1. PICK s \in Seq(Messages) :
          s = <<c, p, t>> \o <<m>> /\ Len(s) = 4
            /\ s[1] = c /\ s[2] = p /\ s[3] = t /\ s[4] = m
    <3>1. PICK a \in Seq(Messages), b \in Seq(Messages) :
            /\ a = <<c, p, t>> /\ b = <<m>> /\ Len(a) = 3 /\ Len(b) = 1
            /\ a[1] = c /\ a[2] = p /\ a[3] = t /\ b[1] = m
      <4>1. <<c, p, t>> \in Seq(Messages) /\ Len(<<c, p, t>>) = 3 /\ <<c, p, t>>[1] = c /\ <<c, p, t>>[2] = p /\ <<c, p, t>>[3] = t
          BY <1>1
      <4>2. <<m>> \in Seq(Messages) /\ Len(<<m>>) = 1 /\ <<m>>[1] = m
          BY <1>1
      <4> QED
          BY <4>1, <4>2
    <3>2. /\ a \o b \in Seq(Messages) /\ Len(a \o b) = 4
          /\ \A i \in 1 .. 3 : (a \o b)[i] = a[i]
          /\ \A i \in 1 .. 1 : (a \o b)[3 + i] = b[i]
        BY <3>1, ConcatProperties
    <3>3. (a \o b)[1] = c /\ (a \o b)[2] = p /\ (a \o b)[3] = t /\ (a \o b)[4] = m
        BY <3>1, <3>2
    <3> QED
        BY <3>1, <3>2, <3>3
  <2>2. Newest(s, "CONNECTION", 4) /\ Newest(s, "COOLER", 1) /\ Newest(s, "POWER", 2)
          /\ Newest(s, "TEMPERATURE", 3)
    <3>1. Len(s) = 4
        BY <2>1
    <3>2. \A j \in 1 .. 4 : j = 1 \/ j = 2 \/ j = 3 \/ j = 4
        OBVIOUS
    <3>3. ASSUME NEW k
          PROVE  /\ Concerns(s[1], k) <=> k = "COOLER"
                 /\ Concerns(s[2], k) <=> k = "POWER"
                 /\ Concerns(s[3], k) <=> k = "TEMPERATURE"
                 /\ Concerns(s[4], k) <=> k = "CONNECTION"
        BY <1>1, <2>1
    <3>4. Newest(s, "COOLER", 1)
      <4>1. /\ Concerns(s[1], "COOLER")
            /\ \A j \in 1 .. 4 : j # 1 => ~Concerns(s[j], "COOLER")
          BY <3>2, <3>3
      <4> QED
          BY <3>1, <4>1 DEF Newest
    <3>5. Newest(s, "POWER", 2)
      <4>1. /\ Concerns(s[2], "POWER")
            /\ \A j \in 1 .. 4 : j # 2 => ~Concerns(s[j], "POWER")
          BY <3>2, <3>3
      <4> QED
          BY <3>1, <4>1 DEF Newest
    <3>6. Newest(s, "TEMPERATURE", 3)
      <4>1. /\ Concerns(s[3], "TEMPERATURE")
            /\ \A j \in 1 .. 4 : j # 3 => ~Concerns(s[j], "TEMPERATURE")
          BY <3>2, <3>3
      <4> QED
          BY <3>1, <4>1 DEF Newest
    <3>7. Newest(s, "CONNECTION", 4)
      <4>1. /\ Concerns(s[4], "CONNECTION")
            /\ \A j \in 1 .. 4 : j # 4 => ~Concerns(s[j], "CONNECTION")
          BY <3>2, <3>3
      <4> QED
          BY <3>1, <4>1 DEF Newest
    <3> QED
        BY <3>4, <3>5, <3>6, <3>7
  <2>3. \A n \in Names : \E i \in 1 .. 4 :
          Newest(s, n, i) /\ s[i] = IF n = "CONNECTION" THEN m ELSE Define(d, n)
      BY <2>1, <2>2 DEF Names, Thermal, c, p, t
  <2> QED
      BY <1>2, <1>5, <2>1, <2>3
<1> QED
    BY <1>4, <1>5

LEMMA MirrorConnected ==
  ASSUME TypeOK, DeviceConnects, link = "up", NEW n \in Names, Tracks(n)
  PROVE  Tracks(n)'
<1> DEFINE u == Update(device', "CONNECTION")
<1>1. /\ channel \in Seq(Messages) /\ device \in Devices /\ device' \in Devices
      /\ device' = [device EXCEPT !.on = TRUE] /\ device'.on /\ present /\ present'
      /\ UNCHANGED <<cache, view, deviceConnected>>
      /\ channel' = channel \o ((IF device.on THEN <<>> ELSE ThermalProperties(device)) \o <<u>>)
    BY DEF TypeOK, DeviceConnects, Obeys, Emit, Linked, adapter, Devices
<1>2. u \in Messages /\ \A k : (Concerns(u, k) <=> k = "CONNECTION")
    BY <1>1, MessageTypes, ConcernsWhom DEF Names
<1>3. Has(n)' /\ Says(u, TRUE, Value(device', "CONNECTION"))
    BY <1>1 DEF Has, Says, Update
<1>4. \A k \in Names \ {"CONNECTION"} : Value(device', k) = Value(device, k)
    BY <1>1 DEF Value, Reading, Devices, Names, Thermal
<1> HIDE DEF u
<1>5. CASE device.on
  <2>1. device' = device
      BY <1>1, <1>5 DEF Devices
  <2>2. <<>> \o <<u>> = <<u>>
      BY <1>2
  <2>3. channel' = channel \o <<u>>
      BY <1>1, <1>5, <2>2
  <2>4. Has(n)' = Has(n)
      BY <1>1, <2>1 DEF Has
  <2>5. CASE n = "CONNECTION"
    <3>1. Says(u, Has(n)', Value(device', n))
        BY <1>3, <2>5 DEF Says
    <3> QED
        BY <1>1, <1>2, <2>3, <2>5, <3>1, TracksEmittedOne
  <2>6. CASE n # "CONNECTION"
      BY <1>1, <1>2, <2>1, <2>3, <2>4, <2>6, TracksEmittedOne
  <2> QED
      BY <2>5, <2>6
<1>6. CASE ~device.on
  <2>1. PICK s \in Seq(Messages) :
          /\ s = ThermalProperties(device) \o <<u>>
          /\ Len(s) = 4
          /\ \A k \in Names : \E i \in 1 .. 4 :
               Newest(s, k, i) /\ s[i] = IF k = "CONNECTION" THEN u ELSE Define(device, k)
    <3>1. \E s \in Seq(Messages) :
            /\ s = IF FALSE THEN <<u>> \o ThermalProperties(device)
                            ELSE ThermalProperties(device) \o <<u>>
            /\ Len(s) = 4
            /\ \A k \in Names : \E i \in 1 .. 4 :
                 Newest(s, k, i) /\ s[i] = IF k = "CONNECTION" THEN u ELSE Define(device, k)
        BY <1>1, <1>2, ToldOnce, Zenon
    <3> QED
        BY <3>1
  <2>2. PICK i \in 1 .. 4 :
          Newest(s, n, i) /\ s[i] = IF n = "CONNECTION" THEN u ELSE Define(device, n)
      BY <2>1
  <2>3. Says(s[i], Has(n)', Value(device', n))
      BY <1>3, <1>4, <2>2 DEF Says, Define
  <2>4. channel' = channel \o s
      BY <1>1, <1>6, <2>1
  <2> QED
      BY <1>1, <2>1, <2>2, <2>3, <2>4, TracksEmitted
<1> QED
    BY <1>5, <1>6

(* A refusal says again what is. *)
LEMMA MirrorRefused ==
  ASSUME TypeOK, DeviceRefuses, link = "up", NEW n \in Names, Tracks(n)
  PROVE  Tracks(n)'
<1> DEFINE u == Update(device, "CONNECTION")
<1>1. /\ channel \in Seq(Messages) /\ device \in Devices
      /\ UNCHANGED <<present, device, cache, view, deviceConnected>> /\ present
      /\ channel' = channel \o <<u>>
    BY DEF TypeOK, DeviceRefuses, Obeys, Emit, Linked, adapter
<1>2. u \in Messages /\ (Concerns(u, n) <=> n = "CONNECTION")
    BY <1>1, MessageTypes, ConcernsWhom DEF Names
<1>3. n = "CONNECTION" => Says(u, Has(n)', Value(device', n))
    BY <1>1 DEF Has, Says, Update
<1>4. Has(n)' = Has(n)
    BY <1>1 DEF Has
<1> HIDE DEF u
<1>5. CASE n = "CONNECTION"
    BY <1>1, <1>2, <1>3, <1>5, TracksEmittedOne
<1>6. CASE n # "CONNECTION"
    BY <1>1, <1>2, <1>4, <1>6, TracksEmittedOne
<1> QED
    BY <1>5, <1>6

LEMMA MirrorEstablished ==
  ASSUME TypeOK, LinkEstablished, device.on => present, NEW n \in Names
  PROVE  Tracks(n)'
<1> DEFINE m == Define(device, "CONNECTION")
<1>1. /\ device \in Devices /\ UNCHANGED <<present, device>> /\ cache'[n] = Absent
      /\ channel' = IF present
                      THEN <<m>> \o (IF device.on THEN ThermalProperties(device) ELSE <<>>)
                      ELSE <<>>
    BY DEF TypeOK, LinkEstablished, server, EmptyCache
<1>2. m \in Messages /\ \A k : (Concerns(m, k) <=> k = "CONNECTION")
    BY <1>1, MessageTypes, ConcernsWhom DEF Names
<1>3. present => Says(m, TRUE, Value(device', "CONNECTION"))
    BY <1>1 DEF Has, Says, Define
<1> HIDE DEF m
<1>4. CASE ~present
  <2>1. channel' = <<>> /\ <<>> \in Seq(Messages) /\ Unmentioned(<<>>, n) /\ ~Has(n)'
      BY <1>1, <1>4, EmptySeq DEF Unmentioned, Has
  <2> QED
      BY <1>1, <2>1, TracksTold
<1>5. CASE present /\ ~device.on
  <2>1. <<m>> \o <<>> = <<m>>
      BY <1>2
  <2>2. PICK s \in Seq(Messages) : channel' = s /\ Len(s) = 1 /\ s[1] = m
    <3>1. <<m>> \in Seq(Messages) /\ Len(<<m>>) = 1 /\ <<m>>[1] = m
        BY <1>2
    <3> QED
        BY <1>1, <1>5, <2>1, <3>1
  <2>3. CASE n = "CONNECTION"
    <3>1. Newest(s, n, 1) /\ 1 \in 1 .. Len(s)
        BY <1>2, <2>2, <2>3 DEF Newest
    <3>2. Says(s[1], Has(n)', Value(device', n))
        BY <1>1, <1>3, <1>5, <2>2, <2>3 DEF Says, Has
    <3> QED
        BY <2>2, <3>1, <3>2, TracksTold
  <2>4. CASE n # "CONNECTION"
    <3>1. Unmentioned(s, n) /\ ~Has(n)'
        BY <1>1, <1>2, <1>5, <2>2, <2>4 DEF Unmentioned, Has
    <3> QED
        BY <1>1, <2>2, <3>1, TracksTold
  <2> QED
      BY <2>3, <2>4
<1>6. CASE present /\ device.on
  <2>1. PICK s \in Seq(Messages) :
          /\ s = <<m>> \o ThermalProperties(device)
          /\ Len(s) = 4
          /\ \A k \in Names : \E i \in 1 .. 4 :
               Newest(s, k, i) /\ s[i] = IF k = "CONNECTION" THEN m ELSE Define(device, k)
    <3>1. device \in Devices /\ m \in Messages /\ TRUE \in BOOLEAN
          /\ \A k : (Concerns(m, k) <=> k = "CONNECTION")
        BY <1>1, <1>2
    <3>2. \E s \in Seq(Messages) :
            /\ s = IF TRUE THEN <<m>> \o ThermalProperties(device)
                           ELSE ThermalProperties(device) \o <<m>>
            /\ Len(s) = 4
            /\ \A k \in Names : \E i \in 1 .. 4 :
                 /\ Newest(s, k, i)
                 /\ s[i] = IF k = "CONNECTION" THEN m ELSE Define(device, k)
        BY ONLY <3>1, ToldOnce, Zenon
    <3> QED
        BY <3>2
  <2>2. PICK i \in 1 .. 4 :
          Newest(s, n, i) /\ s[i] = IF n = "CONNECTION" THEN m ELSE Define(device, n)
      BY <2>1
  <2>3. Has(n)'
      BY <1>1, <1>6 DEF Has
  <2>4. Says(s[i], Has(n)', Value(device', n))
      BY <1>1, <1>3, <1>6, <2>2, <2>3 DEF Says, Define
  <2>5. channel' = s
      BY <1>1, <1>6, <2>1
  <2> QED
      BY <2>1, <2>2, <2>4, <2>5, TracksTold
<1> QED
    BY <1>4, <1>5, <1>6

(* Nothing that Tracks speaks of changes. *)
LEMMA TracksUnchanged ==
  ASSUME NEW n \in Names, Tracks(n),
         UNCHANGED <<present, device, channel, cache, view, deviceConnected>>
  PROVE  Tracks(n)'
<1>1. Has(n)' = Has(n)
    BY DEF Has
<1>2. CacheAgrees(n) => CacheAgrees(n)'
    BY <1>1 DEF CacheAgrees
<1>3. ViewAgrees(n) => ViewAgrees(n)'
    BY <1>1 DEF ViewAgrees
<1> QED
    BY <1>1, <1>2, <1>3 DEF Tracks, Agrees

LEMMA MirrorInit == Init => MirrorInv
BY DEF Init, MirrorInv

LEMMA MirrorStep == TypeOK /\ MirrorInv /\ [Next]_vars => MirrorInv'
<1> SUFFICES ASSUME TypeOK, MirrorInv, [Next]_vars PROVE MirrorInv'
    OBVIOUS
<1>1. device'.on => present'
  <2>1. device \in Devices /\ (device.on => present)
      BY DEF TypeOK, MirrorInv
  <2>2. ASSUME NEW n \in Thermal, NEW d \in Devices, device' = d,
               \A other \in Names \ {n} : Value(d, other) = Value(device, other)
        PROVE  device'.on = device.on
      BY <2>2 DEF Value, Names, Thermal
  <2>3. ThermalChanges => device'.on = device.on /\ present' = present
      BY <2>2 DEF ThermalChanges
  <2> QED
      BY <2>1, <2>3
      DEF Next, vars, server, wires, adapter, Unplug, Plug, DeviceDrops, SwitchedOff, Answer,
          DeviceConnects, DeviceRefuses, DeviceDisconnects, NobodyThere, Obeys, LinkLost,
          LinkEstablished, Handle, Defined, Updated, Deleted, Receive, Autoconnect, Request,
          Close, Closed, Devices
<1>2. SUFFICES ASSUME link' = "up", NEW n \in Names PROVE Tracks(n)'
    BY <1>1 DEF MirrorInv
<1>3. CASE LinkEstablished
    BY <1>3, MirrorEstablished DEF MirrorInv
<1>4. CASE ~LinkEstablished
  <2>1. link = "up"
      BY <1>2, <1>4
      DEF Next, vars, wires, Unplug, Plug, DeviceDrops, ThermalChanges, Answer,
          DeviceConnects, DeviceRefuses, DeviceDisconnects, NobodyThere, Obeys, LinkLost,
          Handle, Defined, Updated, Deleted, Receive, Autoconnect, Request, Close, Closed
  <2>2. Tracks(n) /\ (device.on => present)
      BY <2>1 DEF MirrorInv
  <2>3. CASE Unplug
      BY <2>1, <2>2, <2>3, MirrorUnplugged
  <2>4. CASE Plug
      BY <2>1, <2>2, <2>4, MirrorPlugged
  <2>5. CASE DeviceDrops
      BY <2>1, <2>2, <2>5, MirrorSwitchedOff DEF DeviceDrops, adapter
  <2>6. CASE ThermalChanges
      BY <2>1, <2>2, <2>6, MirrorThermal
  <2>7. CASE DeviceConnects
      BY <2>1, <2>2, <2>7, MirrorConnected
  <2>8. CASE DeviceRefuses
      BY <2>1, <2>2, <2>8, MirrorRefused
  <2>9. CASE DeviceDisconnects
      BY <2>1, <2>2, <2>9, MirrorSwitchedOff DEF DeviceDisconnects, Obeys, adapter
  <2>10. CASE Defined \/ Updated
      BY <2>2, <2>10, MirrorHandled
  <2>11. CASE Deleted
      BY <2>2, <2>11, MirrorDeleted
  <2>12. CASE NobodyThere \/ Autoconnect \/ UNCHANGED vars
      BY <2>2, <2>12, TracksUnchanged
      DEF NobodyThere, Obeys, Autoconnect, vars, server, wires, adapter
  <2>13. CASE \E command \in {"connect", "disconnect"} : Request(command)
      BY <2>2, <2>13, TracksUnchanged DEF Request, server, adapter
  <2>14. CASE LinkLost \/ Close \/ Closed
      BY <1>2, <2>1, <2>14 DEF LinkLost, Close, Closed
  <2> QED
      BY <1>4, <2>3, <2>4, <2>5, <2>6, <2>7, <2>8, <2>9, <2>10, <2>11, <2>12, <2>13,
         <2>14 DEF Next, Answer, Handle
<1> QED
    BY <1>3, <1>4

LEMMA MirrorAlways == Spec => []MirrorInv
BY MirrorInit, MirrorStep, AdapterTypeCorrect, PTL DEF Spec

(* With nothing under way, no message is about anything. *)
LEMMA MirrorQuiet ==
  ASSUME MirrorInv, Quiet, NEW n \in Names
  PROVE  CacheAgrees(n) /\ ViewAgrees(n)
BY EmptySeq DEF MirrorInv, Quiet, Tracks, Unmentioned

(* Once everything the server sent has been handled, the property cache    *)
(* of indigo_client.py holds what the server has and nothing else, but for *)
(* the target of a reading while the camera's is 0 (handle_update): after  *)
(* any number of lost connections, cameras unplugged and plugged in, and   *)
(* properties deleted and defined.                                         *)
THEOREM CacheIsAMirror == Spec => []CacheMirrorsServer
<1>1. MirrorInv => CacheMirrorsServer
  <2> SUFFICES ASSUME MirrorInv, Quiet, NEW n \in Names
               PROVE  IF present /\ (n = "CONNECTION" \/ device.on)
                        THEN \/ cache[n] = Value(device, n)
                             \/ /\ n = "TEMPERATURE" /\ device.target = 0
                                /\ cache[n] # Absent /\ cache[n].temp = device.temp
                        ELSE cache[n] = Absent
      BY DEF CacheMirrorsServer
  <2> QED
      BY MirrorQuiet DEF CacheAgrees, Has
<1> QED
    BY <1>1, MirrorAlways, PTL

(* Likewise for what the adapter reports of a camera that is plugged in:   *)
(* whether it is connected and, while it is, the switch, the power and the *)
(* temperatures of its cooler.                                             *)
THEOREM ViewIsAMirror == Spec => []ViewMirrorsDevice
<1>1. MirrorInv => ViewMirrorsDevice
  <2> SUFFICES ASSUME MirrorInv, Quiet, present
               PROVE  /\ deviceConnected = device.on
                      /\ device.on => /\ view.cooler = device.cooler
                                      /\ view.full = device.full
                                      /\ view.temp = device.temp
                                      /\ device.target # 0 => view.target = device.target
      BY DEF ViewMirrorsDevice
  <2>1. \A n \in Names : Has(n) => ViewAgrees(n)
      BY MirrorQuiet
  <2>2. deviceConnected = device.on
      BY <2>1 DEF ViewAgrees, Has, Names
  <2>3. device.on => \A n \in Thermal : ViewAgrees(n) /\ Has(n)
      BY <2>1 DEF Has, Names
  <2> QED
      BY <2>2, <2>3 DEF ViewAgrees, Thermal
<1> QED
    BY <1>1, MirrorAlways, PTL
=============================================================================
