--------------------------- MODULE CameraAdapter ---------------------------
(***************************************************************************)
(* The mirror infrastructure/adapters/indigo_camera_adapter.py keeps of    *)
(* one camera of an INDIGO server, and its auto-connection, over the       *)
(* property cache of indigo_client.py.                                     *)
(*                                                                         *)
(* The server announces properties (define), changes them (update) and     *)
(* withdraws them (delete) on one TCP connection, in order; the camera may *)
(* be switched off, unplugged, plugged in again, and the connection lost   *)
(* and restored, at any moment.  The exposure and image properties are the *)
(* subject of CaptureService; here are CONNECTION and the thermal ones,    *)
(* from which the adapter derives a state of the cooler.                   *)
(*                                                                         *)
(* A temperature is a small integer; a power is abstracted to whether it   *)
(* reaches 99 percent.  A command is a few bytes, which the transport      *)
(* takes without suspending the sender.                                    *)
(***************************************************************************)
EXTENDS Naturals, Sequences

CONSTANTS
  Temps,        \* temperatures and targets, 0 among them
  Absent,       \* a property the cache does not hold
  MaxInFlight   \* bound on the server's messages, and on commands, in flight

ASSUME TempsAssumption == Temps \subseteq Nat /\ 0 \in Temps
ASSUME MaxInFlightAssumption == MaxInFlight \in Nat \ {0}

VARIABLES
  present,          \* is the camera plugged in?
  device,           \* its properties, as the server knows them
  link,             \* "up" or "down"
  channel,          \* messages on their way to the client
  commands,         \* connection commands on their way to the server
  cache,            \* PropertyCache of the client
  ready,            \* _connected: the first connect() succeeded
  deviceConnected,  \* _device_connected
  view,             \* the thermal fields and _cooler_state
  timer             \* _autoconnect_task: "none" or "sleeping"

server  == <<present, device>>
wires   == <<link, channel, commands>>
adapter == <<ready, deviceConnected, view, timer>>
vars    == <<server, wires, cache, adapter>>

-----------------------------------------------------------------------------
Thermal == {"COOLER", "POWER", "TEMPERATURE"}
Names   == {"CONNECTION"} \cup Thermal

Reading(temp, target) == [temp |-> temp, target |-> target]
Readings == [temp : Temps, target : Temps]

ASSUME AbsentAssumption == Absent \notin BOOLEAN /\ Absent \notin Readings

(* The value of the property n of the device d. *)
Value(d, n) ==
  CASE n = "CONNECTION"  -> d.on
    [] n = "COOLER"      -> d.cooler
    [] n = "POWER"       -> d.full
    [] n = "TEMPERATURE" -> Reading(d.temp, d.target)

Devices ==
  [on : BOOLEAN, cooler : BOOLEAN, full : BOOLEAN, temp : Temps, target : Temps]

CoolerStates == {"OFF", "ALARM", "STABLE", "RAMPING"}

Define(d, n) == [kind |-> "define", name |-> n, value |-> Value(d, n)]
Update(d, n) == [kind |-> "update", name |-> n, value |-> Value(d, n)]
Delete(n)    == [kind |-> "delete", name |-> n]
DeleteAll    == [kind |-> "delete all"]

Messages ==
  [kind : {"define", "update"}, name : Names \ {"TEMPERATURE"}, value : BOOLEAN]
  \cup [kind : {"define", "update"}, name : {"TEMPERATURE"}, value : Readings]
  \cup [kind : {"delete"}, name : Names]
  \cup {DeleteAll}

ThermalProperties(d) ==
  <<Define(d, "COOLER"), Define(d, "POWER"), Define(d, "TEMPERATURE")>>

TypeOK ==
  /\ present \in BOOLEAN
  /\ device \in Devices
  /\ link \in {"up", "down", "closing", "closed"}
  /\ channel \in Seq(Messages)
  /\ commands \in Seq({"connect", "disconnect"})
  /\ DOMAIN cache = Names
  /\ \A n \in Names \ {"TEMPERATURE"} : cache[n] \in BOOLEAN \cup {Absent}
  /\ cache["TEMPERATURE"] \in Readings \cup {Absent}
  /\ ready \in BOOLEAN
  /\ deviceConnected \in BOOLEAN
  /\ view \in [cooler : BOOLEAN, full : BOOLEAN, temp : Temps, target : Temps,
               state : CoolerStates]
  /\ timer \in {"none", "sleeping"}

EmptyCache == [n \in Names |-> Absent]

(* The defaults, which __init__ and _reset_cache share. *)
Defaults ==
  [cooler |-> FALSE, full |-> FALSE, temp |-> 0, target |-> 0, state |-> "OFF"]

(* ready is chosen here: if the first connect() of the client raises, its  *)
(* reconnect loop connects later, but the adapter's assignment is skipped. *)
Init ==
  /\ present \in BOOLEAN
  /\ device = [on |-> FALSE, cooler |-> FALSE, full |-> FALSE, temp |-> 0, target |-> 0]
  /\ link = "down"
  /\ channel = <<>>
  /\ commands = <<>>
  /\ cache = EmptyCache
  /\ ready \in BOOLEAN
  /\ deviceConnected = FALSE
  /\ view = Defaults
  /\ timer = "none"

Linked == link \in {"up", "closing"}

Room == Len(channel) < MaxInFlight /\ Len(commands) < MaxInFlight

(* What the server emits is lost while no client is connected. *)
Emit(messages) == channel' = IF Linked THEN channel \o messages ELSE channel

(* A command is lost with the connection. *)
Send(command) == commands' = IF Linked THEN Append(commands, command) ELSE commands

-----------------------------------------------------------------------------
(* The camera and the server. *)

(* Unplugged: one deleteProperty that names the device and no property.    *)
Unplug ==
  /\ present
  /\ Room
  /\ present' = FALSE
  /\ device' = [device EXCEPT !.on = FALSE]
  /\ Emit(<<DeleteAll>>)
  /\ UNCHANGED <<link, commands, cache, adapter>>

Plug ==
  /\ ~present
  /\ Room
  /\ present' = TRUE
  /\ Emit(<<Define(device, "CONNECTION")>>)
  /\ UNCHANGED <<device, link, commands, cache, adapter>>

SwitchedOff ==
  /\ device' = [device EXCEPT !.on = FALSE]
  /\ Emit(<<Delete("COOLER"), Delete("POWER"), Delete("TEMPERATURE"),
            Update(device', "CONNECTION")>>)

(* The driver, or another client, disconnects the camera. *)
DeviceDrops ==
  /\ present /\ device.on
  /\ Room
  /\ SwitchedOff
  /\ UNCHANGED <<present, link, commands, cache, adapter>>

(* The thermal property n takes a new value. *)
ThermalChanges ==
  /\ present /\ device.on
  /\ Room
  /\ \E n \in Thermal, d \in Devices :
       /\ \A other \in Names \ {n} : Value(d, other) = Value(device, other)
       /\ d # device
       /\ device' = d
       /\ Emit(<<Update(d, n)>>)
  /\ UNCHANGED <<present, link, commands, cache, adapter>>

(* The server reads the next command. *)
Obeys(command) ==
  /\ commands # <<>> /\ Head(commands) = command
  /\ commands' = Tail(commands)
  /\ UNCHANGED <<present, link, cache, adapter>>

DeviceConnects ==
  /\ Obeys("connect")
  /\ present
  /\ device' = [device EXCEPT !.on = TRUE]
  /\ Emit((IF device.on THEN <<>> ELSE ThermalProperties(device))
            \o <<Update(device', "CONNECTION")>>)

DeviceRefuses ==
  /\ Obeys("connect")
  /\ present /\ ~device.on
  /\ Emit(<<Update(device, "CONNECTION")>>)
  /\ UNCHANGED device

DeviceDisconnects ==
  /\ Obeys("disconnect")
  /\ present
  /\ SwitchedOff

NobodyThere ==
  /\ \E command \in {"connect", "disconnect"} : Obeys(command)
  /\ ~present
  /\ UNCHANGED <<device, channel>>

-----------------------------------------------------------------------------
(* The link, kept by the client (module IndigoClient). *)

LinkLost ==
  /\ link = "up"
  /\ link' = "down"
  /\ channel' = <<>>
  /\ commands' = <<>>
  /\ UNCHANGED <<server, cache, adapter>>

\* Mutant of LinkEstablished: the cache survives the connection.
LinkEstablishedKeepsCache ==
  /\ link = "down"
  /\ link' = "up"
  /\ channel' = IF present
                  THEN <<Define(device, "CONNECTION")>>
                         \o (IF device.on THEN ThermalProperties(device) ELSE <<>>)
                  ELSE <<>>
  /\ UNCHANGED <<server, commands, cache, adapter>>

(* _establish_connection clears the cache; the server answers the          *)
(* handshake with a definition of every property it has.                   *)
LinkEstablished ==
  /\ link = "down"
  /\ link' = "up"
  /\ cache' = EmptyCache
  /\ channel' = IF present
                  THEN <<Define(device, "CONNECTION")>>
                         \o (IF device.on THEN ThermalProperties(device) ELSE <<>>)
                  ELSE <<>>
  /\ UNCHANGED <<server, commands, adapter>>

-----------------------------------------------------------------------------
(* The adapter. *)

(* _derive_cooler_state. *)
CoolerState(v) ==
  CASE ~v.cooler                              -> "OFF"
    [] v.cooler /\ v.full                     -> "ALARM"
    [] v.cooler /\ ~v.full /\ v.temp = v.target -> "STABLE"
    [] OTHER                                  -> "RAMPING"

Derived(v) == [v EXCEPT !.state = CoolerState(v)]

\* Mutant of Apply: only the switch derives the state anew.
ApplyDerivesLess(n, value) ==
  /\ deviceConnected' = IF n = "CONNECTION" THEN value ELSE deviceConnected
  /\ view' = CASE n = "CONNECTION"  -> view
               [] n = "COOLER"      -> Derived([view EXCEPT !.cooler = value])
               [] n = "POWER"       -> [view EXCEPT !.full = value]
               [] n = "TEMPERATURE" -> [view EXCEPT !.temp = value.temp,
                                                    !.target = value.target]

(* _apply_property_to_cache: a temperature does not derive the state anew. *)
Apply(n, value) ==
  /\ deviceConnected' = IF n = "CONNECTION" THEN value ELSE deviceConnected
  /\ view' = CASE n = "CONNECTION"  -> view
               [] n = "COOLER"      -> Derived([view EXCEPT !.cooler = value])
               [] n = "POWER"       -> Derived([view EXCEPT !.full = value])
               [] n = "TEMPERATURE" -> [view EXCEPT !.temp = value.temp,
                                                    !.target = value.target]

\* Mutant of Merged: no falsy value replaces another one.
MergedIfTruthy(n, value) ==
  CASE cache[n] = Absent -> value
    [] cache[n] # Absent /\ n # "TEMPERATURE" -> value \/ cache[n]
    [] OTHER -> IF value.target = 0
                  THEN [value EXCEPT !.target = cache[n].target] ELSE value

\* Mutant of Merged: an update whose target is 0 is not merged at all.
MergedKeepsReading(n, value) ==
  IF n = "TEMPERATURE" /\ cache[n] # Absent /\ value.target = 0
    THEN cache[n]
    ELSE value

(* PropertyCache.handle_update: a target of 0 does not replace another one. *)
Merged(n, value) ==
  IF n = "TEMPERATURE" /\ cache[n] # Absent /\ value.target = 0
    THEN [value EXCEPT !.target = cache[n].target]
    ELSE value

Receive(kind) ==
  /\ channel # <<>> /\ Head(channel).kind = kind
  /\ channel' = Tail(channel)
  /\ UNCHANGED <<server, link, ready>>

(* A definition replaces the cached property; a disconnected camera is     *)
(* connected at once.                                                      *)
Defined ==
  /\ Receive("define")
  /\ LET n == Head(channel).name
         value == Head(channel).value
     IN  /\ cache' = [cache EXCEPT ![n] = value]
         /\ Apply(n, value)
         /\ IF n = "CONNECTION" /\ ~value
              THEN Send("connect")
              ELSE UNCHANGED commands
  /\ UNCHANGED timer

\* Mutant of Updated: only a camera that was connected is connected again.
UpdatedOnceOnly ==
  /\ Receive("update")
  /\ LET n == Head(channel).name
         value == Merged(n, Head(channel).value)
     IN  /\ cache' = [cache EXCEPT ![n] = value]
         /\ Apply(n, value)
         /\ timer' = IF n = "CONNECTION" /\ ~value /\ deviceConnected
                       THEN "sleeping" ELSE timer
  /\ UNCHANGED commands

(* A camera found disconnected is connected after a delay, unless that is  *)
(* already pending.                                                        *)
Updated ==
  /\ Receive("update")
  /\ LET n == Head(channel).name
         value == Merged(n, Head(channel).value)
     IN  /\ cache' = [cache EXCEPT ![n] = value]
         /\ Apply(n, value)
         /\ timer' = IF n = "CONNECTION" /\ ~value THEN "sleeping" ELSE timer
  /\ UNCHANGED commands

(* The client calls back once for every property it removes, by name; only *)
(* a callback without a name, which it never makes, resets the mirror.     *)
Deleted ==
  /\ \/ /\ Receive("delete")
        /\ cache' = [cache EXCEPT ![Head(channel).name] = Absent]
     \/ /\ Receive("delete all")
        /\ cache' = EmptyCache
  /\ UNCHANGED <<commands, deviceConnected, view, timer>>

(* _delayed_autoconnect after its sleep. *)
Autoconnect ==
  /\ timer = "sleeping"
  /\ timer' = "none"
  /\ IF ready /\ ~deviceConnected THEN Send("connect") ELSE UNCHANGED commands
  /\ UNCHANGED <<server, link, channel, cache, ready, deviceConnected, view>>

(* connect_device and disconnect_device, for a client of the HTTP API.     *)
Request(command) ==
  /\ link = "up"
  /\ Room
  /\ Send(command)
  /\ UNCHANGED <<server, link, channel, cache, adapter>>

(* disconnect(): the timer is cancelled before the client is closed, and   *)
(* messages may still be handled in between.                               *)
Close ==
  /\ link \in {"up", "down"}
  /\ link' = IF link = "up" THEN "closing" ELSE "closed"
  /\ timer' = "none"
  /\ ready' = (ready /\ link = "up")
  /\ deviceConnected' = (deviceConnected /\ link = "up")
  /\ UNCHANGED <<server, channel, commands, cache, view>>

(* When the client raises, the last assignments are skipped. *)
Closed ==
  /\ link = "closing"
  /\ link' = "closed"
  /\ channel' = <<>>
  /\ commands' = <<>>
  /\ \/ ready' = FALSE /\ deviceConnected' = FALSE
     \/ UNCHANGED <<ready, deviceConnected>>
  /\ UNCHANGED <<server, cache, view, timer>>

-----------------------------------------------------------------------------
Handle == Defined \/ Updated \/ Deleted
Answer == DeviceConnects \/ DeviceRefuses \/ DeviceDisconnects \/ NobodyThere

Next ==
  \/ Unplug \/ Plug \/ DeviceDrops \/ ThermalChanges
  \/ Answer
  \/ LinkLost \/ LinkEstablished
  \/ Handle
  \/ Autoconnect
  \/ \E command \in {"connect", "disconnect"} : Request(command)
  \/ Close \/ Closed

Spec == Init /\ [][Next]_vars

(* The event loop runs the read loop and the timer, the client reconnects  *)
(* (IndigoClient!Reconnects), and the server answers commands.             *)
FairSpec ==
  Spec /\ WF_vars(Handle) /\ WF_vars(Autoconnect) /\ WF_vars(Answer)
       /\ WF_vars(LinkEstablished)

-----------------------------------------------------------------------------
(***************************************************************************)
(* Properties.                                                             *)
(***************************************************************************)

(* Everything the server has sent has been handled. *)
Quiet == link = "up" /\ channel = <<>>

(* PropertyCache "mirrors" the server's properties (its docstring): when   *)
(* everything has been handled, it holds exactly the properties the server *)
(* has, with their values, whatever was lost, deleted and defined again.   *)
(* Only the target may differ, and only while the camera's is 0, which     *)
(* handle_update never writes over another one.                            *)
CacheMirrorsServer ==
  Quiet => \A n \in Names :
    IF present /\ (n = "CONNECTION" \/ device.on)
      THEN \/ cache[n] = Value(device, n)
           \/ /\ n = "TEMPERATURE" /\ device.target = 0
              /\ cache[n] # Absent /\ cache[n].temp = device.temp
      ELSE cache[n] = Absent

(* While the camera is plugged in, the adapter knows whether it is         *)
(* connected, and while it is, the values it reports are the camera's,     *)
(* but for a target of 0.                                                  *)
ViewMirrorsDevice ==
  Quiet /\ present =>
    /\ deviceConnected = device.on
    /\ device.on => /\ view.cooler = device.cooler
                    /\ view.full = device.full
                    /\ view.temp = device.temp
                    /\ device.target # 0 => view.target = device.target

(* The derived state of the cooler agrees with the switch and the power it *)
(* was derived from, although it is derived in some branches of            *)
(* _apply_property_to_cache only, and survives the properties themselves.  *)
CoolerStateAgrees ==
  /\ view.state = "OFF" <=> ~view.cooler
  /\ view.state = "ALARM" <=> view.cooler /\ view.full

(* From some point on the connection stays up, the camera stays plugged    *)
(* in, obeys, and nobody disconnects it.                                   *)
CalmForever ==
  /\ <>[](link = "up" /\ present)
  /\ <>[][~(DeviceRefuses \/ DeviceDrops \/ DeviceDisconnects)]_vars

(* If the first connect() succeeded, auto-connection keeps the camera      *)
(* connected once things are calm: no OFF is missed by the definition      *)
(* handler and the timer together.                                         *)
AutoconnectWorks == []ready /\ CalmForever => <>[]deviceConnected

(* "Device unplugged: ... Service invalidates cache and reports            *)
(* device_connected: false" (Architecture Spec, RNF-005).                  *)
RemovedDeviceIsGone == Quiet /\ ~present => ~deviceConnected
=============================================================================
