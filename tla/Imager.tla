------------------------------- MODULE Imager -------------------------------
(***************************************************************************)
(* The service behind its HTTP routes: leases, the capture service and the *)
(* sequence counter together, with what presentation/api/routes/camera.py  *)
(* and main.py add to them.  A route looks up the current lease before it  *)
(* acts; the handler of a finished exposure looks it up again for the      *)
(* sidecar; the subscribers of the capture events keep the fields that the *)
(* health routes report.                                                   *)
(*                                                                         *)
(* Of the lease manager only what get_current_lease returns matters here:  *)
(* LeaseView, which LeaseManager implements (LeaseManager!KeepsView).      *)
(*                                                                         *)
(* Every publish may be suspended by a slow WebSocket.  The commands to    *)
(* the camera are a few bytes over a link that holds, which the transport  *)
(* takes at once: so a route, and each of the commands of set_config,      *)
(* runs without another request in between.                                *)
(***************************************************************************)
EXTENDS Naturals, FiniteSets

CONSTANTS
  Leases, NoLease,
  MaxCaptures, MaxInFlight, Aborters, ImagesVisible, DeviceRejects,
  Sequences, NoSequence, Counts, MaxCompleted

ASSUME NoLeaseAssumption == NoLease \notin Leases
ASSUME NoSequenceAssumption == NoSequence \notin Sequences
ASSUME CountsAssumption == Counts \subseteq Nat /\ MaxCompleted \in Nat
ASSUME CapturesAssumption == MaxCaptures \in Nat \ {0} /\ MaxInFlight \in Nat \ {0}
ASSUME FlagsAssumption == ImagesVisible \in BOOLEAN /\ DeviceRejects \in BOOLEAN

VARIABLES
  \* of LeaseView
  valid, spent,
  \* of CaptureService, whose current capture is called capture here
  status, file, capture, okReceived, pendingImage, announced, starting,
  aborter, reader, expState, fromDevice, device, devState, link,
  \* of Sequence
  running, sequence, completed, handle, wanted, ticker,
  \* of the routes and of main.py
  under,       \* Capture.lease_id
  sidecar,     \* context.lease_owner of the sidecars: a lease, or "unknown"
  lastStatus,  \* app.state.last_capture_status
  total,       \* metrics_cache["captures_total"]
  failed,      \* metrics_cache["captures_failed"]
  disturbed    \* captures during whose exposure a configuration was sent

LV == INSTANCE LeaseView
CS == INSTANCE CaptureService WITH
        current <- capture,
        PublishSuspends <- TRUE, SendSuspends <- FALSE, LinkDrops <- FALSE
SQ == INSTANCE Sequence

leaseVars == <<valid, spent>>
captureVars ==
  <<status, file, capture, okReceived, pendingImage, announced, starting,
    aborter, reader, expState, fromDevice, device, devState, link>>
sequenceVars == <<running, sequence, completed, handle, wanted, ticker>>
reports == <<lastStatus, total, failed>>
appVars == <<under, sidecar, reports, disturbed>>
vars == <<leaseVars, captureVars, sequenceVars, appVars>>

Captures == 1 .. MaxCaptures
Reports == {"NONE", "RUNNING", "SUCCESS", "FAILED", "ABORTED"}

TypeOK ==
  /\ valid \in Leases \cup {NoLease} /\ spent \subseteq Leases
  /\ CS!TypeOK
  /\ SQ!TypeOK
  /\ under \in [Captures -> Leases \cup {NoLease}]
  /\ sidecar \in [Captures -> Leases \cup {NoLease, "unknown"}]
  /\ lastStatus \in Reports
  /\ total \in 0 .. MaxCaptures /\ failed \in Nat
  /\ disturbed \subseteq Captures

Init ==
  /\ LV!VInit
  /\ CS!Init
  /\ SQ!Init
  /\ under = [c \in Captures |-> NoLease]
  /\ sidecar = [c \in Captures |-> NoLease]
  /\ lastStatus = "NONE"
  /\ total = 0 /\ failed = 0
  /\ disturbed = {}

-----------------------------------------------------------------------------
(* Requests about the lease, and the clock. *)
LeaseStep ==
  /\ CS!LoopFree
  /\ LV!VNext
  /\ UNCHANGED <<captureVars, sequenceVars, appVars>>

(* _require_active_lease, and require_lease with the id it returned.  The  *)
(* routes do not ask whose lease it is.                                    *)
Authorized == CS!LoopFree /\ valid # NoLease

-----------------------------------------------------------------------------
(* The subscribers of the capture events.  Each assigns its fields before  *)
(* it waits for the WebSocket clients.                                     *)

OnCaptureStarted == lastStatus' = "RUNNING" /\ UNCHANGED <<total, failed>>

OnCaptureCompleted ==
  lastStatus' = "SUCCESS" /\ total' = total + 1 /\ UNCHANGED failed

\* Mutant of OnCaptureFailed: the status is left as it was.
OnCaptureFailedSilently == failed' = failed + 1 /\ UNCHANGED <<lastStatus, total>>

OnCaptureFailed == lastStatus' = "FAILED" /\ failed' = failed + 1 /\ UNCHANGED total

OnCaptureAborted == lastStatus' = "ABORTED" /\ UNCHANGED <<total, failed>>

-----------------------------------------------------------------------------
(* The camera routes. *)

(* exposure/start: the capture is created under the current lease, and the *)
(* camera command is on its way; the run ends in StartReturns.             *)
ExposureStart ==
  /\ Authorized
  /\ CS!StartExposure
  /\ under' = [under EXCEPT ![capture'] = valid]
  /\ UNCHANGED <<leaseVars, sequenceVars, sidecar, reports, disturbed>>

StartReturns ==
  /\ \E c \in Captures : CS!StartReturns(c)
  /\ OnCaptureStarted
  /\ UNCHANGED <<leaseVars, sequenceVars, under, sidecar, disturbed>>

(* exposure/abort. *)
ExposureAbort ==
  /\ Authorized
  /\ \E a \in Aborters : CS!AbortExposure(a)
  /\ UNCHANGED <<leaseVars, sequenceVars, appVars>>

AbortReturns ==
  /\ \E a \in Aborters : CS!AbortReturns(a)
  /\ OnCaptureAborted
  /\ UNCHANGED <<leaseVars, sequenceVars, under, sidecar, disturbed>>

AbortPublished ==
  /\ \E a \in Aborters : CS!AbortPublished(a)
  /\ UNCHANGED <<leaseVars, sequenceVars, appVars>>

\* Mutant of CameraConfig: 409 is not answered during an exposure.
CameraConfigAnytime ==
  /\ Authorized
  /\ disturbed' = disturbed \cup ({device} \ {CS!None})
  /\ UNCHANGED <<leaseVars, captureVars, sequenceVars, under, sidecar, reports>>

(* config: refused while the current capture is exposing. *)
CameraConfig ==
  /\ Authorized
  /\ ~CS!Exposing(capture)
  /\ disturbed' = disturbed \cup ({device} \ {CS!None})
  /\ UNCHANGED <<leaseVars, captureVars, sequenceVars, under, sidecar, reports>>

(* sequence/start requires a lease, sequence/stop does not. *)
SequenceRequest ==
  /\ CS!LoopFree
  /\ \/ /\ valid # NoLease
        /\ \E s \in Sequences, n \in Counts : SQ!SequenceStart(s, n)
     \/ SQ!SequenceStop
  /\ UNCHANGED <<leaseVars, captureVars, appVars>>

SequenceTick ==
  /\ CS!LoopFree
  /\ \E s \in Sequences : SQ!Tick(s)
  /\ UNCHANGED <<leaseVars, captureVars, appVars>>

-----------------------------------------------------------------------------
(* The read loop. *)

\* Mutant of SidecarOwner: the lease is not looked up.
SidecarOwnerUnknown(c) == "unknown"

(* handle_exposure_complete names in the sidecar whoever holds the lease   *)
(* now.                                                                    *)
SidecarOwner(c) == IF valid = NoLease THEN "unknown" ELSE valid

(* An update is read; its handler may complete or fail the current capture *)
(* and is then suspended in the publication.                               *)
Read ==
  /\ CS!Read
  /\ \/ /\ reader' = "idle"
        /\ UNCHANGED <<sidecar, reports>>
     \/ /\ reader' = "publishing" /\ status'[capture] = "completed"
        /\ sidecar' = [sidecar EXCEPT ![capture] = SidecarOwner(capture)]
        /\ OnCaptureCompleted
     \/ /\ reader' = "publishing" /\ status'[capture] = "failed"
        /\ OnCaptureFailed
        /\ UNCHANGED sidecar
  /\ UNCHANGED <<leaseVars, sequenceVars, under, disturbed>>

ReaderPublished ==
  /\ CS!ReaderPublished
  /\ UNCHANGED <<leaseVars, sequenceVars, appVars>>

Camera ==
  /\ CS!DeviceFinishes \/ CS!DeviceFails
  /\ UNCHANGED <<leaseVars, sequenceVars, appVars>>

-----------------------------------------------------------------------------
Next ==
  \/ LeaseStep
  \/ ExposureStart \/ StartReturns
  \/ ExposureAbort \/ AbortReturns \/ AbortPublished
  \/ CameraConfig
  \/ SequenceRequest \/ SequenceTick
  \/ Read \/ ReaderPublished
  \/ Camera

Spec == Init /\ [][Next]_vars

-----------------------------------------------------------------------------
(***************************************************************************)
(* Properties.                                                             *)
(***************************************************************************)

Told(event) == Cardinality({c \in Captures : event \in announced[c]})

(* What the health routes report about the last capture is the state of    *)
(* the newest one, although its start, its abort and its end are published *)
(* by different tasks, each of which may wait for the WebSocket clients;   *)
(* completed captures are counted once, and, unless a capture is aborted   *)
(* (its Alert counts as a failure, perhaps of its successor), failed ones. *)
Reported(c) ==
  IF c = CS!None THEN "NONE"
  ELSE CASE status[c] = "exposing"  -> "RUNNING"
         [] status[c] = "completed" -> "SUCCESS"
         [] status[c] = "failed"    -> "FAILED"
         [] status[c] = "aborted"   -> "ABORTED"
         [] OTHER                   -> "PENDING"

HealthTellsTheTruth ==
  CS!LoopFree =>
    /\ lastStatus = Reported(capture)
    /\ total = Told("completed")
    /\ Told("aborted") = 0 => failed = Told("failed")

(* "Cannot change config during exposure": a configuration reaches the     *)
(* camera in the middle of an exposure only if the service has already     *)
(* announced an outcome of it (line 241 of capture_service.py: the flags   *)
(* and the Alert of an aborted exposure may be taken for the next one's).  *)
ConfigOnlyBetweenExposures ==
  \A c \in disturbed : announced[c] \cap CS!Terminal # {}

(* The sidecar of a capture names the lease it was started under, unless   *)
(* that lease has ended: whoever holds the camera throughout is named.     *)
SidecarNamesHolder ==
  \A c \in Captures :
    sidecar[c] \notin {NoLease, under[c]} => under[c] # valid

(* Sequence's OneTicker, under the requests of clients whose lease comes   *)
(* and goes.                                                               *)
OneTicker == SQ!OneTicker
=============================================================================
