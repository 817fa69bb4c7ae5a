---------------------------- MODULE LeaseManager ----------------------------
(***************************************************************************)
(* The exclusive, priority-preemptive control lease of the service:        *)
(* LeaseManager (application/services/lease_manager.py) over Lease         *)
(* (domain/models/lease.py).                                               *)
(*                                                                         *)
(* The service is one asyncio event loop.  A coroutine runs alone until an *)
(* await really suspends it, and the only await of this component is       *)
(* event_publisher.publish, which suspends exactly when a telemetry        *)
(* WebSocket is slow to accept a frame.  PublishSuspends says whether that *)
(* happens: when it is FALSE every request runs to its end before another  *)
(* one starts.  The one suspension after which a request still writes      *)
(* state is the lease.preempted event in the middle of acquire; a request  *)
(* in that position is kept in "takeover".                                 *)
(*                                                                         *)
(* Time is kept as the number of ticks a lease has left, so the clock      *)
(* needs no bound: Lease.is_expired compares now > expires_at strictly, so *)
(* a lease with 0 ticks left is still valid and one with -1 is not.        *)
(***************************************************************************)
EXTENDS Integers

CONSTANTS
    Leases,          \* the lease ids uuid4 may draw, each drawn at most once
    Requests,        \* the HTTP acquire requests that may be in flight
    Priorities,      \* the priorities a request may carry
    Ttls,            \* the ttl_seconds a caller may pass; 0 is "not given"
    DefaultTtl,      \* lease.default_ttl_seconds
    MaxTtl,          \* lease.max_ttl_seconds
    PublishSuspends, \* may event_publisher.publish suspend its caller?
    NoLease,         \* Python's None for a lease
    NoTakeover       \* the request is not inside a preemption

ASSUME PrioritiesAssumption == Priorities \subseteq Nat
ASSUME TtlAssumption == /\ Ttls \subseteq Nat
                        /\ DefaultTtl \in Nat \ {0}
                        /\ MaxTtl \in Nat \ {0}
ASSUME NoLeaseAssumption == NoLease \notin Leases

\* An acquire call inside publish("lease.preempted"), with its local variables.
Takeovers == [victim : Leases, priority : Priorities, ttl : Ttls]

ASSUME NoTakeoverAssumption == NoTakeover \notin Takeovers
ASSUME SuspendAssumption == PublishSuspends \in BOOLEAN

VARIABLES
    lease,     \* the Lease objects: status, priority and ticks left
    current,   \* LeaseManager._current_lease
    takeover,  \* the acquire calls suspended in publish("lease.preempted")
    told       \* the last lease.* event published about each lease, and the ticks
               \* left to the expires_at it carried (-1: it carried none)

vars == <<lease, current, takeover, told>>

Statuses == {"unborn", "active", "preempted", "expired", "released"}

LeaseRecords == [status : Statuses, priority : Priorities \cup {0},
                 left : -1..MaxTtl]

Announcements == [event : {"nothing", "acquired", "renewed", "preempted", "released"},
                  left : -1..MaxTtl]

TypeOK ==
    /\ lease \in [Leases -> LeaseRecords]
    /\ current \in Leases \cup {NoLease}
    /\ takeover \in [Requests -> Takeovers \cup {NoTakeover}]
    /\ told \in [Leases -> Announcements]

-----------------------------------------------------------------------------
\* Mutant of IsExpired: only a preempted lease is compared with the clock.
IsExpiredOncePreempted(l) == lease[l].status = "preempted" /\ lease[l].left < 0

IsExpired(l) == lease[l].left < 0

\* What get_current_lease returns: the lease that may drive the camera.
Valid(l) == /\ current = l
            /\ lease[l].status = "active"
            /\ ~IsExpired(l)

\* What the lease objects themselves say: in force, neither taken nor run out.
Held(l) == lease[l].status = "active" /\ ~IsExpired(l)

Stale == current # NoLease /\ IsExpired(current)

\* The lease table after get_current_lease has marked a stale lease.
Swept == IF Stale THEN [lease EXCEPT ![current].status = "expired"] ELSE lease

NobodyHolds == \A l \in Leases : ~Valid(l)

\* Mutant of EffectiveTtl: max_ttl_seconds is forgotten.
UncappedTtl(t) == IF t = 0 THEN DefaultTtl ELSE t

EffectiveTtl(t) ==
    LET wanted == IF t = 0 THEN DefaultTtl ELSE t
    IN  IF wanted <= MaxTtl THEN wanted ELSE MaxTtl

NewLease(p, t) == [status |-> "active", priority |-> p,
                   left |-> EffectiveTtl(t)]

\* Mutant of Renewed: renewing also reactivates the lease.
RenewedAndReactivated(record, t) ==
    [record EXCEPT !.left = EffectiveTtl(t), !.status = "active"]

Renewed(record, t) == [record EXCEPT !.left = EffectiveTtl(t)]

\* publish("lease.<event>").  Only acquired and renewed carry an expires_at.
Announce(l, event, left) ==
    told' = [told EXCEPT ![l] = [event |-> event, left |-> left]]

\* Without a suspending await nothing runs between the halves of a takeover.
MayRun(r) == PublishSuspends \/ \A q \in Requests \ {r} : takeover[q] = NoTakeover
LoopIdle == PublishSuspends \/ \A q \in Requests : takeover[q] = NoTakeover

Init ==
    /\ lease = [l \in Leases |-> [status |-> "unborn", priority |-> 0, left |-> -1]]
    /\ current = NoLease
    /\ takeover = [r \in Requests |-> NoTakeover]
    /\ told = [l \in Leases |-> [event |-> "nothing", left |-> -1]]

\* The tail of acquire: build the lease over "table", install it, announce it.
Install(table, l, p, t) ==
    /\ lease[l].status = "unborn"
    /\ lease' = [table EXCEPT ![l] = NewLease(p, t)]
    /\ current' = l
    /\ Announce(l, "acquired", NewLease(p, t).left)

\* acquire when get_current_lease returns None: no await before the lease is
\* installed.  A preempted lease that is still current also reads as None.
AcquireFree(r, l, p, t) ==
    /\ LoopIdle
    /\ takeover[r] = NoTakeover
    /\ NobodyHolds
    /\ Install(Swept, l, p, t)
    /\ UNCHANGED takeover

\* Mutant of AcquirePreempt: the victim is not marked preempted.
AcquirePreemptUnmarked(r, v, p, t) ==
    /\ LoopIdle
    /\ takeover[r] = NoTakeover
    /\ Valid(v)
    /\ p > lease[v].priority
    /\ takeover' = [takeover EXCEPT ![r] = [victim |-> v, priority |-> p, ttl |-> t]]
    /\ Announce(v, "preempted", -1)
    /\ UNCHANGED <<lease, current>>

\* Mutant of AcquirePreempt: an equal priority preempts too.
AcquirePreemptEqual(r, v, p, t) ==
    /\ LoopIdle
    /\ takeover[r] = NoTakeover
    /\ Valid(v)
    /\ p >= lease[v].priority
    /\ lease' = [lease EXCEPT ![v].status = "preempted"]
    /\ takeover' = [takeover EXCEPT ![r] = [victim |-> v, priority |-> p, ttl |-> t]]
    /\ Announce(v, "preempted", -1)
    /\ UNCHANGED current

\* acquire over a valid lease of strictly lower priority: mark it preempted
\* and publish lease.preempted.  (An equal or lower priority raises
\* LeaseConflict before anything is written.)
AcquirePreempt(r, v, p, t) ==
    /\ LoopIdle
    /\ takeover[r] = NoTakeover
    /\ Valid(v)
    /\ p > lease[v].priority
    /\ lease' = [lease EXCEPT ![v].status = "preempted"]
    /\ takeover' = [takeover EXCEPT ![r] = [victim |-> v, priority |-> p, ttl |-> t]]
    /\ Announce(v, "preempted", -1)
    /\ UNCHANGED current

\* Mutant of FinishPreempt: acquire looks again after the publish and gives up
\* because some lease - the preempted one - is still current.
FinishPreemptIfFree(r, l) ==
    /\ MayRun(r)
    /\ takeover[r] # NoTakeover
    /\ IF current = NoLease
       THEN Install(lease, l, takeover[r].priority, takeover[r].ttl)
       ELSE UNCHANGED <<lease, current, told>>
    /\ takeover' = [takeover EXCEPT ![r] = NoTakeover]

\* Mutant of FinishPreempt: the Lease object is handed over to the new owner
\* instead of a new one being made.
FinishPreemptHandsOver(r, l) ==
    /\ MayRun(r)
    /\ takeover[r] # NoTakeover
    /\ LET v == takeover[r].victim
       IN  /\ lease' = [lease EXCEPT ![v] = NewLease(takeover[r].priority, takeover[r].ttl)]
           /\ current' = v
           /\ Announce(v, "acquired", lease'[v].left)
    /\ takeover' = [takeover EXCEPT ![r] = NoTakeover]

\* publish returns and acquire installs its lease, whatever is current by now.
FinishPreempt(r, l) ==
    /\ MayRun(r)
    /\ takeover[r] # NoTakeover
    /\ Install(lease, l, takeover[r].priority, takeover[r].ttl)
    /\ takeover' = [takeover EXCEPT ![r] = NoTakeover]

\* Mutant of Release: _current_lease is not cleared.
ReleaseKeepsCurrent(l) ==
    /\ LoopIdle
    /\ current = l
    /\ lease' = [lease EXCEPT ![l].status = "released"]
    /\ Announce(l, "released", -1)
    /\ UNCHANGED <<current, takeover>>

\* release: it compares ids only, so it also releases a stale or preempted
\* lease that is still current.
Release(l) ==
    /\ LoopIdle
    /\ current = l
    /\ lease' = [lease EXCEPT ![l].status = "released"]
    /\ current' = NoLease
    /\ Announce(l, "released", -1)
    /\ UNCHANGED takeover

\* Mutant of Renew: the event is made before lease.renew() and tells the old
\* expires_at.
RenewTellsOldExpiry(l, t) ==
    /\ LoopIdle
    /\ current = l
    /\ ~IsExpired(l)
    /\ lease' = [lease EXCEPT ![l] = Renewed(lease[l], t)]
    /\ Announce(l, "renewed", lease[l].left)
    /\ UNCHANGED <<current, takeover>>

\* renew of a current lease that has not expired; the status is not looked at.
Renew(l, t) ==
    /\ LoopIdle
    /\ current = l
    /\ ~IsExpired(l)
    /\ lease' = [lease EXCEPT ![l] = Renewed(lease[l], t)]
    /\ Announce(l, "renewed", Renewed(lease[l], t).left)
    /\ UNCHANGED <<current, takeover>>

\* renew of an expired lease: LeaseExpiredError, after dropping the lease.
RenewExpired ==
    /\ LoopIdle
    /\ Stale
    /\ lease' = Swept
    /\ current' = NoLease
    /\ UNCHANGED <<takeover, told>>

\* Any caller of get_current_lease or require_lease (the status and camera
\* routes, a completing capture) expires a stale lease in passing.
GetCurrentLease ==
    /\ LoopIdle
    /\ Stale
    /\ lease' = Swept
    /\ current' = NoLease
    /\ UNCHANGED <<takeover, told>>

\* One tick less of a record that has any left.
Ticked(record) ==
    IF record.left >= 0 THEN [record EXCEPT !.left = @ - 1] ELSE record

\* A tick of the wall clock; it never waits for the event loop.  Whoever has
\* been told an expires_at has the same clock.
Tick ==
    /\ \E l \in Leases : lease[l].left >= 0
    /\ lease' = [l \in Leases |-> Ticked(lease[l])]
    /\ told' = [l \in Leases |-> Ticked(told[l])]
    /\ UNCHANGED <<current, takeover>>

Next ==
    \/ \E r \in Requests, l \in Leases, p \in Priorities, t \in Ttls :
           AcquireFree(r, l, p, t)
    \/ \E r \in Requests, v \in Leases, p \in Priorities, t \in Ttls :
           AcquirePreempt(r, v, p, t)
    \/ \E r \in Requests, l \in Leases : FinishPreempt(r, l)
    \/ \E l \in Leases : Release(l)
    \/ \E l \in Leases, t \in Ttls : Renew(l, t)
    \/ RenewExpired
    \/ GetCurrentLease
    \/ Tick

Spec == Init /\ [][Next]_vars

\* The clock never stops.  Nothing is assumed of the callers, and nothing of
\* the event loop: a lease has to end by the passage of time alone.
FairSpec == Spec /\ WF_vars(Tick)

-----------------------------------------------------------------------------
\* While _current_lease is a preempted lease, the acquire that preempted it is
\* still suspended in publish("lease.preempted"): no request leaves behind a
\* preempted lease that nobody is about to replace.
PreemptedHasSuccessor ==
    current # NoLease /\ lease[current].status = "preempted" =>
        \E r \in Requests : /\ takeover[r] # NoTakeover
                            /\ takeover[r].victim = current

\* A lease marked released or expired is never _current_lease, so that release
\* and renew, which compare ids only, cannot find it.  (The converse is not true
\* while publish suspends: see OverwrittenByTakeoverOnly.)
CurrentIsLive ==
    current # NoLease => lease[current].status \in {"active", "preempted"}

\* A lease in force that stops being _current_lease is ended by that step, unless
\* the takeover of another lease, which was suspended in its publication, ends in
\* it and installs its own: only then is there a lease that reads active and
\* unexpired and that renew and release cannot find.
OverwrittenByTakeoverOnly ==
    [][\A l \in Leases :
          current = l /\ Held(l) /\ Held(l)' /\ current' # l =>
              \E r \in Requests : /\ takeover[r] # NoTakeover
                                  /\ takeover[r].victim # l
                                  /\ takeover'[r] = NoTakeover]_vars

\* Once a lease that existed is not the valid one - preempted, released, expired
\* or overwritten - no later renew, release or acquire makes it valid again.
NoResurrection ==
    [][\A l \in Leases : lease[l].status # "unborn" /\ ~Valid(l) => ~Valid(l)']_vars

\* Mutual exclusion: at most one client holds a lease that has neither been
\* taken from it (preempted), nor given back, nor run out.
OneHolder ==
    \A l, m \in Leases : Held(l) /\ Held(m) => l = m

\* OneHolder made inductive: whatever is in force is _current_lease, and nothing
\* is in force while a takeover is under way, of which there is at most one.
SoleHolder ==
    /\ \A l \in Leases : Held(l) => current = l
    /\ \A r \in Requests : takeover[r] # NoTakeover =>
           /\ \A l \in Leases : ~Held(l)
           /\ \A q \in Requests : takeover[q] # NoTakeover => q = r

\* A telemetry client that follows the lease.* events, and watches the expires_at
\* they carry, knows exactly who holds the camera.  It has to watch: an event
\* "expired" is in the Architecture Spec (line 350, and lease_events.py:50-51), but
\* the code publishes none, and by the events alone a lease that has run out is
\* still in force.
AnnouncedIsTrue ==
    \A l \in Leases :
        Valid(l) <=> told[l].event \in {"acquired", "renewed"} /\ told[l].left >= 0

\* What acquire's docstring says: no lease is granted while a valid lease of
\* equal or higher priority exists.
GrantRespectsPriority ==
    [][\A l, m \in Leases :
          /\ Valid(l)
          /\ lease[m].status = "unborn"
          /\ lease'[m].status = "active"
          => lease'[m].priority > lease[l].priority]_vars

\* What renew's docstring says: renewing extends the active lease, never one
\* that has been taken away.
OnlyValidIsRenewed ==
    [][\A l \in Leases : lease'[l].left > lease[l].left /\ lease[l].status # "unborn"
          => Valid(l)]_vars

\* A client that dies cannot keep the camera: unless its lease is renewed again
\* and again, a valid lease stops being valid.
UnrenewedLeaseEnds ==
    \A l \in Leases :
        \/ []<><<\E t \in Ttls : Renew(l, t)>>_vars
        \/ Valid(l) ~> ~Valid(l)

\* The refinement mapping to ExclusiveLease.
HoldersNow == {l \in Leases : Held(l)}
ClaimsNow == {takeover[r].priority : r \in {q \in Requests : takeover[q] # NoTakeover}}
RankNow == [l \in Leases |-> lease[l].priority]
SpentNow == {l \in Leases : lease[l].status # "unborn"}

Promise == INSTANCE ExclusiveLease WITH
    holders <- HoldersNow, claims <- ClaimsNow, rank <- RankNow, spent <- SpentNow

\* Refinement: when publish does not suspend, every run of the manager is a
\* run of the abstract exclusive lease.
KeepsPromise == Promise!ASpec

\* What the routes and the capture service see of the manager.
ValidNow == IF current # NoLease /\ Valid(current) THEN current ELSE NoLease

View == INSTANCE LeaseView WITH valid <- ValidNow, spent <- SpentNow

\* Refinement: whether publish suspends or not, get_current_lease returns at most
\* a lease that was granted later than all it returned before, or that it has
\* returned ever since; the routes rely on nothing else.
KeepsView == View!VSpec
=============================================================================
