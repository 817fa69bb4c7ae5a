------------------------- MODULE LeaseManagerProofs -------------------------
(***************************************************************************)
(* Theorems about LeaseManager, for any number of leases, requests,        *)
(* priorities and time-to-live values.  Type correctness, what is said of  *)
(* _current_lease and of ended leases, and the refinement of LeaseView     *)
(* hold however publish behaves; mutual exclusion, true events and the     *)
(* refinement of ExclusiveLease need a publish that does not suspend.      *)
(***************************************************************************)
EXTENDS LeaseManager, TLAPS

\* The time a lease is granted for is at most lease.max_ttl_seconds.
LEMMA EffectiveTtlRange ==
    ASSUME NEW t \in Ttls
    PROVE  EffectiveTtl(t) \in 0..MaxTtl
BY TtlAssumption DEF EffectiveTtl

\* The priority and the time to live a new lease is given are in range.
LEMMA NewLeaseType ==
    ASSUME NEW p \in Priorities, NEW t \in Ttls
    PROVE  NewLease(p, t) \in LeaseRecords
BY EffectiveTtlRange, TtlAssumption DEF NewLease, LeaseRecords, Statuses

\* Renewing keeps a lease record in range, its time within lease.max_ttl_seconds.
LEMMA RenewedType ==
    ASSUME NEW rec \in LeaseRecords, NEW t \in Ttls
    PROVE  Renewed(rec, t) \in LeaseRecords
BY EffectiveTtlRange, TtlAssumption DEF Renewed, LeaseRecords

\* get_current_lease changes nothing of a lease but its status.
LEMMA SweptType ==
    ASSUME TypeOK
    PROVE  /\ Swept \in [Leases -> LeaseRecords]
           /\ \A l \in Leases : /\ Swept[l].left = lease[l].left
                                /\ Swept[l].priority = lease[l].priority
                                /\ l # current => Swept[l] = lease[l]
                                /\ Swept[l].status \in {lease[l].status, "expired"}
BY NoLeaseAssumption DEF Swept, Stale, TypeOK, LeaseRecords, Statuses

\* An announcement of a known event with a time in range keeps the type of told.
LEMMA AnnounceType ==
    ASSUME TypeOK, NEW l \in Leases,
           NEW e \in {"nothing", "acquired", "renewed", "preempted", "released"},
           NEW n \in -1 .. MaxTtl,
           Announce(l, e, n)
    PROVE  /\ told' \in [Leases -> Announcements]
           /\ told'[l].event = e /\ told'[l].left = n
           /\ \A k \in Leases : k # l => told'[k] = told[k]
BY DEF Announce, Announcements, TypeOK

\* A tick leaves the status alone, and takes one from what is left.
LEMMA TickedParts ==
    ASSUME TypeOK, Tick, NEW l \in Leases
    PROVE  /\ lease'[l] \in LeaseRecords /\ told'[l] \in Announcements
           /\ lease'[l].status = lease[l].status
           /\ lease'[l].priority = lease[l].priority
           /\ lease'[l].left = IF lease[l].left >= 0 THEN lease[l].left - 1 ELSE lease[l].left
           /\ told'[l].event = told[l].event
           /\ told'[l].left = IF told[l].left >= 0 THEN told[l].left - 1 ELSE told[l].left
<1>1. lease'[l] = Ticked(lease[l]) /\ told'[l] = Ticked(told[l])
  BY DEF Tick
<1>2. ASSUME NEW rec \in LeaseRecords
      PROVE  /\ Ticked(rec) \in LeaseRecords
             /\ Ticked(rec).status = rec.status
             /\ Ticked(rec).priority = rec.priority
             /\ Ticked(rec).left = IF rec.left >= 0 THEN rec.left - 1 ELSE rec.left
  BY TtlAssumption DEF Ticked, LeaseRecords
<1>3. ASSUME NEW rec \in Announcements
      PROVE  /\ Ticked(rec) \in Announcements
             /\ Ticked(rec).event = rec.event
             /\ Ticked(rec).left = IF rec.left >= 0 THEN rec.left - 1 ELSE rec.left
  BY TtlAssumption DEF Ticked, Announcements
<1>4. QED
  BY <1>1, <1>2, <1>3 DEF TypeOK

\* Every variable of the lease manager keeps its type in every reachable state;
\* with it, no lease ever outlives lease.max_ttl_seconds from its last grant or
\* renewal, whatever ttl_seconds the caller asked for.
THEOREM TypeCorrect == Spec => []TypeOK
<1>1. Init => TypeOK
  BY TtlAssumption DEF Init, TypeOK, LeaseRecords, Announcements, Statuses
<1>2. TypeOK /\ [Next]_vars => TypeOK'
  <2> SUFFICES ASSUME TypeOK, [Next]_vars
               PROVE  TypeOK'
    OBVIOUS
  <2>1. ASSUME NEW r \in Requests, NEW l \in Leases, NEW p \in Priorities,
               NEW t \in Ttls, AcquireFree(r, l, p, t)
        PROVE  TypeOK'
    <3>1. NewLease(p, t) \in LeaseRecords /\ NewLease(p, t).left \in -1 .. MaxTtl
      BY NewLeaseType DEF LeaseRecords
    <3>2. QED
      BY <2>1, <3>1, AnnounceType, SweptType DEF AcquireFree, Install, TypeOK
  <2>2. ASSUME NEW r \in Requests, NEW v \in Leases, NEW p \in Priorities,
               NEW t \in Ttls, AcquirePreempt(r, v, p, t)
        PROVE  TypeOK'
    <3>1. [victim |-> v, priority |-> p, ttl |-> t] \in Takeovers
      BY DEF Takeovers
    <3>2. lease' \in [Leases -> LeaseRecords]
      BY <2>2 DEF AcquirePreempt, TypeOK, LeaseRecords, Statuses
    <3>3. -1 \in -1 .. MaxTtl
      BY TtlAssumption
    <3>4. QED
      BY <2>2, <3>1, <3>2, <3>3, AnnounceType DEF AcquirePreempt, TypeOK
  <2>3. ASSUME NEW r \in Requests, NEW l \in Leases, FinishPreempt(r, l)
        PROVE  TypeOK'
    <3>1. takeover[r].priority \in Priorities /\ takeover[r].ttl \in Ttls
      BY <2>3 DEF FinishPreempt, TypeOK, Takeovers
    <3>2. /\ NewLease(takeover[r].priority, takeover[r].ttl) \in LeaseRecords
          /\ NewLease(takeover[r].priority, takeover[r].ttl).left \in -1 .. MaxTtl
      BY <3>1, NewLeaseType DEF LeaseRecords
    <3>3. QED
      BY <2>3, <3>2, AnnounceType DEF FinishPreempt, Install, TypeOK
  <2>4. ASSUME NEW l \in Leases, Release(l)
        PROVE  TypeOK'
    <3>1. -1 \in -1 .. MaxTtl
      BY TtlAssumption
    <3>2. lease' \in [Leases -> LeaseRecords]
      BY <2>4 DEF Release, TypeOK, LeaseRecords, Statuses
    <3>3. QED
      BY <2>4, <3>1, <3>2, AnnounceType DEF Release, TypeOK
  <2>5. ASSUME NEW l \in Leases, NEW t \in Ttls, Renew(l, t)
        PROVE  TypeOK'
    <3>1. Renewed(lease[l], t) \in LeaseRecords /\ Renewed(lease[l], t).left \in -1 .. MaxTtl
      BY RenewedType DEF TypeOK, LeaseRecords
    <3>2. QED
      BY <2>5, <3>1, AnnounceType DEF Renew, TypeOK
  <2>6. CASE RenewExpired
    BY <2>6, SweptType DEF RenewExpired, TypeOK
  <2>7. CASE GetCurrentLease
    BY <2>7, SweptType DEF GetCurrentLease, TypeOK
  <2>8. CASE Tick
    BY <2>8, TickedParts DEF Tick, TypeOK
  <2>9. CASE UNCHANGED vars
    BY <2>9 DEF vars, TypeOK
  <2>10. QED
    BY <2>1, <2>2, <2>3, <2>4, <2>5, <2>6, <2>7, <2>8, <2>9 DEF Next
<1>3. QED
  BY <1>1, <1>2, PTL DEF Spec

-----------------------------------------------------------------------------
\* A lease that is preempted but still current always has its successor waiting
\* in publish("lease.preempted"): an acquire that preempts never gets lost.
THEOREM SuccessorWaits == Spec => []PreemptedHasSuccessor
<1>1. Init => PreemptedHasSuccessor
  BY DEF Init, PreemptedHasSuccessor
<1>2. TypeOK /\ PreemptedHasSuccessor /\ [Next]_vars => PreemptedHasSuccessor'
  <2> SUFFICES ASSUME TypeOK, PreemptedHasSuccessor, [Next]_vars
               PROVE  PreemptedHasSuccessor'
    OBVIOUS
  <2>1. ASSUME NEW r \in Requests, NEW l \in Leases, NEW p \in Priorities,
               NEW t \in Ttls, AcquireFree(r, l, p, t)
        PROVE  PreemptedHasSuccessor'
    BY <2>1, SweptType
       DEF AcquireFree, Install, NewLease, TypeOK, PreemptedHasSuccessor
  <2>2. ASSUME NEW r \in Requests, NEW v \in Leases, NEW p \in Priorities,
               NEW t \in Ttls, AcquirePreempt(r, v, p, t)
        PROVE  PreemptedHasSuccessor'
    <3>1. [victim |-> v, priority |-> p, ttl |-> t] \in Takeovers
      BY DEF Takeovers
    <3>2. takeover'[r] # NoTakeover /\ takeover'[r].victim = v
      BY <2>2, <3>1, NoTakeoverAssumption DEF AcquirePreempt, TypeOK
    <3>3. current' = v
      BY <2>2 DEF AcquirePreempt, Valid
    <3>4. QED
      BY <3>2, <3>3 DEF PreemptedHasSuccessor
  <2>3. ASSUME NEW r \in Requests, NEW l \in Leases, FinishPreempt(r, l)
        PROVE  PreemptedHasSuccessor'
    BY <2>3 DEF FinishPreempt, Install, NewLease, TypeOK, PreemptedHasSuccessor
  <2>4. ASSUME NEW l \in Leases, Release(l)
        PROVE  PreemptedHasSuccessor'
    BY <2>4 DEF Release, PreemptedHasSuccessor
  <2>5. ASSUME NEW l \in Leases, NEW t \in Ttls, Renew(l, t)
        PROVE  PreemptedHasSuccessor'
    BY <2>5 DEF Renew, Renewed, TypeOK, LeaseRecords, PreemptedHasSuccessor
  <2>6. CASE RenewExpired
    BY <2>6 DEF RenewExpired, PreemptedHasSuccessor
  <2>7. CASE GetCurrentLease
    BY <2>7 DEF GetCurrentLease, PreemptedHasSuccessor
  <2>8. CASE Tick
    BY <2>8, TickedParts, NoLeaseAssumption DEF Tick, TypeOK, PreemptedHasSuccessor
  <2>9. CASE UNCHANGED vars
    BY <2>9 DEF vars, PreemptedHasSuccessor
  <2>10. QED
    BY <2>1, <2>2, <2>3, <2>4, <2>5, <2>6, <2>7, <2>8, <2>9 DEF Next
<1>3. QED
  BY <1>1, <1>2, TypeCorrect, PTL DEF Spec

\* The lease the manager points at has been granted and is not marked released or
\* expired, so release and renew never act on one that is.
THEOREM CurrentLive == Spec => []CurrentIsLive
<1>1. Init => CurrentIsLive
  BY DEF Init, CurrentIsLive
<1>2. TypeOK /\ CurrentIsLive /\ [Next]_vars => CurrentIsLive'
  <2> SUFFICES ASSUME TypeOK, CurrentIsLive, [Next]_vars
               PROVE  CurrentIsLive'
    OBVIOUS
  <2>1. ASSUME NEW r \in Requests, NEW l \in Leases, NEW p \in Priorities,
               NEW t \in Ttls, AcquireFree(r, l, p, t)
        PROVE  CurrentIsLive'
    BY <2>1, SweptType DEF AcquireFree, Install, NewLease, CurrentIsLive
  <2>2. ASSUME NEW r \in Requests, NEW v \in Leases, NEW p \in Priorities,
               NEW t \in Ttls, AcquirePreempt(r, v, p, t)
        PROVE  CurrentIsLive'
    BY <2>2 DEF AcquirePreempt, Valid, CurrentIsLive, TypeOK, LeaseRecords
  <2>3. ASSUME NEW r \in Requests, NEW l \in Leases, FinishPreempt(r, l)
        PROVE  CurrentIsLive'
    BY <2>3 DEF FinishPreempt, Install, NewLease, CurrentIsLive, TypeOK
  <2>4. ASSUME NEW l \in Leases, Release(l)
        PROVE  CurrentIsLive'
    BY <2>4 DEF Release, CurrentIsLive
  <2>5. ASSUME NEW l \in Leases, NEW t \in Ttls, Renew(l, t)
        PROVE  CurrentIsLive'
    BY <2>5 DEF Renew, Renewed, CurrentIsLive, TypeOK, LeaseRecords
  <2>6. CASE RenewExpired
    BY <2>6 DEF RenewExpired, CurrentIsLive
  <2>7. CASE GetCurrentLease
    BY <2>7 DEF GetCurrentLease, CurrentIsLive
  <2>8. CASE Tick
    BY <2>8, TickedParts, NoLeaseAssumption DEF Tick, CurrentIsLive, TypeOK
  <2>9. CASE UNCHANGED vars
    BY <2>9 DEF vars, CurrentIsLive
  <2>10. QED
    BY <2>1, <2>2, <2>3, <2>4, <2>5, <2>6, <2>7, <2>8, <2>9 DEF Next
<1>3. QED
  BY <1>1, <1>2, TypeCorrect, PTL DEF Spec

\* Preempted, released, expired or overwritten is for ever: whatever the
\* callers do afterwards, the lease is never again what get_current_lease returns.
THEOREM NeverResurrected == Spec => NoResurrection
<1>1. ASSUME TypeOK, [Next]_vars, NEW k \in Leases,
             lease[k].status # "unborn", ~Valid(k)
      PROVE  ~Valid(k)'
  <2>1. ASSUME NEW r \in Requests, NEW l \in Leases, NEW p \in Priorities,
               NEW t \in Ttls, AcquireFree(r, l, p, t)
        PROVE  ~Valid(k)'
    BY <1>1, <2>1 DEF AcquireFree, Install, Valid
  <2>2. ASSUME NEW r \in Requests, NEW v \in Leases, NEW p \in Priorities,
               NEW t \in Ttls, AcquirePreempt(r, v, p, t)
        PROVE  ~Valid(k)'
    BY <1>1, <2>2 DEF AcquirePreempt, Valid, TypeOK, LeaseRecords
  <2>3. ASSUME NEW r \in Requests, NEW l \in Leases, FinishPreempt(r, l)
        PROVE  ~Valid(k)'
    BY <1>1, <2>3 DEF FinishPreempt, Install, Valid
  <2>4. ASSUME NEW l \in Leases, Release(l)
        PROVE  ~Valid(k)'
    BY <1>1, <2>4, NoLeaseAssumption DEF Release, Valid
  <2>5. ASSUME NEW l \in Leases, NEW t \in Ttls, Renew(l, t)
        PROVE  ~Valid(k)'
    BY <1>1, <2>5 DEF Renew, Renewed, Valid, IsExpired, TypeOK, LeaseRecords
  <2>6. CASE RenewExpired
    BY <1>1, <2>6, NoLeaseAssumption DEF RenewExpired, Valid
  <2>7. CASE GetCurrentLease
    BY <1>1, <2>7, NoLeaseAssumption DEF GetCurrentLease, Valid
  <2>8. CASE Tick
    BY <1>1, <2>8, TickedParts DEF Tick, Valid, IsExpired, TypeOK, LeaseRecords
  <2>9. CASE UNCHANGED vars
    BY <1>1, <2>9 DEF vars, Valid, IsExpired
  <2>10. QED
    BY <1>1, <2>1, <2>2, <2>3, <2>4, <2>5, <2>6, <2>7, <2>8, <2>9 DEF Next
<1>2. TypeOK /\ [Next]_vars =>
        [\A l \in Leases : lease[l].status # "unborn" /\ ~Valid(l) => ~Valid(l)']_vars
  BY <1>1
<1>3. QED
  BY <1>2, TypeCorrect, PTL DEF Spec, NoResurrection

-----------------------------------------------------------------------------
\* The routes and the capture service may be read against LeaseView, whether
\* publish suspends or not: every step of the manager grants a lease that was
\* never granted before, ends the valid one, or changes nothing they can see.
THEOREM ViewRefinement == Spec => KeepsView
<1>1. Init => View!VInit
  BY DEF Init, View!VInit, ValidNow, SpentNow
<1>2. TypeOK /\ CurrentIsLive /\ [Next]_vars => [View!VNext]_<<ValidNow, SpentNow>>
  <2> SUFFICES ASSUME TypeOK, CurrentIsLive, [Next]_vars
               PROVE  \/ \E l \in Leases : View!Granted(l)
                      \/ View!Ended
                      \/ UNCHANGED <<ValidNow, SpentNow>>
    BY DEF View!VNext
  <2>1. ASSUME NEW l \in Leases, NEW p \in Priorities, NEW t \in Ttls,
               NEW table \in [Leases -> LeaseRecords],
               \A k \in Leases : table[k].status = "unborn" <=> lease[k].status = "unborn",
               Install(table, l, p, t)
        PROVE  View!Granted(l)
    <3>1. lease' = [table EXCEPT ![l] = NewLease(p, t)]
      BY <2>1 DEF Install
    <3>2. lease'[l].status = "active" /\ lease'[l].left = EffectiveTtl(t)
      BY <3>1 DEF NewLease
    <3>3. EffectiveTtl(t) \in 0 .. MaxTtl
      BY EffectiveTtlRange
    <3>4. ValidNow' = l
      BY <2>1, <3>2, <3>3, TtlAssumption, NoLeaseAssumption
         DEF Install, Valid, IsExpired, ValidNow
    <3>5. \A k \in Leases : k # l => lease'[k] = table[k]
      BY <3>1
    <3>6. l \notin SpentNow /\ SpentNow' = SpentNow \cup {l}
      BY <2>1, <3>2, <3>5 DEF Install, SpentNow
    <3>7. QED
      BY <3>4, <3>6 DEF View!Granted
  <2>2. ASSUME SpentNow' = SpentNow, ValidNow' \in {NoLease, ValidNow}
        PROVE  View!Ended \/ UNCHANGED <<ValidNow, SpentNow>>
    BY <2>2 DEF View!Ended
  <2>3. \A k \in Leases : Swept[k].status = "unborn" <=> lease[k].status = "unborn"
    BY DEF Swept, Stale, CurrentIsLive, TypeOK, LeaseRecords
  <2>4. ASSUME NEW r \in Requests, NEW l \in Leases, NEW p \in Priorities,
               NEW t \in Ttls, AcquireFree(r, l, p, t)
        PROVE  View!Granted(l)
    BY <2>1, <2>3, <2>4, SweptType DEF AcquireFree
  <2>5. ASSUME NEW r \in Requests, NEW v \in Leases, NEW p \in Priorities,
               NEW t \in Ttls, AcquirePreempt(r, v, p, t)
        PROVE  SpentNow' = SpentNow /\ ValidNow' \in {NoLease, ValidNow}
    BY <2>5 DEF AcquirePreempt, Valid, ValidNow, SpentNow, TypeOK, LeaseRecords
  <2>6. ASSUME NEW r \in Requests, NEW l \in Leases, FinishPreempt(r, l)
        PROVE  View!Granted(l)
    <3>1. takeover[r].priority \in Priorities /\ takeover[r].ttl \in Ttls
      BY <2>6 DEF FinishPreempt, TypeOK, Takeovers
    <3>2. QED
      BY <2>1, <2>6, <3>1 DEF FinishPreempt, TypeOK
  <2>7. ASSUME NEW l \in Leases, Release(l)
        PROVE  SpentNow' = SpentNow /\ ValidNow' \in {NoLease, ValidNow}
    <3>1. lease' = [lease EXCEPT ![l].status = "released"] /\ current' = NoLease
      BY <2>7 DEF Release
    <3>2. lease[l].status # "unborn"
      BY <2>7, NoLeaseAssumption DEF Release, CurrentIsLive
    <3>3. \A k \in Leases : lease'[k].status = "unborn" <=> lease[k].status = "unborn"
      BY <3>1, <3>2 DEF TypeOK, LeaseRecords
    <3>4. QED
      BY <3>1, <3>3 DEF SpentNow, ValidNow
  <2>8. ASSUME NEW l \in Leases, NEW t \in Ttls, Renew(l, t)
        PROVE  SpentNow' = SpentNow /\ ValidNow' \in {NoLease, ValidNow}
    <3>1. EffectiveTtl(t) \in 0 .. MaxTtl
      BY EffectiveTtlRange
    <3>2. lease' = [lease EXCEPT ![l] = Renewed(lease[l], t)]
      BY <2>8 DEF Renew
    <3>3. \A k \in Leases : lease'[k].status = lease[k].status
      BY <3>2 DEF Renewed, TypeOK, LeaseRecords
    <3>4. lease'[l].left \in 0 .. MaxTtl
      BY <3>1, <3>2 DEF Renewed, TypeOK, LeaseRecords
    <3>5. SpentNow' = SpentNow
      BY <3>3 DEF SpentNow
    <3>6. QED
      BY <2>8, <3>3, <3>4, <3>5, TtlAssumption
         DEF Renew, Valid, IsExpired, ValidNow
  <2>9. ASSUME lease' = Swept, current' = NoLease
        PROVE  SpentNow' = SpentNow /\ ValidNow' \in {NoLease, ValidNow}
    BY <2>3, <2>9 DEF SpentNow, ValidNow
  <2>10. CASE Tick
    <3>1. \A k \in Leases : lease'[k].status = lease[k].status
      BY <2>10, TickedParts
    <3>2. \A k \in Leases : lease[k].left < 0 => lease'[k].left < 0
      BY <2>10, TickedParts DEF TypeOK, LeaseRecords
    <3>3. SpentNow' = SpentNow
      BY <3>1 DEF SpentNow
    <3>4. current' = current
      BY <2>10 DEF Tick
    <3>5. ValidNow' \in {NoLease, ValidNow}
      BY <3>1, <3>2, <3>4 DEF Valid, IsExpired, ValidNow, TypeOK, LeaseRecords
    <3>6. QED
      BY <2>2, <3>3, <3>5
  <2>11. CASE UNCHANGED vars
    BY <2>11 DEF vars, ValidNow, SpentNow, Valid, IsExpired
  <2>12. QED
    BY <2>2, <2>4, <2>5, <2>6, <2>7, <2>8, <2>9, <2>10, <2>11
       DEF Next, RenewExpired, GetCurrentLease
<1>3. QED
  BY <1>1, <1>2, TypeCorrect, CurrentLive, PTL
     DEF Spec, KeepsView, View!VSpec, View!viewVars

-----------------------------------------------------------------------------
\* When publish does not suspend: every lease in force is the current one, and
\* while an acquire is replacing a lease no lease is in force.  (Inductive.)
LEMMA SoleHolderInvariant ==
    ASSUME PublishSuspends = FALSE
    PROVE  Spec => []SoleHolder
<1>1. Init => SoleHolder
  BY DEF Init, SoleHolder, Held
<1>2. TypeOK /\ SoleHolder /\ [Next]_vars => SoleHolder'
  <2> SUFFICES ASSUME TypeOK, SoleHolder, [Next]_vars
               PROVE  SoleHolder'
    OBVIOUS
  <2>1. ASSUME NEW r \in Requests, NEW l \in Leases, NEW p \in Priorities,
               NEW t \in Ttls, AcquireFree(r, l, p, t)
        PROVE  SoleHolder'
    <3>1. \A q \in Requests : takeover'[q] = NoTakeover
      BY <2>1 DEF AcquireFree, LoopIdle
    <3>2. ASSUME NEW k \in Leases, k # l PROVE ~Held(k)'
      BY <2>1, <3>2, SweptType
         DEF AcquireFree, Install, NobodyHolds, Valid, Held, SoleHolder, TypeOK, IsExpired
    <3>3. QED
      BY <2>1, <3>1, <3>2 DEF SoleHolder, AcquireFree, Install
  <2>2. ASSUME NEW r \in Requests, NEW v \in Leases, NEW p \in Priorities,
               NEW t \in Ttls, AcquirePreempt(r, v, p, t)
        PROVE  SoleHolder'
    <3>1. \A k \in Leases : ~Held(k)'
      BY <2>2 DEF AcquirePreempt, Valid, Held, SoleHolder, TypeOK, LeaseRecords, IsExpired
    <3>2. \A q \in Requests : q # r => takeover'[q] = NoTakeover
      BY <2>2 DEF AcquirePreempt, LoopIdle, TypeOK
    <3>3. QED
      BY <3>1, <3>2 DEF SoleHolder
  <2>3. ASSUME NEW r \in Requests, NEW l \in Leases, FinishPreempt(r, l)
        PROVE  SoleHolder'
    <3>1. \A q \in Requests : takeover'[q] = NoTakeover
      BY <2>3 DEF FinishPreempt, MayRun, TypeOK
    <3>2. \A k \in Leases : k # l => ~Held(k)'
      BY <2>3 DEF FinishPreempt, Install, Held, SoleHolder, TypeOK, IsExpired
    <3>3. QED
      BY <2>3, <3>1, <3>2 DEF SoleHolder, FinishPreempt, Install
  <2>4. ASSUME NEW l \in Leases, Release(l)
        PROVE  SoleHolder'
    BY <2>4 DEF Release, LoopIdle, SoleHolder, Held, IsExpired, TypeOK, LeaseRecords
  <2>5. ASSUME NEW l \in Leases, NEW t \in Ttls, Renew(l, t)
        PROVE  SoleHolder'
    BY <2>5 DEF Renew, Renewed, LoopIdle, SoleHolder, Held, IsExpired, TypeOK, LeaseRecords
  <2>6. CASE RenewExpired
    BY <2>6, SweptType
       DEF RenewExpired, LoopIdle, Stale, SoleHolder, Held, IsExpired, TypeOK
  <2>7. CASE GetCurrentLease
    BY <2>7, SweptType
       DEF GetCurrentLease, LoopIdle, Stale, SoleHolder, Held, IsExpired, TypeOK
  <2>8. CASE Tick
    BY <2>8, TickedParts DEF Tick, SoleHolder, Held, IsExpired, TypeOK, LeaseRecords
  <2>9. CASE UNCHANGED vars
    BY <2>9 DEF vars, SoleHolder, Held, IsExpired
  <2>10. QED
    BY <2>1, <2>2, <2>3, <2>4, <2>5, <2>6, <2>7, <2>8, <2>9 DEF Next
<1>3. QED
  BY <1>1, <1>2, TypeCorrect, PTL DEF Spec

\* Mutual exclusion: no two leases are in force together, for any number of
\* clients, when publish does not suspend.
THEOREM MutualExclusion ==
    ASSUME PublishSuspends = FALSE
    PROVE  Spec => []OneHolder
<1>1. SoleHolder => OneHolder
  BY DEF SoleHolder, OneHolder
<1>2. QED
  BY <1>1, SoleHolderInvariant, PTL

-----------------------------------------------------------------------------
\* A step that only takes leases out of force, and leaves the rest of the
\* abstract state alone, is End or a stutter.
LEMMA EndOrStutter ==
    ASSUME TypeOK, SoleHolder, UNCHANGED takeover,
           \A k \in Leases : Held(k)' => Held(k),
           RankNow' = RankNow, SpentNow' = SpentNow
    PROVE  [Promise!ANext]_(Promise!avars)
<1>1. ClaimsNow' = ClaimsNow
  BY DEF ClaimsNow
<1>2. HoldersNow' \subseteq HoldersNow
  BY DEF HoldersNow
<1>3. \A k, m \in HoldersNow : k = m
  BY DEF HoldersNow, SoleHolder
<1>4. HoldersNow' = HoldersNow \/ (HoldersNow # {} /\ HoldersNow' = {})
  BY <1>2, <1>3
<1>5. QED
  BY <1>1, <1>4 DEF Promise!ANext, Promise!avars, Promise!End

\* The manager implements ExclusiveLease: at every moment at most one lease is
\* in force, and a lease in force is replaced only by a strictly higher
\* priority that then gets the camera before anybody else.
THEOREM Refinement ==
    ASSUME PublishSuspends = FALSE
    PROVE  Spec => KeepsPromise
<1>1. Init => Promise!AInit
  BY DEF Init, Promise!AInit, HoldersNow, ClaimsNow, RankNow, SpentNow, Held
<1>2. TypeOK /\ CurrentIsLive /\ SoleHolder /\ SoleHolder' /\ [Next]_vars
        => [Promise!ANext]_(Promise!avars)
  <2> SUFFICES ASSUME TypeOK, CurrentIsLive, SoleHolder, SoleHolder', [Next]_vars
               PROVE  [Promise!ANext]_(Promise!avars)
    OBVIOUS
  <2>1. ASSUME NEW r \in Requests, NEW l \in Leases, NEW p \in Priorities,
               NEW t \in Ttls, AcquireFree(r, l, p, t)
        PROVE  Promise!Grant(l, p)
    <3>1. HoldersNow = {} /\ ClaimsNow = {} /\ ClaimsNow' = ClaimsNow
      BY <2>1 DEF AcquireFree, LoopIdle, NobodyHolds, Valid, SoleHolder, Held,
                  HoldersNow, ClaimsNow
    <3>2. l \notin SpentNow
      BY <2>1 DEF AcquireFree, Install, SpentNow
    <3>3. lease' = [Swept EXCEPT ![l] = NewLease(p, t)]
      BY <2>1 DEF AcquireFree, Install
    <3>4. RankNow' = [RankNow EXCEPT ![l] = p]
      BY <3>3, SweptType DEF RankNow, NewLease
    <3>5. SpentNow' = SpentNow \cup {l}
      BY <3>3, SweptType DEF SpentNow, NewLease, Swept, Stale, CurrentIsLive, TypeOK
    <3>6. Held(l)'
      BY <3>3, SweptType, NewLeaseType, TtlAssumption
         DEF Held, IsExpired, NewLease, EffectiveTtl
    <3>7. HoldersNow' = {l}
      BY <3>6 DEF HoldersNow, SoleHolder
    <3>8. QED
      BY <3>1, <3>2, <3>4, <3>5, <3>7 DEF Promise!Grant, Promise!Issue
  <2>2. ASSUME NEW r \in Requests, NEW v \in Leases, NEW p \in Priorities,
               NEW t \in Ttls, AcquirePreempt(r, v, p, t)
        PROVE  Promise!Evict(p)
    <3>1. v \in HoldersNow /\ ClaimsNow = {}
      BY <2>2 DEF AcquirePreempt, Valid, Held, HoldersNow, LoopIdle, ClaimsNow
    <3>2. [victim |-> v, priority |-> p, ttl |-> t] \in Takeovers
      BY DEF Takeovers
    <3>3. takeover' = [takeover EXCEPT ![r] = [victim |-> v, priority |-> p, ttl |-> t]]
      BY <2>2 DEF AcquirePreempt
    <3>4. takeover'[r] # NoTakeover /\ takeover'[r].priority = p
      BY <3>2, <3>3, NoTakeoverAssumption DEF TypeOK
    <3>5. \A q \in Requests : q # r => takeover'[q] = NoTakeover
      BY <2>2, <3>3 DEF AcquirePreempt, LoopIdle, TypeOK
    <3>6. ClaimsNow' = {p}
      BY <3>4, <3>5 DEF ClaimsNow
    <3>7. HoldersNow' = {}
      BY <3>4 DEF HoldersNow, SoleHolder
    <3>8. RankNow' = RankNow /\ SpentNow' = SpentNow
      BY <2>2 DEF AcquirePreempt, Valid, RankNow, SpentNow, TypeOK, LeaseRecords
    <3>9. \A k \in HoldersNow : p > RankNow[k]
      BY <2>2 DEF AcquirePreempt, Valid, HoldersNow, SoleHolder, RankNow
    <3>10. QED
      BY <3>1, <3>6, <3>7, <3>8, <3>9 DEF Promise!Evict
  <2>3. ASSUME NEW r \in Requests, NEW l \in Leases, FinishPreempt(r, l)
        PROVE  \E p \in Priorities : Promise!Honour(l, p)
    <3>1. PICK p \in Priorities, t \in Ttls :
              takeover[r].priority = p /\ takeover[r].ttl = t
      BY <2>3 DEF FinishPreempt, TypeOK, Takeovers
    <3>2. lease' = [lease EXCEPT ![l] = NewLease(p, t)]
      BY <2>3, <3>1 DEF FinishPreempt, Install
    <3>3. HoldersNow = {} /\ ClaimsNow = {p}
      BY <2>3, <3>1 DEF FinishPreempt, SoleHolder, HoldersNow, ClaimsNow
    <3>4. ClaimsNow' = {}
      BY <2>3 DEF FinishPreempt, MayRun, TypeOK, ClaimsNow
    <3>5. l \notin SpentNow
      BY <2>3 DEF FinishPreempt, Install, SpentNow
    <3>6. RankNow' = [RankNow EXCEPT ![l] = p]
      BY <3>2 DEF RankNow, NewLease, TypeOK
    <3>7. SpentNow' = SpentNow \cup {l}
      BY <3>2 DEF SpentNow, NewLease, TypeOK
    <3>8. EffectiveTtl(t) \in Nat
      BY EffectiveTtlRange, TtlAssumption
    <3>9. Held(l)'
      <4>1. lease'[l] = NewLease(p, t)
        BY <3>2 DEF TypeOK
      <4>2. QED
        BY <4>1, <3>8 DEF Held, IsExpired, NewLease
    <3>10. HoldersNow' = {l}
      BY <3>9 DEF HoldersNow, SoleHolder
    <3>11. QED
      BY <3>3, <3>4, <3>5, <3>6, <3>7, <3>10 DEF Promise!Honour, Promise!Issue
  <2>4. ASSUME NEW l \in Leases, Release(l)
        PROVE  [Promise!ANext]_(Promise!avars)
    <3>1. /\ RankNow' = RankNow
          /\ \A k \in Leases : Held(k)' => Held(k)
      BY <2>4 DEF Release, RankNow, Held, IsExpired, TypeOK, LeaseRecords
    <3>2. SpentNow' = SpentNow
      BY <2>4, NoLeaseAssumption
         DEF Release, SpentNow, CurrentIsLive, TypeOK, LeaseRecords
    <3>3. QED
      BY <2>4, <3>1, <3>2, EndOrStutter DEF Release
  <2>5. ASSUME NEW l \in Leases, NEW t \in Ttls, Renew(l, t)
        PROVE  [Promise!ANext]_(Promise!avars)
    <3>1. /\ RankNow' = RankNow
          /\ SpentNow' = SpentNow
          /\ \A k \in Leases : Held(k)' => Held(k)
      BY <2>5 DEF Renew, Renewed, RankNow, SpentNow, Held, IsExpired, TypeOK, LeaseRecords
    <3>2. QED
      BY <2>5, <3>1, EndOrStutter DEF Renew
  <2>6. CASE RenewExpired \/ GetCurrentLease
    <3>1. /\ lease' = Swept
          /\ Stale
          /\ UNCHANGED takeover
      BY <2>6 DEF RenewExpired, GetCurrentLease
    <3>2. /\ RankNow' = RankNow
          /\ \A k \in Leases : Held(k)' => Held(k)
      BY <3>1, SweptType DEF RankNow, Held, IsExpired, TypeOK
    <3>3. SpentNow' = SpentNow
      BY <3>1 DEF SpentNow, Swept, Stale, CurrentIsLive, TypeOK
    <3>4. QED
      BY <3>1, <3>2, <3>3, EndOrStutter
  <2>7. CASE Tick
    <3>1. /\ RankNow' = RankNow
          /\ SpentNow' = SpentNow
          /\ \A k \in Leases : Held(k)' => Held(k)
      BY <2>7, TickedParts DEF RankNow, SpentNow, Held, IsExpired, TypeOK, LeaseRecords
    <3>2. QED
      BY <2>7, <3>1, EndOrStutter DEF Tick
  <2>8. CASE UNCHANGED vars
    BY <2>8 DEF vars, Promise!avars, HoldersNow, ClaimsNow, RankNow, SpentNow, Held, IsExpired
  <2>9. QED
    BY <2>1, <2>2, <2>3, <2>4, <2>5, <2>6, <2>7, <2>8 DEF Next, Promise!ANext
<1>3. QED
  BY <1>1, <1>2, TypeCorrect, CurrentLive, SoleHolderInvariant, PTL DEF Spec, KeepsPromise, Promise!ASpec

-----------------------------------------------------------------------------
\* A takeover that is suspended has taken its victim out of force for good.
VictimsAreTaken ==
    \A r \in Requests : takeover[r] # NoTakeover =>
        lease[takeover[r].victim].status \in {"preempted", "released", "expired"}

LEMMA VictimsStayTaken == Spec => []VictimsAreTaken
<1>1. Init => VictimsAreTaken
  BY DEF Init, VictimsAreTaken
<1>2. TypeOK /\ VictimsAreTaken /\ [Next]_vars => VictimsAreTaken'
  <2> SUFFICES ASSUME TypeOK, VictimsAreTaken, [Next]_vars
               PROVE  VictimsAreTaken'
    OBVIOUS
  <2> DEFINE Taken == {"preempted", "released", "expired"}
  <2>1. \A r \in Requests : takeover[r] # NoTakeover => takeover[r].victim \in Leases
    BY DEF TypeOK, Takeovers
  <2>2. ASSUME \A r \in Requests : takeover'[r] \in {takeover[r], NoTakeover},
               \A k \in Leases : lease[k].status \in Taken => lease'[k].status \in Taken
        PROVE  VictimsAreTaken'
    BY <2>1, <2>2 DEF VictimsAreTaken
  <2>3. \A k \in Leases : lease[k].status \in Taken => Swept[k].status \in Taken
    BY SweptType
  <2>4. ASSUME NEW r \in Requests, NEW l \in Leases, NEW p \in Priorities,
               NEW t \in Ttls, AcquireFree(r, l, p, t)
        PROVE  VictimsAreTaken'
    <3>1. \A k \in Leases : lease[k].status \in Taken => lease'[k].status \in Taken
      BY <2>3, <2>4, SweptType DEF AcquireFree, Install
    <3>2. QED
      BY <2>2, <2>4, <3>1 DEF AcquireFree
  <2>5. ASSUME NEW r \in Requests, NEW v \in Leases, NEW p \in Priorities,
               NEW t \in Ttls, AcquirePreempt(r, v, p, t)
        PROVE  VictimsAreTaken'
    <3>1. takeover'[r].victim = v
      BY <2>5 DEF AcquirePreempt, TypeOK
    <3>2. \A q \in Requests : q # r => takeover'[q] = takeover[q]
      BY <2>5 DEF AcquirePreempt, TypeOK
    <3>3. /\ lease'[v].status = "preempted"
          /\ \A k \in Leases : k # v => lease'[k] = lease[k]
      BY <2>5 DEF AcquirePreempt, TypeOK, LeaseRecords
    <3>4. QED
      BY <2>1, <3>1, <3>2, <3>3 DEF VictimsAreTaken
  <2>6. ASSUME NEW r \in Requests, NEW l \in Leases, FinishPreempt(r, l)
        PROVE  VictimsAreTaken'
    <3>1. \A k \in Leases : lease[k].status \in Taken => lease'[k].status \in Taken
      BY <2>6 DEF FinishPreempt, Install, TypeOK
    <3>2. \A q \in Requests : takeover'[q] \in {takeover[q], NoTakeover}
      BY <2>6 DEF FinishPreempt, TypeOK
    <3>3. QED
      BY <2>2, <3>1, <3>2
  <2>7. ASSUME NEW l \in Leases, Release(l)
        PROVE  VictimsAreTaken'
    <3>1. \A k \in Leases : lease[k].status \in Taken => lease'[k].status \in Taken
      BY <2>7 DEF Release, TypeOK, LeaseRecords
    <3>2. QED
      BY <2>2, <2>7, <3>1 DEF Release
  <2>8. ASSUME NEW l \in Leases, NEW t \in Ttls, Renew(l, t)
        PROVE  VictimsAreTaken'
    <3>1. \A k \in Leases : lease[k].status \in Taken => lease'[k].status \in Taken
      BY <2>8 DEF Renew, Renewed, TypeOK, LeaseRecords
    <3>2. QED
      BY <2>2, <2>8, <3>1 DEF Renew
  <2>9. CASE RenewExpired \/ GetCurrentLease
    BY <2>2, <2>3, <2>9 DEF RenewExpired, GetCurrentLease
  <2>10. CASE Tick
    <3>1. \A k \in Leases : lease[k].status \in Taken => lease'[k].status \in Taken
      BY <2>10, TickedParts
    <3>2. QED
      BY <2>2, <2>10, <3>1 DEF Tick
  <2>11. CASE UNCHANGED vars
    BY <2>11 DEF vars, VictimsAreTaken
  <2>12. QED
    BY <2>4, <2>5, <2>6, <2>7, <2>8, <2>9, <2>10, <2>11 DEF Next
<1>3. QED
  BY <1>1, <1>2, TypeCorrect, PTL DEF Spec

\* Whatever publish suspends, the manager loses sight of a lease in force in one
\* way only: the takeover of another lease, which was suspended, installs its own.
THEOREM OnlyTakeoversOverwrite == Spec => OverwrittenByTakeoverOnly
<1>1. ASSUME TypeOK, VictimsAreTaken, [Next]_vars, NEW k \in Leases,
             current = k, Held(k), Held(k)', current' # k
      PROVE  \E r \in Requests : /\ takeover[r] # NoTakeover
                                 /\ takeover[r].victim # k
                                 /\ takeover'[r] = NoTakeover
  <2>1. Valid(k)
    BY <1>1 DEF Held, Valid
  <2>2. ASSUME NEW r \in Requests, NEW l \in Leases, NEW p \in Priorities,
               NEW t \in Ttls, AcquireFree(r, l, p, t)
        PROVE  FALSE
    BY <2>1, <2>2 DEF AcquireFree, NobodyHolds
  <2>3. ASSUME NEW r \in Requests, NEW l \in Leases, FinishPreempt(r, l)
        PROVE  /\ takeover[r] # NoTakeover
               /\ takeover[r].victim # k
               /\ takeover'[r] = NoTakeover
    BY <1>1, <2>3 DEF FinishPreempt, VictimsAreTaken, Held, TypeOK
  <2>4. ASSUME NEW l \in Leases, Release(l)
        PROVE  FALSE
    BY <1>1, <2>4 DEF Release, Held, TypeOK, LeaseRecords
  <2>5. CASE Stale
    BY <1>1, <2>5 DEF Stale, Held
  <2>6. CASE UNCHANGED current
    BY <1>1, <2>6
  <2>7. QED
    BY <1>1, <2>2, <2>3, <2>4, <2>5, <2>6
       DEF Next, AcquirePreempt, Renew, RenewExpired, GetCurrentLease, Tick, vars
<1>2. TypeOK /\ VictimsAreTaken /\ [Next]_vars =>
        [\A l \in Leases :
            current = l /\ Held(l) /\ Held(l)' /\ current' # l =>
                \E r \in Requests : /\ takeover[r] # NoTakeover
                                    /\ takeover[r].victim # l
                                    /\ takeover'[r] = NoTakeover]_vars
  BY <1>1
<1>3. QED
  BY <1>2, TypeCorrect, VictimsStayTaken, PTL DEF Spec, OverwrittenByTakeoverOnly

-----------------------------------------------------------------------------
\* What a follower has been told of the lease k is so: the expiry it was told is
\* the lease's, the valid lease was last told to be granted or renewed, and a
\* lease last told so is valid or has run out.
ToldGranted(k) == told[k].event \in {"acquired", "renewed"}

Followed(k) ==
    /\ ToldGranted(k) => told[k].left = lease[k].left
    /\ Valid(k) => ToldGranted(k)
    /\ ToldGranted(k) => Valid(k) \/ IsExpired(k)

\* A client that follows the lease.* events, and the expires_at in them, knows
\* at every moment which lease is valid, when publish does not suspend.  renew
\* does not look at the status of the lease it extends, so this rests on a
\* preempted current lease having a successor in the loop, which keeps every
\* renew out until the successor is installed.
THEOREM EventsAreTrue ==
    ASSUME PublishSuspends = FALSE
    PROVE  Spec => []AnnouncedIsTrue
<1>1. Init => \A k \in Leases : Followed(k)
  BY NoLeaseAssumption DEF Init, Followed, ToldGranted, Valid
<1>2. TypeOK /\ CurrentIsLive /\ PreemptedHasSuccessor /\ SoleHolder
        /\ (\A k \in Leases : Followed(k)) /\ [Next]_vars
        => (\A k \in Leases : Followed(k))'
  <2> SUFFICES ASSUME TypeOK, CurrentIsLive, PreemptedHasSuccessor, SoleHolder,
                      [Next]_vars, NEW k \in Leases, Followed(k)
               PROVE  Followed(k)'
    OBVIOUS
  <2>1. ASSUME told'[k] = told[k], ~Valid(k), ~Valid(k)', lease'[k].left = lease[k].left
        PROVE  Followed(k)'
    BY <2>1 DEF Followed, ToldGranted, IsExpired
  <2>2. ASSUME ToldGranted(k)', Valid(k)', told'[k].left = lease'[k].left
        PROVE  Followed(k)'
    BY <2>2 DEF Followed
  <2>3. ASSUME ~ToldGranted(k)', ~Valid(k)'
        PROVE  Followed(k)'
    BY <2>3 DEF Followed
  <2>4. ASSUME NEW l \in Leases, NEW p \in Priorities, NEW t \in Ttls,
               NEW table \in [Leases -> LeaseRecords], Install(table, l, p, t),
               table[k].left = lease[k].left, ~Valid(k)
        PROVE  Followed(k)'
    <3>1. PICK n \in -1 .. MaxTtl : n >= 0 /\ NewLease(p, t).left = n
      BY EffectiveTtlRange, TtlAssumption DEF NewLease
    <3>2. /\ lease' = [table EXCEPT ![l] = NewLease(p, t)]
          /\ Announce(l, "acquired", n)
          /\ current' = l
      BY <2>4, <3>1 DEF Install
    <3>3. CASE k = l
      <4>1. lease'[k].left = n /\ lease'[k].status = "active"
        BY <3>1, <3>2, <3>3 DEF NewLease
      <4>2. told'[k].event = "acquired" /\ told'[k].left = n
        BY <3>2, <3>3, AnnounceType
      <4>3. QED
        BY <2>2, <3>1, <3>2, <3>3, <4>1, <4>2 DEF ToldGranted, Valid, IsExpired
    <3>4. CASE k # l
      <4>1. told'[k] = told[k]
        BY <3>2, <3>4, AnnounceType
      <4>2. lease'[k].left = lease[k].left
        BY <2>4, <3>2, <3>4
      <4>3. ~Valid(k)'
        BY <3>2, <3>4 DEF Valid
      <4>4. QED
        BY <2>1, <2>4, <4>1, <4>2, <4>3
    <3>5. QED
      BY <3>3, <3>4
  <2>5. ASSUME NEW r \in Requests, NEW l \in Leases, NEW p \in Priorities,
               NEW t \in Ttls, AcquireFree(r, l, p, t)
        PROVE  Followed(k)'
    BY <2>4, <2>5, SweptType DEF AcquireFree, NobodyHolds
  <2>6. ASSUME NEW l \in Leases, NEW e \in {"preempted", "released"},
               Announce(l, e, -1), current = l, ~Valid(k)',
               lease'[k].left = lease[k].left
        PROVE  Followed(k)'
    <3>1. -1 \in -1 .. MaxTtl
      BY TtlAssumption
    <3>2. /\ told'[l].event = e
          /\ k # l => told'[k] = told[k]
      BY <2>6, <3>1, AnnounceType
    <3>3. CASE k = l
      BY <2>3, <2>6, <3>2, <3>3 DEF ToldGranted
    <3>4. CASE k # l
      BY <2>1, <2>6, <3>2, <3>4 DEF Valid
    <3>5. QED
      BY <3>3, <3>4
  <2>7. ASSUME NEW r \in Requests, NEW v \in Leases, NEW p \in Priorities,
               NEW t \in Ttls, AcquirePreempt(r, v, p, t)
        PROVE  Followed(k)'
    <3>1. ~Valid(k)' /\ lease'[k].left = lease[k].left
      BY <2>7 DEF AcquirePreempt, Valid, TypeOK, LeaseRecords
    <3>2. QED
      BY <2>6, <2>7, <3>1 DEF AcquirePreempt, Valid
  <2>8. ASSUME NEW r \in Requests, NEW l \in Leases, FinishPreempt(r, l)
        PROVE  Followed(k)'
    <3>1. takeover[r].priority \in Priorities /\ takeover[r].ttl \in Ttls
      BY <2>8 DEF FinishPreempt, TypeOK, Takeovers
    <3>2. ~Valid(k)
      BY <2>8 DEF FinishPreempt, SoleHolder, Held, Valid
    <3>3. QED
      BY <2>4, <2>8, <3>1, <3>2 DEF FinishPreempt, TypeOK
  <2>9. ASSUME NEW l \in Leases, Release(l)
        PROVE  Followed(k)'
    <3>1. ~Valid(k)' /\ lease'[k].left = lease[k].left
      BY <2>9, NoLeaseAssumption DEF Release, Valid, TypeOK, LeaseRecords
    <3>2. QED
      BY <2>6, <2>9, <3>1 DEF Release
  <2>10. ASSUME NEW l \in Leases, NEW t \in Ttls, Renew(l, t)
         PROVE  Followed(k)'
    <3>1. current # NoLease /\ current = l /\ current' = l
      BY <2>10, NoLeaseAssumption DEF Renew
    <3>2. lease[l].status = "active"
      BY <2>10, <3>1 DEF Renew, LoopIdle, CurrentIsLive, PreemptedHasSuccessor
    <3>3. PICK n \in -1 .. MaxTtl : n >= 0 /\ EffectiveTtl(t) = n
      BY EffectiveTtlRange, TtlAssumption
    <3>4. /\ Renewed(lease[l], t).left = n
          /\ Renewed(lease[l], t).status = "active"
      BY <3>2, <3>3 DEF Renewed, TypeOK, LeaseRecords
    <3>5. /\ lease' = [lease EXCEPT ![l] = Renewed(lease[l], t)]
          /\ Announce(l, "renewed", n)
      BY <2>10, <3>4 DEF Renew
    <3>6. CASE k = l
      <4>1. lease'[k].left = n /\ lease'[k].status = "active"
        BY <3>4, <3>5, <3>6 DEF TypeOK
      <4>2. told'[k].event = "renewed" /\ told'[k].left = n
        BY <3>5, <3>6, AnnounceType
      <4>3. QED
        BY <2>2, <3>1, <3>3, <3>6, <4>1, <4>2 DEF ToldGranted, Valid, IsExpired
    <3>7. CASE k # l
      <4>1. told'[k] = told[k]
        BY <3>5, <3>7, AnnounceType
      <4>2. lease'[k] = lease[k] /\ ~Valid(k) /\ ~Valid(k)'
        BY <3>1, <3>5, <3>7 DEF Valid, TypeOK
      <4>3. QED
        BY <2>1, <4>1, <4>2
    <3>8. QED
      BY <3>6, <3>7
  <2>11. CASE RenewExpired \/ GetCurrentLease
    <3>1. ~Valid(k) /\ ~Valid(k)' /\ told'[k] = told[k]
      BY <2>11, NoLeaseAssumption DEF RenewExpired, GetCurrentLease, Stale, Valid
    <3>2. lease'[k].left = lease[k].left
      BY <2>11, SweptType DEF RenewExpired, GetCurrentLease
    <3>3. QED
      BY <2>1, <3>1, <3>2
  <2>12. CASE Tick
    <3>1. current' = current
      BY <2>12 DEF Tick
    <3>2. lease[k].left \in -1 .. MaxTtl /\ told[k].left \in -1 .. MaxTtl
      BY DEF TypeOK, LeaseRecords, Announcements
    <3>3. QED
      BY <2>12, <3>1, <3>2, TickedParts, TtlAssumption
         DEF Followed, ToldGranted, Valid, IsExpired
  <2>13. CASE UNCHANGED vars
    BY <2>13 DEF vars, Followed, ToldGranted, Valid, IsExpired
  <2>14. QED
    BY <2>5, <2>7, <2>8, <2>9, <2>10, <2>11, <2>12, <2>13 DEF Next
<1>3. TypeOK /\ (\A k \in Leases : Followed(k)) => AnnouncedIsTrue
  <2> SUFFICES ASSUME TypeOK, NEW k \in Leases, Followed(k)
               PROVE  Valid(k) <=> ToldGranted(k) /\ told[k].left >= 0
    BY DEF AnnouncedIsTrue, ToldGranted
  <2>1. lease[k].left \in -1 .. MaxTtl
    BY DEF TypeOK, LeaseRecords
  <2>2. QED
    BY <2>1, TtlAssumption DEF Followed, Valid, IsExpired
<1>4. QED
  BY <1>1, <1>2, <1>3, TypeCorrect, CurrentLive, SuccessorWaits, SoleHolderInvariant, PTL
     DEF Spec
=============================================================================
