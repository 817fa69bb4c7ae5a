--------------------------- MODULE ExclusiveLease ---------------------------
(***************************************************************************)
(* What the lease service promises, with nothing of how it is done: one    *)
(* holder at a time, and a holder loses the camera to nobody but a         *)
(* strictly higher priority - either by running out or giving up, or to a  *)
(* claim that outranks it and that the very next grant must honour.        *)
(***************************************************************************)
EXTENDS Naturals

CONSTANTS Leases, Priorities

VARIABLES
    holders,  \* the leases in force
    claims,   \* the priority that has just evicted a holder, if any
    rank,     \* the priority of every lease ever granted
    spent     \* the leases ever granted

avars == <<holders, claims, rank, spent>>

AInit ==
    /\ holders = {}
    /\ claims = {}
    /\ rank = [l \in Leases |-> 0]
    /\ spent = {}

Issue(l, p) ==
    /\ l \notin spent
    /\ holders' = {l}
    /\ rank' = [rank EXCEPT ![l] = p]
    /\ spent' = spent \cup {l}

\* Nobody holds the camera and nobody has evicted a holder: first come.
Grant(l, p) ==
    /\ holders = {}
    /\ claims = {}
    /\ Issue(l, p)
    /\ UNCHANGED claims

\* A request evicts the holder it outranks.
Evict(p) ==
    /\ holders # {}
    /\ claims = {}
    /\ \A l \in holders : p > rank[l]
    /\ holders' = {}
    /\ claims' = {p}
    /\ UNCHANGED <<rank, spent>>

\* The evicting request, and no other, gets the camera.
Honour(l, p) ==
    /\ holders = {}
    /\ claims = {p}
    /\ Issue(l, p)
    /\ claims' = {}

\* The holder gives up or runs out of time.
End ==
    /\ holders # {}
    /\ holders' = {}
    /\ UNCHANGED <<claims, rank, spent>>

ANext ==
    \/ \E l \in Leases, p \in Priorities : Grant(l, p) \/ Honour(l, p)
    \/ \E p \in Priorities : Evict(p)
    \/ End

ASpec == AInit /\ [][ANext]_avars
=============================================================================
