----------------------------- MODULE LeaseView -----------------------------
(***************************************************************************)
(* What the rest of the service sees of the lease manager: the lease that  *)
(* get_current_lease returns.  Leases come and go at any time, whoever     *)
(* asks; one that is gone does not come back.  LeaseManager implements     *)
(* this view even when publish suspends an acquire in its middle, so the   *)
(* routes can be checked over the view instead of the manager.             *)
(***************************************************************************)
CONSTANTS Leases, NoLease

VARIABLES
    valid,  \* what get_current_lease returns: a lease or NoLease
    spent   \* the leases ever granted

viewVars == <<valid, spent>>

VInit == valid = NoLease /\ spent = {}

\* A lease never seen before is granted, perhaps in the place of another.
Granted(l) ==
    /\ l \notin spent
    /\ valid' = l
    /\ spent' = spent \cup {l}

\* The valid lease is released, preempted, or has run out.
Ended ==
    /\ valid # NoLease
    /\ valid' = NoLease
    /\ UNCHANGED spent

VNext == Ended \/ \E l \in Leases : Granted(l)

VSpec == VInit /\ [][VNext]_viewVars
=============================================================================
