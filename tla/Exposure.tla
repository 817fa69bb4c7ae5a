------------------------------ MODULE Exposure ------------------------------
(***************************************************************************)
(* What the capture service promises when nobody aborts and the link to    *)
(* the camera holds, with nothing of flags, updates and suspended tasks:   *)
(* exposures are made one after the other, each is announced when it       *)
(* starts, and each ends in one announced outcome: with the image of that  *)
(* exposure, or without one.                                               *)
(***************************************************************************)
EXTENDS Naturals

CONSTANT MaxCaptures  \* bound: exposures started

VARIABLES
    phase,  \* of every exposure: new, exposing, completed or failed
    image,  \* the exposure whose image it was given (0: none)
    told    \* the events published about it

exposureVars == <<phase, image, told>>

Exposures == 1 .. MaxCaptures

EInit ==
    /\ phase = [c \in Exposures |-> "new"]
    /\ image = [c \in Exposures |-> 0]
    /\ told = [c \in Exposures |-> {}]

\* The next exposure, when those before it have ended.
Start(c) ==
    /\ phase[c] = "new"
    /\ \A d \in 1 .. c - 1 : phase[d] \in {"completed", "failed"}
    /\ phase' = [phase EXCEPT ![c] = "exposing"]
    /\ told' = [told EXCEPT ![c] = {"started"}]
    /\ UNCHANGED image

End(c, outcome, i) ==
    /\ phase[c] = "exposing"
    /\ phase' = [phase EXCEPT ![c] = outcome]
    /\ image' = [image EXCEPT ![c] = i]
    /\ told' = [told EXCEPT ![c] = {"started", outcome}]

Ends(c) == End(c, "completed", c) \/ End(c, "failed", 0)

ENext == \E c \in Exposures : Start(c) \/ Ends(c)

ESafety == EInit /\ [][ENext]_exposureVars

\* Nobody need start an exposure; one that was started ends.
ESpec ==
    /\ ESafety
    /\ \A c \in Exposures : WF_exposureVars(Ends(c))
=============================================================================
