------------------------------ MODULE Sequence ------------------------------
(***************************************************************************)
(* The sequence counter of presentation/api/routes/camera.py: the routes   *)
(* sequence/start and sequence/stop and the task _sequence_counter that a  *)
(* start creates.                                                          *)
(*                                                                         *)
(* The routes never suspend, so each is one step.  A stop only asks for    *)
(* the cancellation of the task: CancelledError is raised in it when the   *)
(* event loop runs it next, and by then another sequence may have been     *)
(* started with the same shared state and the same task attribute.         *)
(*                                                                         *)
(* That the start route requires a lease is said where the routes are      *)
(* composed with the lease manager (Imager), and so are the assumptions on *)
(* the constants.                                                          *)
(***************************************************************************)
EXTENDS Naturals

CONSTANTS
  Sequences,     \* the sequence ids uuid4 may draw, each with its task
  NoSequence,    \* None
  Counts,        \* the counts a caller may ask for; 0 is endless
  MaxCompleted   \* bound on the ticks of an endless sequence

VARIABLES
  running,    \* sequence_state["running"]
  sequence,   \* sequence_state["sequence_id"]
  completed,  \* sequence_state["completed_count"]
  handle,     \* sequence_task
  wanted,     \* payload.count, which every task keeps
  ticker      \* where the task of each sequence is

sequenceVars == <<running, sequence, completed, handle, wanted, ticker>>

(* "dropped": cancelled before its first step; "cancelled": in its sleep.  *)
Stages == {"unborn", "created", "sleeping", "dropped", "cancelled", "done"}

TypeOK ==
  /\ running \in BOOLEAN
  /\ {sequence, handle} \subseteq Sequences \cup {NoSequence}
  /\ completed \in Nat
  /\ wanted \in [Sequences -> Counts \cup {0}]
  /\ ticker \in [Sequences -> Stages]

Init ==
  /\ running = FALSE
  /\ sequence = NoSequence
  /\ completed = 0
  /\ handle = NoSequence
  /\ wanted = [s \in Sequences |-> 0]
  /\ ticker = [s \in Sequences |-> "unborn"]

SequenceStart(s, n) ==
  /\ ~running
  /\ ticker[s] = "unborn"
  /\ running' = TRUE
  /\ sequence' = s
  /\ completed' = 0
  /\ handle' = s
  /\ wanted' = [wanted EXCEPT ![s] = n]
  /\ ticker' = [ticker EXCEPT ![s] = "created"]

(* task.cancel(): a task that is done is left alone. *)
Cancel(stage) ==
  CASE stage = "created"  -> "dropped"
    [] stage = "sleeping" -> "cancelled"
    [] OTHER              -> stage

(* The running sequence is the only one a stop can name. *)
SequenceStop ==
  /\ running
  /\ running' = FALSE
  /\ ticker' = [s \in Sequences |-> IF s = handle THEN Cancel(ticker[s]) ELSE ticker[s]]
  /\ UNCHANGED <<sequence, completed, handle, wanted>>

(* The head of the loop: sleep once more, or leave through finally. *)
Loop(s) ==
  /\ ticker' = [ticker EXCEPT ![s] = IF running' THEN "sleeping" ELSE "done"]
  /\ handle' = IF running' THEN handle ELSE NoSequence
  /\ UNCHANGED <<sequence, wanted>>

TickerStarts(s) ==
  /\ ticker[s] = "created"
  /\ UNCHANGED <<running, completed>>
  /\ Loop(s)

TickerWakes(s) ==
  /\ ticker[s] = "sleeping"
  /\ wanted[s] = 0 => completed < MaxCompleted
  /\ completed' = completed + 1
  /\ running' = (running /\ (wanted[s] = 0 \/ completed' < wanted[s]))
  /\ Loop(s)

\* Mutant of TickerCancelled: finally forgets the task whatever is running.
TickerCancelledForgets(s) ==
  /\ ticker[s] = "cancelled"
  /\ ticker' = [ticker EXCEPT ![s] = "done"]
  /\ handle' = NoSequence
  /\ UNCHANGED <<running, sequence, completed, wanted>>

(* CancelledError is raised in the sleep; finally forgets the task unless  *)
(* a newer sequence is running.                                            *)
TickerCancelled(s) ==
  /\ ticker[s] = "cancelled"
  /\ ticker' = [ticker EXCEPT ![s] = "done"]
  /\ handle' = IF running THEN handle ELSE NoSequence
  /\ UNCHANGED <<running, sequence, completed, wanted>>

(* A task cancelled before its first step never enters its try. *)
TickerDropped(s) ==
  /\ ticker[s] = "dropped"
  /\ ticker' = [ticker EXCEPT ![s] = "done"]
  /\ UNCHANGED <<running, sequence, completed, handle, wanted>>

Tick(s) ==
  \/ TickerStarts(s) \/ TickerWakes(s) \/ TickerCancelled(s) \/ TickerDropped(s)

-----------------------------------------------------------------------------
(* The ticker that will go on counting is the one of the running sequence, *)
(* and it is the one a stop would cancel: however stops, starts and late   *)
(* cancellations interleave, no ticker is orphaned, none is lost, and none *)
(* counts for another's sequence.                                          *)
OneTicker ==
  /\ \A s \in Sequences :
       ticker[s] \in {"created", "sleeping"} <=> running /\ handle = s
  /\ running => handle = sequence /\ handle \in Sequences
=============================================================================
