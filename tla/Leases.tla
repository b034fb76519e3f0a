-------------------------------- MODULE Leases --------------------------------
(***************************************************************************)
(* What sandboard promises about handing out work, without saying how: a   *)
(* card is handed to an agent when nobody holds it and the run it had      *)
(* before is over, at most one run works on a card, and no run begins      *)
(* beyond max_concurrent, but for the adoptions of start-up.               *)
(* CardRuns implements it (LeasedRuns).                                    *)
(***************************************************************************)
EXTENDS Naturals, FiniteSets

CONSTANTS
  Cards,            \* work items
  NoCard,           \* "no card", for a task without a run
  Tasks,            \* tokio tasks that may carry a run
  MaxConcurrent     \* agents.max_concurrent

VARIABLES
  held,     \* the cards the board says an agent holds (Claimed, Running)
  at,       \* [Tasks -> Cards \cup {NoCard}], the card each task's run works on
  up        \* start-up is over

vars == <<held, at, up>>

Init == held = {} /\ at = [t \in Tasks |-> NoCard] /\ up = TRUE

Runs == {t \in Tasks : at[t] # NoCard}
Free(c) == \A t \in Tasks : at[t] # c          \* no run works on c, nor winds down
Room == up => Cardinality(Runs) < MaxConcurrent

(* Dispatch, or at start-up the sandbox a card left behind, makes a card held. *)
Hand(c) ==
  /\ c \notin held /\ Free(c) /\ Room
  /\ held' = held \cup {c}
  /\ UNCHANGED <<at, up>>

(* Its run begins later, on the card as the board has it by then. *)
Begin(t, c) ==
  /\ at[t] = NoCard /\ Free(c) /\ Room
  /\ at' = [at EXCEPT ![t] = c]
  /\ UNCHANGED <<held, up>>

(* Verdicts, verbs, webhooks and the sweep take cards back while their runs go on. *)
Take ==
  /\ held' \in SUBSET held
  /\ UNCHANGED <<at, up>>

(* A run is over; it may take its own card back, and no other. *)
Finish(t) ==
  /\ at[t] # NoCard
  /\ at' = [at EXCEPT ![t] = NoCard]
  /\ held' \in {held, held \ {at[t]}}
  /\ UNCHANGED up

(* A crash ends every run and leaves the board as it is. *)
Crash ==
  /\ at' = [t \in Tasks |-> NoCard] /\ up' = FALSE
  /\ UNCHANGED held

Started == up' = TRUE /\ UNCHANGED <<held, at>>

Next ==
  \/ \E c \in Cards : Hand(c)
  \/ \E t \in Tasks, c \in Cards : Begin(t, c)
  \/ \E t \in Tasks : Finish(t)
  \/ Take \/ Crash \/ Started

Spec == Init /\ [][Next]_vars
================================================================================
