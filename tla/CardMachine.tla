------------------------------ MODULE CardMachine ------------------------------
(***************************************************************************)
(* The state machine of one card (src/machine.rs) and the pure effect of   *)
(* every lock section of the Board (src/store.rs) on the card it touches.  *)
(*                                                                         *)
(* The Board keeps its state behind one RwLock, so a section between       *)
(* taking and dropping that lock is atomic and a verb made of several      *)
(* sections is not.  Each operator below is one section, as a function     *)
(* from card to card; CardRuns interleaves them.                           *)
(*                                                                         *)
(* The cards are leaf Tasks with a definition of done and no blockers:     *)
(* BoardTree models the tree, its containers and its blockers.             *)
(***************************************************************************)
EXTENDS Integers

CONSTANT MaxAttempts    \* agents.max_attempts: counted failures before a human is asked

ASSUME MaxAttemptsAssumption == MaxAttempts \in Nat \ {0}

States == {"Draft", "Shaping", "Backlog", "Claimed", "Running", "Splitting",
           "NeedsHuman", "Review", "Done", "Retired"}

Terminal == {"Done", "Retired"}

(* States in which a supervise task may keep watching the card's sandbox. *)
Held == {"Claimed", "Running"}

(* The explicit edges; cutting scope (-> Retired) is legal from everywhere else. *)
Edges ==
  {<<"Draft", "Shaping">>}
    \cup {"Shaping"}    \X {"Backlog", "NeedsHuman", "Done"}
    \cup {"Backlog"}    \X {"Claimed", "Shaping", "Done"}
    \cup {"Claimed"}    \X {"Running", "Splitting", "NeedsHuman", "Review", "Backlog"}
    \cup {"Running"}    \X {"Running", "Backlog", "Splitting", "NeedsHuman", "Review", "Done"}
    \cup {"Splitting"}  \X {"Backlog", "Shaping", "Done"}
    \cup {"NeedsHuman"} \X {"Running", "Backlog", "Done"}
    \cup {"Review"}     \X {"Done", "Backlog", "NeedsHuman"}
    \cup {<<"Done", "Review">>}
    \cup {"Retired"}    \X {"Draft", "Shaping", "Backlog", "Review", "Done"}

Allowed(from, to) ==
  IF to = "Retired" THEN from # "Retired" ELSE <<from, to>> \in Edges

(* machine::check, given what the Board knows of the card's surroundings. *)
Check(from, to, hasChildren, hasDoD, blocked) ==
  /\ Allowed(from, to)
  /\ hasChildren => to \notin {"Claimed", "Running", "Splitting"}
  /\ (to = "Backlog" /\ ~hasChildren) => hasDoD
  /\ to = "Claimed" => ~blocked

(* Where unarchiving puts a card that was cut from state prior. *)
UnarchiveTarget(prior, hasChildren, hasDoD) ==
  IF prior \in {"Claimed", "Running", "Splitting", "NeedsHuman", "Retired"}
  THEN IF hasChildren \/ hasDoD THEN "Backlog" ELSE "Shaping"
  ELSE prior

-------------------------------------------------------------------------------
(* Sandbox names of a card.  A name is its attempt number (run_failures + 1);  *)
(* 0 is `environment = None`.  run_failures saturates at MaxAttempts: the code *)
(* only compares it with max_attempts and numbers sandboxes with it, so the    *)
(* names past MaxAttempts + 1 are one name here.                               *)

Names == 1 .. MaxAttempts + 1
NoEnv == 0

(***************************************************************************)
(* prior     the state it was cut from, while Retired ("Retired" otherwise)*)
(* deadline  the lease together with run_deadline_at: none, running, past  *)
(* question  an escalation is attached                                     *)
(* conv      conversation_id, by where its session lives: in the sandbox   *)
(*           `env` names ("live"), or in one that is gone ("lost")         *)
(***************************************************************************)
Card ==
  [state: States, prior: States, deadline: {"none", "ahead", "past"},
   parked: BOOLEAN, awaiting: BOOLEAN, question: BOOLEAN,
   failures: 0 .. MaxAttempts, conv: {"none", "live", "lost"},
   env: Names \cup {NoEnv}]

NewCard ==
  [state |-> "Backlog", prior |-> "Retired", deadline |-> "none",
   parked |-> FALSE, awaiting |-> FALSE, question |-> FALSE,
   failures |-> 0, conv |-> "none", env |-> NoEnv]

Can(r, to) == Check(r.state, to, FALSE, TRUE, FALSE)

(* Board::transition_locked once check has accepted the move. *)
Moved(r, to, by) ==
  LET ends   == to \in Terminal
      resets == to = "Backlog" /\ by = "human"
  IN [r EXCEPT
        !.state    = to,
        !.prior    = IF to = "Retired" THEN r.state ELSE "Retired",
        !.deadline = IF to \in {"Backlog", "NeedsHuman", "Done", "Retired", "Shaping"}
                     THEN "none" ELSE @,
        !.parked   = @ /\ ~ends,
        !.awaiting = @ /\ ~ends /\ to # "Backlog",
        !.question = @ /\ ~resets,
        !.failures = IF resets THEN 0 ELSE @,
        !.conv     = IF ends THEN "none" ELSE @,
        !.env      = IF ends THEN NoEnv ELSE @]

(* A transition whose error the caller drops: the card moves, or stays as it was. *)
Try(r, to, by) == IF Can(r, to) THEN Moved(r, to, by) ELSE r

(* Board::claim: the lease and its fixed deadline are set with the state. *)
CanClaim(r) == ~r.parked /\ Can(r, "Claimed")
Claimed(r) == [Moved(r, "Claimed", "agent") EXCEPT
                 !.parked = FALSE, !.awaiting = FALSE, !.deadline = "ahead"]

(* Board::reopen_for_adoption: a Backlog card is claimed without being dispatched. *)
CanReopen(r) == ~r.parked /\ r.state = "Backlog"
ReopenedUnbounded(r) == [Moved(r, "Claimed", "supervisor") EXCEPT !.awaiting = FALSE]   \* mutant
Reopened(r) == [Moved(r, "Claimed", "supervisor") EXCEPT
                  !.awaiting = FALSE, !.deadline = "ahead"]

(* Board::heartbeat promotes a Claimed card and touches nothing else modelled. *)
Beaten(r) == IF r.state = "Claimed" THEN Moved(r, "Running", "agent") ELSE r

(* Board::enqueue_dispatch. *)
CanEnqueue(r) == r.state = "Backlog" /\ ~r.parked
Enqueued(r) == [r EXCEPT !.awaiting = TRUE]

(* Board::steer, and the first section of answer_escalation. *)
Steered(r) == [r EXCEPT !.failures = 0, !.question = FALSE]

(* The first section of Board::escalate: no look at the card's state. *)
Asked(r) == [r EXCEPT !.question = TRUE, !.awaiting = FALSE]

(* The first section of Board::halt: session and sandbox name go before the move. *)
Emptied(r) == [r EXCEPT !.conv = "none", !.parked = FALSE, !.env = NoEnv]

(* The first section of record_run_failure. *)
Counted(r) == [r EXCEPT !.failures = IF @ < MaxAttempts THEN @ + 1 ELSE @]

(* Sandbox n of the card is gone: a session that lived there is lost. *)
Bereft(r, n) == [r EXCEPT !.conv = IF r.env = n /\ @ = "live" THEN "lost" ELSE @]
================================================================================
