------------------------------ MODULE LeasedRuns ------------------------------
(***************************************************************************)
(* CardRuns implements Leases: whatever the sections of the dispatcher,    *)
(* the sweeper, start-up, the runs and the operator do to each other, what *)
(* they amount to is the handing out of work that Leases promises.         *)
(***************************************************************************)
EXTENDS CardRuns

(* Read off the board and off the tasks of Fleet::supervise. *)
HeldCards == {c \in Cards : card[c].state \in Held}
WorksOn == [t \in Tasks |-> IF Busy(t) THEN task[t].card ELSE NoCard]

L == INSTANCE Leases WITH held <- HeldCards, at <- WorksOn

(* A card is handed out only when nobody holds it and its last run is over, one run  *)
(* works on a card, and within max_concurrent: though dispatch_loop checks the limit, *)
(* reads the queue, claims and spawns in four sections, and a crash may come between. *)
ImplementsLeases == L!Spec
================================================================================
