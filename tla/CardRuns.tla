------------------------------- MODULE CardRuns -------------------------------
(***************************************************************************)
(* Who works on a card, and where: the Board's lock sections (CardMachine) *)
(* interleaved with everything that takes the lock.                        *)
(*                                                                         *)
(*   the dispatcher   dispatch_loop: claims a queued card, spawns its run  *)
(*   a run            Fleet::supervise around run_card or adopt_card: sets *)
(*                    a sandbox up, starts the agent, watches it, settles  *)
(*   the sweeper      sweep_leases, then reconcile over the sandboxes      *)
(*   start-up         the same reconcile, adopting what survived a crash   *)
(*   the operator     REST/MCP verbs, and GitHub's webhooks                *)
(*   the world        sandboxes, the agents in them, time, the gateway     *)
(*                                                                         *)
(* A run never holds the lock over an await, so every await is a point     *)
(* where the card may have changed hands: the run is one step per section. *)
(***************************************************************************)
EXTENDS CardMachine, FiniteSets

CONSTANTS
  Cards,            \* work items: leaf Tasks with a definition of done
  NoCard,           \* "no card", for a process that works on none
  Tasks,            \* tokio tasks Fleet::supervise may have alive at once
  MaxConcurrent,    \* agents.max_concurrent
  Verbs,            \* operator verbs and webhooks that happen in this instance
  PatchTargets,     \* states POST /items/{id}/transition is used with
  Faults,           \* what the world may do to a run in this instance
  Verdicts,         \* the verdict files agents write in this instance
  MaxCalls,         \* bound: verbs half-way through, and deletes under way, at once
  MaxRestarts       \* bound: crashes of the sandboard process

AllVerbs == {"dispatch", "auto", "park", "halt", "answer", "steer", "cut", "unarchive",
             "approve", "changes", "merge", "feedback", "patch"}

(* box: a sandbox dies by itself.  infra: set-up or the stream fails on the    *)
(* gateway.  setup: set-up fails on the card.  drop: an exec or a delete is    *)
(* lost.  uncovered: the GitHub App cannot push to the card's repository.      *)
AllFaults == {"box", "infra", "setup", "drop", "uncovered"}

ASSUME CardsAssumption == NoCard \notin Cards
ASSUME TasksAssumption == IsFiniteSet(Tasks)
ASSUME BoundsAssumption == MaxConcurrent \in Nat /\ MaxCalls \in Nat /\ MaxRestarts \in Nat
ASSUME VerbsAssumption ==
  Verbs \subseteq AllVerbs /\ Faults \subseteq AllFaults /\ Verdicts \subseteq {"ask", "work"}
(* The UI moves cards to Backlog and Done; handing a card to an agent or to the *)
(* Needs You lane through the raw endpoint is not modelled.                     *)
ASSUME PatchAssumption == PatchTargets \subseteq States \ {"Claimed", "Running", "NeedsHuman"}

VARIABLES
  card,        \* [Cards -> Card], the board
  older,       \* pairs of cards: the first entered its state before the second
  box,         \* [Cards -> [Names -> Box]], the gateway's sandboxes
  task,        \* [Tasks -> Task], Fleet.active and in_flight are read off it
  calls,       \* operator verbs between two of their sections
  deletes,     \* sandboxes whose spawned os.delete has not landed
  auto,        \* the project's auto_dispatch
  cooldown,    \* Fleet.cooldown lies in the future
  disp,        \* the dispatcher's place in its tick
  sweep,       \* the sweeper's (at start-up, reconcile's) place in its pass
  up,          \* start-up reconciliation is over
  restarts     \* crashes so far

vars == <<card, older, box, task, calls, deletes, auto, cooldown, disp, sweep, up, restarts>>

-------------------------------------------------------------------------------
(* st     a sandbox that is down is still listed, but no exec reaches it         *)
(* agent  what the pid and status files say: exited once the status is written;  *)
(*        an agent killed by stop_agent writes none, so it is "none" again        *)
(* stray  an agent those files no longer name is still running                   *)
(* ask    escalate.json, and whether a run has already acted on it               *)
(* work   report.json or split.json is there                                     *)
Box == [st: {"gone", "up", "down"}, agent: {"none", "live", "exited"}, stray: BOOLEAN,
        ask: {"no", "fresh", "used"}, work: BOOLEAN]

NoBox == [st |-> "gone", agent |-> "none", stray |-> FALSE, ask |-> "no", work |-> FALSE]
NewBox == [NoBox EXCEPT !.st = "up"]

Steps == {"idle", "start", "route", "uncovered", "needsyou", "probe", "bind", "name",
          "make", "beat", "arm", "adopted", "watch", "finish", "ask", "plead", "deliver",
          "stop", "settle", "promote", "requeue", "giveup", "beg"}

(* out: the agent's exit while settling, then how the run ended.  `lost` is an  *)
(* exit code of -1, 130 or 143.                                                  *)
Outs == {"ok", "clean", "bad", "lost", "cancel", "infra", "failed", "detach"}

Task == [pc: Steps, card: Cards \cup {NoCard}, name: Names \cup {NoEnv}, reused: BOOLEAN,
         out: Outs]

IdleTask == [pc |-> "idle", card |-> NoCard, name |-> NoEnv, reused |-> FALSE, out |-> "ok"]

Call == [verb: {"hold", "queue", "halt", "answer", "defer", "changes", "feedback",
                "merged", "unlease"},
         card: Cards, env: Names \cup {NoEnv}]

Spots == Cards \X Names
NoSpot == <<NoCard, NoEnv>>

Disp == [pc: {"tick", "pick", "claim", "spawn"}, card: Cards \cup {NoCard}]
Sweep == [pc: {"requeue", "scan", "reap", "check", "reopen", "past",
               "probe", "bounce"},
          plan: {"none", "reopen", "past", "probe"}, at: Spots \cup {NoSpot},
          expired: SUBSET Cards, spots: SUBSET Spots, adopt: SUBSET Spots]

Tick == [pc |-> "tick", card |-> NoCard]
Pass(pc) == [pc |-> pc, plan |-> "none", at |-> NoSpot,
             expired |-> {}, spots |-> {}, adopt |-> {}]

Init ==
  /\ card = [c \in Cards |-> NewCard]
  /\ older = {}
  /\ box = [c \in Cards |-> [n \in Names |-> NoBox]]
  /\ task = [t \in Tasks |-> IdleTask]
  /\ calls = {} /\ deletes = {}
  /\ auto = FALSE /\ cooldown = FALSE
  /\ disp = Tick /\ sweep = Pass("scan")
  /\ up = TRUE /\ restarts = 0

-------------------------------------------------------------------------------
Busy(t) == task[t].pc # "idle"
InFlight == {t \in Tasks : Busy(t)}
Active == {task[t].card : t \in InFlight}
Owned(t) == Busy(t) /\ card[task[t].card].state \in Held       \* ensure_board_owns_run

KeepNamed(r) == r.env # NoEnv    \* mutant of Keep: Done and Retired cards keep theirs

(* should_keep_sandbox: a card with an environment keeps every sandbox of its stem. *)
Keep(r) == r.state \notin Terminal /\ r.env # NoEnv

(* Write card c; a card that changes state becomes the youngest of its state. *)
Put(c, r) ==
  /\ card' = [card EXCEPT ![c] = r]
  /\ older' = IF r.state = card[c].state THEN older
              ELSE {p \in older : p[1] # c} \cup {<<d, c>> : d \in Cards \ {c}}

SetBox(c, n, b) == box' = [box EXCEPT ![c][n] = b]

(* os.delete reaches the gateway: the sandbox and the session in it are gone. *)
Remove(c, n) ==
  /\ SetBox(c, n, NoBox)
  /\ Put(c, Bereft(card[c], n))

Board == <<card, older>>
Machines == <<deletes, box>>
Loops == <<disp, sweep, up, restarts>>

-------------------------------------------------------------------------------
(* dispatch_loop.  Its checks and the claim are separate sections. *)

(* Oldest first among the queued cards no run of this process is working on. *)
Queued(c) == card[c].state = "Backlog" /\ card[c].awaiting /\ ~card[c].parked
OldestOfAll(c) ==                  \* mutant of Oldest: forgets the runs still winding down
  /\ Queued(c)
  /\ \A d \in Cards : Queued(d) => <<d, c>> \notin older
AnyQueued(c) == Queued(c) /\ c \notin Active      \* mutant of Oldest: no order
Oldest(c) ==
  /\ Queued(c) /\ c \notin Active
  /\ \A d \in Cards : Queued(d) /\ d \notin Active => <<d, c>> \notin older

(* Below max_concurrent, not cooling down and the gateway healthy: auto mode *)
(* queues what it may, then the queue is read.  A tick that would find the    *)
(* queue empty changes nothing and is left out.                               *)
DispTick ==
  /\ up /\ disp.pc = "tick"
  /\ Cardinality(InFlight) < MaxConcurrent /\ ~cooldown
  /\ \E c \in Cards : Queued(c) \/ (auto /\ CanEnqueue(card[c]))
  /\ card' = [c \in Cards |-> IF auto /\ CanEnqueue(card[c]) THEN Enqueued(card[c])
                              ELSE card[c]]
  /\ disp' = [disp EXCEPT !.pc = "pick"]
  /\ UNCHANGED <<older, box, task, calls, deletes, auto, cooldown, sweep, up, restarts>>

DispPick ==
  /\ disp.pc = "pick"
  /\ \/ \E c \in Cards : Oldest(c) /\ disp' = [pc |-> "claim", card |-> c]
     \/ (\A c \in Cards : ~Oldest(c)) /\ disp' = Tick
  /\ UNCHANGED <<card, older, box, task, calls, deletes, auto, cooldown, sweep, up, restarts>>

(* Board::claim refuses a card that was parked or moved since. *)
DispClaim ==
  /\ disp.pc = "claim"
  /\ LET c == disp.card
     IN \/ CanClaim(card[c]) /\ Put(c, Claimed(card[c])) /\ disp' = [disp EXCEPT !.pc = "spawn"]
        \/ ~CanClaim(card[c]) /\ UNCHANGED Board /\ disp' = Tick
  /\ UNCHANGED <<box, task, calls, deletes, auto, cooldown, sweep, up, restarts>>

(* Fleet::supervise: in_flight and active, then the task. *)
DispSpawn ==
  /\ disp.pc = "spawn"
  /\ \E t \in Tasks : /\ ~Busy(t)
                      /\ task' = [task EXCEPT ![t] = [IdleTask EXCEPT !.pc = "start", !.card = disp.card]]
  /\ disp' = Tick
  /\ UNCHANGED <<card, older, box, calls, deletes, auto, cooldown, sweep, up, restarts>>

Dispatcher == DispTick \/ DispPick \/ DispClaim \/ DispSpawn

-------------------------------------------------------------------------------
(* A run, from claim to the settling of its result. *)

Goto(t, pc) == task' = [task EXCEPT ![t].pc = pc]
Ends(t, pc, out) == task' = [task EXCEPT ![t].pc = pc, ![t].out = out]
Retire(t) == task' = [task EXCEPT ![t] = IdleTask]
At(t, pcs) == task[t].pc \in pcs
Here(t) == box[task[t].card][task[t].name]          \* the run's own sandbox
Reach(t) == task[t].name # NoEnv /\ Here(t).st = "up"
OnlyTask == UNCHANGED <<card, older, box, calls, deletes, auto, cooldown, disp, sweep, up, restarts>>
TaskAndBoard == UNCHANGED <<box, calls, deletes, auto, cooldown, disp, sweep, up, restarts>>
TaskAndBox == UNCHANGED <<card, older, calls, deletes, auto, cooldown, disp, sweep, up, restarts>>

RunStart(t) ==
  /\ At(t, {"start"})
  /\ IF Owned(t) THEN Goto(t, "route") ELSE Ends(t, "settle", "cancel")
  /\ OnlyTask

(* ensure_push_token: the sandbox to try is read once the token is there. *)
RunRouted(t) ==
  /\ At(t, {"route", "adopted"})
  /\ task' = [task EXCEPT ![t].pc = IF @ = "adopted" THEN "watch" ELSE "probe",
                          ![t].name = IF task[t].pc = "adopted" THEN @
                                      ELSE card[task[t].card].env]
  /\ OnlyTask

(* ... or the App is not installed there: escalate, return Ok, never finalize. *)
RunUncovered(t) ==
  /\ "uncovered" \in Faults /\ At(t, {"route", "adopted"})
  /\ Goto(t, "uncovered") /\ OnlyTask

(* Board::escalate, first section. *)
RunAsk(t) ==
  /\ At(t, {"ask", "uncovered", "giveup"})
  /\ LET c == task[t].card IN Put(c, Asked(card[c]))
  /\ Goto(t, CASE At(t, {"ask"}) -> "plead" [] At(t, {"uncovered"}) -> "needsyou" [] OTHER -> "beg")
  /\ TaskAndBoard

(* Board::escalate, second section: the lane, if the card may still go there. *)
RunPlead(t) ==
  /\ At(t, {"plead", "needsyou", "beg"})
  /\ LET c == task[t].card
     IN /\ Put(c, Try(card[c], "NeedsHuman", "agent"))
        /\ CASE At(t, {"beg"}) -> Retire(t)
             [] At(t, {"plead"}) ->
                  Ends(t, "stop", IF Can(card[c], "NeedsHuman") THEN "ok" ELSE "failed")
             [] OTHER ->
                  Ends(t, "settle", IF Can(card[c], "NeedsHuman") THEN "ok" ELSE "failed")
  /\ TaskAndBoard

(* The card's sandbox answers: reuse it.  Otherwise drop the previous attempt  *)
(* (best effort) and take the next attempt's name.                              *)
RunReuse(t) ==
  /\ At(t, {"probe"}) /\ Reach(t)
  /\ task' = [task EXCEPT ![t].pc = "beat", ![t].reused = TRUE]
  /\ OnlyTask

SecondNext(r) == r.failures + 2     \* mutant of NextName
NextName(r) == r.failures + 1

RunCold(t) ==
  /\ At(t, {"probe"}) /\ (~Reach(t) \/ "drop" \in Faults)
  /\ LET c == task[t].card
         n == NextName(card[c])
         prev == card[c].env
     IN /\ IF prev \in {NoEnv, n} THEN UNCHANGED <<card, older, box>>
           ELSE Remove(c, prev) \/ ("drop" \in Faults /\ UNCHANGED <<card, older, box>>)
        /\ task' = [task EXCEPT ![t].pc = "bind", ![t].name = n]
  /\ UNCHANGED <<calls, deletes, auto, cooldown, disp, sweep, up, restarts>>

(* A fresh sandbox is a fresh conversation: forget the session ... *)
KeepsSession(r) == r                \* mutant of Forgotten
Forgotten(r) == [r EXCEPT !.conv = "none"]
RunBind(t) ==
  /\ At(t, {"bind"}) /\ Owned(t)
  /\ LET c == task[t].card IN Put(c, Forgotten(card[c]))
  /\ Goto(t, "name") /\ TaskAndBoard

(* ... and then name the sandbox on the card (set_environment looks at no state). *)
Named(r, n) ==
  IF r.env = n THEN r ELSE [Bereft(r, r.env) EXCEPT !.env = n]
RunName(t) ==
  /\ At(t, {"name"})
  /\ LET c == task[t].card IN Put(c, Named(card[c], task[t].name))
  /\ Goto(t, "make") /\ TaskAndBoard

(* os.delete of the same name, os.create, wait until Ready. *)
RunMake(t) ==
  /\ At(t, {"make"})
  /\ LET c == task[t].card
     IN /\ SetBox(c, task[t].name, NewBox)
        /\ Put(c, Bereft(card[c], task[t].name))
  /\ Goto(t, "beat")
  /\ UNCHANGED <<calls, deletes, auto, cooldown, disp, sweep, up, restarts>>

(* A set-up milestone: ensure_board_owns_run, then a heartbeat. *)
RunBeat(t) ==
  /\ At(t, {"beat"}) /\ Owned(t)
  /\ LET c == task[t].card IN Put(c, Beaten(card[c]))
  /\ Goto(t, "arm") /\ TaskAndBoard

(* The agent is told to resume the card's conversation. *)
Resumes(t) == At(t, {"arm"}) /\ task[t].reused /\ card[task[t].card].conv # "none"

(* start_script: it forgets the pid of an agent still there, and leaves the     *)
(* verdict files of earlier runs alone.                                          *)
RunArm(t) ==
  /\ At(t, {"arm"}) /\ Reach(t)
  /\ SetBox(task[t].card, task[t].name,
            [Here(t) EXCEPT !.agent = "live", !.stray = @ \/ Here(t).agent = "live"])
  /\ task' = [task EXCEPT ![t].pc = "watch", ![t].reused = FALSE]
  /\ TaskAndBox

(* Set-up gives up: the card's repository cannot be told (looked at before whose  *)
(* the card is), no token, the create or an exec failed, the sandbox is gone.      *)
(* What fails before run_inside is not finalized.                                  *)
Fails(t, out) ==
  \/ out = "failed" /\ "setup" \in Faults
  \/ out = "infra" /\ ("infra" \in Faults \/ (At(t, {"beat", "arm"}) /\ ~Reach(t)))

RunBroken(t) ==
  /\ \E out \in {"failed", "infra"} :
       /\ Fails(t, out)
       /\ \/ At(t, {"start"}) /\ out = "failed" /\ Ends(t, "settle", out)
          \/ At(t, {"route", "make"}) /\ Ends(t, "settle", out)
          \/ At(t, {"beat"}) /\ task[t].reused /\ Ends(t, "settle", out)
          \/ At(t, {"make", "beat", "arm"}) /\ Ends(t, "stop", out)
  /\ OnlyTask

(* os.create fails when the sandbox of that name is already deleted. *)
RunUnmade(t) ==
  /\ At(t, {"make"})
  /\ \E out \in {"failed", "infra"} : Fails(t, out) /\ Ends(t, "stop", out)
  /\ Remove(task[t].card, task[t].name)
  /\ UNCHANGED <<calls, deletes, auto, cooldown, disp, sweep, up, restarts>>

(* with_board_cancel and the watch poll: the board gave the card to someone else. *)
CancellableInSetup == {"probe", "bind", "make", "beat", "arm"}    \* mutant of Cancellable
Cancellable == {"probe", "bind", "make", "beat", "arm", "watch"}
WindDown == "stop"
RunCancelled(t) ==
  /\ ~Owned(t) /\ At(t, Cancellable)
  /\ Ends(t, IF At(t, {"probe", "bind"}) THEN "settle" ELSE WindDown, "cancel")
  /\ OnlyTask

(* watch_agent: a line of the stream names the session (set_conversation_id     *)
(* looks at no state), and is a heartbeat while the board owns the run.          *)
RunHear(t) ==
  /\ At(t, {"watch"}) /\ Reach(t) /\ Here(t).agent # "none"
  /\ LET c == task[t].card
         heard == [card[c] EXCEPT !.conv = IF card[c].env = task[t].name THEN "live" ELSE "lost"]
     IN Put(c, IF Owned(t) THEN Beaten(heard) ELSE heard)
  /\ UNCHANGED <<box, task, calls, deletes, auto, cooldown, disp, sweep, up, restarts>>

(* The follower ends: with the agent's exit, or with its sandbox. *)
RunStreamEnds(t) ==
  /\ At(t, {"watch"})
  /\ \/ Reach(t) /\ Here(t).agent = "exited" /\ \E out \in {"clean", "bad"} : Ends(t, "finish", out)
     \/ ~Reach(t) /\ (Ends(t, "stop", "infra") \/ Ends(t, "finish", "bad"))
  /\ OnlyTask

(* The stream breaks under a live agent: the transport fails, or the follower is  *)
(* killed.                                                                          *)
RunStreamBreaks(t) ==
  /\ At(t, {"watch"})
  /\ \/ "infra" \in Faults /\ Ends(t, "stop", "infra")
     \/ "drop" \in Faults /\ Ends(t, "finish", "lost")
  /\ OnlyTask

(* process_verdict, if the probe for its files is not lost: escalate.json is       *)
(* looked for first, and fails the run if it cannot be downloaded or parsed or     *)
(* offers no choice.  Without a verdict the exit code decides: a killed follower   *)
(* detaches, a bad exit fails, and after a clean one the PR itself is the report.  *)
RunVerdict(t) ==
  /\ At(t, {"finish"})
  /\ \E read \in BOOLEAN :
       /\ read => Reach(t)
       /\ Reach(t) /\ ~read => "drop" \in Faults
       /\ IF read /\ Here(t).ask # "no"
          THEN \/ /\ Ends(t, "ask", "ok")
                  /\ SetBox(task[t].card, task[t].name, [Here(t) EXCEPT !.ask = "used"])
               \/ Ends(t, "stop", "failed") /\ UNCHANGED box
          ELSE /\ CASE read /\ Here(t).work -> Ends(t, "deliver", "ok")
                    [] task[t].out = "lost" -> Ends(t, "stop", "detach")
                    [] task[t].out = "bad" -> Ends(t, "stop", "failed")
                    [] task[t].out = "clean" /\ Reach(t) -> Ends(t, "deliver", "ok")
                    [] OTHER -> Ends(t, "stop", "infra")
               /\ UNCHANGED box
  /\ TaskAndBox

(* A file that cannot be downloaded or parsed, no PR, or a sandbox that is gone. *)
RunNoVerdict(t) ==
  /\ At(t, {"deliver"})
  /\ \/ Ends(t, "stop", "failed")
     \/ ~Reach(t) /\ Ends(t, "stop", "infra")
  /\ OnlyTask

(* Board::report or propose_split; Board::release_with_reason for a PR that      *)
(* conflicts.  A move the machine refuses is the run's failure.                  *)
RunDeliver(t) ==
  /\ At(t, {"deliver"})
  /\ \E to \in {"Review", "Backlog"} :
       LET c == task[t].card
       IN /\ Put(c, Try(card[c], to, "agent"))
          /\ Ends(t, "stop", IF Can(card[c], to) THEN "ok" ELSE "failed")
  /\ TaskAndBoard

(* A split that the Board refuses becomes a question. *)
RunRefused(t) ==
  /\ At(t, {"deliver"}) /\ card[task[t].card].state # "NeedsHuman"
  /\ Goto(t, "ask") /\ OnlyTask

(* finalize: stop the agent the pid file names, except on detach. *)
StopsUncancelled(out) == out \notin {"detach", "cancel"}     \* mutant of StopsAgent
StopsAgent(out) == out # "detach"
RunStop(t) ==
  /\ At(t, {"stop"})
  /\ \/ /\ StopsAgent(task[t].out) /\ Reach(t) /\ Here(t).agent = "live"
        /\ SetBox(task[t].card, task[t].name, [Here(t) EXCEPT !.agent = "none"])
     \/ /\ ~StopsAgent(task[t].out) \/ ~Reach(t) \/ Here(t).agent # "live" \/ "drop" \in Faults
        /\ UNCHANGED box
  /\ Goto(t, "settle") /\ TaskAndBox

(* Fleet::supervise on the result: success clears the failures, a cancelled or  *)
(* detached run changes nothing, infrastructure gives the card back uncounted.   *)
RunSettle(t) ==
  /\ At(t, {"settle"}) /\ task[t].out # "failed"
  /\ LET c == task[t].card
     IN Put(c, CASE task[t].out = "ok" -> [card[c] EXCEPT !.failures = 0]
                 [] task[t].out = "infra" -> Try(card[c], "Backlog", "agent")
                 [] OTHER -> card[c])
  /\ cooldown' = (cooldown \/ task[t].out = "infra")
  /\ Retire(t)
  /\ UNCHANGED <<box, calls, deletes, auto, disp, sweep, up, restarts>>

(* record_run_failure, first section: count, and look at the state. *)
RunCount(t) ==
  /\ At(t, {"settle"}) /\ task[t].out = "failed"
  /\ LET c == task[t].card
         next == IF Counted(card[c]).failures < MaxAttempts THEN "requeue" ELSE "giveup"
     IN /\ Put(c, Counted(card[c]))
        /\ task' = [task EXCEPT ![t].pc = IF card[c].state = "Claimed" THEN "promote" ELSE next,
                                ![t].out = IF next = "requeue" THEN "failed" ELSE "bad"]
  /\ TaskAndBoard

(* A card that was still Claimed is promoted, so that it may ask a human. *)
RunPromote(t) ==
  /\ At(t, {"promote"})
  /\ LET c == task[t].card IN Put(c, Try(card[c], "Running", "supervisor"))
  /\ Goto(t, IF task[t].out = "failed" THEN "requeue" ELSE "giveup")
  /\ TaskAndBoard

(* Attempts left: back to Backlog. *)
RunRequeue(t) ==
  /\ At(t, {"requeue"})
  /\ LET c == task[t].card IN Put(c, Try(card[c], "Backlog", "supervisor"))
  /\ Retire(t) /\ TaskAndBoard

Run(t) ==
  \/ RunStart(t) \/ RunRouted(t) \/ RunUncovered(t) \/ RunAsk(t) \/ RunPlead(t)
  \/ RunReuse(t) \/ RunCold(t) \/ RunBind(t) \/ RunName(t) \/ RunMake(t) \/ RunUnmade(t) \/ RunBeat(t)
  \/ RunArm(t) \/ RunBroken(t) \/ RunCancelled(t) \/ RunStreamEnds(t) \/ RunVerdict(t)
  \/ RunNoVerdict(t) \/ RunDeliver(t) \/ RunRefused(t) \/ RunStop(t) \/ RunSettle(t)
  \/ RunCount(t) \/ RunPromote(t) \/ RunRequeue(t)

-------------------------------------------------------------------------------
(* sweeper_loop; while ~up, the reconcile that start-up runs instead of it. *)

Sweeping(pc) == sweep.pc = pc
OnlySweep == UNCHANGED <<card, older, box, task, calls, deletes, auto, cooldown, disp, up, restarts>>
SweepAndBoard == UNCHANGED <<box, task, calls, deletes, auto, cooldown, disp, up, restarts>>

(* The pass before is over; sweep_leases collects the runs past their deadline    *)
(* under the read lock ...  (a pass that would find none of them and no sandbox     *)
(* changes nothing and is left out)                                                 *)
LateUnwatched == {c \in Cards \ Active : card[c].state \in Held /\ card[c].deadline = "past"}   \* mutant of Late
Late == {c \in Cards : card[c].state \in Held /\ card[c].deadline = "past"}
SweepCollect ==
  /\ up /\ Sweeping("scan") /\ sweep.spots = {}
  /\ Late # {} \/ \E s \in Spots : box[s[1]][s[2]].st # "gone"
  /\ sweep' = [Pass("requeue") EXCEPT !.expired = Late]
  /\ OnlySweep

(* ... and requeues each under its own write lock, whatever became of it since. *)
SweepRequeue ==
  /\ Sweeping("requeue")
  /\ \E c \in sweep.expired :
       /\ Put(c, Try(card[c], "Backlog", "deadline-sweeper"))
       /\ sweep' = [sweep EXCEPT !.expired = @ \ {c}]
  /\ SweepAndBoard

(* On to the next sandbox. *)
Onward == [sweep EXCEPT !.pc = "scan", !.at = NoSpot, !.plan = "none"]

(* reconcile: list_ours, or give the pass up if the gateway does not answer. *)
SweepList ==
  /\ Sweeping("requeue") /\ sweep.expired = {}
  /\ \/ sweep' = [Pass("scan") EXCEPT !.spots = {s \in Spots : box[s[1]][s[2]].st # "gone"}]
     \/ "drop" \in Faults /\ sweep' = Pass("scan")
  /\ OnlySweep

(* The next sandbox, judged by what the card says now: not kept, worth adopting *)
(* (`adoptable`), or at start-up a Backlog card to reopen for it.                *)
OfItsCard(s) == TRUE                \* mutant of Mine: any sandbox of the card will do
Mine(s) == card[s[1]].env = s[2]
SweepLook ==
  /\ Sweeping("scan")
  /\ \E s \in sweep.spots :
       LET r == card[s[1]]
           plan == CASE r.state \in Held /\ Mine(s) -> IF r.deadline = "past" THEN "past" ELSE "probe"
                     [] ~up /\ CanReopen(r) /\ Mine(s) -> "reopen"
                     [] OTHER -> "none"
       IN sweep' = IF Keep(r) /\ plan = "none" THEN [sweep EXCEPT !.spots = @ \ {s}]
                   ELSE [sweep EXCEPT !.spots = @ \ {s}, !.at = s, !.plan = plan,
                                      !.pc = IF Keep(r) THEN "check" ELSE "reap"]
  /\ OnlySweep

SweepReap ==
  /\ Sweeping("reap")
  /\ \/ Remove(sweep.at[1], sweep.at[2])
     \/ "drop" \in Faults /\ UNCHANGED <<card, older, box>>
  /\ sweep' = Onward
  /\ UNCHANGED <<task, calls, deletes, auto, cooldown, disp, up, restarts>>

(* A card with a run in this process is left alone. *)
SweepCheck ==
  /\ Sweeping("check")
  /\ sweep' = IF sweep.at[1] \in Active THEN Onward
              ELSE [sweep EXCEPT !.pc = sweep.plan, !.plan = "none"]
  /\ OnlySweep

(* prepare_for_adoption. *)
SweepReopen ==
  /\ Sweeping("reopen")
  /\ LET c == sweep.at[1]
     IN \/ /\ CanReopen(card[c]) /\ Put(c, Reopened(card[c]))
           /\ sweep' = [sweep EXCEPT !.pc = "probe"]
        \/ ~CanReopen(card[c]) /\ UNCHANGED Board /\ sweep' = Onward
  /\ SweepAndBoard

(* adopt: a sandbox with an agent, live or exited, gets a heartbeat; only        *)
(* start-up keeps the adoption, the periodic pass drops it.                      *)
SweepProbe ==
  /\ Sweeping("probe")
  /\ LET c == sweep.at[1]
         b == box[c][sweep.at[2]]
     IN \/ /\ b.st = "up" /\ b.agent # "none"
           /\ Put(c, Beaten(card[c]))
           /\ sweep' = IF up THEN Onward ELSE [Onward EXCEPT !.adopt = @ \cup {sweep.at}]
        \/ /\ b.st # "up" \/ b.agent = "none" \/ "drop" \in Faults
           /\ sweep' = [sweep EXCEPT !.pc = "bounce"] /\ UNCHANGED Board
  /\ SweepAndBoard

(* Nothing to adopt, or the deadline is past: the card goes back, on what was    *)
(* true when it was looked at.                                                    *)
SweepBounce ==
  /\ sweep.pc \in {"bounce", "past"}
  /\ LET c == sweep.at[1] IN Put(c, Try(card[c], "Backlog", "supervisor"))
  /\ sweep' = Onward
  /\ SweepAndBoard

Sweeper == SweepCollect \/ SweepRequeue \/ SweepList \/ SweepLook \/ SweepReap \/ SweepCheck
             \/ SweepReopen \/ SweepProbe \/ SweepBounce

(* dispatch_loop supervises what was adopted, and only then lets the sweeper and *)
(* its own ticks go.                                                              *)
BootAdopt ==
  /\ ~up /\ Sweeping("scan") /\ sweep.spots = {}
  /\ \E s \in sweep.adopt, t \in Tasks :
       /\ ~Busy(t)
       /\ task' = [task EXCEPT ![t] = [IdleTask EXCEPT !.pc = "adopted", !.card = s[1], !.name = s[2]]]
       /\ sweep' = [sweep EXCEPT !.adopt = @ \ {s}]
  /\ UNCHANGED <<card, older, box, calls, deletes, auto, cooldown, disp, up, restarts>>

BootDone ==
  /\ ~up /\ Sweeping("scan") /\ sweep.spots = {} /\ sweep.adopt = {}
  /\ up' = TRUE /\ sweep' = Pass("scan")
  /\ UNCHANGED <<card, older, box, task, calls, deletes, auto, cooldown, disp, restarts>>

(* reconcile_once_reachable gives up after its grace: nothing is reconciled. *)
BootBlind ==
  /\ ~up /\ Sweeping("requeue") /\ "drop" \in Faults
  /\ up' = TRUE /\ sweep' = Pass("scan")
  /\ UNCHANGED <<card, older, box, task, calls, deletes, auto, cooldown, disp, restarts>>

Boot == BootAdopt \/ BootDone \/ BootBlind

(* The process dies: runs, half-done verbs and pending deletes with it.  The     *)
(* board and the sandboxes stay.                                                  *)
Crash ==
  /\ restarts < MaxRestarts
  /\ restarts' = restarts + 1 /\ up' = FALSE
  /\ task' = [t \in Tasks |-> IdleTask]
  /\ calls' = {} /\ deletes' = {} /\ cooldown' = FALSE
  /\ disp' = Tick /\ sweep' = Pass("requeue")
  /\ UNCHANGED <<card, older, box, auto>>

-------------------------------------------------------------------------------
(* The operator and the webhooks.  A verb made of several sections leaves the    *)
(* rest of itself in `calls`.                                                     *)

Happens(verb) == verb \in Verbs
OnlyBoard == UNCHANGED <<box, task, calls, deletes, auto, cooldown, disp, sweep, up, restarts>>
BoardAndCalls == UNCHANGED <<box, task, deletes, auto, cooldown, disp, sweep, up, restarts>>

Room == Cardinality(calls) + Cardinality(deletes) < MaxCalls

(* The rest of the verb is owed to the card. *)
Later(verb, c, n) ==
  /\ Room
  /\ calls' = calls \cup {[verb |-> verb, card |-> c, env |-> n]}

(* A task is spawned to delete the sandbox the card named. *)
Abandon(c, n) ==
  IF n = NoEnv THEN UNCHANGED deletes
  ELSE Room /\ deletes' = deletes \cup {<<c, n>>}

Dispatch(c) ==
  /\ Happens("dispatch") /\ CanEnqueue(card[c])
  /\ Put(c, Enqueued(card[c])) /\ OnlyBoard

(* set_auto_dispatch: turning it off takes the queued cards off the queue, turning *)
(* it on queues what may be queued.                                                *)
SetAuto ==
  /\ Happens("auto")
  /\ auto' = ~auto
  /\ card' = [c \in Cards |->
                IF ~auto THEN IF CanEnqueue(card[c]) THEN Enqueued(card[c]) ELSE card[c]
                ELSE IF card[c].state = "Backlog" THEN [card[c] EXCEPT !.awaiting = FALSE]
                ELSE card[c]]
  /\ UNCHANGED <<older, box, task, calls, deletes, cooldown, disp, sweep, up, restarts>>

Steer(c) == Happens("steer") /\ Put(c, Steered(card[c])) /\ OnlyBoard

(* The raw transition endpoint; Done is also approve_review. *)
Move(c, to) ==
  /\ \/ Happens("patch") /\ to \in PatchTargets
     \/ Happens("approve") /\ to = "Done"
  /\ Can(card[c], to) /\ Put(c, Moved(card[c], to, "human"))
  /\ IF to \in Terminal THEN Abandon(c, card[c].env) ELSE UNCHANGED deletes
  /\ UNCHANGED <<box, task, calls, auto, cooldown, disp, sweep, up, restarts>>

(* cut_scope of a leaf: its sandbox is deleted by a task of its own. *)
Cut(c) ==
  /\ Happens("cut") /\ Can(card[c], "Retired")
  /\ Put(c, Moved(card[c], "Retired", "human"))
  /\ Abandon(c, card[c].env)
  /\ UNCHANGED <<box, task, calls, auto, cooldown, disp, sweep, up, restarts>>

(* unarchive_scope of a leaf: back to where history says, then the lease is re-cleared. *)
Unarchive(c) ==
  /\ Happens("unarchive") /\ card[c].state = "Retired"
  /\ LET to == UnarchiveTarget(card[c].prior, FALSE, TRUE)
     IN Can(card[c], to) /\ Put(c, Moved(card[c], to, "human"))
  /\ Later("unlease", c, NoEnv) /\ BoardAndCalls

(* park: the move comes first, the hold after it. *)
Park(c) ==
  /\ Happens("park") /\ Can(card[c], "Backlog")
  /\ Put(c, Moved(card[c], "Backlog", "human"))
  /\ Later("hold", c, NoEnv) /\ BoardAndCalls

Unpark(c) ==
  /\ Happens("park") /\ card[c].state = "Backlog" /\ card[c].parked
  /\ Put(c, [card[c] EXCEPT !.parked = FALSE])
  /\ Later("queue", c, NoEnv) /\ BoardAndCalls

(* halt: session and sandbox name go first, whatever state the card is in. *)
Halt(c) ==
  /\ Happens("halt")
  /\ Put(c, Emptied(card[c]))
  /\ Later("halt", c, card[c].env) /\ BoardAndCalls

Answer(c) ==
  /\ Happens("answer") /\ card[c].question
  /\ Put(c, Steered(card[c]))
  /\ Later("answer", c, NoEnv) /\ BoardAndCalls

RequestChanges(c) ==
  /\ Happens("changes")
  /\ Put(c, Steered(card[c]))
  /\ Later("changes", c, NoEnv) /\ BoardAndCalls

(* apply_pr_review_feedback_by: the card's state is looked at once, before. *)
Feedback(c) ==
  /\ Happens("feedback") /\ card[c].state \in {"Review", "NeedsHuman"} \cup Held
  /\ Put(c, Steered(card[c]))
  /\ Later("feedback", c, NoEnv) /\ BoardAndCalls

(* complete_for_merged_pr_by: every PR is merged, and the card was in a review lane. *)
Merged(c) ==
  /\ Happens("merge") /\ card[c].state \in {"Review", "NeedsHuman"}
  /\ Later("merged", c, NoEnv)
  /\ UNCHANGED Board /\ BoardAndCalls

(* The section after: what each verb still has to do to its card. *)
CarriedOut(k, r) ==
  CASE k.verb = "hold" -> [r EXCEPT !.parked = TRUE]
    [] k.verb = "defer" -> [r EXCEPT !.parked = TRUE, !.awaiting = FALSE]
    [] k.verb = "queue" -> IF CanEnqueue(r) THEN Enqueued(r) ELSE r
    [] k.verb \in {"halt", "answer", "changes"} -> Try(r, "Backlog", "human")
    [] k.verb = "feedback" -> Try(r, "Backlog", "github-review")
    [] k.verb = "merged" -> Try(r, "Done", "github-webhook")
    [] k.verb = "unlease" -> [r EXCEPT !.deadline = "none", !.awaiting = FALSE]

(* A halt, or a merge that ends the card, also spawns the delete of the sandbox; *)
(* a "Decision: host runs it" answer holds the card it returned to Backlog.       *)
CarryOn(k) ==
  /\ k \in calls
  /\ LET c == k.card
         r == card[c]
         gone == CASE k.verb = "halt" /\ Can(r, "Backlog") -> k.env
                   [] k.verb = "merged" /\ Can(r, "Done") -> r.env
                   [] OTHER -> NoEnv
     IN /\ Put(c, CarriedOut(k, r))
        /\ deletes' = IF gone # NoEnv THEN deletes \cup {<<c, gone>>} ELSE deletes
        /\ \/ calls' = calls \ {k}
           \/ /\ k.verb = "answer" /\ Can(r, "Backlog")
              /\ calls' = (calls \ {k}) \cup {[k EXCEPT !.verb = "defer"]}
  /\ UNCHANGED <<box, task, auto, cooldown, disp, sweep, up, restarts>>

Operator ==
  \/ SetAuto
  \/ \E c \in Cards :
       \/ Dispatch(c) \/ Steer(c) \/ Cut(c) \/ Unarchive(c) \/ Park(c) \/ Unpark(c) \/ Halt(c)
       \/ Answer(c) \/ RequestChanges(c) \/ Feedback(c) \/ Merged(c)
       \/ \E to \in States : Move(c, to)

Unfinished == \E k \in calls : CarryOn(k)

-------------------------------------------------------------------------------
(* The world. *)

OnlyBox == UNCHANGED <<card, older, task, calls, deletes, auto, cooldown, disp, sweep, up, restarts>>

(* An agent finishes: with one of the verdict files, or with none. *)
AgentExits(c, n) ==
  /\ box[c][n].st = "up"
  /\ \E kind \in {"agent", "stray"}, file \in Verdicts \cup {"none"} :
       LET b == box[c][n]
           d == IF kind = "agent" THEN [b EXCEPT !.agent = "exited"] ELSE [b EXCEPT !.stray = FALSE]
       IN /\ IF kind = "agent" THEN b.agent = "live" ELSE b.stray
          /\ SetBox(c, n, [d EXCEPT !.ask = IF file = "ask" THEN "fresh" ELSE @,
                                    !.work = @ \/ file = "work"])
  /\ OnlyBox

BoxDies(c, n) ==
  /\ "box" \in Faults /\ box[c][n].st = "up"
  /\ SetBox(c, n, [box[c][n] EXCEPT !.st = "down", !.agent = "none", !.stray = FALSE])
  /\ OnlyBox

(* A spawned os.delete lands: on whatever has that name by now. *)
DeleteLands(s) ==
  /\ s \in deletes
  /\ deletes' = deletes \ {s}
  /\ Remove(s[1], s[2])
  /\ UNCHANGED <<task, calls, auto, cooldown, disp, sweep, up, restarts>>

(* agent_timeout_secs pass since the claim. *)
Expire(c) ==
  /\ card[c].state \in Held /\ card[c].deadline = "ahead"
  /\ Put(c, [card[c] EXCEPT !.deadline = "past"])
  /\ OnlyBoard

CoolDown ==
  /\ cooldown /\ cooldown' = FALSE
  /\ UNCHANGED <<card, older, box, task, calls, deletes, auto, disp, sweep, up, restarts>>

World ==
  \/ CoolDown
  \/ \E s \in deletes : DeleteLands(s)
  \/ \E c \in Cards : Expire(c) \/ (\E n \in Names : AgentExits(c, n) \/ BoxDies(c, n))

Next ==
  \/ Dispatcher
  \/ \E t \in Tasks : Run(t) \/ RunHear(t) \/ RunStreamBreaks(t)
  \/ Sweeper \/ Boot \/ Crash
  \/ Operator \/ Unfinished
  \/ World

Spec == Init /\ [][Next]_vars

-------------------------------------------------------------------------------
(* Fairness: the supervisor's own loops and tasks, the sections a verb still owes, *)
(* the deletes that were spawned, and time.  No agent, operator or fault owes a    *)
(* step, and a run is owed neither a line of output (RunHear) nor a broken stream.  *)

Fair ==
  /\ WF_vars(Dispatcher) /\ WF_vars(Sweeper) /\ WF_vars(Boot)
  /\ WF_vars(CoolDown) /\ WF_vars(Unfinished)
  /\ \A t \in Tasks : WF_vars(Run(t))
  /\ \A c \in Cards : WF_vars(Expire(c))
  /\ \A s \in Spots : WF_vars(DeleteLands(s))

FairSpec == Spec /\ Fair

-------------------------------------------------------------------------------
(* Every variable holds a value of its type. *)
TypeOK ==
  /\ card \in [Cards -> Card] /\ older \subseteq Cards \X Cards
  /\ box \in [Cards -> [Names -> Box]] /\ task \in [Tasks -> Task]
  /\ calls \subseteq Call /\ deletes \subseteq Spots
  /\ auto \in BOOLEAN /\ cooldown \in BOOLEAN
  /\ disp \in Disp /\ sweep \in Sweep /\ up \in BOOLEAN /\ restarts \in 0 .. MaxRestarts

(* The dispatcher, the sweeper and start-up never put two runs on one card, though *)
(* the check against Active, the claim and the spawn are separate sections.        *)
OneRunPerCard ==
  \A t, u \in InFlight : task[t].card = task[u].card => t = u

(* A card an agent holds has a deadline, so the sweep that bounds every run can end *)
(* it, whichever of claim, adoption, heartbeat or failure handling made it so.       *)
HeldHasDeadline ==
  \A c \in Cards : card[c].state \in Held => card[c].deadline # "none"

(* A card that was taken from its run is not handed out again before that run is    *)
(* over: its agent has been stopped and its slot is free (Fleet.active).             *)
ReclaimAfterWindDown ==
  [][\A c \in Active : card[c].state \notin Held => card'[c].state \notin Held]_vars

(* While a card is held and not being halted, the sandbox its run works in is the   *)
(* one the card names: what a crash would adopt, and the sweeper must not reap.      *)
RunIsWhereTheCardSays ==
  \A t \in InFlight :
    LET c == task[t].card
    IN (/\ card[c].state \in Held
        /\ task[t].pc \in {"make", "beat", "arm", "watch", "finish", "ask", "deliver"}
        /\ \A k \in calls : k.card = c => k.verb # "halt")
       => card[c].env = task[t].name

(* An agent is only ever told to resume a session that lives in the sandbox it is   *)
(* started in, whatever park, halt, cut and failures did to the card before.         *)
ResumesWhereItLived ==
  \A t \in Tasks : Resumes(t) /\ Reach(t) => card[task[t].card].conv = "live"

(* Without lost execs, no agent works unwatched and none shares its sandbox:        *)
(* every way a run ends stops its agent first.                                       *)
NoUnwatchedAgent ==
  \A c \in Cards, n \in Names :
    /\ ~box[c][n].stray
    /\ box[c][n].agent = "live" => \E t \in InFlight : task[t].card = c /\ task[t].name = n

-------------------------------------------------------------------------------
(* Every run ends once the board has taken its card back: the slot it occupies is   *)
(* freed even when the agent never answers (watch_board_poll).                       *)
SlotIsFreed ==
  \A t \in Tasks : (Busy(t) /\ ~Owned(t)) ~> ~Busy(t)

(* No run holds a card for ever, though no agent is obliged to finish.               *)
HeldEnds ==
  \A c \in Cards : card[c].state \in Held ~> card[c].state \notin Held

(* A queued card is claimed, or someone takes it off the queue: a card that keeps    *)
(* failing cannot keep the others waiting.                                            *)
QueueIsServed ==
  \A c \in Cards : Queued(c) ~> ~Queued(c)

(* A card that stays Done or Retired does not keep sandboxes.                         *)
TerminalIsReaped ==
  \A c \in Cards :
    <>[](card[c].state \in Terminal) => <>[](\A n \in Names : box[c][n].st = "gone")

-------------------------------------------------------------------------------
(* What the repository says of the card, and the code does not keep (README). *)

(* docs, cut_scope: "Retired, not deleted - it stays visible and greyed".  Nothing but *)
(* unarchive takes a card out of Retired.                                              *)
RetiredStaysCut ==
  [][\A c \in Cards : card[c].state = "Retired" => card'[c].state = "Retired"]_vars

(* docs, concepts: an agent "finishes by writing a file"; once that question has been  *)
(* asked and answered, the file is not the verdict of a later run.                      *)
VerdictSettlesOneRun ==
  [][\A t \in InFlight :
       At(t, {"finish"}) /\ task'[t].pc = "ask" => Here(t).ask = "fresh"]_vars

(* docs, workflow: "A Backlog card is inert until someone calls dispatch".              *)
InertUntilDispatched ==
  [][\A c \in Cards :
       card[c].state = "Backlog" /\ card'[c].state \in Held => card[c].awaiting]_vars

(* supervise: a run whose card the sweeper or a halt already moved does "not burn retry *)
(* budget".                                                                              *)
ReleasedRunCostsNothing ==
  [][\A c \in Cards :
       card[c].state \notin Held => card'[c].failures <= card[c].failures]_vars
================================================================================
