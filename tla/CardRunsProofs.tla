----------------------------- MODULE CardRunsProofs -----------------------------
(***************************************************************************)
(* What CardRuns promises for every set of cards and tasks, every limit    *)
(* and every choice of verbs and faults: that it is type-correct, that a   *)
(* card never has two runs and is never handed out before its run is over, *)
(* that a card an agent holds has a deadline, that it implements Leases,   *)
(* that a session is only resumed in the sandbox it lives in, that a held  *)
(* card names the sandbox its run works in, and that every way a run ends  *)
(* stops its agent.                                                        *)
(***************************************************************************)
EXTENDS LeasedRuns, FiniteSetTheorems, TLAPS

-------------------------------------------------------------------------------
(* What one lock section does to a card, for every card and every limit. *)

(* Who may be handed back to an agent that is already at work. *)
LEMMA RunningFrom ==
  ASSUME NEW from \in States, Allowed(from, "Running")
  PROVE  from \in {"Claimed", "Running", "NeedsHuman"}
  BY DEF Allowed, Edges, States

(* A section that moves a card yields a card. *)
LEMMA MovedType ==
  ASSUME NEW r \in Card, NEW to \in States, NEW by
  PROVE  Moved(r, to, by) \in Card
<1> DEFINE ends     == to \in Terminal
           resets   == to = "Backlog" /\ by = "human"
           prior    == IF to = "Retired" THEN r.state ELSE "Retired"
           deadline == IF to \in {"Backlog", "NeedsHuman", "Done", "Retired", "Shaping"}
                       THEN "none" ELSE r.deadline
           parked   == r.parked /\ ~ends
           awaiting == r.awaiting /\ ~ends /\ to # "Backlog"
           question == r.question /\ ~resets
           failures == IF resets THEN 0 ELSE r.failures
           conv     == IF ends THEN "none" ELSE r.conv
           env      == IF ends THEN NoEnv ELSE r.env
<1>1. parked \in BOOLEAN /\ awaiting \in BOOLEAN /\ question \in BOOLEAN
  OBVIOUS
<1>2. prior \in States
  BY DEF Card, States
<1>3. deadline \in {"none", "ahead", "past"} /\ conv \in {"none", "live", "lost"}
  BY DEF Card
<1>4. failures \in 0 .. MaxAttempts
  BY MaxAttemptsAssumption DEF Card
<1>5. env \in Names \cup {NoEnv}
  BY DEF Card
<1>6. Moved(r, to, by) =
        [r EXCEPT !.state = to, !.prior = prior, !.deadline = deadline, !.parked = parked,
                  !.awaiting = awaiting, !.question = question, !.failures = failures,
                  !.conv = conv, !.env = env]
  BY DEF Moved
<1> HIDE DEF prior, deadline, parked, awaiting, question, failures, conv, env
<1> QED
  BY <1>1, <1>2, <1>3, <1>4, <1>5, <1>6 DEF Card

LEMMA TryType ==
  ASSUME NEW r \in Card, NEW to \in States, NEW by
  PROVE  Try(r, to, by) \in Card
  BY MovedType DEF Try

LEMMA ClaimType ==
  ASSUME NEW r \in Card
  PROVE  Claimed(r) \in Card /\ Reopened(r) \in Card /\ Beaten(r) \in Card
<1>1. "Claimed" \in States /\ "Running" \in States
  BY DEF States
<1>2. \A by : Moved(r, "Claimed", by) \in Card /\ Moved(r, "Running", by) \in Card
  BY <1>1, MovedType
<1> QED
  BY <1>2 DEF Claimed, Reopened, Beaten, Card

LEMMA TouchType ==
  ASSUME NEW r \in Card, NEW n
  PROVE  /\ Enqueued(r) \in Card /\ Steered(r) \in Card /\ Asked(r) \in Card
         /\ Emptied(r) \in Card /\ Counted(r) \in Card /\ Bereft(r, n) \in Card
<1>1. Enqueued(r) \in Card /\ Asked(r) \in Card
  BY DEF Enqueued, Asked, Card
<1>2. Steered(r) \in Card /\ Counted(r) \in Card
  <2> DEFINE failures == IF r.failures < MaxAttempts THEN r.failures + 1 ELSE r.failures
  <2>1. failures \in 0 .. MaxAttempts /\ 0 \in 0 .. MaxAttempts
    BY MaxAttemptsAssumption DEF Card
  <2>2. Counted(r) = [r EXCEPT !.failures = failures]
    BY DEF Counted
  <2> HIDE DEF failures
  <2> QED
    BY <2>1, <2>2 DEF Steered, Card
<1>3. Emptied(r) \in Card
  BY DEF Emptied, Card, NoEnv
<1>4. Bereft(r, n) \in Card
  BY DEF Bereft, Card
<1> QED
  BY <1>1, <1>2, <1>3, <1>4

LEMMA FieldType ==
  ASSUME NEW r \in Card
  PROVE  /\ \A v \in {"none", "live", "lost"} : [r EXCEPT !.conv = v] \in Card
         /\ \A n \in Names \cup {NoEnv} : [r EXCEPT !.env = n] \in Card
         /\ \A d \in {"none", "ahead", "past"} : [r EXCEPT !.deadline = d] \in Card
         /\ \A f \in 0 .. MaxAttempts : [r EXCEPT !.failures = f] \in Card
         /\ \A b \in BOOLEAN : [r EXCEPT !.parked = b] \in Card /\ [r EXCEPT !.awaiting = b] \in Card
  BY DEF Card

(* What each section leaves of the state and of the sandbox's name. *)
LEMMA TouchKeeps ==
  ASSUME NEW r \in Card, NEW n
  PROVE  /\ Enqueued(r).state = r.state /\ Steered(r).state = r.state /\ Asked(r).state = r.state
         /\ Emptied(r).state = r.state /\ Counted(r).state = r.state /\ Bereft(r, n).state = r.state
         /\ Enqueued(r).env = r.env /\ Steered(r).env = r.env /\ Asked(r).env = r.env
         /\ Emptied(r).env = NoEnv /\ Counted(r).env = r.env /\ Bereft(r, n).env = r.env
         /\ Enqueued(r).deadline = r.deadline /\ Steered(r).deadline = r.deadline
         /\ Asked(r).deadline = r.deadline /\ Emptied(r).deadline = r.deadline
         /\ Counted(r).deadline = r.deadline /\ Bereft(r, n).deadline = r.deadline
  BY DEF Enqueued, Steered, Asked, Emptied, Counted, Bereft, Card

LEMMA MovedKeeps ==
  ASSUME NEW r \in Card, NEW to \in States, NEW by
  PROVE  /\ Moved(r, to, by).state = to
         /\ Moved(r, to, by).env \in {r.env, NoEnv}
         /\ to \in Held => Moved(r, to, by).deadline = r.deadline
  BY DEF Moved, Card, Terminal, Held

LEMMA TryKeeps ==
  ASSUME NEW r \in Card, NEW to \in States, NEW by
  PROVE  /\ Try(r, to, by).state \in {r.state, to}
         /\ Try(r, to, by).state = r.state \/ Allowed(r.state, to)
         /\ Try(r, to, by).env \in {r.env, NoEnv}
         /\ Try(r, to, by).state \in Held => Try(r, to, by).deadline = r.deadline
  BY MovedKeeps DEF Try, Can, Check

LEMMA ClaimKeeps ==
  ASSUME NEW r \in Card
  PROVE  /\ Claimed(r).state = "Claimed" /\ Claimed(r).deadline = "ahead"
         /\ Reopened(r).state = "Claimed" /\ Reopened(r).deadline = "ahead"
         /\ Reopened(r).env = r.env
         /\ Beaten(r).deadline = r.deadline /\ Beaten(r).env = r.env
         /\ Beaten(r).state = IF r.state = "Claimed" THEN "Running" ELSE r.state
  BY DEF Claimed, Reopened, Beaten, Moved, Card, Terminal

(* A section that hands the card to nobody: it does not become held or a question, *)
(* and the sandbox it names is at most forgotten.                                    *)
Tame(r, q) ==
  /\ q.state \in Held => r.state \in Held
  /\ q.state = "NeedsHuman" => r.state = "NeedsHuman"
  /\ q.env \in {r.env, NoEnv}

(* A section that leaves a held card its deadline. *)
Leased(r, q) == q.state \in Held /\ r.deadline # "none" => q.deadline # "none"

LEMMA TameMoves ==
  ASSUME NEW r \in Card, NEW to \in States \ {"Claimed", "Running", "NeedsHuman"}, NEW by
  PROVE  /\ Tame(r, Moved(r, to, by)) /\ Leased(r, Moved(r, to, by))
         /\ Tame(r, Try(r, to, by)) /\ Leased(r, Try(r, to, by))
<1>1. /\ Moved(r, to, by).state = to /\ Moved(r, to, by).env \in {r.env, NoEnv}
      /\ to \notin Held /\ to # "NeedsHuman"
  BY MovedKeeps DEF Held
<1> QED
  BY <1>1 DEF Try, Tame, Leased

LEMMA TameTouches ==
  ASSUME NEW r \in Card, NEW n
  PROVE  /\ \A q \in {r, Enqueued(r), Steered(r), Asked(r), Emptied(r), Counted(r), Bereft(r, n), Beaten(r)} :
              Tame(r, q) /\ Leased(r, q)
  BY TouchKeeps, ClaimKeeps DEF Tame, Leased, Held

-------------------------------------------------------------------------------
(* Type correctness. *)

(* A process past its first section knows the card, and the sandbox, it works on. *)
Wired ==
  /\ \A t \in Tasks : Busy(t) => task[t].card \in Cards
  /\ disp.pc \in {"claim", "spawn"} => disp.card \in Cards
  /\ sweep.pc \in {"reap", "check", "reopen", "past", "probe", "bounce"} => sweep.at \in Spots
  /\ sweep.pc = "check" => sweep.plan # "none"

TypeInv == TypeOK /\ Wired

-------------------------------------------------------------------------------
(* The pieces of a step. *)

(* Writing a card leaves a board. *)
LEMMA PutType ==
  ASSUME card \in [Cards -> Card], older \subseteq Cards \X Cards,
         NEW c \in Cards, NEW r \in Card, Put(c, r)
  PROVE  card' \in [Cards -> Card] /\ older' \subseteq Cards \X Cards
  BY DEF Put

LEMMA BoxType ==
  ASSUME box \in [Cards -> [Names -> Box]], NEW c, NEW n, NEW b \in Box, SetBox(c, n, b)
  PROVE  box' \in [Cards -> [Names -> Box]]
  BY DEF SetBox

LEMMA NewBoxes == NoBox \in Box /\ NewBox \in Box
  BY DEF NoBox, NewBox, Box

LEMMA RemoveType ==
  ASSUME TypeOK, NEW c \in Cards, NEW n, Remove(c, n)
  PROVE  /\ card' \in [Cards -> Card] /\ older' \subseteq Cards \X Cards
         /\ box' \in [Cards -> [Names -> Box]]
<1>1. Bereft(card[c], n) \in Card
  BY TouchType DEF TypeOK
<1> QED
  BY <1>1, PutType, BoxType, NewBoxes DEF Remove, TypeOK

(* A task that goes on, or ends, stays a task that knows its card. *)
TasksTyped ==
  /\ task \in [Tasks -> Task]
  /\ \A t \in Tasks : Busy(t) => task[t].card \in Cards

LEMMA GotoType ==
  ASSUME TasksTyped, NEW t \in Tasks, Busy(t), NEW pc \in Steps, Goto(t, pc)
  PROVE  TasksTyped'
  BY DEF TasksTyped, Busy, Goto, Task

LEMMA EndsType ==
  ASSUME TasksTyped, NEW t \in Tasks, Busy(t), NEW pc \in Steps, NEW out \in Outs,
         Ends(t, pc, out)
  PROVE  TasksTyped'
  BY DEF TasksTyped, Busy, Ends, Task

LEMMA WriteType ==
  ASSUME TasksTyped, NEW t \in Tasks, NEW r \in Task, r.card \in Cards,
         task' = [task EXCEPT ![t] = r]
  PROVE  TasksTyped'
  BY DEF TasksTyped, Busy

LEMMA RetireType ==
  ASSUME TasksTyped, NEW t \in Tasks, Retire(t)
  PROVE  TasksTyped'
  BY DEF TasksTyped, Busy, Retire, Task, IdleTask, Steps, Outs

-------------------------------------------------------------------------------
(* Steps of a run keep every type. *)

RunStep(t) == Run(t) \/ RunHear(t) \/ RunStreamBreaks(t)

(* Only a run that has begun takes a step. *)
LEMMA RunIsBusy ==
  ASSUME TypeInv, NEW t \in Tasks, RunStep(t)
  PROVE  Busy(t) /\ task[t].card \in Cards
<1>1. Busy(t)
  BY DEF RunStep, Run, RunStart, RunRouted, RunUncovered, RunAsk, RunPlead, RunReuse, RunCold, RunBind,
         RunName, RunMake, RunUnmade, RunBeat, RunArm, RunBroken, RunCancelled, RunHear, RunStreamEnds,
         RunStreamBreaks, RunVerdict, RunNoVerdict, RunDeliver, RunRefused, RunStop, RunSettle,
         RunCount, RunPromote, RunRequeue, At, Busy, Cancellable
<1> QED
  BY <1>1 DEF TypeInv, Wired

LEMMA RunTasksTyped ==
  ASSUME TypeInv, NEW t \in Tasks, RunStep(t)
  PROVE  TasksTyped'
<1> USE DEF At, Steps, Outs
<1>0. TasksTyped /\ Busy(t) /\ task[t].card \in Cards
  BY RunIsBusy DEF TypeInv, TypeOK, Wired, TasksTyped
<1>1. CASE RunStart(t)
  BY <1>0, <1>1, GotoType, EndsType DEF RunStart
<1>2. CASE RunRouted(t)
  <2> DEFINE name == IF task[t].pc = "adopted" THEN task[t].name ELSE card[task[t].card].env
             pc   == IF task[t].pc = "adopted" THEN "watch" ELSE "probe"
             r    == [task[t] EXCEPT !.pc = pc, !.name = name]
  <2>1. card[task[t].card].env \in Names \cup {NoEnv}
    BY <1>0 DEF TypeInv, TypeOK, Card
  <2>2. name \in Names \cup {NoEnv} /\ pc \in Steps
    BY <1>0, <2>1 DEF TasksTyped, Task
  <2>3. task' = [task EXCEPT ![t] = r]
    BY <1>0, <1>2 DEF RunRouted, TasksTyped, Task
  <2> HIDE DEF name, pc
  <2>4. r \in Task /\ r.card \in Cards
    BY <1>0, <2>2 DEF TasksTyped, Task
  <2> QED
    BY <1>0, <2>3, <2>4, WriteType
<1>3. CASE RunUncovered(t)
  BY <1>0, <1>3, GotoType DEF RunUncovered
<1>4. CASE RunAsk(t)
  BY <1>0, <1>4, GotoType DEF RunAsk
<1>5. CASE RunPlead(t)
  BY <1>0, <1>5, EndsType, RetireType DEF RunPlead
<1>6. CASE RunReuse(t)
  <2> DEFINE r == [task[t] EXCEPT !.pc = "beat", !.reused = TRUE]
  <2>1. task' = [task EXCEPT ![t] = r]
    BY <1>0, <1>6 DEF RunReuse, TasksTyped, Task
  <2>2. r \in Task /\ r.card \in Cards
    BY <1>0 DEF TasksTyped, Task
  <2> QED
    BY <1>0, <2>1, <2>2, WriteType
<1>7. CASE RunCold(t)
  <2>1. NextName(card[task[t].card]) \in Names
    BY <1>0, MaxAttemptsAssumption DEF TypeInv, TypeOK, Card, NextName, Names
  <2> DEFINE r == [task[t] EXCEPT !.pc = "bind", !.name = NextName(card[task[t].card])]
  <2>2. task' = [task EXCEPT ![t] = r]
    BY <1>0, <1>7 DEF RunCold, TasksTyped, Task
  <2>3. r \in Task /\ r.card \in Cards
    BY <1>0, <2>1 DEF TasksTyped, Task
  <2> QED
    BY <1>0, <2>2, <2>3, WriteType
<1>8. CASE RunBind(t)
  BY <1>0, <1>8, GotoType DEF RunBind
<1>9. CASE RunName(t)
  BY <1>0, <1>9, GotoType DEF RunName
<1>10. CASE RunMake(t)
  BY <1>0, <1>10, GotoType DEF RunMake
<1>11. CASE RunBeat(t)
  BY <1>0, <1>11, GotoType DEF RunBeat
<1>12. CASE RunArm(t)
  <2> DEFINE r == [task[t] EXCEPT !.pc = "watch", !.reused = FALSE]
  <2>1. task' = [task EXCEPT ![t] = r]
    BY <1>0, <1>12 DEF RunArm, TasksTyped, Task
  <2>2. r \in Task /\ r.card \in Cards
    BY <1>0 DEF TasksTyped, Task
  <2> QED
    BY <1>0, <2>1, <2>2, WriteType
<1>13. CASE RunBroken(t)
  BY <1>0, <1>13, EndsType DEF RunBroken
<1>14. CASE RunCancelled(t)
  BY <1>0, <1>14, EndsType DEF RunCancelled, WindDown
<1>15. CASE RunHear(t)
  BY <1>0, <1>15 DEF RunHear, TasksTyped, Busy
<1>16. CASE RunStreamEnds(t)
  BY <1>0, <1>16, EndsType DEF RunStreamEnds
<1>17. CASE RunStreamBreaks(t)
  BY <1>0, <1>17, EndsType DEF RunStreamBreaks
<1>18. CASE RunVerdict(t)
  BY <1>0, <1>18, EndsType DEF RunVerdict
<1>19. CASE RunNoVerdict(t)
  BY <1>0, <1>19, EndsType DEF RunNoVerdict
<1>20. CASE RunDeliver(t)
  BY <1>0, <1>20, EndsType DEF RunDeliver
<1>21. CASE RunRefused(t)
  BY <1>0, <1>21, GotoType DEF RunRefused
<1>22. CASE RunStop(t)
  BY <1>0, <1>22, GotoType DEF RunStop
<1>23. CASE RunSettle(t)
  BY <1>0, <1>23, RetireType DEF RunSettle
<1>24. CASE RunCount(t)
  <2> DEFINE next == IF Counted(card[task[t].card]).failures < MaxAttempts THEN "requeue" ELSE "giveup"
             pc   == IF card[task[t].card].state = "Claimed" THEN "promote" ELSE next
             out  == IF next = "requeue" THEN "failed" ELSE "bad"
             r    == [task[t] EXCEPT !.pc = pc, !.out = out]
  <2>1. task' = [task EXCEPT ![t] = r]
    BY <1>0, <1>24 DEF RunCount, TasksTyped, Task
  <2>2. pc \in Steps /\ out \in Outs
    OBVIOUS
  <2> HIDE DEF next, pc, out
  <2>3. r \in Task /\ r.card \in Cards
    BY <1>0, <2>2 DEF TasksTyped, Task
  <2> QED
    BY <1>0, <2>1, <2>3, WriteType
<1>25. CASE RunPromote(t)
  BY <1>0, <1>25, GotoType DEF RunPromote
<1>26. CASE RunRequeue(t)
  BY <1>0, <1>26, RetireType DEF RunRequeue
<1>27. CASE RunUnmade(t)
  BY <1>0, <1>27, EndsType DEF RunUnmade
<1> QED
  BY <1>1, <1>2, <1>3, <1>4, <1>5, <1>6, <1>7, <1>8, <1>9, <1>10, <1>11, <1>12, <1>13, <1>14,
     <1>15, <1>16, <1>17, <1>18, <1>19, <1>20, <1>21, <1>22, <1>23, <1>24, <1>25, <1>26, <1>27
  DEF RunStep, Run

BoardTyped ==
  /\ card \in [Cards -> Card] /\ older \subseteq Cards \X Cards
  /\ box \in [Cards -> [Names -> Box]]

LEMMA RunBoardTyped ==
  ASSUME TypeInv, NEW t \in Tasks, RunStep(t)
  PROVE  BoardTyped'
<1> DEFINE c == task[t].card
<1>0. c \in Cards /\ card[c] \in Card /\ BoardTyped /\ task[t].name \in Names \cup {NoEnv}
  BY RunIsBusy DEF TypeInv, TypeOK, BoardTyped, Task
<1>a. {"NeedsHuman", "Backlog", "Review", "Running"} \subseteq States
  BY DEF States
<1>b. \A to \in {"NeedsHuman", "Backlog", "Review", "Running"} : \A by : Try(card[c], to, by) \in Card
  BY <1>0, <1>a, TryType
<1>c. ASSUME NEW r \in Card, Put(c, r), UNCHANGED box PROVE BoardTyped'
  BY <1>0, <1>c, PutType DEF BoardTyped
<1>d. ASSUME NEW b \in Box, SetBox(c, task[t].name, b), UNCHANGED <<card, older>> PROVE BoardTyped'
  BY <1>0, <1>d, BoxType DEF BoardTyped
<1>e. ASSUME Reach(t) PROVE Here(t) \in Box
  BY <1>0, <1>e DEF Reach, Here, BoardTyped
<1>u. ASSUME UNCHANGED <<card, older, box>> PROVE BoardTyped'
  BY <1>0, <1>u DEF BoardTyped
<1>1. CASE RunStart(t) \/ RunRouted(t) \/ RunUncovered(t) \/ RunReuse(t)
  BY <1>1, <1>u DEF RunStart, RunRouted, RunUncovered, RunReuse, OnlyTask
<1>2. CASE RunBroken(t) \/ RunCancelled(t) \/ RunStreamEnds(t) \/ RunStreamBreaks(t)
            \/ RunNoVerdict(t) \/ RunRefused(t)
  BY <1>2, <1>u DEF RunBroken, RunCancelled, RunStreamEnds, RunStreamBreaks, RunNoVerdict,
                    RunRefused, OnlyTask
<1>3. CASE RunAsk(t)
  BY <1>3, <1>0, <1>c, TouchType DEF RunAsk, TaskAndBoard
<1>4. CASE RunPlead(t)
  BY <1>4, <1>b, <1>c DEF RunPlead, TaskAndBoard
<1>5. CASE RunCold(t)
  BY <1>5, <1>0, <1>u, RemoveType DEF RunCold, BoardTyped, TypeInv
<1>6. CASE RunBind(t)
  <2>1. Forgotten(card[c]) \in Card
    BY <1>0, FieldType DEF Forgotten
  <2> QED
    BY <1>6, <2>1, <1>c DEF RunBind, TaskAndBoard
<1>7. CASE RunName(t)
  <2>1. Named(card[c], task[t].name) \in Card
    BY <1>0, TouchType, FieldType DEF Named
  <2> QED
    BY <1>7, <2>1, <1>c DEF RunName, TaskAndBoard
<1>8. CASE RunMake(t)
  <2>1. Bereft(card[c], task[t].name) \in Card
    BY <1>0, TouchType
  <2> QED
    BY <1>8, <2>1, <1>0, PutType, BoxType, NewBoxes DEF RunMake, BoardTyped
<1>9. CASE RunBeat(t)
  BY <1>9, <1>0, <1>c, ClaimType DEF RunBeat, TaskAndBoard
<1>10. CASE RunArm(t)
  <2>1. [Here(t) EXCEPT !.agent = "live", !.stray = @ \/ Here(t).agent = "live"] \in Box
    BY <1>10, <1>e DEF RunArm, Box
  <2> QED
    BY <1>10, <2>1, <1>d DEF RunArm, TaskAndBox
<1>11. CASE RunHear(t)
  <2> DEFINE heard == [card[c] EXCEPT !.conv = IF card[c].env = task[t].name THEN "live" ELSE "lost"]
  <2>1. heard \in Card
    BY <1>0, FieldType
  <2>2. Beaten(heard) \in Card
    BY <2>1, ClaimType
  <2> QED
    BY <1>11, <2>1, <2>2, <1>c DEF RunHear
<1>12. CASE RunVerdict(t)
  <2>1. ASSUME Reach(t) PROVE [Here(t) EXCEPT !.ask = "used"] \in Box
    BY <2>1, <1>e DEF Box
  <2>2. \/ Reach(t) /\ SetBox(c, task[t].name, [Here(t) EXCEPT !.ask = "used"])
        \/ UNCHANGED box
    BY <1>12 DEF RunVerdict
  <2> QED
    BY <1>12, <2>1, <2>2, <1>d, <1>u DEF RunVerdict, TaskAndBox
<1>13. CASE RunDeliver(t)
  BY <1>13, <1>b, <1>c DEF RunDeliver, TaskAndBoard
<1>14. CASE RunStop(t)
  <2>1. ASSUME Reach(t) PROVE [Here(t) EXCEPT !.agent = "none"] \in Box
    BY <2>1, <1>e DEF Box
  <2> QED
    BY <1>14, <2>1, <1>d, <1>u DEF RunStop, TaskAndBox
<1>15. CASE RunSettle(t)
  <2>1. [card[c] EXCEPT !.failures = 0] \in Card
    <3>1. 0 \in 0 .. MaxAttempts
      BY MaxAttemptsAssumption
    <3> QED
      BY <1>0, <3>1, FieldType
  <2> QED
    BY <1>15, <2>1, <1>0, <1>b, <1>c DEF RunSettle
<1>16. CASE RunCount(t)
  BY <1>16, <1>0, <1>c, TouchType DEF RunCount, TaskAndBoard
<1>17. CASE RunPromote(t)
  BY <1>17, <1>b, <1>c DEF RunPromote, TaskAndBoard
<1>18. CASE RunRequeue(t)
  BY <1>18, <1>b, <1>c DEF RunRequeue, TaskAndBoard
<1>19. CASE RunUnmade(t)
  BY <1>19, <1>0, RemoveType DEF RunUnmade, BoardTyped, TypeInv
<1> QED
  BY <1>1, <1>2, <1>3, <1>4, <1>5, <1>6, <1>7, <1>8, <1>9, <1>10, <1>11, <1>12, <1>13, <1>14,
     <1>15, <1>16, <1>17, <1>18, <1>19
  DEF RunStep, Run

LEMMA RunTypes ==
  ASSUME TypeInv, NEW t \in Tasks, RunStep(t)
  PROVE  TypeInv'
<1>1. TasksTyped' /\ BoardTyped'
  BY RunTasksTyped, RunBoardTyped
<1>2. UNCHANGED <<calls, deletes, auto, disp, sweep, up, restarts>> /\ cooldown' \in BOOLEAN
  BY DEF TypeInv, TypeOK, RunStep, Run, RunStart, RunRouted, RunUncovered, RunAsk, RunPlead,
         RunReuse, RunCold, RunBind, RunName, RunMake, RunUnmade, RunBeat, RunArm, RunBroken, RunCancelled,
         RunHear, RunStreamEnds, RunStreamBreaks, RunVerdict, RunNoVerdict, RunDeliver, RunRefused,
         RunStop, RunSettle, RunCount, RunPromote, RunRequeue, OnlyTask, TaskAndBoard, TaskAndBox
<1> QED
  BY <1>1, <1>2 DEF TypeInv, TypeOK, Wired, TasksTyped, BoardTyped

-------------------------------------------------------------------------------
(* So do those of the dispatcher, of the sweeper and of start-up. *)

LEMMA DispatcherTypes ==
  ASSUME TypeInv, Dispatcher
  PROVE  TypeInv'
<1>1. CASE DispTick
  <2>1. \A c \in Cards : Enqueued(card[c]) \in Card /\ card[c] \in Card
    BY TouchType DEF TypeInv, TypeOK
  <2>2. card' \in [Cards -> Card]
    BY <1>1, <2>1 DEF DispTick
  <2>3. disp' \in Disp /\ disp'.pc = "pick"
    BY <1>1 DEF DispTick, TypeInv, TypeOK, Disp
  <2> QED
    BY <1>1, <2>2, <2>3 DEF DispTick, TypeInv, TypeOK, Wired, Busy
<1>2. CASE DispPick
  <2>1. disp' \in Disp /\ (disp'.pc \in {"claim", "spawn"} => disp'.card \in Cards)
    BY <1>2 DEF DispPick, Disp, Tick
  <2> QED
    BY <1>2, <2>1 DEF DispPick, TypeInv, TypeOK, Wired, Busy
<1>3. CASE DispClaim
  <2>1. disp.card \in Cards
    BY <1>3 DEF DispClaim, TypeInv, Wired
  <2>2. disp' \in Disp /\ (disp'.pc \in {"claim", "spawn"} => disp'.card \in Cards)
    BY <1>3, <2>1 DEF DispClaim, TypeInv, TypeOK, Disp, Tick
  <2>3. Claimed(card[disp.card]) \in Card
    BY <2>1, ClaimType DEF TypeInv, TypeOK
  <2>4. card' \in [Cards -> Card] /\ older' \subseteq Cards \X Cards
    BY <1>3, <2>1, <2>3, PutType DEF DispClaim, Board, TypeInv, TypeOK
  <2> QED
    BY <1>3, <2>2, <2>4 DEF DispClaim, TypeInv, TypeOK, Wired, Busy
<1>4. CASE DispSpawn
  <2>1. disp.card \in Cards
    BY <1>4 DEF DispSpawn, TypeInv, Wired
  <2>2. [IdleTask EXCEPT !.pc = "start", !.card = disp.card] \in Task
    BY <2>1 DEF IdleTask, Task, Steps, Outs
  <2>3. [IdleTask EXCEPT !.pc = "start", !.card = disp.card].card \in Cards
    BY <2>1 DEF IdleTask
  <2>4. TasksTyped'
    BY <1>4, <2>2, <2>3, WriteType DEF DispSpawn, TypeInv, TypeOK, Wired, TasksTyped
  <2>5. disp' \in Disp /\ disp'.pc = "tick"
    BY <1>4 DEF DispSpawn, Disp, Tick
  <2> QED
    BY <1>4, <2>4, <2>5 DEF DispSpawn, TypeInv, TypeOK, Wired, Busy, TasksTyped
<1> QED
  BY <1>1, <1>2, <1>3, <1>4 DEF Dispatcher

(* A pass that starts, and one that goes on, are passes. *)
SweepTyped ==
  /\ sweep \in Sweep
  /\ sweep.pc \in {"reap", "check", "reopen", "past", "probe", "bounce"} => sweep.at \in Spots
  /\ sweep.pc = "check" => sweep.plan # "none"

LEMMA PassType ==
  ASSUME NEW pc \in {"requeue", "scan"}, NEW expired \in SUBSET Cards, NEW spots \in SUBSET Spots
  PROVE  /\ Pass(pc) \in Sweep /\ Pass(pc).pc = pc /\ Pass(pc).adopt = {} /\ Pass(pc).plan = "none"
         /\ Pass(pc).spots = {}
         /\ [Pass(pc) EXCEPT !.expired = expired] \in Sweep
         /\ [Pass(pc) EXCEPT !.expired = expired].pc = pc
         /\ [Pass(pc) EXCEPT !.spots = spots] \in Sweep
         /\ [Pass(pc) EXCEPT !.spots = spots].pc = pc
  BY DEF Pass, Sweep

LEMMA OnwardType ==
  ASSUME sweep \in Sweep
  PROVE  /\ Onward \in Sweep /\ Onward.pc = "scan" /\ Onward.plan = "none"
         /\ Onward.spots = sweep.spots /\ Onward.adopt = sweep.adopt
         /\ \A s \in Spots : [Onward EXCEPT !.adopt = @ \cup {s}] \in Sweep
  BY DEF Onward, Sweep

LEMMA SweeperTypes ==
  ASSUME TypeInv, Sweeper
  PROVE  TypeInv'
<1> DEFINE c == sweep.at[1]
<1>a. /\ sweep \in Sweep /\ BoardTyped /\ TasksTyped
      /\ sweep.pc \in {"reap", "check", "reopen", "past", "probe", "bounce"} =>
           sweep.at \in Spots /\ c \in Cards /\ card[c] \in Card
  BY DEF TypeInv, TypeOK, Wired, BoardTyped, TasksTyped, Spots
<1>b. ASSUME BoardTyped', SweepTyped',
             UNCHANGED <<task, calls, deletes, auto, cooldown, disp, up, restarts>>
      PROVE  TypeInv'
  BY <1>b DEF TypeInv, TypeOK, Wired, Busy, BoardTyped, SweepTyped
<1>c. ASSUME SweepTyped', OnlySweep PROVE TypeInv'
  BY <1>c, <1>a, <1>b DEF OnlySweep, BoardTyped
<1>d. ASSUME NEW d \in Cards, NEW r \in Card, Put(d, r), SweepTyped', SweepAndBoard PROVE TypeInv'
  BY <1>d, <1>a, <1>b, PutType DEF SweepAndBoard, BoardTyped
<1>e. ASSUME sweep' = Onward PROVE SweepTyped'
  BY <1>e, <1>a, OnwardType DEF SweepTyped
<1>f. \A d \in Cards : \A by : Try(card[d], "Backlog", by) \in Card
  BY TryType DEF TypeInv, TypeOK, States
<1>1. CASE SweepCollect
  <2>1. Late \subseteq Cards
    BY DEF Late
  <2>2. SweepTyped'
    BY <1>1, <2>1, PassType DEF SweepCollect, SweepTyped
  <2> QED
    BY <1>1, <2>2, <1>c DEF SweepCollect
<1>2. CASE SweepRequeue
  <2>1. PICK d \in sweep.expired : /\ Put(d, Try(card[d], "Backlog", "deadline-sweeper"))
                                   /\ sweep' = [sweep EXCEPT !.expired = @ \ {d}]
    BY <1>2 DEF SweepRequeue
  <2>2. d \in Cards
    BY <1>a, <2>1 DEF Sweep
  <2>3. SweepTyped'
    BY <1>2, <1>a, <2>1 DEF SweepRequeue, Sweeping, SweepTyped, Sweep
  <2> QED
    BY <1>2, <2>1, <2>2, <2>3, <1>d, <1>f DEF SweepRequeue
<1>3. CASE SweepList
  <2> DEFINE spots == {s \in Spots : box[s[1]][s[2]].st # "gone"}
  <2>1. spots \subseteq Spots
    OBVIOUS
  <2>2. \/ sweep' = [Pass("scan") EXCEPT !.spots = spots]
        \/ sweep' = Pass("scan")
    BY <1>3 DEF SweepList
  <2> HIDE DEF spots
  <2>3. sweep' \in Sweep /\ sweep'.pc = "scan"
    <3>1. /\ [Pass("scan") EXCEPT !.spots = spots] \in Sweep
          /\ [Pass("scan") EXCEPT !.spots = spots].pc = "scan"
      BY <2>1 DEF Pass, Sweep
    <3>2. Pass("scan") \in Sweep /\ Pass("scan").pc = "scan"
      BY DEF Pass, Sweep
    <3> QED
      BY <2>2, <3>1, <3>2
  <2>4. SweepTyped'
    BY <2>3 DEF SweepTyped
  <2> QED
    BY <1>3, <2>4, <1>c DEF SweepList
<1>4. CASE SweepLook
  <2>1. PICK s \in sweep.spots, plan \in {"none", "reopen", "past", "probe"} :
          sweep' = IF Keep(card[s[1]]) /\ plan = "none" THEN [sweep EXCEPT !.spots = @ \ {s}]
                   ELSE [sweep EXCEPT !.spots = @ \ {s}, !.at = s, !.plan = plan,
                                      !.pc = IF Keep(card[s[1]]) THEN "check" ELSE "reap"]
    BY <1>4 DEF SweepLook
  <2>2. s \in Spots
    BY <1>a, <2>1 DEF Sweep
  <2>3. CASE Keep(card[s[1]]) /\ plan = "none"
    <3>1. SweepTyped'
      BY <1>4, <1>a, <2>1, <2>3 DEF SweepLook, Sweeping, SweepTyped, Sweep
    <3> QED
      BY <1>4, <3>1, <1>c DEF SweepLook
  <2>4. CASE ~(Keep(card[s[1]]) /\ plan = "none")
    <3> DEFINE pc == IF Keep(card[s[1]]) THEN "check" ELSE "reap"
    <3>1. pc \in {"check", "reap"} /\ (pc = "check" => plan # "none")
      BY <2>4
    <3>2. sweep' = [sweep EXCEPT !.spots = @ \ {s}, !.at = s, !.plan = plan, !.pc = pc]
      BY <2>1, <2>4
    <3> HIDE DEF pc
    <3>3. sweep' \in Sweep /\ sweep'.at = s /\ sweep'.pc = pc /\ sweep'.plan = plan
      BY <1>a, <2>2, <3>1, <3>2 DEF Sweep
    <3>4. SweepTyped'
      BY <2>2, <3>1, <3>3 DEF SweepTyped
    <3> QED
      BY <1>4, <3>4, <1>c DEF SweepLook
  <2> QED
    BY <2>3, <2>4
<1>5. CASE SweepReap
  <2>1. BoardTyped'
    BY <1>5, <1>a, RemoveType DEF SweepReap, Sweeping, BoardTyped, TypeInv
  <2> QED
    BY <1>5, <2>1, <1>b, <1>e DEF SweepReap
<1>6. CASE SweepCheck
  <2>1. CASE sweep.at[1] \in Active
    BY <1>6, <2>1, <1>c, <1>e DEF SweepCheck
  <2>2. CASE sweep.at[1] \notin Active
    <3>1. sweep.plan \in {"reopen", "past", "probe"} /\ sweep.at \in Spots
      BY <1>6, <1>a DEF SweepCheck, Sweeping, TypeInv, Wired, Sweep
    <3>2. SweepTyped'
      BY <1>6, <1>a, <2>2, <3>1 DEF SweepCheck, SweepTyped, Sweep
    <3> QED
      BY <1>6, <3>2, <1>c DEF SweepCheck
  <2> QED
    BY <2>1, <2>2
<1>7. CASE SweepReopen
  <2>1. c \in Cards /\ card[c] \in Card /\ sweep.at \in Spots
    BY <1>7, <1>a DEF SweepReopen, Sweeping
  <2>2. CASE CanReopen(card[c]) /\ Put(c, Reopened(card[c])) /\ sweep' = [sweep EXCEPT !.pc = "probe"]
    <3>1. SweepTyped'
      BY <1>a, <2>1, <2>2 DEF SweepTyped, Sweep
    <3> QED
      BY <1>7, <2>1, <2>2, <3>1, <1>d, ClaimType DEF SweepReopen
  <2>3. CASE UNCHANGED Board /\ sweep' = Onward
    BY <1>7, <1>a, <2>3, <1>b, <1>e DEF SweepReopen, SweepAndBoard, Board, BoardTyped
  <2> QED
    BY <1>7, <2>2, <2>3 DEF SweepReopen
<1>8. CASE SweepProbe
  <2>1. c \in Cards /\ card[c] \in Card /\ sweep.at \in Spots
    BY <1>8, <1>a DEF SweepProbe, Sweeping
  <2>2. CASE /\ Put(c, Beaten(card[c]))
             /\ sweep' = IF up THEN Onward ELSE [Onward EXCEPT !.adopt = @ \cup {sweep.at}]
    <3>1. SweepTyped'
      BY <1>a, <1>e, <2>1, <2>2, OnwardType DEF SweepTyped, Sweep
    <3> QED
      BY <1>8, <2>1, <2>2, <3>1, <1>d, ClaimType DEF SweepProbe
  <2>3. CASE sweep' = [sweep EXCEPT !.pc = "bounce"] /\ UNCHANGED Board
    <3>1. SweepTyped'
      BY <1>a, <2>1, <2>3 DEF SweepTyped, Sweep
    <3> QED
      BY <1>8, <1>a, <2>3, <3>1, <1>b DEF SweepProbe, SweepAndBoard, Board, BoardTyped
  <2> QED
    BY <1>8, <2>2, <2>3 DEF SweepProbe
<1>9. CASE SweepBounce
  <2>1. c \in Cards
    BY <1>9, <1>a DEF SweepBounce
  <2> QED
    BY <1>9, <2>1, <1>d, <1>e, <1>f DEF SweepBounce
<1> QED
  BY <1>1, <1>2, <1>3, <1>4, <1>5, <1>6, <1>7, <1>8, <1>9 DEF Sweeper

LEMMA BootTypes ==
  ASSUME TypeInv, Boot \/ Crash
  PROVE  TypeInv'
<1>1. CASE BootAdopt
  <2>1. PICK s \in sweep.adopt, t \in Tasks :
          /\ ~Busy(t)
          /\ task' = [task EXCEPT ![t] = [IdleTask EXCEPT !.pc = "adopted", !.card = s[1], !.name = s[2]]]
          /\ sweep' = [sweep EXCEPT !.adopt = @ \ {s}]
    BY <1>1 DEF BootAdopt
  <2>2. s[1] \in Cards /\ s[2] \in Names
    BY <2>1 DEF TypeInv, TypeOK, Sweep, Spots
  <2>3. /\ [IdleTask EXCEPT !.pc = "adopted", !.card = s[1], !.name = s[2]] \in Task
        /\ [IdleTask EXCEPT !.pc = "adopted", !.card = s[1], !.name = s[2]].card \in Cards
    BY <2>2 DEF IdleTask, Task, Steps, Outs
  <2>4. TasksTyped'
    BY <2>1, <2>3, WriteType DEF TypeInv, TypeOK, Wired, TasksTyped
  <2>5. SweepTyped'
    BY <1>1, <2>1 DEF BootAdopt, Sweeping, TypeInv, TypeOK, Sweep, SweepTyped
  <2> QED
    BY <1>1, <2>4, <2>5 DEF BootAdopt, TypeInv, TypeOK, Wired, TasksTyped, SweepTyped
<1>2. CASE BootDone \/ BootBlind
  BY <1>2, PassType DEF BootDone, BootBlind, TypeInv, TypeOK, Wired, Busy
<1>3. CASE Crash
  <2>1. Tick \in Disp /\ Tick.pc = "tick" /\ Pass("requeue") \in Sweep /\ Pass("requeue").pc = "requeue"
    BY PassType DEF Tick, Disp
  <2>2. IdleTask \in Task /\ IdleTask.pc = "idle"
    BY DEF IdleTask, Task, Steps, Outs
  <2>3. TasksTyped'
    BY <1>3, <2>2 DEF Crash, TasksTyped, Busy
  <2>4. restarts' \in 0 .. MaxRestarts
    BY <1>3, BoundsAssumption DEF Crash, TypeInv, TypeOK
  <2> QED
    BY <1>3, <2>1, <2>3, <2>4 DEF Crash, TypeInv, TypeOK, Wired, TasksTyped
<1> QED
  BY <1>1, <1>2, <1>3 DEF Boot

-------------------------------------------------------------------------------
(* ... and those of the operator, the verbs half-way through and the world. *)

LEMMA LaterType ==
  ASSUME calls \subseteq Call, NEW c \in Cards, NEW n \in Names \cup {NoEnv},
         NEW verb \in {"hold", "queue", "halt", "answer", "defer", "changes", "feedback",
                       "merged", "unlease"},
         Later(verb, c, n)
  PROVE  calls' \subseteq Call
  BY DEF Later, Call

LEMMA AbandonType ==
  ASSUME deletes \subseteq Spots, NEW c \in Cards, NEW n \in Names \cup {NoEnv}, Abandon(c, n)
  PROVE  deletes' \subseteq Spots
  BY DEF Abandon, Spots

(* The effect a half-done verb still has on its card. *)
LEMMA CarriedType ==
  ASSUME NEW k \in Call, NEW r \in Card
  PROVE  CarriedOut(k, r) \in Card
<1>1. "Backlog" \in States /\ "Done" \in States
  BY DEF States
<1>2. \A by : Try(r, "Backlog", by) \in Card /\ Try(r, "Done", by) \in Card
  BY <1>1, TryType
<1>3. /\ [r EXCEPT !.parked = TRUE] \in Card
      /\ [r EXCEPT !.parked = TRUE, !.awaiting = FALSE] \in Card
      /\ [r EXCEPT !.deadline = "none", !.awaiting = FALSE] \in Card
  BY DEF Card
<1>4. Enqueued(r) \in Card
  BY TouchType
<1>5. k.verb \in {"hold", "queue", "halt", "answer", "defer", "changes", "feedback",
                  "merged", "unlease"}
  BY DEF Call
<1> QED
  BY <1>2, <1>3, <1>4, <1>5 DEF CarriedOut

LEMMA OperatorTypes ==
  ASSUME TypeInv, Operator \/ Unfinished
  PROVE  TypeInv'
<1>a. ASSUME NEW c \in Cards
      PROVE  card[c] \in Card /\ card[c].env \in Names \cup {NoEnv}
  BY <1>a DEF TypeInv, TypeOK, Card
<1>b. ASSUME card' \in [Cards -> Card], older' \subseteq Cards \X Cards, calls' \subseteq Call,
             deletes' \subseteq Spots, auto' \in BOOLEAN,
             UNCHANGED <<box, task, cooldown, disp, sweep, up, restarts>>
      PROVE  TypeInv'
  BY <1>b DEF TypeInv, TypeOK, Wired, Busy
<1>c. ASSUME NEW c \in Cards, NEW r \in Card, Put(c, r),
             calls' \subseteq Call, deletes' \subseteq Spots,
             UNCHANGED <<box, task, auto, cooldown, disp, sweep, up, restarts>>
      PROVE  TypeInv'
  BY <1>c, <1>b, PutType DEF TypeInv, TypeOK
<1>d. ASSUME NEW c \in Cards, NEW r \in Card, Put(c, r), OnlyBoard PROVE TypeInv'
  BY <1>d, <1>c DEF OnlyBoard, TypeInv, TypeOK
<1>e. ASSUME NEW c \in Cards, NEW r \in Card, Put(c, r), calls' \subseteq Call, BoardAndCalls
      PROVE  TypeInv'
  BY <1>e, <1>c DEF BoardAndCalls, TypeInv, TypeOK
<1>n. calls \subseteq Call /\ deletes \subseteq Spots /\ NoEnv \in Names \cup {NoEnv}
  BY DEF TypeInv, TypeOK
<1>1. CASE SetAuto
  <2>1. \A c \in Cards : /\ Enqueued(card[c]) \in Card /\ card[c] \in Card
                         /\ [card[c] EXCEPT !.awaiting = FALSE] \in Card
    BY <1>a, TouchType, FieldType
  <2>2. card' \in [Cards -> Card]
    BY <1>1, <2>1 DEF SetAuto
  <2> QED
    BY <1>1, <2>2, <1>b DEF SetAuto, TypeInv, TypeOK
<1>2. ASSUME NEW c \in Cards, Dispatch(c) \/ Steer(c) PROVE TypeInv'
  BY <1>2, <1>a, <1>d, TouchType DEF Dispatch, Steer
<1>3. ASSUME NEW c \in Cards, NEW to \in States, Move(c, to) PROVE TypeInv'
  <2>1. Moved(card[c], to, "human") \in Card
    BY <1>a, MovedType
  <2>2. deletes' \subseteq Spots
    BY <1>3, <1>a, <1>n, AbandonType DEF Move
  <2> QED
    BY <1>3, <2>1, <2>2, <1>c, <1>n DEF Move
<1>4. ASSUME NEW c \in Cards, Cut(c) PROVE TypeInv'
  <2>1. Moved(card[c], "Retired", "human") \in Card
    BY <1>a, MovedType DEF States
  <2>2. deletes' \subseteq Spots
    BY <1>4, <1>a, <1>n, AbandonType DEF Cut
  <2> QED
    BY <1>4, <2>1, <2>2, <1>c, <1>n DEF Cut
<1>5. ASSUME NEW c \in Cards, Unarchive(c) PROVE TypeInv'
  <2>1. UnarchiveTarget(card[c].prior, FALSE, TRUE) \in States
    BY <1>a DEF UnarchiveTarget, Card, States
  <2>2. Moved(card[c], UnarchiveTarget(card[c].prior, FALSE, TRUE), "human") \in Card
    BY <1>a, <2>1, MovedType
  <2> QED
    BY <1>5, <2>2, <1>e, <1>n, LaterType DEF Unarchive
<1>6. ASSUME NEW c \in Cards, Park(c) PROVE TypeInv'
  <2>1. Moved(card[c], "Backlog", "human") \in Card
    BY <1>a, MovedType DEF States
  <2> QED
    BY <1>6, <2>1, <1>e, <1>n, LaterType DEF Park
<1>7. ASSUME NEW c \in Cards, Unpark(c) PROVE TypeInv'
  BY <1>7, <1>a, <1>e, <1>n, LaterType, FieldType DEF Unpark
<1>8. ASSUME NEW c \in Cards, Halt(c) PROVE TypeInv'
  BY <1>8, <1>a, <1>e, <1>n, LaterType, TouchType DEF Halt
<1>9. ASSUME NEW c \in Cards, Answer(c) \/ RequestChanges(c) \/ Feedback(c) PROVE TypeInv'
  BY <1>9, <1>a, <1>e, <1>n, LaterType, TouchType DEF Answer, RequestChanges, Feedback
<1>10. ASSUME NEW c \in Cards, Merged(c) PROVE TypeInv'
  <2>1. calls' \subseteq Call
    BY <1>10, <1>n, LaterType DEF Merged
  <2> QED
    BY <1>10, <2>1, <1>b DEF Merged, Board, BoardAndCalls, TypeInv, TypeOK
<1>11. ASSUME NEW k \in calls, CarryOn(k) PROVE TypeInv'
  <2>1. k \in Call /\ k.card \in Cards /\ k.env \in Names \cup {NoEnv}
    BY <1>n DEF Call
  <2>2. CarriedOut(k, card[k.card]) \in Card
    BY <1>a, <2>1, CarriedType
  <2>3. deletes' \subseteq Spots
    BY <1>11, <1>a, <1>n, <2>1 DEF CarryOn, Spots
  <2>4. calls' \subseteq Call
    <3>1. [k EXCEPT !.verb = "defer"] \in Call
      BY <2>1 DEF Call
    <3> QED
      BY <1>11, <1>n, <3>1 DEF CarryOn
  <2> QED
    BY <1>11, <2>1, <2>2, <2>3, <2>4, <1>c DEF CarryOn
<1> QED
  BY <1>1, <1>2, <1>3, <1>4, <1>5, <1>6, <1>7, <1>8, <1>9, <1>10, <1>11 DEF Operator, Unfinished

LEMMA WorldTypes ==
  ASSUME TypeInv, World
  PROVE  TypeInv'
<1>1. CASE CoolDown
  BY <1>1 DEF CoolDown, TypeInv, TypeOK, Wired, Busy
<1>2. ASSUME NEW s \in deletes, DeleteLands(s) PROVE TypeInv'
  <2>1. s[1] \in Cards
    BY <1>2 DEF TypeInv, TypeOK, Spots
  <2>2. BoardTyped'
    BY <1>2, <2>1, RemoveType DEF DeleteLands, TypeInv, BoardTyped
  <2> QED
    BY <1>2, <2>2 DEF DeleteLands, BoardTyped, TypeInv, TypeOK, Wired, Busy
<1>3. ASSUME NEW c \in Cards, Expire(c) PROVE TypeInv'
  <2>1. [card[c] EXCEPT !.deadline = "past"] \in Card
    BY <1>3, FieldType DEF TypeInv, TypeOK
  <2> QED
    BY <1>3, <2>1, PutType DEF Expire, OnlyBoard, TypeInv, TypeOK, Wired, Busy
<1>4. ASSUME NEW c \in Cards, NEW n \in Names, AgentExits(c, n) PROVE TypeInv'
  <2>1. PICK kind \in {"agent", "stray"}, file \in Verdicts \cup {"none"} :
          LET b == box[c][n]
              d == IF kind = "agent" THEN [b EXCEPT !.agent = "exited"] ELSE [b EXCEPT !.stray = FALSE]
          IN SetBox(c, n, [d EXCEPT !.ask = IF file = "ask" THEN "fresh" ELSE @,
                                    !.work = @ \/ file = "work"])
    BY <1>4 DEF AgentExits
  <2> DEFINE b == box[c][n]
             d == IF kind = "agent" THEN [b EXCEPT !.agent = "exited"] ELSE [b EXCEPT !.stray = FALSE]
             e == [d EXCEPT !.ask = IF file = "ask" THEN "fresh" ELSE @, !.work = @ \/ file = "work"]
  <2>2. b \in Box
    BY DEF TypeInv, TypeOK
  <2>3. d \in Box
    BY <2>2 DEF Box
  <2> HIDE DEF d
  <2>4. e \in Box
    BY <2>3 DEF Box
  <2>5. SetBox(c, n, e)
    BY <2>1 DEF d
  <2> HIDE DEF e
  <2>6. box' \in [Cards -> [Names -> Box]]
    BY <2>4, <2>5, BoxType DEF TypeInv, TypeOK
  <2> QED
    BY <1>4, <2>6 DEF AgentExits, OnlyBox, TypeInv, TypeOK, Wired, Busy
<1>5. ASSUME NEW c \in Cards, NEW n \in Names, BoxDies(c, n) PROVE TypeInv'
  <2>1. box[c][n] \in Box
    BY DEF TypeInv, TypeOK
  <2>2. [box[c][n] EXCEPT !.st = "down", !.agent = "none", !.stray = FALSE] \in Box
    BY <2>1 DEF Box
  <2>3. box' \in [Cards -> [Names -> Box]]
    BY <1>5, <2>2, BoxType DEF BoxDies, TypeInv, TypeOK
  <2> QED
    BY <1>5, <2>3 DEF BoxDies, OnlyBox, TypeInv, TypeOK, Wired, Busy
<1> QED
  BY <1>1, <1>2, <1>3, <1>4, <1>5 DEF World

LEMMA InitTypes == Init => TypeInv
<1> SUFFICES ASSUME Init PROVE TypeInv
  OBVIOUS
<1>1. NewCard \in Card
  BY MaxAttemptsAssumption DEF NewCard, Card, States, NoEnv
<1>2. IdleTask \in Task /\ IdleTask.pc = "idle"
  BY DEF IdleTask, Task, Steps, Outs
<1>3. Tick \in Disp /\ Tick.pc = "tick" /\ Pass("scan") \in Sweep /\ Pass("scan").pc = "scan"
  BY PassType DEF Tick, Disp
<1>4. 0 \in 0 .. MaxRestarts
  BY BoundsAssumption
<1> QED
  BY <1>1, <1>2, <1>3, <1>4, NewBoxes DEF Init, TypeInv, TypeOK, Wired, Busy

LEMMA NextTypes == TypeInv /\ [Next]_vars => TypeInv'
<1> SUFFICES ASSUME TypeInv, [Next]_vars PROVE TypeInv'
  OBVIOUS
<1>1. CASE UNCHANGED vars
  BY <1>1 DEF vars, TypeInv, TypeOK, Wired, Busy
<1>2. CASE Next
  BY <1>2, DispatcherTypes, RunTypes, SweeperTypes, BootTypes, OperatorTypes, WorldTypes
  DEF Next, RunStep
<1> QED
  BY <1>1, <1>2

(* Every variable holds a value of its type in every reachable state, for any cards, *)
(* tasks, limits, verbs and faults.                                                    *)
THEOREM TypeCorrect == Spec => []TypeOK
<1>1. TypeInv => TypeOK
  BY DEF TypeInv
<1> QED
  BY <1>1, InitTypes, NextTypes, PTL DEF Spec

-------------------------------------------------------------------------------
(* One run for each card. *)

(* The pass has sandboxes left to look at, or one in hand. *)
Scanning == sweep.pc # "scan" \/ sweep.spots # {}

(* What the dispatcher holds between its sections is a card without a run. *)
PickedIsFree ==
  disp.pc \in {"claim", "spawn"} => disp.card \notin Active

(* Until start-up is over the dispatcher waits. *)
BootComesFirst == ~up => disp.pc = "tick"

(* While start-up looks at sandboxes there is no run, a card's name can only be   *)
(* taken away, and so at most one sandbox of a card is found worth adopting.       *)
BootScan ==
  ~up /\ Scanning =>
    /\ \A t \in Tasks : ~Busy(t)
    /\ \A s \in sweep.adopt : card[s[1]].env \in {s[2], NoEnv}
    /\ sweep.pc \in {"check", "reopen", "past", "probe", "bounce"} =>
         /\ card[sweep.at[1]].env \in {sweep.at[2], NoEnv}
         /\ \A s \in sweep.adopt : s[1] = sweep.at[1] => s = sweep.at

(* One adoption for each card, and none for a card whose adopted run has begun. *)
BootAdoptions ==
  ~up => /\ \A s, u \in sweep.adopt : s[1] = u[1] => s = u
         /\ \A s \in sweep.adopt : s[1] \notin Active

(* Only start-up reopens a Backlog card; a pass begins with nothing to adopt. *)
ReopensAtBoot ==
  /\ (sweep.pc = "reopen" \/ sweep.plan = "reopen") => ~up
  /\ sweep.pc = "requeue" => sweep.adopt = {}

(* Nobody asks a human between the two sections of record_run_failure. *)
PromotesNoQuestion ==
  \A t \in Tasks : task[t].pc = "promote" => card[task[t].card].state # "NeedsHuman"

RunInv ==
  /\ TypeInv /\ OneRunPerCard
  /\ PickedIsFree /\ BootComesFirst /\ BootScan /\ BootAdoptions
  /\ ReopensAtBoot /\ PromotesNoQuestion

(* No unarchive owes a card the clearing of its lease. *)
NoUnlease == \A k \in calls : k.verb # "unlease"

LeaseInv == RunInv /\ NoUnlease /\ HeldHasDeadline

-------------------------------------------------------------------------------
(* Who is tame: every step but a claim, a start-up reopening, and the run's own. *)

TameStep  == \A c \in Cards : Tame(card[c], card'[c])
LeaseStep == \A c \in Cards : Leased(card[c], card'[c])

LEMMA PutTame ==
  ASSUME TypeInv, NEW c \in Cards, NEW q, Put(c, q)
  PROVE  /\ Tame(card[c], q) => TameStep
         /\ Leased(card[c], q) => LeaseStep
<1>1. \A d \in Cards : card'[d] = IF d = c THEN q ELSE card[d]
  BY DEF Put, TypeInv, TypeOK
<1>2. \A d \in Cards : Tame(card[d], card[d]) /\ Leased(card[d], card[d])
  BY TameTouches DEF TypeInv, TypeOK
<1> QED
  BY <1>1, <1>2 DEF TameStep, LeaseStep

LEMMA SameTame ==
  ASSUME TypeInv, card' = card
  PROVE  TameStep /\ LeaseStep
  BY TameTouches DEF TameStep, LeaseStep, TypeInv, TypeOK

LEMMA RemoveTame ==
  ASSUME TypeInv, NEW c \in Cards, NEW n, Remove(c, n)
  PROVE  TameStep /\ LeaseStep
<1>1. Tame(card[c], Bereft(card[c], n)) /\ Leased(card[c], Bereft(card[c], n))
  BY TameTouches DEF TypeInv, TypeOK
<1> QED
  BY <1>1, PutTame DEF Remove

(* What is left of a verb moves its card to Backlog or Done, or moves it nowhere. *)
LEMMA CarriedTame ==
  ASSUME NEW k \in Call, NEW r \in Card
  PROVE  /\ Tame(r, CarriedOut(k, r))
         /\ k.verb # "unlease" => Leased(r, CarriedOut(k, r))
<1>1. {"Backlog", "Done"} \subseteq States \ {"Claimed", "Running", "NeedsHuman"}
  BY DEF States
<1>2. \A to \in {"Backlog", "Done"} : \A by : Tame(r, Try(r, to, by)) /\ Leased(r, Try(r, to, by))
  BY <1>1, TameMoves
<1>3. Tame(r, r) /\ Tame(r, Enqueued(r)) /\ Leased(r, r) /\ Leased(r, Enqueued(r))
  BY TameTouches
<1>4. /\ Tame(r, [r EXCEPT !.parked = TRUE]) /\ Leased(r, [r EXCEPT !.parked = TRUE])
      /\ Tame(r, [r EXCEPT !.parked = TRUE, !.awaiting = FALSE])
      /\ Leased(r, [r EXCEPT !.parked = TRUE, !.awaiting = FALSE])
      /\ Tame(r, [r EXCEPT !.deadline = "none", !.awaiting = FALSE])
  BY DEF Tame, Leased, Card
<1>5. k.verb \in {"hold", "queue", "halt", "answer", "defer", "changes", "feedback",
                  "merged", "unlease"}
  BY DEF Call
<1> QED
  BY <1>2, <1>3, <1>4, <1>5 DEF CarriedOut

(* No verb hands a card to an agent or to the Needs You lane, and none but the second *)
(* section of unarchive takes a held card's deadline.                                  *)
LEMMA OperatorTame ==
  ASSUME TypeInv, Operator \/ Unfinished
  PROVE  TameStep /\ (NoUnlease => LeaseStep)
<1> DEFINE Free == States \ {"Claimed", "Running", "NeedsHuman"}
<1>a. \A c \in Cards : card[c] \in Card
  BY DEF TypeInv, TypeOK
<1>b. {"Backlog", "Done", "Retired"} \subseteq Free /\ PatchTargets \subseteq Free
  BY PatchAssumption DEF States
<1>c. ASSUME NEW c \in Cards, NEW to \in Free, Put(c, Moved(card[c], to, "human"))
      PROVE  TameStep /\ LeaseStep
  <2>1. /\ Tame(card[c], Moved(card[c], to, "human"))
        /\ Leased(card[c], Moved(card[c], to, "human"))
    BY <1>a, TameMoves
  <2> QED
    BY <1>c, <2>1, PutTame
<1>d. ASSUME NEW c \in Cards,
             Put(c, Enqueued(card[c])) \/ Put(c, Steered(card[c])) \/ Put(c, Emptied(card[c]))
      PROVE  TameStep /\ LeaseStep
  <2>1. \A q \in {Enqueued(card[c]), Steered(card[c]), Emptied(card[c])} :
          Tame(card[c], q) /\ Leased(card[c], q)
    BY <1>a, TameTouches
  <2> QED
    BY <1>d, <2>1, PutTame
<1>1. CASE SetAuto
  <2>1. \A c \in Cards : card'[c] \in {card[c], Enqueued(card[c]), [card[c] EXCEPT !.awaiting = FALSE]}
    BY <1>1 DEF SetAuto
  <2>2. \A c \in Cards : /\ Tame(card[c], [card[c] EXCEPT !.awaiting = FALSE])
                         /\ Leased(card[c], [card[c] EXCEPT !.awaiting = FALSE])
    BY <1>a DEF Tame, Leased, Card
  <2>3. \A c \in Cards : \A q \in {card[c], Enqueued(card[c])} : Tame(card[c], q) /\ Leased(card[c], q)
    BY <1>a, TameTouches
  <2> QED
    BY <2>1, <2>2, <2>3 DEF TameStep, LeaseStep
<1>2. ASSUME NEW c \in Cards,
             \/ Dispatch(c) \/ Steer(c) \/ Halt(c) \/ Answer(c) \/ RequestChanges(c) \/ Feedback(c)
      PROVE  TameStep /\ LeaseStep
  BY <1>2, <1>d DEF Dispatch, Steer, Halt, Answer, RequestChanges, Feedback
<1>3. ASSUME NEW c \in Cards, NEW to \in States, Move(c, to) PROVE TameStep /\ LeaseStep
  <2>1. to \in Free
    BY <1>3, <1>b DEF Move
  <2> QED
    BY <1>3, <2>1, <1>c DEF Move
<1>4. ASSUME NEW c \in Cards, Cut(c) \/ Park(c) PROVE TameStep /\ LeaseStep
  BY <1>4, <1>b, <1>c DEF Cut, Park
<1>5. ASSUME NEW c \in Cards, Unarchive(c) PROVE TameStep /\ LeaseStep
  <2>1. UnarchiveTarget(card[c].prior, FALSE, TRUE) \in Free
    BY <1>a DEF UnarchiveTarget, Card, States
  <2> QED
    BY <1>5, <2>1, <1>c DEF Unarchive
<1>6. ASSUME NEW c \in Cards, Unpark(c) PROVE TameStep /\ LeaseStep
  <2>1. /\ Tame(card[c], [card[c] EXCEPT !.parked = FALSE])
        /\ Leased(card[c], [card[c] EXCEPT !.parked = FALSE])
    BY <1>a DEF Tame, Leased, Card
  <2> QED
    BY <1>6, <2>1, PutTame DEF Unpark
<1>7. ASSUME NEW c \in Cards, Merged(c) PROVE TameStep /\ LeaseStep
  BY <1>7, SameTame DEF Merged, Board
<1>8. ASSUME NEW k \in calls, CarryOn(k) PROVE TameStep /\ (NoUnlease => LeaseStep)
  <2>1. k \in Call /\ k.card \in Cards
    BY DEF TypeInv, TypeOK, Call
  <2>2. /\ Tame(card[k.card], CarriedOut(k, card[k.card]))
        /\ k.verb # "unlease" => Leased(card[k.card], CarriedOut(k, card[k.card]))
    BY <1>a, <2>1, CarriedTame
  <2>3. Put(k.card, CarriedOut(k, card[k.card]))
    BY <1>8 DEF CarryOn
  <2> QED
    BY <2>1, <2>2, <2>3, PutTame DEF NoUnlease
<1> QED
  BY <1>1, <1>2, <1>3, <1>4, <1>5, <1>6, <1>7, <1>8 DEF Operator, Unfinished

LEMMA WorldTame ==
  ASSUME TypeInv, World
  PROVE  TameStep /\ LeaseStep
<1>1. CASE CoolDown
  BY <1>1, SameTame DEF CoolDown
<1>2. ASSUME NEW s \in deletes, DeleteLands(s) PROVE TameStep /\ LeaseStep
  BY <1>2, RemoveTame DEF DeleteLands, TypeInv, TypeOK, Spots
<1>3. ASSUME NEW c \in Cards, Expire(c) PROVE TameStep /\ LeaseStep
  <2>1. /\ Tame(card[c], [card[c] EXCEPT !.deadline = "past"])
        /\ Leased(card[c], [card[c] EXCEPT !.deadline = "past"])
    BY DEF TypeInv, TypeOK, Tame, Leased, Card
  <2> QED
    BY <1>3, <2>1, PutTame DEF Expire
<1>4. ASSUME NEW c \in Cards, NEW n \in Names, AgentExits(c, n) \/ BoxDies(c, n)
      PROVE  TameStep /\ LeaseStep
  BY <1>4, SameTame DEF AgentExits, BoxDies, OnlyBox
<1> QED
  BY <1>1, <1>2, <1>3, <1>4 DEF World

(* The sweeper takes cards back; only at start-up may it reopen one. *)
LEMMA SweeperTame ==
  ASSUME TypeInv, Sweeper, ~SweepReopen
  PROVE  TameStep /\ LeaseStep
<1>1. "Backlog" \in States \ {"Claimed", "Running", "NeedsHuman"}
  BY DEF States
<1>2. \A c \in Cards : \A by : /\ Tame(card[c], Try(card[c], "Backlog", by))
                           /\ Leased(card[c], Try(card[c], "Backlog", by))
  BY <1>1, TameMoves DEF TypeInv, TypeOK
<1>3. sweep.pc \in {"reap", "past", "bounce", "probe"} => sweep.at[1] \in Cards
  BY DEF TypeInv, Wired, Spots
<1>4. CASE SweepCollect \/ SweepList \/ SweepLook \/ SweepCheck
  BY <1>4, SameTame DEF SweepCollect, SweepList, SweepLook, SweepCheck, OnlySweep
<1>5. CASE SweepRequeue
  <2>1. PICK c \in sweep.expired : Put(c, Try(card[c], "Backlog", "deadline-sweeper"))
    BY <1>5 DEF SweepRequeue
  <2>2. c \in Cards
    BY DEF TypeInv, TypeOK, Sweep
  <2> QED
    BY <1>2, <2>1, <2>2, PutTame
<1>6. CASE SweepReap
  BY <1>6, <1>3, RemoveTame, SameTame DEF SweepReap, Sweeping
<1>7. CASE SweepProbe
  <2>1. sweep.at[1] \in Cards
    BY <1>7, <1>3 DEF SweepProbe, Sweeping
  <2>2. /\ Tame(card[sweep.at[1]], Beaten(card[sweep.at[1]]))
        /\ Leased(card[sweep.at[1]], Beaten(card[sweep.at[1]]))
    BY <2>1, TameTouches DEF TypeInv, TypeOK
  <2>3. Put(sweep.at[1], Beaten(card[sweep.at[1]])) \/ UNCHANGED Board
    BY <1>7 DEF SweepProbe
  <2> QED
    BY <2>1, <2>2, <2>3, PutTame, SameTame DEF Board
<1>8. CASE SweepBounce
  BY <1>8, <1>2, <1>3, PutTame DEF SweepBounce
<1> QED
  BY <1>4, <1>5, <1>6, <1>7, <1>8 DEF Sweeper

-------------------------------------------------------------------------------
(* What a run does: to itself, to its card, and to nobody else. *)

(* No run begins, and none changes cards, by a step of a run; only the first section *)
(* of record_run_failure, on a Claimed card, leads to its second.                     *)
LEMMA RunKeepsTasks ==
  ASSUME TypeInv, NEW t \in Tasks, RunStep(t)
  PROVE  /\ \A u \in Tasks : Busy(u)' => Busy(u) /\ task'[u].card = task[u].card
         /\ \A u \in Tasks \ {t} : task'[u] = task[u]
         /\ task'[t].pc = "promote" => RunCount(t) /\ card[task[t].card].state = "Claimed"
<1> USE DEF At, Busy
<1>0. task \in [Tasks -> Task] /\ Busy(t)
  BY RunIsBusy DEF TypeInv, TypeOK
<1>a. ASSUME NEW pc, Goto(t, pc)
      PROVE  /\ \A u \in Tasks : Busy(u)' => Busy(u) /\ task'[u].card = task[u].card
             /\ \A u \in Tasks \ {t} : task'[u] = task[u]
             /\ task'[t].pc = pc
  BY <1>0, <1>a DEF Goto, Task
<1>b. ASSUME NEW pc, NEW out, Ends(t, pc, out)
      PROVE  /\ \A u \in Tasks : Busy(u)' => Busy(u) /\ task'[u].card = task[u].card
             /\ \A u \in Tasks \ {t} : task'[u] = task[u]
             /\ task'[t].pc = pc
  BY <1>0, <1>b DEF Ends, Task
<1>c. ASSUME Retire(t)
      PROVE  /\ \A u \in Tasks : Busy(u)' => Busy(u) /\ task'[u].card = task[u].card
             /\ \A u \in Tasks \ {t} : task'[u] = task[u]
             /\ task'[t].pc = "idle"
  BY <1>0, <1>c DEF Retire, IdleTask, Task
<1>1. CASE RunStart(t) \/ RunUncovered(t) \/ RunBroken(t) \/ RunCancelled(t) \/ RunStreamEnds(t)
            \/ RunStreamBreaks(t) \/ RunNoVerdict(t) \/ RunRefused(t) \/ RunStop(t) \/ RunUnmade(t)
  BY <1>1, <1>a, <1>b DEF RunStart, RunUnmade, RunUncovered, RunBroken, RunCancelled, RunStreamEnds,
                           RunStreamBreaks, RunNoVerdict, RunRefused, RunStop, WindDown
<1>2. CASE RunBind(t) \/ RunName(t) \/ RunMake(t) \/ RunBeat(t) \/ RunVerdict(t) \/ RunDeliver(t)
  BY <1>2, <1>a, <1>b DEF RunBind, RunName, RunMake, RunBeat, RunVerdict, RunDeliver
<1>3. CASE RunSettle(t) \/ RunRequeue(t)
  BY <1>3, <1>c DEF RunSettle, RunRequeue
<1>4. CASE RunAsk(t)
  BY <1>4, <1>a DEF RunAsk
<1>5. CASE RunPlead(t)
  BY <1>5, <1>b, <1>c DEF RunPlead
<1>6. CASE RunPromote(t)
  BY <1>6, <1>a DEF RunPromote
<1>7. CASE RunHear(t)
  BY <1>7, <1>0 DEF RunHear
<1>8. CASE RunRouted(t)
  BY <1>8, <1>0 DEF RunRouted, Task
<1>9. CASE RunReuse(t) \/ RunCold(t) \/ RunArm(t)
  BY <1>9, <1>0 DEF RunReuse, RunCold, RunArm, Task
<1>10. CASE RunCount(t)
  <2> DEFINE next == IF Counted(card[task[t].card]).failures < MaxAttempts THEN "requeue" ELSE "giveup"
             pc   == IF card[task[t].card].state = "Claimed" THEN "promote" ELSE next
             out  == IF next = "requeue" THEN "failed" ELSE "bad"
  <2>1. Ends(t, pc, out)
    BY <1>10 DEF RunCount, Ends
  <2>2. pc = "promote" => card[task[t].card].state = "Claimed"
    OBVIOUS
  <2> HIDE DEF pc, out
  <2> QED
    BY <1>10, <2>1, <2>2, <1>b
<1> QED
  BY <1>1, <1>2, <1>3, <1>4, <1>5, <1>6, <1>7, <1>8, <1>9, <1>10 DEF RunStep, Run

(* A run writes no card but its own; it never makes that card held, and the deadline *)
(* of a card it keeps held is left alone.  The promotion in record_run_failure is why *)
(* PromotesNoQuestion is needed: NeedsHuman -> Running is an edge of the machine.      *)
LEMMA RunHolds ==
  ASSUME TypeInv, PromotesNoQuestion, NEW t \in Tasks, RunStep(t)
  PROVE  /\ \A d \in Cards : d # task[t].card => card'[d] = card[d]
         /\ \A d \in Cards : card'[d].state \in Held => card[d].state \in Held
         /\ LeaseStep
         /\ RunCount(t) => card'[task[t].card].state = card[task[t].card].state
<1> DEFINE c == task[t].card
<1>0. c \in Cards /\ card[c] \in Card /\ card \in [Cards -> Card]
  BY RunIsBusy DEF TypeInv, TypeOK
<1>p. ASSUME NEW r, Put(c, r)
      PROVE  /\ \A d \in Cards : d # c => card'[d] = card[d]
             /\ card'[c] = r
  BY <1>0, <1>p DEF Put
<1> DEFINE Kept  == \A d \in Cards : d # c => card'[d] = card[d]
           Holds == card'[c].state \in Held =>
                      card[c].state \in Held /\ (card[c].deadline # "none" => card'[c].deadline # "none")
<1>s. SUFFICES Kept /\ Holds /\ (RunCount(t) => card'[c].state = card[c].state)
  BY <1>0, TameTouches DEF LeaseStep, Leased
<1>t. \A n : \A q \in {card[c], Asked(card[c]), Counted(card[c]), Bereft(card[c], n), Beaten(card[c])} :
        Tame(card[c], q) /\ Leased(card[c], q)
  BY <1>0, TameTouches
<1>a. ASSUME NEW q, Put(c, q), Tame(card[c], q), Leased(card[c], q) PROVE Kept /\ Holds
  BY <1>a, <1>p DEF Tame, Leased
<1>b. {"Backlog", "Review"} \subseteq States \ {"Claimed", "Running", "NeedsHuman"}
  BY DEF States
<1>c. \A to \in {"Backlog", "Review"} : \A by : Tame(card[c], Try(card[c], to, by)) /\ Leased(card[c], Try(card[c], to, by))
  BY <1>0, <1>b, TameMoves
<1>u. ASSUME card' = card PROVE Kept /\ Holds
  BY <1>u
<1>x. ~RunCount(t) \/ (task[t].pc = "settle" /\ task[t].out = "failed" /\ Put(c, Counted(card[c])))
  BY DEF RunCount, At
<1>y. RunCount(t) => card'[c].state = card[c].state
  BY <1>0, <1>p, <1>x, TouchKeeps
<1>1. CASE RunStart(t) \/ RunRouted(t) \/ RunUncovered(t) \/ RunReuse(t)
  BY <1>1, <1>u, <1>y DEF RunStart, RunRouted, RunUncovered, RunReuse, OnlyTask
<1>2. CASE RunBroken(t) \/ RunCancelled(t) \/ RunStreamEnds(t) \/ RunStreamBreaks(t)
            \/ RunNoVerdict(t) \/ RunRefused(t)
  BY <1>2, <1>u, <1>y DEF RunBroken, RunCancelled, RunStreamEnds, RunStreamBreaks, RunNoVerdict,
                    RunRefused, OnlyTask
<1>3. CASE RunArm(t) \/ RunVerdict(t) \/ RunStop(t)
  BY <1>3, <1>u, <1>y DEF RunArm, RunVerdict, RunStop, TaskAndBox
<1>4. CASE RunAsk(t) \/ RunCount(t) \/ RunBeat(t) \/ RunMake(t)
  BY <1>4, <1>a, <1>t, <1>y DEF RunAsk, RunCount, RunBeat, RunMake
<1>5. CASE RunPlead(t)
  <2>1. "NeedsHuman" \in States /\ "NeedsHuman" \notin Held
    BY DEF States, Held
  <2>2. Put(c, Try(card[c], "NeedsHuman", "agent"))
    BY <1>5 DEF RunPlead
  <2> QED
    BY <1>0, <1>p, <1>y, <2>1, <2>2, TryKeeps
<1>6. CASE RunCold(t) \/ RunUnmade(t)
  <2>1. card' = card \/ \E n : Put(c, Bereft(card[c], n))
    BY <1>6 DEF RunCold, RunUnmade, Remove
  <2> QED
    BY <2>1, <1>a, <1>t, <1>u, <1>y
<1>7. CASE RunBind(t)
  <2>1. Tame(card[c], Forgotten(card[c])) /\ Leased(card[c], Forgotten(card[c]))
    BY <1>0 DEF Forgotten, Tame, Leased, Card
  <2> QED
    BY <1>7, <2>1, <1>a, <1>y DEF RunBind
<1>8. CASE RunName(t)
  <2>1. /\ Named(card[c], task[t].name).state = card[c].state
        /\ Named(card[c], task[t].name).deadline = card[c].deadline
    BY <1>0, TouchKeeps, TouchType DEF Named, Card
  <2> QED
    BY <1>8, <2>1, <1>p, <1>y DEF RunName
<1>9. CASE RunHear(t)
  <2> DEFINE place == IF card[c].env = task[t].name THEN "live" ELSE "lost"
             heard == [card[c] EXCEPT !.conv = place]
  <2>1. heard \in Card /\ heard.state = card[c].state /\ heard.deadline = card[c].deadline
    <3>1. place \in {"none", "live", "lost"}
      OBVIOUS
    <3> HIDE DEF place
    <3>2. heard \in Card
      BY <1>0, <3>1, FieldType
    <3> QED
      BY <1>0, <3>2 DEF Card
  <2>2. Tame(heard, Beaten(heard)) /\ Leased(heard, Beaten(heard))
    BY <2>1, TameTouches
  <2>3. Put(c, heard) \/ Put(c, Beaten(heard))
    BY <1>9 DEF RunHear
  <2> HIDE DEF heard
  <2> QED
    BY <2>1, <2>2, <2>3, <1>p, <1>y DEF Tame, Leased
<1>10. CASE RunDeliver(t) \/ RunRequeue(t)
  BY <1>10, <1>a, <1>c, <1>y DEF RunDeliver, RunRequeue
<1>11. CASE RunSettle(t)
  <2>1. /\ Tame(card[c], [card[c] EXCEPT !.failures = 0])
        /\ Leased(card[c], [card[c] EXCEPT !.failures = 0])
    BY <1>0 DEF Tame, Leased, Card
  <2> QED
    BY <1>11, <2>1, <1>a, <1>c, <1>t, <1>y DEF RunSettle
<1>12. CASE RunPromote(t)
  <2>1. card[c].state # "NeedsHuman" /\ Put(c, Try(card[c], "Running", "supervisor"))
    BY <1>12 DEF RunPromote, At, PromotesNoQuestion
  <2>2. "Running" \in States /\ card[c].state \in States
    BY <1>0 DEF States, Card
  <2>3. Try(card[c], "Running", "supervisor").state \in Held =>
          card[c].state \in Held /\ Try(card[c], "Running", "supervisor").deadline = card[c].deadline
    BY <1>0, <2>1, <2>2, TryKeeps, RunningFrom DEF Held
  <2> QED
    BY <2>1, <2>3, <1>p, <1>y
<1> QED
  BY <1>1, <1>2, <1>3, <1>4, <1>5, <1>6, <1>7, <1>8, <1>9, <1>10, <1>11, <1>12 DEF RunStep, Run

-------------------------------------------------------------------------------
(* RunInv is inductive. *)

LEMMA InitInv == Init => RunInv
<1> SUFFICES ASSUME Init PROVE RunInv
  OBVIOUS
<1>1. \A t \in Tasks : task[t] = IdleTask /\ task[t].pc = "idle"
  BY DEF Init, IdleTask
<1>2. disp.pc = "tick" /\ sweep.pc = "scan" /\ sweep.plan = "none" /\ up
  BY DEF Init, Tick, Pass
<1> QED
  BY <1>1, <1>2, InitTypes
  DEF RunInv, OneRunPerCard, InFlight, Busy, PickedIsFree, BootComesFirst, BootScan, BootAdoptions,
      ReopensAtBoot, PromotesNoQuestion

(* A step that starts no run and keeps each run's card. *)
NoNewRun == \A u \in Tasks : Busy(u)' => Busy(u) /\ task'[u].card = task[u].card

LEMMA NoNewRunKeeps ==
  ASSUME NoNewRun
  PROVE  /\ OneRunPerCard => OneRunPerCard'
         /\ Active' \subseteq Active
  BY DEF NoNewRun, OneRunPerCard, InFlight, Active, Busy

LEMMA RunKeepsInv ==
  ASSUME RunInv, NEW t \in Tasks, RunStep(t)
  PROVE  RunInv'
<1>1. TypeInv' /\ UNCHANGED <<disp, sweep, up>>
  BY RunTypes DEF RunInv, RunStep, Run, RunStart, RunRouted, RunUncovered, RunAsk, RunPlead,
         RunReuse, RunCold, RunBind, RunName, RunMake, RunUnmade, RunBeat, RunArm, RunBroken, RunCancelled,
         RunHear, RunStreamEnds, RunStreamBreaks, RunVerdict, RunNoVerdict, RunDeliver, RunRefused,
         RunStop, RunSettle, RunCount, RunPromote, RunRequeue, OnlyTask, TaskAndBoard, TaskAndBox
<1>2. NoNewRun /\ Busy(t) /\ task[t].card \in Cards
  BY RunKeepsTasks, RunIsBusy DEF NoNewRun, RunInv
<1>3. OneRunPerCard' /\ Active' \subseteq Active
  BY <1>2, NoNewRunKeeps DEF RunInv
<1>4. PickedIsFree' /\ BootComesFirst' /\ BootAdoptions' /\ ReopensAtBoot'
  BY <1>1, <1>3 DEF RunInv, PickedIsFree, BootComesFirst, BootAdoptions, ReopensAtBoot
<1>5. BootScan'
  BY <1>1, <1>2 DEF RunInv, BootScan, Scanning
<1>6. PromotesNoQuestion'
  <2> SUFFICES ASSUME NEW u \in Tasks, task'[u].pc = "promote"
               PROVE  card'[task'[u].card].state # "NeedsHuman"
    BY DEF PromotesNoQuestion
  <2>1. Busy(u) /\ task'[u].card = task[u].card
    BY <1>2 DEF NoNewRun, Busy
  <2>2. CASE u = t
    BY <2>1, <2>2, RunKeepsTasks, RunHolds DEF RunInv
  <2>3. CASE u # t
    <3>1. task[u].pc = "promote" /\ task[u].card \in Cards
      BY <2>1, <2>3, RunKeepsTasks DEF RunInv, TypeInv, Wired
    <3>2. task[u].card # task[t].card
      BY <2>1, <2>3, <1>2 DEF RunInv, OneRunPerCard, InFlight
    <3>3. card'[task[u].card] = card[task[u].card]
      BY <3>1, <3>2, RunHolds DEF RunInv
    <3> QED
      BY <2>1, <3>1, <3>3 DEF RunInv, PromotesNoQuestion
  <2> QED
    BY <2>2, <2>3
<1> QED
  BY <1>1, <1>3, <1>4, <1>5, <1>6 DEF RunInv

(* Verbs and the world leave every process where it is. *)
LEMMA TameKeepsInv ==
  ASSUME RunInv, TypeInv', TameStep, UNCHANGED <<task, disp, sweep, up>>
  PROVE  RunInv'
<1>1. NoNewRun
  BY DEF NoNewRun, Busy
<1>2. OneRunPerCard' /\ Active' = Active
  BY DEF RunInv, OneRunPerCard, InFlight, Active, Busy
<1>3. PickedIsFree' /\ BootComesFirst' /\ BootAdoptions' /\ ReopensAtBoot'
  BY <1>2 DEF RunInv, PickedIsFree, BootComesFirst, BootAdoptions, ReopensAtBoot
<1>4. /\ \A s \in sweep.adopt : s[1] \in Cards
      /\ sweep.pc \in {"check", "reopen", "past", "probe", "bounce"} => sweep.at[1] \in Cards
  BY DEF RunInv, TypeInv, TypeOK, Wired, Sweep, Spots
<1>5. BootScan'
  BY <1>4 DEF RunInv, BootScan, Scanning, Busy, TameStep, Tame
<1>6. PromotesNoQuestion'
  BY DEF RunInv, TypeInv, Wired, Busy, PromotesNoQuestion, TameStep, Tame
<1> QED
  BY <1>2, <1>3, <1>5, <1>6 DEF RunInv

LEMMA OthersKeepInv ==
  ASSUME RunInv, Operator \/ Unfinished \/ World
  PROVE  RunInv'
<1>1. TypeInv' /\ TameStep
  BY OperatorTypes, WorldTypes, OperatorTame, WorldTame DEF RunInv
<1>2. CASE Operator
  <2>1. UNCHANGED <<task, disp, sweep, up>>
    BY <1>2 DEF Operator, SetAuto, Dispatch, Steer, Cut, Unarchive, Park, Unpark, Halt, Answer,
                RequestChanges, Feedback, Merged, Move, OnlyBoard, BoardAndCalls
  <2> QED
    BY <1>1, <2>1, TameKeepsInv
<1>3. CASE Unfinished \/ World
  <2>1. UNCHANGED <<task, disp, sweep, up>>
    BY <1>3 DEF Unfinished, CarryOn, World, CoolDown, DeleteLands, Expire, AgentExits, BoxDies,
                OnlyBoard, OnlyBox
  <2> QED
    BY <1>1, <2>1, TameKeepsInv
<1> QED
  BY <1>2, <1>3

LEMMA DispatcherKeepsInv ==
  ASSUME RunInv, Dispatcher
  PROVE  RunInv'
<1>1. TypeInv' /\ UNCHANGED <<sweep, up>> /\ up
  BY DispatcherTypes DEF RunInv, BootComesFirst, Dispatcher, DispTick, DispPick, DispClaim, DispSpawn
<1>2. BootComesFirst' /\ BootScan' /\ BootAdoptions' /\ ReopensAtBoot'
  BY <1>1 DEF RunInv, BootComesFirst, BootScan, BootAdoptions, ReopensAtBoot
<1>3. ASSUME UNCHANGED task PROVE OneRunPerCard' /\ Active' = Active
  BY <1>3 DEF RunInv, OneRunPerCard, InFlight, Active, Busy
<1>4. ASSUME UNCHANGED task, \A c \in Cards : card'[c].state \in {card[c].state, "Claimed"}
      PROVE  PromotesNoQuestion'
  BY <1>4 DEF RunInv, TypeInv, Wired, Busy, PromotesNoQuestion
<1>5. CASE DispTick
  <2>1. \A c \in Cards : card'[c].state = card[c].state
    BY <1>5, TouchKeeps DEF DispTick, RunInv, TypeInv, TypeOK
  <2>2. PickedIsFree'
    BY <1>5 DEF DispTick, PickedIsFree, RunInv, TypeInv, TypeOK, Disp
  <2> QED
    BY <1>1, <1>2, <1>3, <1>4, <1>5, <2>1, <2>2 DEF DispTick, RunInv
<1>6. CASE DispPick
  <2>1. PickedIsFree'
    BY <1>6, <1>3 DEF DispPick, PickedIsFree, Oldest, Tick
  <2> QED
    BY <1>1, <1>2, <1>3, <1>4, <1>6, <2>1 DEF DispPick, RunInv
<1>7. CASE DispClaim
  <2>1. disp.card \in Cards /\ disp.card \notin Active
    BY <1>7 DEF DispClaim, RunInv, TypeInv, Wired, PickedIsFree
  <2>2. PickedIsFree'
    BY <1>7, <1>3, <2>1 DEF DispClaim, PickedIsFree, Tick, RunInv, TypeInv, TypeOK, Disp
  <2>3. \A c \in Cards : card'[c].state \in {card[c].state, "Claimed"}
    BY <1>7, <2>1, ClaimKeeps DEF DispClaim, Put, Board, RunInv, TypeInv, TypeOK
  <2> QED
    BY <1>1, <1>2, <1>3, <1>4, <1>7, <2>2, <2>3 DEF DispClaim, RunInv
<1>8. CASE DispSpawn
  <2>1. disp.card \in Cards /\ disp.card \notin Active
    BY <1>8 DEF DispSpawn, RunInv, TypeInv, Wired, PickedIsFree
  <2>2. PICK t \in Tasks : /\ ~Busy(t)
                           /\ task' = [task EXCEPT ![t] = [IdleTask EXCEPT !.pc = "start", !.card = disp.card]]
    BY <1>8 DEF DispSpawn
  <2>3. /\ task'[t].card = disp.card /\ task'[t].pc = "start"
        /\ \A u \in Tasks \ {t} : task'[u] = task[u]
    BY <2>2 DEF IdleTask, RunInv, TypeInv, TypeOK
  <2>4. OneRunPerCard'
    BY <2>1, <2>3 DEF RunInv, OneRunPerCard, InFlight, Active, Busy
  <2>5. PickedIsFree'
    BY <1>8 DEF DispSpawn, PickedIsFree, Tick
  <2>6. PromotesNoQuestion'
    BY <1>8, <2>3 DEF DispSpawn, RunInv, PromotesNoQuestion
  <2> QED
    BY <1>1, <1>2, <2>4, <2>5, <2>6 DEF RunInv
<1> QED
  BY <1>5, <1>6, <1>7, <1>8 DEF Dispatcher

LEMMA SweeperKeepsInv ==
  ASSUME RunInv, Sweeper
  PROVE  RunInv'
<1>1. TypeInv' /\ UNCHANGED <<task, disp, up>>
  BY SweeperTypes DEF RunInv, Sweeper, SweepCollect, SweepRequeue, SweepList, SweepLook, SweepReap,
                      SweepCheck, SweepReopen, SweepProbe, SweepBounce, OnlySweep, SweepAndBoard
<1>2. OneRunPerCard' /\ Active' = Active /\ PickedIsFree' /\ BootComesFirst'
  BY <1>1 DEF RunInv, OneRunPerCard, InFlight, Active, Busy, PickedIsFree, BootComesFirst
<1>3. SweepReopen => \A c \in Cards : card'[c] \in {card[c], Reopened(card[c])}
  BY DEF SweepReopen, Put, Board, RunInv, TypeInv, TypeOK
<1>4. \A c \in Cards : /\ card'[c].env \in {card[c].env, NoEnv}
                       /\ card'[c].state = "NeedsHuman" => card[c].state = "NeedsHuman"
  <2>1. CASE SweepReopen
    BY <2>1, <1>3, ClaimKeeps DEF RunInv, TypeInv, TypeOK
  <2>2. CASE ~SweepReopen
    BY <2>2, SweeperTame DEF RunInv, TameStep, Tame
  <2> QED
    BY <2>1, <2>2
<1>5. PromotesNoQuestion'
  BY <1>1, <1>4 DEF RunInv, TypeInv, Wired, Busy, PromotesNoQuestion
<1>a. /\ sweep \in Sweep
      /\ sweep.pc \in {"reap", "check", "reopen", "past", "probe", "bounce"} =>
           sweep.at \in Spots /\ sweep.at[1] \in Cards
      /\ \A s \in sweep.adopt : s \in Spots /\ s[1] \in Cards
  BY DEF RunInv, TypeInv, TypeOK, Wired, Sweep, Spots
<1>b. ~up => \A s \in sweep.adopt : s[1] \notin Active
  BY DEF RunInv, BootAdoptions
<1> DEFINE InHand == {"check", "reopen", "past", "probe", "bounce"}
<1>6. ReopensAtBoot' /\ BootScan' /\ BootAdoptions'
  <2>a. ASSUME sweep'.pc = "scan", sweep'.plan = "none", sweep'.adopt = sweep.adopt
        PROVE  ReopensAtBoot' /\ BootAdoptions'
    BY <2>a, <1>1, <1>2 DEF RunInv, ReopensAtBoot, BootAdoptions
  <2>b. ASSUME Scanning, sweep'.adopt = sweep.adopt,
               sweep'.pc \in InHand => sweep.pc \in InHand /\ sweep'.at = sweep.at
        PROVE  BootScan'
    BY <2>b, <1>1, <1>2, <1>4, <1>a DEF RunInv, BootScan, Busy
  <2>c. ASSUME sweep' = Onward, Scanning
        PROVE  ReopensAtBoot' /\ BootScan' /\ BootAdoptions'
    BY <2>a, <2>b, <2>c, <1>a, OnwardType
  <2>d. ASSUME sweep'.adopt = {}, sweep'.plan = "none", sweep'.pc \notin InHand,
               ~up => Scanning
        PROVE  ReopensAtBoot' /\ BootScan' /\ BootAdoptions'
    BY <2>d, <1>1, <1>2 DEF RunInv, BootScan, Busy, ReopensAtBoot, BootAdoptions
  <2>1. CASE SweepCollect
    <3>1. sweep'.adopt = {} /\ sweep'.plan = "none" /\ sweep'.pc = "requeue" /\ up
      BY <2>1 DEF SweepCollect, Pass
    <3> QED
      BY <3>1, <2>d
  <2>2. CASE SweepRequeue
    <3>1. /\ sweep'.adopt = {} /\ sweep'.plan = sweep.plan /\ sweep'.pc = "requeue" /\ Scanning
          /\ sweep.adopt = {}
      BY <2>2, <1>a DEF SweepRequeue, Sweeping, Sweep, Scanning, RunInv, ReopensAtBoot
    <3>2. BootScan'
      BY <3>1, <2>b
    <3> QED
      BY <3>1, <3>2, <1>1 DEF RunInv, ReopensAtBoot, BootAdoptions
  <2>3. CASE SweepList
    <3>1. sweep'.adopt = {} /\ sweep'.plan = "none" /\ sweep'.pc = "scan" /\ Scanning
      BY <2>3 DEF SweepList, Sweeping, Scanning, Pass
    <3> QED
      BY <3>1, <2>d
  <2>4. CASE SweepLook
    <3>1. PICK s \in sweep.spots, plan \in {"none", "reopen", "past", "probe"} :
            /\ plan # "none" => Mine(s)
            /\ plan = "reopen" => ~up
            /\ sweep' = IF Keep(card[s[1]]) /\ plan = "none" THEN [sweep EXCEPT !.spots = @ \ {s}]
                        ELSE [sweep EXCEPT !.spots = @ \ {s}, !.at = s, !.plan = plan,
                                           !.pc = IF Keep(card[s[1]]) THEN "check" ELSE "reap"]
      BY <2>4 DEF SweepLook
    <3>2. s \in Spots /\ s[1] \in Cards /\ s[2] \in Names /\ Scanning /\ sweep.pc = "scan" /\ sweep.plan \in {"none", "reopen", "past", "probe"}
      BY <2>4, <3>1, <1>a DEF SweepLook, Sweeping, Scanning, Sweep, Spots
    <3>3. CASE Keep(card[s[1]]) /\ plan = "none"
      <4>1. sweep'.adopt = sweep.adopt /\ sweep'.plan = sweep.plan /\ sweep'.pc = "scan"
        BY <3>1, <3>2, <3>3, <1>a DEF Sweep
      <4>2. BootScan'
        BY <3>2, <4>1, <2>b
      <4> QED
        BY <4>1, <4>2, <1>1, <1>2 DEF RunInv, ReopensAtBoot, BootAdoptions
    <3>4. CASE ~(Keep(card[s[1]]) /\ plan = "none")
      <4>1. /\ sweep'.adopt = sweep.adopt /\ sweep'.plan = plan /\ sweep'.at = s
            /\ sweep'.pc \in {"check", "reap"} /\ (sweep'.pc = "check" => plan # "none")
        BY <3>1, <3>4, <1>a DEF Sweep
      <4>2. ReopensAtBoot' /\ BootAdoptions'
        BY <3>1, <4>1, <1>1, <1>2 DEF RunInv, ReopensAtBoot, BootAdoptions
      <4>3. ASSUME ~up, sweep'.pc = "check" PROVE \A u \in sweep.adopt : u[1] = s[1] => u = s
        <5>1. card[s[1]].env = s[2] /\ s[2] # NoEnv
          BY <3>1, <3>2, <4>1, <4>3, MaxAttemptsAssumption DEF Mine, Names, NoEnv
        <5>2. \A u \in sweep.adopt : card[u[1]].env \in {u[2], NoEnv} /\ u \in Cards \X Names
          BY <3>2, <4>3, <1>a DEF RunInv, BootScan, Spots
        <5>3. s \in Cards \X Names
          BY <3>2 DEF Spots
        <5> QED
          BY <5>1, <5>2, <5>3
      <4>4. BootScan'
        <5>1. sweep'.pc = "check" => card[s[1]].env = s[2]
          BY <3>1, <4>1 DEF Mine
        <5> QED
          BY <3>2, <4>1, <4>3, <5>1, <1>1, <1>2, <1>4, <1>a DEF RunInv, BootScan, Scanning, Busy
      <4> QED
        BY <4>2, <4>4
    <3> QED
      BY <3>3, <3>4
  <2>5. CASE SweepReap \/ SweepBounce
    BY <2>5, <2>c DEF SweepReap, SweepBounce, Sweeping, Scanning
  <2>6. CASE SweepCheck
    <3>1. Scanning
      BY <2>6 DEF SweepCheck, Sweeping, Scanning
    <3>2. CASE sweep' = Onward
      BY <3>1, <3>2, <2>c
    <3>3. CASE sweep' = [sweep EXCEPT !.pc = sweep.plan, !.plan = "none"]
      <4>1. /\ sweep'.adopt = sweep.adopt /\ sweep'.at = sweep.at /\ sweep'.plan = "none"
            /\ sweep'.pc = sweep.plan /\ sweep.plan \in {"reopen", "past", "probe"}
        BY <2>6, <3>3, <1>a DEF SweepCheck, Sweeping, Sweep, RunInv, TypeInv, Wired
      <4>2. BootScan'
        BY <2>6, <3>1, <4>1, <2>b DEF SweepCheck, Sweeping
      <4> QED
        BY <4>1, <4>2, <1>1, <1>2 DEF RunInv, ReopensAtBoot, BootAdoptions
    <3> QED
      BY <2>6, <3>2, <3>3 DEF SweepCheck
  <2>7. CASE SweepReopen
    <3>1. Scanning
      BY <2>7 DEF SweepReopen, Sweeping, Scanning
    <3>2. CASE sweep' = Onward
      BY <3>1, <3>2, <2>c
    <3>3. CASE sweep' = [sweep EXCEPT !.pc = "probe"]
      <4>1. /\ sweep'.adopt = sweep.adopt /\ sweep'.at = sweep.at /\ sweep'.plan = sweep.plan
            /\ sweep'.pc = "probe"
        BY <3>3, <1>a DEF Sweep
      <4>2. BootScan'
        BY <2>7, <3>1, <4>1, <2>b DEF SweepReopen, Sweeping
      <4> QED
        BY <4>1, <4>2, <1>1, <1>2 DEF RunInv, ReopensAtBoot, BootAdoptions
    <3> QED
      BY <2>7, <3>2, <3>3 DEF SweepReopen
  <2>8. CASE SweepProbe
    <3>1. Scanning /\ sweep.pc = "probe" /\ sweep.at \in Spots
      BY <2>8, <1>a DEF SweepProbe, Sweeping, Scanning
    <3>2. CASE sweep' = Onward
      BY <3>1, <3>2, <2>c
    <3>3. CASE ~up /\ sweep' = [Onward EXCEPT !.adopt = @ \cup {sweep.at}]
      <4>1. /\ sweep'.adopt = sweep.adopt \cup {sweep.at} /\ sweep'.pc = "scan" /\ sweep'.plan = "none"
        BY <3>3, <1>a, OnwardType DEF Sweep
      <4>2. /\ \A s \in sweep.adopt : card[s[1]].env \in {s[2], NoEnv}
            /\ card[sweep.at[1]].env \in {sweep.at[2], NoEnv}
            /\ \A s \in sweep.adopt : s[1] = sweep.at[1] => s = sweep.at
            /\ \A t \in Tasks : ~Busy(t)
        BY <3>1, <3>3 DEF RunInv, BootScan
      <4>3. BootScan'
        BY <3>1, <4>1, <4>2, <1>1, <1>4, <1>a DEF BootScan, Busy
      <4>4. BootAdoptions'
        BY <3>3, <4>1, <4>2, <1>1, <1>2 DEF RunInv, BootAdoptions, Active, InFlight
      <4> QED
        BY <4>1, <4>3, <4>4 DEF ReopensAtBoot
    <3>4. CASE sweep' = [sweep EXCEPT !.pc = "bounce"]
      <4>1. /\ sweep'.adopt = sweep.adopt /\ sweep'.at = sweep.at /\ sweep'.plan = sweep.plan
            /\ sweep'.pc = "bounce"
        BY <3>4, <1>a DEF Sweep
      <4>2. BootScan'
        BY <3>1, <4>1, <2>b
      <4> QED
        BY <4>1, <4>2, <1>1, <1>2 DEF RunInv, ReopensAtBoot, BootAdoptions
    <3> QED
      BY <2>8, <3>2, <3>3, <3>4 DEF SweepProbe
  <2> QED
    BY <2>1, <2>2, <2>3, <2>4, <2>5, <2>6, <2>7, <2>8 DEF Sweeper
<1> QED
  BY <1>1, <1>2, <1>5, <1>6 DEF RunInv

LEMMA BootKeepsInv ==
  ASSUME RunInv, Boot \/ Crash
  PROVE  RunInv'
<1>0. TypeInv'
  BY BootTypes DEF RunInv
<1>1. CASE BootAdopt
  <2>1. PICK s \in sweep.adopt, t \in Tasks :
          /\ ~Busy(t)
          /\ task' = [task EXCEPT ![t] = [IdleTask EXCEPT !.pc = "adopted", !.card = s[1], !.name = s[2]]]
          /\ sweep' = [sweep EXCEPT !.adopt = @ \ {s}]
    BY <1>1 DEF BootAdopt
  <2>2. /\ ~up /\ sweep.pc = "scan" /\ sweep.spots = {} /\ UNCHANGED <<card, disp, up>>
        /\ disp.pc = "tick"
    BY <1>1 DEF BootAdopt, Sweeping, RunInv, BootComesFirst
  <2>3. /\ task'[t].card = s[1] /\ task'[t].pc = "adopted"
        /\ \A u \in Tasks \ {t} : task'[u] = task[u]
    BY <2>1 DEF IdleTask, RunInv, TypeInv, TypeOK
  <2>4. sweep'.pc = "scan" /\ sweep'.spots = {} /\ sweep'.plan = sweep.plan /\ sweep'.adopt = sweep.adopt \ {s}
    BY <2>1, <2>2 DEF RunInv, TypeInv, TypeOK, Sweep
  <2>5. s[1] \notin Active
    BY <2>1, <2>2 DEF RunInv, BootAdoptions
  <2>6. OneRunPerCard'
    BY <2>3, <2>5 DEF RunInv, OneRunPerCard, InFlight, Active, Busy
  <2>7. Active' \subseteq Active \cup {s[1]}
    BY <2>3 DEF Active, InFlight, Busy
  <2>8. BootAdoptions'
    BY <2>1, <2>2, <2>4, <2>7 DEF RunInv, BootAdoptions
  <2>9. PromotesNoQuestion'
    BY <2>2, <2>3 DEF RunInv, PromotesNoQuestion
  <2>10. PickedIsFree' /\ BootComesFirst' /\ BootScan' /\ ReopensAtBoot'
    BY <2>2, <2>4 DEF RunInv, PickedIsFree, BootComesFirst, BootScan, Scanning, ReopensAtBoot
  <2> QED
    BY <1>0, <2>6, <2>8, <2>9, <2>10 DEF RunInv
<1>2. CASE BootDone \/ BootBlind
  <2>1. up' /\ sweep'.pc = "scan" /\ sweep'.plan = "none" /\ UNCHANGED <<card, task, disp>> /\ ~up
    BY <1>2 DEF BootDone, BootBlind, Pass
  <2>2. OneRunPerCard' /\ PickedIsFree' /\ PromotesNoQuestion'
    BY <2>1 DEF RunInv, OneRunPerCard, InFlight, Active, Busy, PickedIsFree, BootComesFirst,
                PromotesNoQuestion
  <2>3. BootComesFirst' /\ BootScan' /\ BootAdoptions' /\ ReopensAtBoot'
    BY <2>1 DEF BootComesFirst, BootScan, BootAdoptions, ReopensAtBoot
  <2> QED
    BY <1>0, <2>2, <2>3 DEF RunInv
<1>3. CASE Crash
  <2>1. /\ \A t \in Tasks : task'[t].pc = "idle"
        /\ disp'.pc = "tick" /\ sweep'.pc = "requeue" /\ sweep'.plan = "none" /\ sweep'.adopt = {}
        /\ ~up'
    BY <1>3 DEF Crash, IdleTask, Tick, Pass
  <2>2. OneRunPerCard' /\ PickedIsFree' /\ PromotesNoQuestion'
    BY <2>1 DEF OneRunPerCard, InFlight, Busy, PickedIsFree, PromotesNoQuestion
  <2>3. BootComesFirst' /\ BootScan' /\ BootAdoptions' /\ ReopensAtBoot'
    BY <2>1 DEF BootComesFirst, BootScan, BootAdoptions, ReopensAtBoot, Busy
  <2> QED
    BY <1>0, <2>2, <2>3 DEF RunInv
<1> QED
  BY <1>1, <1>2, <1>3 DEF Boot

LEMMA NextInv == RunInv /\ [Next]_vars => RunInv'
<1> SUFFICES ASSUME RunInv, [Next]_vars PROVE RunInv'
  OBVIOUS
<1>1. CASE UNCHANGED vars
  <2>1. TypeInv'
    BY <1>1, NextTypes DEF RunInv
  <2>2. TameStep
    BY <1>1, SameTame DEF vars, RunInv
  <2> QED
    BY <1>1, <2>1, <2>2, TameKeepsInv DEF vars
<1>2. CASE Next
  BY <1>2, DispatcherKeepsInv, RunKeepsInv, SweeperKeepsInv, BootKeepsInv, OthersKeepInv
  DEF Next, RunStep
<1> QED
  BY <1>1, <1>2

LEMMA InvHolds == Spec => []RunInv
  BY InitInv, NextInv, PTL DEF Spec

-------------------------------------------------------------------------------
(* The dispatcher, the sweeper and start-up never put two runs on one card: the check *)
(* against Active, the claim and the spawn are separate sections, and what is read in  *)
(* the first still holds in the last.                                                   *)
THEOREM OneRun == Spec => []OneRunPerCard
<1>1. RunInv => OneRunPerCard
  BY DEF RunInv
<1> QED
  BY <1>1, InvHolds, PTL

(* Only a claim and a start-up reopening make a card held, and both are of a card      *)
(* without a run.                                                                       *)
LEMMA ReclaimStep ==
  RunInv /\ [Next]_vars =>
    \A c \in Active : card[c].state \notin Held => card'[c].state \notin Held
<1> SUFFICES ASSUME RunInv, [Next]_vars, NEW c \in Active, card'[c].state \in Held
             PROVE  card[c].state \in Held
  OBVIOUS
<1>1. c \in Cards
  BY DEF RunInv, TypeInv, Wired, Active, InFlight
<1>2. TameStep => card[c].state \in Held
  BY <1>1 DEF TameStep, Tame
<1>3. card' = card => card[c].state \in Held
  OBVIOUS
<1>4. ASSUME NEW t \in Tasks, RunStep(t) PROVE card[c].state \in Held
  BY <1>1, <1>4, RunHolds DEF RunInv
<1>5. CASE Operator \/ Unfinished \/ World
  BY <1>2, <1>5, OperatorTame, WorldTame DEF RunInv
<1>6. CASE Boot \/ Crash \/ UNCHANGED vars
  BY <1>3, <1>6 DEF Boot, BootAdopt, BootDone, BootBlind, Crash, vars
<1>7. CASE Sweeper
  <2>1. CASE SweepReopen
    <3>1. sweep.pc = "reopen"
      BY <2>1 DEF SweepReopen, Sweeping
    <3>2. ~up /\ Scanning
      BY <3>1 DEF RunInv, ReopensAtBoot, Scanning
    <3>3. Active = {}
      BY <3>2 DEF RunInv, BootScan, Active, InFlight
    <3> QED
      BY <3>3
  <2>2. CASE ~SweepReopen
    BY <1>2, <1>7, <2>2, SweeperTame DEF RunInv
  <2> QED
    BY <2>1, <2>2
<1>8. CASE Dispatcher
  <2>1. CASE DispClaim
    <3>1. disp.card # c /\ disp.card \in Cards
      BY <2>1 DEF DispClaim, RunInv, TypeInv, Wired, PickedIsFree
    <3>2. card'[c] = card[c]
      BY <1>1, <2>1, <3>1 DEF DispClaim, Put, Board, RunInv, TypeInv, TypeOK
    <3> QED
      BY <3>2
  <2>2. CASE DispTick
    <3>1. card'[c].state = card[c].state
      BY <1>1, <2>2, TouchKeeps DEF DispTick, RunInv, TypeInv, TypeOK
    <3> QED
      BY <3>1
  <2>3. CASE DispPick \/ DispSpawn
    BY <1>3, <2>3 DEF DispPick, DispSpawn
  <2> QED
    BY <1>8, <2>1, <2>2, <2>3 DEF Dispatcher
<1> QED
  BY <1>4, <1>5, <1>6, <1>7, <1>8 DEF Next, RunStep

(* A card taken from its run - halted, parked, cut, expired - is not handed out again  *)
(* before that run is over, whatever the operator and the sweeper do meanwhile.         *)
THEOREM ReclaimSafe == Spec => ReclaimAfterWindDown
  BY InvHolds, ReclaimStep, PTL DEF Spec, ReclaimAfterWindDown

-------------------------------------------------------------------------------
(* Deadlines, where nobody unarchives. *)

LEMMA LeaseInit == Init => NoUnlease /\ HeldHasDeadline
  BY DEF Init, NoUnlease, HeldHasDeadline, NewCard, Held

LEMMA LeaseNext ==
  ASSUME "unarchive" \notin Verbs
  PROVE  LeaseInv /\ [Next]_vars => NoUnlease' /\ HeldHasDeadline'
<1> SUFFICES ASSUME LeaseInv, [Next]_vars PROVE NoUnlease' /\ HeldHasDeadline'
  OBVIOUS
<1>0. RunInv /\ TypeInv /\ NoUnlease /\ HeldHasDeadline
  BY DEF LeaseInv, RunInv
<1>a. ASSUME LeaseStep, \A c \in Cards : card'[c].state \in Held => card[c].state \in Held
      PROVE  HeldHasDeadline'
  BY <1>0, <1>a DEF LeaseStep, Leased, HeldHasDeadline
<1>b. TameStep /\ LeaseStep => HeldHasDeadline'
  BY <1>a DEF TameStep, Tame
<1>1. ASSUME NEW t \in Tasks, RunStep(t) PROVE NoUnlease' /\ HeldHasDeadline'
  <2>1. calls' = calls
    BY <1>1 DEF RunStep, Run, RunStart, RunRouted, RunUncovered, RunAsk, RunPlead,
         RunReuse, RunCold, RunBind, RunName, RunMake, RunUnmade, RunBeat, RunArm, RunBroken, RunCancelled,
         RunHear, RunStreamEnds, RunStreamBreaks, RunVerdict, RunNoVerdict, RunDeliver, RunRefused,
         RunStop, RunSettle, RunCount, RunPromote, RunRequeue, OnlyTask, TaskAndBoard, TaskAndBox
  <2>2. HeldHasDeadline'
    BY <1>0, <1>1, <1>a, RunHolds DEF RunInv
  <2> QED
    BY <1>0, <2>1, <2>2 DEF NoUnlease
<1>2. CASE Operator
  <2> DEFINE Owes ==
        \E verb \in {"hold", "queue", "halt", "answer", "changes", "feedback", "merged"},
           c \in Cards, n \in Names \cup {NoEnv} : Later(verb, c, n)
  <2>1. calls' # calls => Owes
    <3>1. NoEnv \in Names \cup {NoEnv} /\ \A c \in Cards : card[c].env \in Names \cup {NoEnv}
      BY <1>0 DEF TypeInv, TypeOK, Card
    <3>2. CASE SetAuto \/ \E c \in Cards : \/ Dispatch(c) \/ Steer(c) \/ Cut(c) \/ Unarchive(c)
                                           \/ \E to \in States : Move(c, to)
      BY <3>2 DEF SetAuto, Dispatch, Steer, Cut, Unarchive, Move, OnlyBoard, Happens
    <3>3. ASSUME NEW c \in Cards, Park(c) \/ Unpark(c) \/ Halt(c) PROVE Owes
      BY <3>1, <3>3 DEF Park, Unpark, Halt
    <3>4. ASSUME NEW c \in Cards, Answer(c) \/ RequestChanges(c) \/ Feedback(c) \/ Merged(c)
          PROVE  Owes
      BY <3>1, <3>4 DEF Answer, RequestChanges, Feedback, Merged
    <3> QED
      BY <1>2, <3>2, <3>3, <3>4 DEF Operator
  <2>2. NoUnlease'
    BY <1>0, <2>1 DEF Later, NoUnlease
  <2> QED
    BY <1>0, <1>2, <2>2, <1>b, OperatorTame
<1>3. CASE Unfinished
  <2>1. NoUnlease'
    <3>1. PICK k \in calls : calls' = calls \ {k} \/ calls' = (calls \ {k}) \cup {[k EXCEPT !.verb = "defer"]}
      BY <1>3 DEF Unfinished, CarryOn
    <3>2. [k EXCEPT !.verb = "defer"].verb # "unlease"
      BY <1>0 DEF TypeInv, TypeOK, Call
    <3> QED
      BY <1>0, <3>1, <3>2 DEF NoUnlease
  <2> QED
    BY <1>0, <1>3, <2>1, <1>b, OperatorTame
<1>4. CASE World
  <2>1. calls' = calls
    BY <1>4 DEF World, CoolDown, DeleteLands, Expire, AgentExits, BoxDies, OnlyBoard, OnlyBox
  <2> QED
    BY <1>0, <1>4, <2>1, <1>b, WorldTame DEF NoUnlease
<1>5. CASE Boot \/ Crash \/ UNCHANGED vars
  BY <1>0, <1>5 DEF Boot, BootAdopt, BootDone, BootBlind, Crash, vars, NoUnlease, HeldHasDeadline
<1>6. CASE Sweeper
  <2>1. calls' = calls
    BY <1>6 DEF Sweeper, SweepCollect, SweepRequeue, SweepList, SweepLook, SweepReap,
                SweepCheck, SweepReopen, SweepProbe, SweepBounce, OnlySweep, SweepAndBoard
  <2>2. CASE SweepReopen
    <3>1. \A c \in Cards : card'[c] \in {card[c], Reopened(card[c])}
      BY <1>0, <2>2 DEF SweepReopen, Put, Board, TypeInv, TypeOK
    <3>2. HeldHasDeadline'
      BY <1>0, <3>1, ClaimKeeps DEF HeldHasDeadline, TypeInv, TypeOK
    <3> QED
      BY <1>0, <2>1, <3>2 DEF NoUnlease
  <2>3. CASE ~SweepReopen
    BY <1>0, <1>6, <2>1, <2>3, <1>b, SweeperTame DEF NoUnlease
  <2> QED
    BY <2>2, <2>3
<1>7. CASE Dispatcher
  <2>1. calls' = calls
    BY <1>7 DEF Dispatcher, DispTick, DispPick, DispClaim, DispSpawn
  <2>2. \A c \in Cards : card'[c] \in {card[c], Enqueued(card[c]), Claimed(card[c])}
    <3>1. card \in [Cards -> Card]
      BY <1>0 DEF TypeInv, TypeOK
    <3>2. CASE DispTick
      BY <3>2 DEF DispTick
    <3>3. CASE DispPick \/ DispSpawn
      BY <3>3 DEF DispPick, DispSpawn
    <3>4. CASE DispClaim
      BY <3>1, <3>4 DEF DispClaim, Put, Board
    <3> QED
      BY <1>7, <3>2, <3>3, <3>4 DEF Dispatcher
  <2>3. HeldHasDeadline'
    <3>1. ASSUME NEW c \in Cards, card'[c].state \in Held PROVE card'[c].deadline # "none"
      <4>1. card[c] \in Card /\ (card[c].state \in Held => card[c].deadline # "none")
        BY <1>0 DEF HeldHasDeadline, TypeInv, TypeOK
      <4>2. CASE card'[c] = Claimed(card[c])
        BY <4>1, <4>2, ClaimKeeps
      <4>3. CASE card'[c] = card[c] \/ card'[c] = Enqueued(card[c])
        BY <3>1, <4>1, <4>3, TouchKeeps
      <4> QED
        BY <2>2, <4>2, <4>3
    <3> QED
      BY <3>1 DEF HeldHasDeadline
  <2> QED
    BY <1>0, <2>1, <2>3 DEF NoUnlease
<1> QED
  BY <1>1, <1>2, <1>3, <1>4, <1>5, <1>6, <1>7 DEF Next, RunStep

(* However it was claimed, adopted, promoted or retried, a card an agent holds has a  *)
(* deadline: the sweep can always end its run.  unarchive, whose second section wipes  *)
(* the lease of a card that was dispatched since its first, is the exception.            *)
THEOREM LeaseHolds ==
  ASSUME "unarchive" \notin Verbs
  PROVE  Spec => []HeldHasDeadline
<1>1. Init => LeaseInv
  BY InitInv, LeaseInit DEF LeaseInv
<1>2. LeaseInv /\ [Next]_vars => LeaseInv'
  BY NextInv, LeaseNext DEF LeaseInv
<1>3. LeaseInv => HeldHasDeadline
  BY DEF LeaseInv
<1> QED
  BY <1>1, <1>2, <1>3, PTL DEF Spec

-------------------------------------------------------------------------------
(* The refinement. *)

(* Between its check of max_concurrent and the spawn the dispatcher has room: runs  *)
(* only end meanwhile, since nothing else begins one once start-up is over.           *)
DispRoom == disp.pc # "tick" => up /\ Cardinality(InFlight) < MaxConcurrent

LeasedInv == RunInv /\ DispRoom

-------------------------------------------------------------------------------
(* Runs that only end leave no fewer free slots. *)
LEMMA FewerRuns ==
  ASSUME NoNewRun
  PROVE  /\ Cardinality(InFlight) \in Nat /\ Cardinality(InFlight') \in Nat
         /\ Cardinality(InFlight') <= Cardinality(InFlight)
<1>1. InFlight' \subseteq InFlight /\ InFlight \subseteq Tasks
  BY DEF NoNewRun, InFlight
<1>2. IsFiniteSet(InFlight) /\ IsFiniteSet(InFlight')
  BY <1>1, TasksAssumption, FS_Subset
<1> QED
  BY <1>1, <1>2, FS_Subset, FS_CardinalityType

LEMMA RoomKept ==
  ASSUME DispRoom, NoNewRun, UNCHANGED <<disp, up>>
  PROVE  DispRoom'
<1>1. Cardinality(InFlight') <= Cardinality(InFlight)
      /\ Cardinality(InFlight) \in Nat /\ Cardinality(InFlight') \in Nat
  BY FewerRuns
<1> QED
  BY <1>1, BoundsAssumption DEF DispRoom

(* The steps outside the run's own and the dispatcher's leave all runs alone, but for *)
(* start-up, which comes before the dispatcher, and for a crash.                        *)
LEMMA RoomNext == LeasedInv /\ [Next]_vars => DispRoom'
<1> SUFFICES ASSUME LeasedInv, [Next]_vars PROVE DispRoom'
  OBVIOUS
<1>0. RunInv /\ DispRoom
  BY DEF LeasedInv
<1>a. UNCHANGED task => NoNewRun
  BY DEF NoNewRun, Busy
<1>1. ASSUME NEW t \in Tasks, RunStep(t) PROVE DispRoom'
  <2>1. UNCHANGED <<disp, up>>
    BY <1>1 DEF RunStep, Run, RunStart, RunRouted, RunUncovered, RunAsk, RunPlead,
         RunReuse, RunCold, RunBind, RunName, RunMake, RunUnmade, RunBeat, RunArm, RunBroken, RunCancelled,
         RunHear, RunStreamEnds, RunStreamBreaks, RunVerdict, RunNoVerdict, RunDeliver, RunRefused,
         RunStop, RunSettle, RunCount, RunPromote, RunRequeue, OnlyTask, TaskAndBoard, TaskAndBox
  <2>2. NoNewRun
    BY <1>0, <1>1, RunKeepsTasks DEF NoNewRun, RunInv
  <2> QED
    BY <1>0, <2>1, <2>2, RoomKept
<1>2. CASE Operator \/ Unfinished
  <2>1. UNCHANGED <<task, disp, up>>
    BY <1>2 DEF Operator, SetAuto, Dispatch, Steer, Cut, Unarchive, Park, Unpark, Halt, Answer,
                RequestChanges, Feedback, Merged, Move, OnlyBoard, BoardAndCalls, Unfinished, CarryOn
  <2> QED
    BY <1>0, <1>a, <2>1, RoomKept
<1>3. CASE World
  <2>1. UNCHANGED <<task, disp, up>>
    BY <1>3 DEF World, CoolDown, DeleteLands, Expire, AgentExits, BoxDies, OnlyBoard, OnlyBox
  <2> QED
    BY <1>0, <1>a, <2>1, RoomKept
<1>4. CASE Sweeper \/ UNCHANGED vars
  <2>1. UNCHANGED <<task, disp, up>>
    BY <1>4 DEF Sweeper, SweepCollect, SweepRequeue, SweepList, SweepLook, SweepReap, SweepCheck,
                SweepReopen, SweepProbe, SweepBounce, OnlySweep, SweepAndBoard, vars
  <2> QED
    BY <1>0, <1>a, <2>1, RoomKept
<1>5. CASE Boot \/ Crash
  <2>1. disp'.pc = "tick"
    <3>1. CASE Boot
      BY <1>0, <3>1 DEF RunInv, BootComesFirst, Boot, BootAdopt, BootDone, BootBlind
    <3>2. CASE Crash
      BY <3>2 DEF Crash, Tick
    <3> QED
      BY <1>5, <3>1, <3>2
  <2> QED
    BY <2>1 DEF DispRoom
<1>6. CASE DispTick
  <2>1. up' /\ InFlight' = InFlight
    BY <1>6 DEF DispTick, InFlight, Busy
  <2> QED
    BY <1>6, <2>1 DEF DispTick, DispRoom
<1>7. CASE DispPick \/ DispClaim
  <2>1. up' = up /\ InFlight' = InFlight /\ disp.pc # "tick"
    BY <1>7 DEF DispPick, DispClaim, InFlight, Busy
  <2> QED
    BY <1>0, <2>1 DEF DispRoom
<1>8. CASE DispSpawn
  BY <1>8 DEF DispSpawn, Tick, DispRoom
<1> QED
  BY <1>1, <1>2, <1>3, <1>4, <1>5, <1>6, <1>7, <1>8 DEF Next, RunStep, Dispatcher

LEMMA LeasedHolds == Spec => []LeasedInv
<1>1. Init => LeasedInv
  BY InitInv DEF LeasedInv, DispRoom, Init, Tick
<1>2. LeasedInv /\ [Next]_vars => LeasedInv'
  BY NextInv, RoomNext DEF LeasedInv
<1> QED
  BY <1>1, <1>2, PTL DEF Spec

-------------------------------------------------------------------------------
(* What the steps of CardRuns amount to. *)

(* Leases counts runs with its own instance of FiniteSets. *)
LEMMA SameCard == \A S : L!Cardinality(S) = Cardinality(S)
  BY DEF L!Cardinality, Cardinality

LEMMA AbstractRuns ==
  ASSUME RunInv
  PROVE  /\ L!Room <=> (up => Cardinality(InFlight) < MaxConcurrent)
         /\ \A c \in Cards : L!Free(c) <=> c \notin Active
<1>1. \A t \in Tasks : Busy(t) => task[t].card \in Cards
  BY DEF RunInv, TypeInv, Wired
<1>2. \A t \in Tasks : WorksOn[t] = IF Busy(t) THEN task[t].card ELSE NoCard
  BY DEF WorksOn
<1>3. L!Runs = InFlight
  BY <1>1, <1>2, CardsAssumption DEF L!Runs, InFlight
<1> QED
  BY <1>1, <1>2, <1>3, CardsAssumption, SameCard DEF L!Room, L!Free, InFlight, Active

(* Cards are taken back, by any step that leaves the tasks alone. *)
LEMMA TakeStep ==
  ASSUME HeldCards' \subseteq HeldCards, UNCHANGED <<WorksOn, up>>
  PROVE  L!Next
  BY DEF L!Next, L!Take

LEMMA SameRuns == ASSUME UNCHANGED task PROVE UNCHANGED WorksOn
  BY DEF WorksOn, Busy

LEMMA TameTakes ==
  ASSUME TameStep
  PROVE  HeldCards' \subseteq HeldCards
  BY DEF TameStep, Tame, HeldCards

(* A card without a run becomes held. *)
LEMMA HandStep ==
  ASSUME RunInv, NEW c \in Cards, NEW r, c \notin Active, card[c].state = "Backlog",
         r.state = "Claimed", Put(c, r), up => Cardinality(InFlight) < MaxConcurrent,
         UNCHANGED <<task, up>>
  PROVE  L!Next
<1>1. \A d \in Cards : card'[d] = IF d = c THEN r ELSE card[d]
  BY DEF Put, RunInv, TypeInv, TypeOK
<1>2. c \notin HeldCards /\ HeldCards' = HeldCards \cup {c}
  BY <1>1 DEF HeldCards, Held
<1>3. L!Hand(c)
  BY <1>2, AbstractRuns, SameRuns DEF L!Hand
<1> QED
  BY <1>3 DEF L!Next

(* A run begins on a card without one. *)
LEMMA BeginStep ==
  ASSUME RunInv, NEW t \in Tasks, NEW c \in Cards, NEW r, c \notin Active, ~Busy(t),
         r.card = c, r.pc # "idle", task' = [task EXCEPT ![t] = r],
         up => Cardinality(InFlight) < MaxConcurrent, UNCHANGED <<card, up>>
  PROVE  L!Next
<1>1. \A u \in Tasks : task'[u] = IF u = t THEN r ELSE task[u]
  BY DEF RunInv, TypeInv, TypeOK
<1>2. WorksOn' = [WorksOn EXCEPT ![t] = c] /\ WorksOn[t] = NoCard
  <2>1. Busy(t)' /\ task'[t].card = c /\ ~Busy(t)
    BY <1>1 DEF Busy
  <2>2. \A u \in Tasks \ {t} : Busy(u)' = Busy(u) /\ task'[u] = task[u]
    BY <1>1 DEF Busy
  <2>3. \A u \in Tasks : WorksOn'[u] = [WorksOn EXCEPT ![t] = c][u]
    BY <2>1, <2>2 DEF WorksOn
  <2> QED
    BY <2>1, <2>3 DEF WorksOn
<1>3. UNCHANGED HeldCards
  BY DEF HeldCards
<1>4. L!Begin(t, c)
  BY <1>2, <1>3, AbstractRuns DEF L!Begin
<1> QED
  BY <1>4 DEF L!Next

(* A step of a run takes its own card back, or ends the run, or neither. *)
LEMMA RunRefines ==
  ASSUME RunInv, NEW t \in Tasks, RunStep(t)
  PROVE  L!Next
<1> DEFINE c == task[t].card
<1>1. Busy(t) /\ c \in Cards
  BY RunIsBusy DEF RunInv
<1>2. up' = up
  BY DEF RunStep, Run, RunStart, RunRouted, RunUncovered, RunAsk, RunPlead,
         RunReuse, RunCold, RunBind, RunName, RunMake, RunUnmade, RunBeat, RunArm, RunBroken, RunCancelled,
         RunHear, RunStreamEnds, RunStreamBreaks, RunVerdict, RunNoVerdict, RunDeliver, RunRefused,
         RunStop, RunSettle, RunCount, RunPromote, RunRequeue, OnlyTask, TaskAndBoard, TaskAndBox
<1>3. /\ \A d \in Cards : d # c => card'[d] = card[d]
      /\ \A d \in Cards : card'[d].state \in Held => card[d].state \in Held
  BY RunHolds DEF RunInv
<1>4. HeldCards' \in {HeldCards, HeldCards \ {c}}
  BY <1>1, <1>3 DEF HeldCards
<1>5. /\ \A u \in Tasks \ {t} : task'[u] = task[u]
      /\ Busy(t)' => task'[t].card = c
  BY RunKeepsTasks DEF RunInv
<1>6. CASE Busy(t)'
  <2>1. UNCHANGED WorksOn
    BY <1>1, <1>5, <1>6 DEF WorksOn, Busy
  <2> QED
    BY <1>2, <1>4, <2>1, TakeStep
<1>7. CASE ~Busy(t)'
  <2>1. WorksOn' = [WorksOn EXCEPT ![t] = NoCard] /\ WorksOn[t] = c
    BY <1>1, <1>5, <1>7 DEF WorksOn, Busy
  <2>2. L!Finish(t)
    BY <1>1, <1>2, <1>4, <2>1, CardsAssumption DEF L!Finish
  <2> QED
    BY <2>2 DEF L!Next
<1> QED
  BY <1>6, <1>7

LEMMA DispatcherRefines ==
  ASSUME LeasedInv, Dispatcher
  PROVE  [L!Next]_(L!vars)
<1>0. RunInv /\ DispRoom
  BY DEF LeasedInv
<1>1. CASE DispTick
  <2>1. \A c \in Cards : card'[c].state = card[c].state
    BY <1>0, <1>1, TouchKeeps DEF DispTick, RunInv, TypeInv, TypeOK
  <2>2. HeldCards' \subseteq HeldCards /\ UNCHANGED <<WorksOn, up>>
    BY <1>1, <2>1, SameRuns DEF HeldCards, DispTick
  <2> QED
    BY <2>2, TakeStep
<1>2. CASE DispPick
  BY <1>2, SameRuns DEF DispPick, L!vars, HeldCards
<1>3. CASE DispClaim
  <2>1. disp.card \in Cards /\ disp.card \notin Active /\ (up => Cardinality(InFlight) < MaxConcurrent)
    BY <1>0, <1>3 DEF DispClaim, RunInv, TypeInv, Wired, PickedIsFree, DispRoom
  <2>2. UNCHANGED <<task, up>>
    BY <1>3 DEF DispClaim
  <2>3. CASE CanClaim(card[disp.card]) /\ Put(disp.card, Claimed(card[disp.card]))
    <3>1. card[disp.card].state = "Backlog" /\ Claimed(card[disp.card]).state = "Claimed"
      BY <2>1, <2>3, <1>0, ClaimKeeps DEF CanClaim, Can, Check, Allowed, Edges, RunInv, TypeInv, TypeOK
    <3> QED
      BY <1>0, <2>1, <2>2, <2>3, <3>1, HandStep
  <2>4. CASE UNCHANGED Board
    BY <2>2, <2>4, SameRuns DEF Board, L!vars, HeldCards
  <2> QED
    BY <1>3, <2>3, <2>4 DEF DispClaim
<1>4. CASE DispSpawn
  <2>1. disp.card \in Cards /\ disp.card \notin Active /\ (up => Cardinality(InFlight) < MaxConcurrent)
    BY <1>0, <1>4 DEF DispSpawn, RunInv, TypeInv, Wired, PickedIsFree, DispRoom
  <2>2. PICK t \in Tasks : /\ ~Busy(t)
                           /\ task' = [task EXCEPT ![t] = [IdleTask EXCEPT !.pc = "start", !.card = disp.card]]
    BY <1>4 DEF DispSpawn
  <2> DEFINE r == [IdleTask EXCEPT !.pc = "start", !.card = disp.card]
  <2>3. r.card = disp.card /\ r.pc # "idle"
    BY DEF IdleTask
  <2>4. UNCHANGED <<card, up>>
    BY <1>4 DEF DispSpawn
  <2> HIDE DEF r
  <2> QED
    BY <1>0, <2>1, <2>2, <2>3, <2>4, BeginStep DEF r
<1> QED
  BY <1>1, <1>2, <1>3, <1>4 DEF Dispatcher

LEMMA SweeperRefines ==
  ASSUME RunInv, Sweeper
  PROVE  [L!Next]_(L!vars)
<1>1. UNCHANGED <<task, up>>
  BY DEF Sweeper, SweepCollect, SweepRequeue, SweepList, SweepLook, SweepReap, SweepCheck,
         SweepReopen, SweepProbe, SweepBounce, OnlySweep, SweepAndBoard
<1>2. CASE SweepReopen
  <2> DEFINE c == sweep.at[1]
  <2>1. ~up /\ Scanning /\ c \in Cards
    BY <1>2 DEF SweepReopen, Sweeping, RunInv, ReopensAtBoot, Scanning, TypeInv, Wired, Spots
  <2>2. c \notin Active
    BY <2>1 DEF RunInv, BootScan, Active, InFlight
  <2>3. CASE CanReopen(card[c]) /\ Put(c, Reopened(card[c]))
    <3>1. card[c].state = "Backlog" /\ Reopened(card[c]).state = "Claimed"
      BY <2>1, <2>3, ClaimKeeps DEF CanReopen, RunInv, TypeInv, TypeOK
    <3> QED
      BY <1>1, <2>1, <2>2, <2>3, <3>1, HandStep
  <2>4. CASE UNCHANGED Board
    BY <1>1, <2>4, SameRuns DEF Board, L!vars, HeldCards
  <2> QED
    BY <1>2, <2>3, <2>4 DEF SweepReopen
<1>3. CASE ~SweepReopen
  <2>1. HeldCards' \subseteq HeldCards
    BY <1>3, SweeperTame, TameTakes DEF RunInv
  <2> QED
    BY <1>1, <2>1, SameRuns, TakeStep
<1> QED
  BY <1>2, <1>3

LEMMA BootRefines ==
  ASSUME RunInv, Boot \/ Crash
  PROVE  L!Next
<1>1. CASE BootAdopt
  <2>1. PICK s \in sweep.adopt, t \in Tasks :
          /\ ~Busy(t)
          /\ task' = [task EXCEPT ![t] = [IdleTask EXCEPT !.pc = "adopted", !.card = s[1], !.name = s[2]]]
    BY <1>1 DEF BootAdopt
  <2> DEFINE r == [IdleTask EXCEPT !.pc = "adopted", !.card = s[1], !.name = s[2]]
  <2>2. r.card = s[1] /\ r.pc # "idle"
    BY DEF IdleTask
  <2>3. ~up /\ UNCHANGED <<card, up>>
    BY <1>1 DEF BootAdopt
  <2>4. s[1] \in Cards /\ s[1] \notin Active
    BY <2>1, <2>3 DEF RunInv, BootAdoptions, TypeInv, TypeOK, Sweep, Spots
  <2> HIDE DEF r
  <2> QED
    BY <2>1, <2>2, <2>3, <2>4, BeginStep DEF r
<1>2. CASE BootDone \/ BootBlind
  BY <1>2, SameRuns DEF BootDone, BootBlind, HeldCards, L!Next, L!Started
<1>3. CASE Crash
  <2>1. WorksOn' = [t \in Tasks |-> NoCard] /\ up' = FALSE /\ UNCHANGED HeldCards
    BY <1>3 DEF Crash, WorksOn, Busy, IdleTask, HeldCards
  <2> QED
    BY <2>1 DEF L!Next, L!Crash
<1> QED
  BY <1>1, <1>2, <1>3 DEF Boot

LEMMA OthersRefine ==
  ASSUME RunInv, Operator \/ Unfinished \/ World
  PROVE  L!Next
<1>1. HeldCards' \subseteq HeldCards
  BY OperatorTame, WorldTame, TameTakes DEF RunInv
<1>2. UNCHANGED <<task, up>>
  <2>1. CASE Operator \/ Unfinished
    BY <2>1 DEF Operator, SetAuto, Dispatch, Steer, Cut, Unarchive, Park, Unpark, Halt, Answer,
                RequestChanges, Feedback, Merged, Move, OnlyBoard, BoardAndCalls, Unfinished, CarryOn
  <2>2. CASE World
    BY <2>2 DEF World, CoolDown, DeleteLands, Expire, AgentExits, BoxDies, OnlyBoard, OnlyBox
  <2> QED
    BY <2>1, <2>2
<1> QED
  BY <1>1, <1>2, SameRuns, TakeStep

-------------------------------------------------------------------------------
(* Every behaviour of the dispatcher, the runs, the sweeper, start-up and the operator *)
(* is one Leases allows: a card is handed out only when nobody holds it and its last    *)
(* run is over, one run works on a card, and within max_concurrent.                      *)
THEOREM Refinement == Spec => ImplementsLeases
<1>1. Init => L!Init
  BY DEF Init, L!Init, HeldCards, WorksOn, Busy, IdleTask, NewCard, Held
<1>2. LeasedInv /\ [Next]_vars => [L!Next]_(L!vars)
  <2> SUFFICES ASSUME LeasedInv, [Next]_vars PROVE [L!Next]_(L!vars)
    OBVIOUS
  <2>1. CASE UNCHANGED vars
    BY <2>1, SameRuns DEF vars, L!vars, HeldCards
  <2>2. CASE Next
    BY <2>2, DispatcherRefines, RunRefines, SweeperRefines, BootRefines, OthersRefine
    DEF Next, RunStep, LeasedInv
  <2> QED
    BY <2>1, <2>2
<1> QED
  BY <1>1, <1>2, LeasedHolds, PTL DEF Spec, ImplementsLeases, L!Spec

-------------------------------------------------------------------------------
(* Where a run works: a session is only resumed in the sandbox it lives in, a *)
(* held card names the sandbox its run works in, and every way a run ends      *)
(* stops its agent.                                                            *)

(* Where a run's sandbox is the one it will start, watch or stop an agent in. *)
Located == {"probe", "make", "beat", "arm", "adopted", "watch", "finish", "ask", "plead",
            "deliver", "stop"}

(* The card's name for its sandbox can only be taken away under such a run, and under *)
(* what start-up has found worth adopting.                                             *)
RunInPlace ==
  \A t \in Tasks : task[t].pc \in Located => card[task[t].card].env \in {task[t].name, NoEnv}
AdoptInPlace ==
  ~up => \A s \in sweep.adopt : card[s[1]].env \in {s[2], NoEnv}

(* A session called lost under a name has no sandbox of that name to be found in. *)
LostIsGone ==
  \A c \in Cards :
    card[c].conv = "lost" /\ card[c].env # NoEnv => box[c][card[c].env].st # "up"

(* A new sandbox begins without a session. *)
CleanNames ==
  \A t \in Tasks : task[t].pc \in {"name", "make"} => card[task[t].card].conv = "none"

(* A run on its way into a sandbox knows of no session lost anywhere else. *)
SessionKnown ==
  \A t \in Tasks :
    /\ task[t].pc \in {"probe", "beat", "arm"} /\ task[t].name # NoEnv
    /\ card[task[t].card].conv = "lost"
    => card[task[t].card].env = task[t].name

SessionInv == RunInPlace /\ AdoptInPlace /\ LostIsGone /\ CleanNames /\ SessionKnown

-------------------------------------------------------------------------------
(* What each actor leaves alone. *)

LEMMA RunFrame ==
  ASSUME NEW t \in Tasks, RunStep(t)
  PROVE  UNCHANGED <<calls, sweep, up>>
  BY DEF RunStep, Run, RunStart, RunRouted, RunUncovered, RunAsk, RunPlead, RunReuse, RunCold,
         RunBind, RunName, RunMake, RunUnmade, RunBeat, RunArm, RunBroken, RunCancelled, RunHear,
         RunStreamEnds, RunStreamBreaks, RunVerdict, RunNoVerdict, RunDeliver, RunRefused, RunStop,
         RunSettle, RunCount, RunPromote, RunRequeue, OnlyTask, TaskAndBoard, TaskAndBox

LEMMA SweeperFrame == Sweeper => UNCHANGED <<task, calls, up>>
  BY DEF Sweeper, SweepCollect, SweepRequeue, SweepList, SweepLook, SweepReap, SweepCheck,
         SweepReopen, SweepProbe, SweepBounce, OnlySweep, SweepAndBoard

LEMMA OperatorFrame == Operator \/ Unfinished => UNCHANGED <<box, task, sweep, up>>
  BY DEF Operator, SetAuto, Dispatch, Steer, Cut, Unarchive, Park, Unpark, Halt, Answer,
         RequestChanges, Feedback, Merged, Move, OnlyBoard, BoardAndCalls, Unfinished, CarryOn

LEMMA WorldFrame == World => UNCHANGED <<task, calls, sweep, up>>
  BY DEF World, CoolDown, DeleteLands, Expire, AgentExits, BoxDies, OnlyBoard, OnlyBox

-------------------------------------------------------------------------------
(* What one section does to a card's session and to its sandbox's name. *)

Quiet(r, q) ==
  /\ q.env = r.env \/ (q.env = NoEnv /\ q.conv = "none")
  /\ q.conv \in {r.conv, "none"}

LEMMA QuietMoves ==
  ASSUME NEW r \in Card, NEW to \in States, NEW by
  PROVE  /\ Quiet(r, Moved(r, to, by)) /\ Quiet(r, Try(r, to, by))
         /\ to \notin Terminal => Moved(r, to, by).env = r.env /\ Try(r, to, by).env = r.env
<1>1. /\ Moved(r, to, by).conv = IF to \in Terminal THEN "none" ELSE r.conv
      /\ Moved(r, to, by).env = IF to \in Terminal THEN NoEnv ELSE r.env
  BY DEF Moved, Card
<1> QED
  BY <1>1 DEF Try, Quiet

LEMMA QuietTouches ==
  ASSUME NEW r \in Card
  PROVE  \A q \in {r, Enqueued(r), Steered(r), Asked(r), Emptied(r), Counted(r), Claimed(r),
                   Reopened(r), Beaten(r)} : Quiet(r, q)
<1>1. "Claimed" \in States /\ "Running" \in States
  BY DEF States
<1>2. \A by : Quiet(r, Moved(r, "Claimed", by)) /\ Quiet(r, Moved(r, "Running", by))
  BY <1>1, QuietMoves
<1>3. \A by : Moved(r, "Claimed", by) \in Card
  BY <1>1, MovedType
<1>4. Quiet(r, Claimed(r)) /\ Quiet(r, Reopened(r)) /\ Quiet(r, Beaten(r))
  BY <1>2, <1>3 DEF Claimed, Reopened, Beaten, Quiet, Card
<1>5. /\ Quiet(r, r) /\ Quiet(r, Enqueued(r)) /\ Quiet(r, Steered(r)) /\ Quiet(r, Asked(r))
      /\ Quiet(r, Emptied(r)) /\ Quiet(r, Counted(r))
  BY DEF Quiet, Enqueued, Steered, Asked, Emptied, Counted, Card
<1> QED
  BY <1>4, <1>5

LEMMA CarriedQuiet ==
  ASSUME NEW k \in Call, NEW r \in Card
  PROVE  Quiet(r, CarriedOut(k, r))
<1>1. "Backlog" \in States /\ "Done" \in States
  BY DEF States
<1>2. \A by : Quiet(r, Try(r, "Backlog", by)) /\ Quiet(r, Try(r, "Done", by))
  BY <1>1, QuietMoves
<1>3. Quiet(r, r) /\ Quiet(r, Enqueued(r))
  BY QuietTouches
<1>4. /\ Quiet(r, [r EXCEPT !.parked = TRUE])
      /\ Quiet(r, [r EXCEPT !.parked = TRUE, !.awaiting = FALSE])
      /\ Quiet(r, [r EXCEPT !.deadline = "none", !.awaiting = FALSE])
  BY DEF Quiet, Card
<1>5. k.verb \in {"hold", "queue", "halt", "answer", "defer", "changes", "feedback",
                  "merged", "unlease"}
  BY DEF Call
<1> QED
  BY <1>2, <1>3, <1>4, <1>5 DEF CarriedOut

-------------------------------------------------------------------------------
(* What everybody but a card's own run does to that card and its sandboxes. *)

Apart(c) ==
  /\ \/ Quiet(card[c], card'[c])
     \/ /\ card'[c].env = card[c].env /\ card[c].conv = "live" /\ card'[c].conv = "lost"
        /\ card[c].env # NoEnv /\ box'[c][card[c].env].st # "up"
  /\ \A n \in Names : box'[c][n].st = "up" => box[c][n].st = "up"

LEMMA PutApart ==
  ASSUME TypeInv, NEW c \in Cards, NEW q, Put(c, q), Quiet(card[c], q), box' = box
  PROVE  \A d \in Cards : Apart(d)
<1>1. \A d \in Cards : card'[d] = IF d = c THEN q ELSE card[d]
  BY DEF Put, TypeInv, TypeOK
<1>2. \A d \in Cards : Quiet(card[d], card[d])
  BY QuietTouches DEF TypeInv, TypeOK
<1> QED
  BY <1>1, <1>2 DEF Apart

LEMMA SameApart ==
  ASSUME TypeInv, card' = card,
         \A c \in Cards, n \in Names : box'[c][n].st = "up" => box[c][n].st = "up"
  PROVE  \A d \in Cards : Apart(d)
  BY QuietTouches DEF Apart, TypeInv, TypeOK

LEMMA BoxAt ==
  ASSUME TypeInv, NEW c \in Cards, NEW n, NEW b, SetBox(c, n, b)
  PROVE  \A d \in Cards, m \in Names :
           box'[d][m] = IF d = c /\ m = n THEN b ELSE box[d][m]
  BY DEF SetBox, TypeInv, TypeOK

LEMMA BereftKeeps ==
  ASSUME NEW r \in Card, NEW n
  PROVE  /\ Bereft(r, n).env = r.env /\ Bereft(r, n).state = r.state
         /\ Bereft(r, n).conv = IF r.env = n /\ r.conv = "live" THEN "lost" ELSE r.conv
  BY DEF Bereft, Card

LEMMA RemoveApart ==
  ASSUME TypeInv, NEW c \in Cards, NEW n \in Names, Remove(c, n)
  PROVE  \A d \in Cards : Apart(d)
<1>1. \A d \in Cards : card'[d] = IF d = c THEN Bereft(card[c], n) ELSE card[d]
  BY DEF Remove, Put, TypeInv, TypeOK
<1>2. \A d \in Cards, m \in Names : box'[d][m] = IF d = c /\ m = n THEN NoBox ELSE box[d][m]
  BY BoxAt DEF Remove
<1>3. \A d \in Cards : card[d] \in Card /\ Quiet(card[d], card[d])
  BY QuietTouches DEF TypeInv, TypeOK
<1>4. NoBox.st # "up"
  BY DEF NoBox
<1>5. /\ Bereft(card[c], n).env = card[c].env
      /\ Bereft(card[c], n).conv = IF card[c].env = n /\ card[c].conv = "live" THEN "lost"
                                   ELSE card[c].conv
  BY <1>3, BereftKeeps
<1>6. n # NoEnv
  BY MaxAttemptsAssumption DEF Names, NoEnv
<1>7. Apart(c)
  <2>1. CASE card[c].env = n /\ card[c].conv = "live"
    BY <1>1, <1>2, <1>4, <1>5, <1>6, <2>1 DEF Apart
  <2>2. CASE ~(card[c].env = n /\ card[c].conv = "live")
    BY <1>1, <1>2, <1>4, <1>5, <2>2 DEF Apart, Quiet
  <2> QED
    BY <2>1, <2>2
<1>8. \A d \in Cards : d # c => Apart(d)
  BY <1>1, <1>2, <1>3 DEF Apart
<1> QED
  BY <1>7, <1>8

LEMMA OperatorApart ==
  ASSUME TypeInv, Operator \/ Unfinished
  PROVE  \A d \in Cards : Apart(d)
<1>a. \A c \in Cards : card[c] \in Card
  BY DEF TypeInv, TypeOK
<1>m. ASSUME NEW c \in Cards, NEW to \in States, NEW by, Put(c, Moved(card[c], to, by)), box' = box
      PROVE  \A d \in Cards : Apart(d)
  BY <1>a, <1>m, QuietMoves, PutApart
<1>1. CASE SetAuto
  <2>1. \A c \in Cards : card'[c] \in {card[c], Enqueued(card[c]), [card[c] EXCEPT !.awaiting = FALSE]}
    BY <1>1 DEF SetAuto
  <2>2. \A c \in Cards : Quiet(card[c], [card[c] EXCEPT !.awaiting = FALSE])
    BY <1>a DEF Quiet, Card
  <2>3. \A c \in Cards : Quiet(card[c], card'[c])
    BY <1>a, <2>1, <2>2, QuietTouches
  <2> QED
    BY <1>1, <2>3 DEF SetAuto, Apart
<1>2. ASSUME NEW c \in Cards,
             Dispatch(c) \/ Steer(c) \/ Halt(c) \/ Answer(c) \/ RequestChanges(c) \/ Feedback(c)
      PROVE  \A d \in Cards : Apart(d)
  BY <1>a, <1>2, QuietTouches, PutApart
  DEF Dispatch, Steer, Halt, Answer, RequestChanges, Feedback, OnlyBoard, BoardAndCalls
<1>3. ASSUME NEW c \in Cards, NEW to \in States, Move(c, to) PROVE \A d \in Cards : Apart(d)
  BY <1>3, <1>m DEF Move
<1>4. ASSUME NEW c \in Cards, Cut(c) \/ Park(c) PROVE \A d \in Cards : Apart(d)
  <2>1. "Retired" \in States /\ "Backlog" \in States
    BY DEF States
  <2> QED
    BY <1>4, <2>1, <1>m DEF Cut, Park, BoardAndCalls
<1>5. ASSUME NEW c \in Cards, Unarchive(c) PROVE \A d \in Cards : Apart(d)
  <2>1. UnarchiveTarget(card[c].prior, FALSE, TRUE) \in States
    BY <1>a DEF UnarchiveTarget, Card, States
  <2> QED
    BY <1>5, <2>1, <1>m DEF Unarchive, BoardAndCalls
<1>6. ASSUME NEW c \in Cards, Unpark(c) PROVE \A d \in Cards : Apart(d)
  <2>1. Quiet(card[c], [card[c] EXCEPT !.parked = FALSE])
    BY <1>a DEF Quiet, Card
  <2> QED
    BY <1>6, <2>1, PutApart DEF Unpark, BoardAndCalls
<1>7. ASSUME NEW c \in Cards, Merged(c) PROVE \A d \in Cards : Apart(d)
  BY <1>7, SameApart DEF Merged, Board, BoardAndCalls
<1>8. ASSUME NEW k \in calls, CarryOn(k) PROVE \A d \in Cards : Apart(d)
  <2>1. k \in Call /\ k.card \in Cards
    BY DEF TypeInv, TypeOK, Call
  <2> QED
    BY <1>a, <1>8, <2>1, CarriedQuiet, PutApart DEF CarryOn
<1> QED
  BY <1>1, <1>2, <1>3, <1>4, <1>5, <1>6, <1>7, <1>8 DEF Operator, Unfinished

LEMMA WorldApart ==
  ASSUME TypeInv, World
  PROVE  \A d \in Cards : Apart(d)
<1>1. CASE CoolDown
  BY <1>1, SameApart DEF CoolDown
<1>2. ASSUME NEW s \in deletes, DeleteLands(s) PROVE \A d \in Cards : Apart(d)
  BY <1>2, RemoveApart DEF DeleteLands, TypeInv, TypeOK, Spots
<1>3. ASSUME NEW c \in Cards, Expire(c) PROVE \A d \in Cards : Apart(d)
  <2>1. Quiet(card[c], [card[c] EXCEPT !.deadline = "past"])
    BY DEF TypeInv, TypeOK, Quiet, Card
  <2> QED
    BY <1>3, <2>1, PutApart DEF Expire, OnlyBoard
<1>4. ASSUME NEW c \in Cards, NEW n \in Names, AgentExits(c, n) \/ BoxDies(c, n)
      PROVE  \A d \in Cards : Apart(d)
  <2>1. box[c][n].st = "up" /\ box \in [Cards -> [Names -> Box]]
    BY <1>4 DEF AgentExits, BoxDies, TypeInv, TypeOK
  <2>2. \E b : SetBox(c, n, b)
    BY <1>4 DEF AgentExits, BoxDies
  <2>3. \A d \in Cards, m \in Names : d # c \/ m # n => box'[d][m] = box[d][m]
    BY <2>1, <2>2 DEF SetBox
  <2> QED
    BY <1>4, <2>1, <2>3, SameApart DEF AgentExits, BoxDies, OnlyBox
<1> QED
  BY <1>1, <1>2, <1>3, <1>4 DEF World

LEMMA SweeperApart ==
  ASSUME TypeInv, Sweeper
  PROVE  \A d \in Cards : Apart(d)
<1>a. \A c \in Cards : card[c] \in Card
  BY DEF TypeInv, TypeOK
<1>b. "Backlog" \in States
  BY DEF States
<1>c. \A c \in Cards : \A by : Quiet(card[c], Try(card[c], "Backlog", by))
  BY <1>a, <1>b, QuietMoves
<1>3. sweep.pc \in {"reap", "reopen", "past", "bounce", "probe"} => sweep.at[1] \in Cards
  BY DEF TypeInv, Wired, Spots
<1>4. CASE SweepCollect \/ SweepList \/ SweepLook \/ SweepCheck
  BY <1>4, SameApart DEF SweepCollect, SweepList, SweepLook, SweepCheck, OnlySweep
<1>5. CASE SweepRequeue
  <2>1. PICK c \in sweep.expired : Put(c, Try(card[c], "Backlog", "deadline-sweeper"))
    BY <1>5 DEF SweepRequeue
  <2>2. c \in Cards
    BY DEF TypeInv, TypeOK, Sweep
  <2> QED
    BY <1>c, <1>5, <2>1, <2>2, PutApart DEF SweepRequeue, SweepAndBoard
<1>6. CASE SweepReap
  <2>1. sweep.pc = "reap" /\ sweep.at[2] \in Names
    BY <1>6 DEF SweepReap, Sweeping, TypeInv, Wired, Spots
  <2> QED
    BY <1>6, <1>3, <2>1, RemoveApart, SameApart DEF SweepReap
<1>7. CASE SweepProbe
  BY <1>a, <1>7, <1>3, QuietTouches, PutApart, SameApart
  DEF SweepProbe, Sweeping, SweepAndBoard, Board
<1>8. CASE SweepBounce
  BY <1>8, <1>c, <1>3, PutApart DEF SweepBounce, SweepAndBoard
<1>9. CASE SweepReopen
  BY <1>a, <1>9, <1>3, QuietTouches, PutApart, SameApart
  DEF SweepReopen, Sweeping, SweepAndBoard, Board
<1> QED
  BY <1>4, <1>5, <1>6, <1>7, <1>8, <1>9 DEF Sweeper

LEMMA OthersApart ==
  ASSUME TypeInv, Dispatcher \/ Boot \/ Crash \/ UNCHANGED vars
  PROVE  \A d \in Cards : Apart(d)
<1>a. \A c \in Cards : card[c] \in Card
  BY DEF TypeInv, TypeOK
<1>1. CASE DispTick
  <2>1. \A c \in Cards : card'[c] \in {card[c], Enqueued(card[c])}
    BY <1>1 DEF DispTick
  <2>2. \A c \in Cards : Quiet(card[c], card'[c])
    BY <1>a, <2>1, QuietTouches
  <2> QED
    BY <1>1, <2>2 DEF DispTick, Apart
<1>2. CASE DispClaim
  <2>1. disp.card \in Cards
    BY <1>2 DEF DispClaim, TypeInv, Wired
  <2> QED
    BY <1>a, <1>2, <2>1, QuietTouches, PutApart, SameApart DEF DispClaim, Board
<1>3. CASE DispPick \/ DispSpawn \/ Boot \/ Crash \/ UNCHANGED vars
  BY <1>3, SameApart DEF DispPick, DispSpawn, Boot, BootAdopt, BootDone, BootBlind, Crash, vars
<1> QED
  BY <1>1, <1>2, <1>3 DEF Dispatcher

-------------------------------------------------------------------------------
(* What a run does to its own card and sandbox. *)

(* A run steps into its sandbox by the name its card bears at that moment, and keeps *)
(* the card's name as it is from then on.                                             *)
RunPlaces(t) ==
  LET c == task[t].card IN
  task'[t].pc \in Located =>
    \/ card'[c].env = task'[t].name
    \/ task[t].pc \in Located /\ task'[t].name = task[t].name /\ card'[c].env = card[c].env

(* Sessions: what SessionInv says of this run and its card, after the step. *)
RunResumes(t) ==
  LET c == task[t].card IN
  /\ card'[c].conv = "lost" /\ card'[c].env # NoEnv => box'[c][card'[c].env].st # "up"
  /\ task'[t].pc \in {"name", "make"} => card'[c].conv = "none"
  /\ /\ task'[t].pc \in {"probe", "beat", "arm"} /\ task'[t].name # NoEnv
     /\ card'[c].conv = "lost"
     => card'[c].env = task'[t].name

(* Nobody else's card, and nobody else's sandbox. *)
RunKeepsOthers(t) ==
  \A d \in Cards : d # task[t].card => card'[d] = card[d] /\ box'[d] = box[d]

LEMMA RunMinds ==
  ASSUME TypeInv, NEW t \in Tasks, RunStep(t)
  PROVE  RunKeepsOthers(t)
<1> DEFINE c == task[t].card
<1>0. c \in Cards
  BY RunIsBusy
<1>1. card' = card \/ \E q : Put(c, q)
  BY DEF RunStep, Run, RunStart, RunRouted, RunUncovered, RunAsk, RunPlead, RunReuse, RunCold,
         RunBind, RunName, RunMake, RunUnmade, RunBeat, RunArm, RunBroken, RunCancelled, RunHear,
         RunStreamEnds, RunStreamBreaks, RunVerdict, RunNoVerdict, RunDeliver, RunRefused, RunStop,
         RunSettle, RunCount, RunPromote, RunRequeue, OnlyTask, TaskAndBoard, TaskAndBox, Remove
<1>2. box' = box \/ \E n, b : SetBox(c, n, b)
  BY DEF RunStep, Run, RunStart, RunRouted, RunUncovered, RunAsk, RunPlead, RunReuse, RunCold,
         RunBind, RunName, RunMake, RunUnmade, RunBeat, RunArm, RunBroken, RunCancelled, RunHear,
         RunStreamEnds, RunStreamBreaks, RunVerdict, RunNoVerdict, RunDeliver, RunRefused, RunStop,
         RunSettle, RunCount, RunPromote, RunRequeue, OnlyTask, TaskAndBoard, TaskAndBox, Remove
<1>3. \A d \in Cards : d # c => card'[d] = card[d]
  BY <1>0, <1>1 DEF Put, TypeInv, TypeOK
<1>4. \A d \in Cards : d # c => box'[d] = box[d]
  BY <1>0, <1>2 DEF SetBox, TypeInv, TypeOK
<1> QED
  BY <1>3, <1>4 DEF RunKeepsOthers

LEMMA RunLocates ==
  ASSUME TypeInv, RunInPlace, LostIsGone, CleanNames, SessionKnown,
         NEW t \in Tasks, RunStep(t)
  PROVE  RunPlaces(t) /\ RunResumes(t)
<1> DEFINE c == task[t].card
<1> USE DEF At, Located
<1>0. /\ c \in Cards /\ card[c] \in Card /\ card \in [Cards -> Card]
      /\ task \in [Tasks -> Task] /\ task[t] \in Task
      /\ box \in [Cards -> [Names -> Box]]
  BY RunIsBusy DEF TypeInv, TypeOK
<1>g. ASSUME NEW pc, Goto(t, pc)
      PROVE  task'[t].pc = pc /\ task'[t].name = task[t].name
  BY <1>0, <1>g DEF Goto, Task
<1>e. ASSUME NEW pc, NEW out, Ends(t, pc, out)
      PROVE  task'[t].pc = pc /\ task'[t].name = task[t].name
  BY <1>0, <1>e DEF Ends, Task
<1>i. ASSUME Retire(t) PROVE task'[t].pc = "idle"
  BY <1>0, <1>i DEF Retire, IdleTask
<1>p. ASSUME NEW q, Put(c, q) PROVE card'[c] = q
  BY <1>0, <1>p DEF Put
<1> DEFINE Steady == task[t].pc \in Located /\ task'[t].name = task[t].name
           Final  == task'[t].pc \notin Located \cup {"name", "make", "probe", "beat", "arm"}
           Free   == task'[t].pc \notin {"name", "make", "probe", "beat", "arm"}
           Safe   == \A n \in Names : box'[c][n].st = "up" => box[c][n].st = "up"
(* The card's session and name are kept or cleared, and no sandbox appears. *)
<1>q. ASSUME NEW q, card'[c] = q, Quiet(card[c], q), Safe
      PROVE  q.conv = "lost" /\ q.env # NoEnv => box'[c][q.env].st # "up"
  <2>1. q.conv = "lost" /\ q.env # NoEnv => q.env = card[c].env /\ card[c].conv = "lost" /\ card[c].env \in Names
    BY <1>0, <1>q DEF Quiet, Card
  <2> QED
    BY <1>0, <1>q, <2>1 DEF LostIsGone
<1>s. ASSUME Quiet(card[c], card'[c]), Safe, Final \/ (Free /\ Steady /\ card'[c].env = card[c].env)
      PROVE  RunPlaces(t) /\ RunResumes(t)
  BY <1>s, <1>q DEF RunPlaces, RunResumes
<1>t. Quiet(card[c], card[c]) /\ Quiet(card[c], Asked(card[c])) /\ Quiet(card[c], Counted(card[c]))
      /\ Quiet(card[c], Beaten(card[c]))
  BY <1>0, QuietTouches
<1>u. Asked(card[c]).env = card[c].env /\ Beaten(card[c]).env = card[c].env
  BY <1>0, TouchKeeps, ClaimKeeps
<1>v. ASSUME NEW to \in {"Backlog", "Review", "NeedsHuman", "Running"}, NEW by
      PROVE  Quiet(card[c], Try(card[c], to, by)) /\ Try(card[c], to, by).env = card[c].env
  <2>1. to \in States /\ to \notin Terminal
    BY DEF States, Terminal
  <2> QED
    BY <1>0, <2>1, QuietMoves
<1>w. ASSUME UNCHANGED box PROVE Safe
  BY <1>w
<1>1. CASE RunStart(t) \/ RunUncovered(t)
  BY <1>1, <1>g, <1>e, <1>s, <1>t, <1>w DEF RunStart, RunUncovered, OnlyTask
<1>2. CASE RunRouted(t)
  <2>1. CASE task[t].pc = "adopted"
    <3>1. task'[t].pc = "watch" /\ task'[t].name = task[t].name
      BY <1>0, <1>2, <2>1 DEF RunRouted, Task
    <3> QED
      BY <1>2, <2>1, <3>1, <1>s, <1>t, <1>w DEF RunRouted, OnlyTask
  <2>2. CASE task[t].pc = "route"
    <3>1. task'[t].pc = "probe" /\ task'[t].name = card[c].env /\ card' = card
      BY <1>0, <1>2, <2>2 DEF RunRouted, Task, OnlyTask
    <3> QED
      BY <1>2, <3>1, <1>q, <1>t, <1>w DEF RunPlaces, RunResumes, RunRouted, OnlyTask
  <2> QED
    BY <1>2, <2>1, <2>2 DEF RunRouted
<1>3. CASE RunReuse(t)
  <2>1. task[t].pc = "probe" /\ task'[t].pc = "beat" /\ task'[t].name = task[t].name /\ card' = card
    BY <1>0, <1>3 DEF RunReuse, Task, OnlyTask
  <2> QED
    BY <1>0, <1>3, <2>1, <1>q, <1>t, <1>w
    DEF RunPlaces, RunResumes, RunReuse, OnlyTask, SessionKnown
<1>4. CASE RunAsk(t)
  <2>1. CASE task[t].pc = "ask"
    BY <1>4, <2>1, <1>g, <1>p, <1>s, <1>t, <1>u, <1>w DEF RunAsk, TaskAndBoard
  <2>2. CASE task[t].pc # "ask"
    BY <1>4, <2>2, <1>g, <1>p, <1>s, <1>t, <1>w DEF RunAsk, TaskAndBoard
  <2> QED
    BY <2>1, <2>2
<1>5. CASE RunPlead(t)
  <2>1. card'[c] = Try(card[c], "NeedsHuman", "agent") /\ UNCHANGED box
    BY <1>5, <1>p DEF RunPlead, TaskAndBoard
  <2>2. CASE task[t].pc = "plead"
    BY <1>5, <2>1, <2>2, <1>e, <1>s, <1>v, <1>w DEF RunPlead
  <2>3. CASE task[t].pc # "plead"
    BY <1>5, <2>1, <2>3, <1>e, <1>i, <1>s, <1>v, <1>w DEF RunPlead
  <2> QED
    BY <2>2, <2>3
<1>6. CASE RunBind(t)
  <2>1. card'[c] = Forgotten(card[c]) /\ task'[t].pc = "name"
    BY <1>6, <1>g, <1>p DEF RunBind
  <2>2. Forgotten(card[c]).conv = "none" /\ Forgotten(card[c]).env = card[c].env
    BY <1>0 DEF Forgotten, Card
  <2> QED
    BY <2>1, <2>2 DEF RunPlaces, RunResumes
<1>7. CASE RunName(t)
  <2>1. card'[c] = Named(card[c], task[t].name) /\ task'[t].pc = "make" /\ task'[t].name = task[t].name
    BY <1>7, <1>g, <1>p DEF RunName
  <2>2. card[c].conv = "none"
    BY <1>7 DEF RunName, CleanNames
  <2>3. Named(card[c], task[t].name).conv = "none" /\ Named(card[c], task[t].name).env = task[t].name
    BY <1>0, <2>2 DEF Named, Bereft, Card
  <2> QED
    BY <2>1, <2>3 DEF RunPlaces, RunResumes
<1>8. CASE RunMake(t)
  <2>1. card'[c] = Bereft(card[c], task[t].name) /\ task'[t].pc = "beat" /\ task'[t].name = task[t].name
    BY <1>8, <1>g, <1>p DEF RunMake
  <2>2. card[c].conv = "none"
    BY <1>8 DEF RunMake, CleanNames
  <2>3. Bereft(card[c], task[t].name).conv = "none" /\ Bereft(card[c], task[t].name).env = card[c].env
    BY <1>0, <2>2 DEF Bereft, Card
  <2> QED
    BY <1>8, <2>1, <2>3 DEF RunPlaces, RunResumes, RunMake
<1>9. CASE RunBeat(t)
  <2>1. /\ card'[c] = Beaten(card[c]) /\ task'[t].pc = "arm" /\ task'[t].name = task[t].name
        /\ task[t].pc = "beat" /\ UNCHANGED box
    BY <1>9, <1>g, <1>p DEF RunBeat, TaskAndBoard
  <2>2. Beaten(card[c]).conv = "lost" => card[c].conv = "lost"
    BY <1>t DEF Quiet
  <2> QED
    BY <1>0, <2>1, <2>2, <1>q, <1>t, <1>u, <1>w DEF RunPlaces, RunResumes, SessionKnown
<1>10. CASE RunCold(t)
  <2>1. (UNCHANGED <<card, box>>) \/ \E n \in Names : Remove(c, n)
    BY <1>0, <1>10 DEF RunCold, Card
  <2>2. Apart(c)
    <3>1. UNCHANGED <<card, box>> => Apart(c)
      BY <1>0, SameApart
    <3> QED
      BY <1>0, <2>1, <3>1, RemoveApart
  <2>3. /\ card'[c].conv = "lost" /\ card'[c].env # NoEnv => box'[c][card'[c].env].st # "up"
    <3>1. CASE Quiet(card[c], card'[c])
      BY <2>2, <3>1, <1>q DEF Apart
    <3>2. CASE ~Quiet(card[c], card'[c])
      BY <2>2, <3>2 DEF Apart
    <3> QED
      BY <3>1, <3>2
  <2>5. task'[t].pc = "bind"
    BY <1>0, <1>10 DEF RunCold, Task
  <2> QED
    BY <2>3, <2>5 DEF RunPlaces, RunResumes
<1>19. CASE RunUnmade(t)
  <2>1. card'[c] = Bereft(card[c], task[t].name) /\ Steady /\ task'[t].pc = "stop"
    BY <1>19, <1>e, <1>p DEF RunUnmade, Remove
  <2>2. card[c].conv = "none"
    BY <1>19 DEF RunUnmade, CleanNames
  <2> QED
    BY <1>0, <2>1, <2>2, BereftKeeps DEF RunPlaces, RunResumes
<1>11. CASE RunArm(t)
  <2>1. task'[t].pc = "watch" /\ Steady
    BY <1>0, <1>11 DEF RunArm, Task
  <2>2. Safe /\ card' = card
    BY <1>0, <1>11 DEF RunArm, SetBox, TaskAndBox, Here, Reach, Box
  <2> QED
    BY <2>1, <2>2, <1>s, <1>t
<1>12. CASE RunBroken(t) \/ RunCancelled(t) \/ RunStreamEnds(t) \/ RunStreamBreaks(t)
             \/ RunNoVerdict(t) \/ RunRefused(t)
  <2>1. UNCHANGED <<card, box>>
    BY <1>12 DEF RunBroken, RunCancelled, RunStreamEnds, RunStreamBreaks, RunNoVerdict, RunRefused,
                 OnlyTask
  <2>2. CASE RunBroken(t)
    BY <2>1, <2>2, <1>e, <1>s, <1>t DEF RunBroken
  <2>3. CASE RunCancelled(t)
    BY <2>1, <2>3, <1>e, <1>s, <1>t DEF RunCancelled, Cancellable, WindDown
  <2>4. CASE RunStreamEnds(t) \/ RunStreamBreaks(t) \/ RunNoVerdict(t) \/ RunRefused(t)
    BY <2>1, <2>4, <1>e, <1>g, <1>s, <1>t DEF RunStreamEnds, RunStreamBreaks, RunNoVerdict, RunRefused
  <2> QED
    BY <1>12, <2>2, <2>3, <2>4
<1>13. CASE RunHear(t)
  <2> DEFINE place == IF card[c].env = task[t].name THEN "live" ELSE "lost"
             heard == [card[c] EXCEPT !.conv = place]
  <2>1. /\ task' = task /\ task[t].pc = "watch" /\ UNCHANGED box
        /\ card'[c] = heard \/ card'[c] = Beaten(heard)
    BY <1>13, <1>p DEF RunHear
  <2>2. heard \in Card /\ heard.env = card[c].env /\ heard.conv = place
    <3>1. place \in {"none", "live", "lost"}
      OBVIOUS
    <3> HIDE DEF place
    <3>2. heard \in Card
      BY <1>0, <3>1, FieldType
    <3> QED
      BY <1>0, <3>2 DEF Card
  <2> HIDE DEF heard
  <2>3. Beaten(heard).env = heard.env /\ Beaten(heard).conv \in {heard.conv, "none"}
    <3>1. Quiet(heard, Beaten(heard))
      BY <2>2, QuietTouches
    <3>2. Beaten(heard).env = heard.env
      BY <2>2, ClaimKeeps
    <3> QED
      BY <3>1, <3>2 DEF Quiet
  <2>4. place = "lost" => card[c].env = NoEnv
    BY <2>1 DEF RunInPlace
  <2> QED
    BY <2>1, <2>2, <2>3, <2>4 DEF RunPlaces, RunResumes
<1>14. CASE RunVerdict(t) \/ RunStop(t)
  <2>1. Safe /\ card' = card
    <3>1. card' = card
      BY <1>14 DEF RunVerdict, RunStop, TaskAndBox
    <3>2. box' = box \/ Reach(t)
      BY <1>14 DEF RunVerdict, RunStop
    <3>3. box' = box \/ \E b : b.st = Here(t).st /\ SetBox(c, task[t].name, b)
      <4>1. ASSUME Reach(t)
            PROVE  /\ [Here(t) EXCEPT !.ask = "used"].st = Here(t).st
                   /\ [Here(t) EXCEPT !.agent = "none"].st = Here(t).st
        <5>1. Here(t) \in Box
          BY <1>0, <4>1 DEF Here, Reach, Task
        <5> QED
          BY <5>1 DEF Box
      <4>2. CASE RunVerdict(t)
        BY <3>2, <4>1, <4>2 DEF RunVerdict
      <4>3. CASE RunStop(t)
        BY <4>1, <4>3 DEF RunStop
      <4> QED
        BY <1>14, <4>2, <4>3
    <3>4. Safe
      BY <1>0, <3>3, BoxAt DEF Here
    <3> QED
      BY <3>1, <3>4
  <2>2. CASE RunVerdict(t)
    <3>1. task[t].pc = "finish" /\ \E pc \in {"ask", "deliver", "stop"} : \E out : Ends(t, pc, out)
      BY <2>2 DEF RunVerdict
    <3> QED
      BY <2>1, <3>1, <1>e, <1>s, <1>t
  <2>3. CASE RunStop(t)
    BY <2>1, <2>3, <1>g, <1>s, <1>t DEF RunStop
  <2> QED
    BY <1>14, <2>2, <2>3
<1>15. CASE RunDeliver(t)
  <2>1. PICK to \in {"Review", "Backlog"} :
          /\ Put(c, Try(card[c], to, "agent")) /\ \E out : Ends(t, "stop", out)
    BY <1>15 DEF RunDeliver
  <2>2. task[t].pc = "deliver" /\ UNCHANGED box
    BY <1>15 DEF RunDeliver, TaskAndBoard
  <2> QED
    BY <2>1, <2>2, <1>e, <1>p, <1>s, <1>v, <1>w
<1>16. CASE RunSettle(t) \/ RunRequeue(t)
  <2>1. Quiet(card[c], [card[c] EXCEPT !.failures = 0])
    BY <1>0 DEF Quiet, Card
  <2>2. Quiet(card[c], card'[c]) /\ UNCHANGED box
    BY <1>16, <2>1, <1>p, <1>t, <1>v DEF RunSettle, RunRequeue, TaskAndBoard
  <2>3. task'[t].pc = "idle"
    BY <1>16, <1>i DEF RunSettle, RunRequeue
  <2> QED
    BY <2>2, <2>3, <1>s, <1>w
<1>17. CASE RunCount(t)
  <2> DEFINE next == IF Counted(card[c]).failures < MaxAttempts THEN "requeue" ELSE "giveup"
             pc   == IF card[c].state = "Claimed" THEN "promote" ELSE next
             out  == IF next = "requeue" THEN "failed" ELSE "bad"
  <2>1. Ends(t, pc, out) /\ Put(c, Counted(card[c])) /\ UNCHANGED box
    BY <1>17 DEF RunCount, Ends, TaskAndBoard
  <2>2. pc \in {"promote", "requeue", "giveup"}
    OBVIOUS
  <2> HIDE DEF pc, out
  <2> QED
    BY <2>1, <2>2, <1>e, <1>p, <1>s, <1>t, <1>w
<1>18. CASE RunPromote(t)
  <2>1. \E pc \in {"requeue", "giveup"} : Goto(t, pc)
    BY <1>18 DEF RunPromote
  <2> QED
    BY <1>18, <2>1, <1>g, <1>p, <1>s, <1>v, <1>w DEF RunPromote, TaskAndBoard
<1> QED
  BY <1>1, <1>2, <1>3, <1>4, <1>5, <1>6, <1>7, <1>8, <1>9, <1>10, <1>11, <1>12, <1>13, <1>14, <1>15,
     <1>16, <1>17, <1>18, <1>19 DEF RunStep, Run

-------------------------------------------------------------------------------
(* SessionInv is inductive. *)

(* Where every step that is not the run's own leaves a run: as it was, out of its     *)
(* sandbox, or adopted in the sandbox its card names.                                   *)
RunsApart ==
  \A t \in Tasks : \/ task'[t] = task[t]
                   \/ task'[t].pc \notin Located \cup {"name"}
                   \/ /\ task'[t].pc = "adopted"
                      /\ card'[task'[t].card].env \in {task'[t].name, NoEnv}

LEMMA ApartKeeps ==
  ASSUME TypeInv, RunInPlace, LostIsGone, CleanNames, SessionKnown,
         \A c \in Cards : Apart(c), RunsApart
  PROVE  RunInPlace' /\ LostIsGone' /\ CleanNames' /\ SessionKnown'
<1>a. \A c \in Cards : card[c].env \in Names \cup {NoEnv}
  BY DEF TypeInv, TypeOK, Card
<1>b. \A t \in Tasks : task[t].pc # "idle" => task[t].card \in Cards
  BY DEF TypeInv, Wired, Busy
<1>1. \A c \in Cards : card'[c].env \in {card[c].env, NoEnv}
  BY DEF Apart, Quiet
<1>2. RunInPlace'
  BY <1>b, <1>1 DEF RunInPlace, RunsApart, Located
<1>3. LostIsGone'
  <2> SUFFICES ASSUME NEW c \in Cards, card'[c].conv = "lost", card'[c].env # NoEnv
               PROVE  box'[c][card'[c].env].st # "up"
    BY DEF LostIsGone
  <2>1. CASE Quiet(card[c], card'[c])
    <3>1. card'[c].env = card[c].env /\ card[c].conv = "lost" /\ card[c].env \in Names
      BY <2>1, <1>a DEF Quiet
    <3> QED
      BY <3>1 DEF LostIsGone, Apart
  <2>2. CASE ~Quiet(card[c], card'[c])
    BY <2>2 DEF Apart
  <2> QED
    BY <2>1, <2>2
<1>4. CleanNames'
  <2> SUFFICES ASSUME NEW t \in Tasks, task'[t].pc \in {"name", "make"}
               PROVE  card'[task'[t].card].conv = "none"
    BY DEF CleanNames
  <2>1. task'[t] = task[t]
    BY DEF RunsApart, Located
  <2>2. task[t].card \in Cards /\ card[task[t].card].conv = "none"
    BY <1>b, <2>1 DEF CleanNames
  <2>3. Quiet(card[task[t].card], card'[task[t].card])
    BY <2>1, <2>2 DEF Apart
  <2> QED
    BY <2>1, <2>2, <2>3 DEF Quiet
<1>5. SessionKnown'
  <2> SUFFICES ASSUME NEW t \in Tasks, task'[t].pc \in {"probe", "beat", "arm"},
                      task'[t].name # NoEnv, card'[task'[t].card].conv = "lost"
               PROVE  card'[task'[t].card].env = task'[t].name
    BY DEF SessionKnown
  <2> DEFINE c == task[t].card
  <2>1. task'[t] = task[t] /\ c \in Cards /\ task[t].pc \in Located
    BY <1>b DEF RunsApart, Located
  <2>2. card[c].env \in {task[t].name, NoEnv}
    BY <2>1 DEF RunInPlace
  <2>3. CASE Quiet(card[c], card'[c])
    <3>1. card[c].conv = "lost" /\ card'[c].env = card[c].env
      BY <2>1, <2>3 DEF Quiet
    <3> QED
      BY <2>1, <3>1 DEF SessionKnown
  <2>4. CASE ~Quiet(card[c], card'[c])
    BY <2>1, <2>2, <2>4 DEF Apart
  <2> QED
    BY <2>3, <2>4
<1> QED
  BY <1>2, <1>3, <1>4, <1>5

(* A run minds its own card, and no other run is on that card. *)
LEMMA RunKeepsSessions ==
  ASSUME RunInv, SessionInv, NEW t \in Tasks, RunStep(t)
  PROVE  SessionInv'
<1> DEFINE c == task[t].card
<1>0. TypeInv /\ c \in Cards /\ Busy(t) /\ t \in InFlight
  BY RunIsBusy DEF RunInv, InFlight
<1>1. RunPlaces(t) /\ RunResumes(t) /\ RunKeepsOthers(t)
  BY <1>0, RunLocates, RunMinds DEF SessionInv
<1>2. /\ \A u \in Tasks : Busy(u)' => Busy(u) /\ task'[u].card = task[u].card
      /\ \A u \in Tasks \ {t} : task'[u] = task[u]
  BY <1>0, RunKeepsTasks
<1>3. UNCHANGED <<sweep, up>>
  BY RunFrame
<1>4. \A u \in Tasks \ {t} : Busy(u) =>
        /\ task[u].card \in Cards /\ task[u].card # c /\ task'[u] = task[u]
        /\ card'[task[u].card] = card[task[u].card]
  BY <1>0, <1>1, <1>2 DEF RunKeepsOthers, RunInv, OneRunPerCard, InFlight, TypeInv, Wired
<1>5. Busy(t)' => task'[t].card = c
  BY <1>2
<1>6. RunInPlace'
  <2> SUFFICES ASSUME NEW u \in Tasks, task'[u].pc \in Located
               PROVE  card'[task'[u].card].env \in {task'[u].name, NoEnv}
    BY DEF RunInPlace
  <2>1. CASE u = t
    BY <1>1, <1>5, <2>1 DEF RunPlaces, SessionInv, RunInPlace, Busy, Located
  <2>2. CASE u # t
    BY <1>2, <1>4, <2>2 DEF SessionInv, RunInPlace, Busy, Located
  <2> QED
    BY <2>1, <2>2
<1>7. LostIsGone'
  BY <1>0, <1>1 DEF RunResumes, RunKeepsOthers, SessionInv, LostIsGone
<1>8. CleanNames'
  <2> SUFFICES ASSUME NEW u \in Tasks, task'[u].pc \in {"name", "make"}
               PROVE  card'[task'[u].card].conv = "none"
    BY DEF CleanNames
  <2>1. CASE u = t
    BY <1>1, <1>5, <2>1 DEF RunResumes, Busy
  <2>2. CASE u # t
    BY <1>2, <1>4, <2>2 DEF SessionInv, CleanNames, Busy
  <2> QED
    BY <2>1, <2>2
<1>9. SessionKnown'
  <2> SUFFICES ASSUME NEW u \in Tasks, task'[u].pc \in {"probe", "beat", "arm"},
                      task'[u].name # NoEnv, card'[task'[u].card].conv = "lost"
               PROVE  card'[task'[u].card].env = task'[u].name
    BY DEF SessionKnown
  <2>1. CASE u = t
    BY <1>1, <1>5, <2>1 DEF RunResumes, Busy
  <2>2. CASE u # t
    BY <1>2, <1>4, <2>2 DEF SessionInv, SessionKnown, Busy
  <2> QED
    BY <2>1, <2>2
<1>10. AdoptInPlace'
  <2>1. ~up => \A s \in sweep.adopt : s[1] \in Cards /\ s[1] # c
    BY <1>0 DEF RunInv, BootAdoptions, Active, TypeInv, TypeOK, Sweep, Spots
  <2> QED
    BY <1>1, <1>3, <2>1 DEF RunKeepsOthers, SessionInv, AdoptInPlace
<1> QED
  BY <1>6, <1>7, <1>8, <1>9, <1>10 DEF SessionInv

(* Start-up adopts a card in the sandbox it found it naming, and nobody renames the card *)
(* in between.                                                                            *)
LEMMA AdoptionsStay ==
  ASSUME RunInv, RunInv', AdoptInPlace, \A c \in Cards : Apart(c), Sweeper \/ Boot \/ Crash
                                                                 \/ UNCHANGED <<sweep, up>>
  PROVE  AdoptInPlace'
<1>a. \A c \in Cards : card'[c].env \in {card[c].env, NoEnv}
  BY DEF Apart, Quiet
<1>b. /\ sweep \in Sweep /\ \A s \in sweep.adopt : s[1] \in Cards
      /\ sweep.pc \in {"reap", "check", "reopen", "past", "probe", "bounce"} => sweep.at[1] \in Cards
  BY DEF RunInv, TypeInv, TypeOK, Wired, Sweep, Spots
<1>c. ASSUME up' = up, sweep'.adopt \subseteq sweep.adopt PROVE AdoptInPlace'
  BY <1>a, <1>b, <1>c DEF AdoptInPlace
<1>1. CASE UNCHANGED <<sweep, up>>
  BY <1>1, <1>c
<1>2. CASE BootAdopt
  <2>1. PICK s : sweep' = [sweep EXCEPT !.adopt = @ \ {s}]
    BY <1>2 DEF BootAdopt
  <2>2. sweep'.adopt \subseteq sweep.adopt /\ up' = up
    BY <1>2, <1>b, <2>1 DEF BootAdopt, Sweep
  <2> QED
    BY <2>2, <1>c
<1>3. CASE BootDone \/ BootBlind \/ Crash
  BY <1>3 DEF BootDone, BootBlind, Crash, Pass, AdoptInPlace
<1>4. CASE Sweeper
  <2>1. CASE SweepProbe
    <3>1. /\ sweep.pc = "probe" /\ UNCHANGED up /\ Scanning
          /\ sweep' \in {Onward, [sweep EXCEPT !.pc = "bounce"]}
             \/ (~up /\ sweep' = [Onward EXCEPT !.adopt = @ \cup {sweep.at}])
      BY <2>1 DEF SweepProbe, Sweeping, SweepAndBoard, Scanning
    <3>2. sweep'.adopt \subseteq sweep.adopt \/ (~up /\ sweep'.adopt = sweep.adopt \cup {sweep.at})
      BY <1>b, <3>1, OnwardType DEF Sweep
    <3>3. ~up => card[sweep.at[1]].env \in {sweep.at[2], NoEnv}
      BY <3>1 DEF RunInv, BootScan
    <3> QED
      BY <1>a, <1>b, <3>1, <3>2, <3>3 DEF AdoptInPlace
  <2>2. CASE ~SweepProbe
    <3>1. CASE SweepCollect \/ SweepList
      BY <3>1 DEF SweepCollect, SweepList, Pass, OnlySweep, AdoptInPlace
    <3>2. CASE SweepRequeue \/ SweepLook
      <4>1. sweep'.adopt = sweep.adopt /\ up' = up
        BY <1>b, <3>2 DEF SweepRequeue, SweepLook, OnlySweep, SweepAndBoard, Sweep
      <4> QED
        BY <4>1, <1>c
    <3>3. CASE SweepReap \/ SweepCheck \/ SweepReopen \/ SweepBounce
      <4>1. /\ sweep' \in {Onward, [sweep EXCEPT !.pc = sweep.plan, !.plan = "none"],
                           [sweep EXCEPT !.pc = "probe"]}
            /\ up' = up
        BY <3>3 DEF SweepReap, SweepCheck, SweepReopen, SweepBounce, OnlySweep, SweepAndBoard
      <4>2. sweep'.adopt = sweep.adopt
        BY <1>b, <4>1, OnwardType DEF Sweep
      <4> QED
        BY <4>1, <4>2, <1>c
    <3> QED
      BY <1>4, <2>2, <3>1, <3>2, <3>3 DEF Sweeper
  <2> QED
    BY <2>1, <2>2
<1> QED
  BY <1>1, <1>2, <1>3, <1>4 DEF Boot

LEMMA SessionInit == Init => SessionInv
<1> SUFFICES ASSUME Init PROVE SessionInv
  OBVIOUS
<1>1. /\ \A t \in Tasks : task[t].pc = "idle"
      /\ \A c \in Cards : card[c].conv = "none"
      /\ up
  BY DEF Init, IdleTask, NewCard
<1> QED
  BY <1>1
  DEF SessionInv, RunInPlace, AdoptInPlace, LostIsGone, CleanNames, SessionKnown, Located

LEMMA SessionNext == RunInv /\ SessionInv /\ [Next]_vars => SessionInv'
<1> SUFFICES ASSUME RunInv, SessionInv, [Next]_vars PROVE SessionInv'
  OBVIOUS
<1>0. RunInv' /\ TypeInv
  BY NextInv DEF RunInv
<1>1. ASSUME \A c \in Cards : Apart(c), RunsApart, Sweeper \/ Boot \/ Crash \/ UNCHANGED <<sweep, up>>
      PROVE  SessionInv'
  BY <1>0, <1>1, ApartKeeps, AdoptionsStay DEF SessionInv
<1>2. ASSUME NEW t \in Tasks, RunStep(t) PROVE SessionInv'
  BY <1>2, RunKeepsSessions
<1>3. CASE Operator \/ Unfinished \/ World
  <2>1. UNCHANGED <<task, sweep, up>>
    BY <1>3, OperatorFrame, WorldFrame
  <2>2. RunsApart
    BY <2>1 DEF RunsApart
  <2> QED
    BY <1>0, <1>1, <1>3, <2>1, <2>2, OperatorApart, WorldApart
<1>4. CASE Sweeper
  <2>1. UNCHANGED task
    BY <1>4, SweeperFrame
  <2> QED
    BY <1>0, <1>1, <1>4, <2>1, SweeperApart DEF RunsApart
<1>5. CASE UNCHANGED vars
  BY <1>0, <1>1, <1>5, OthersApart DEF RunsApart, vars
<1>6. CASE Dispatcher
  <2>1. UNCHANGED <<sweep, up>>
    BY <1>6 DEF Dispatcher, DispTick, DispPick, DispClaim, DispSpawn
  <2>2. RunsApart
    <3>1. CASE DispSpawn
      <4>1. PICK t \in Tasks :
              task' = [task EXCEPT ![t] = [IdleTask EXCEPT !.pc = "start", !.card = disp.card]]
        BY <3>1 DEF DispSpawn
      <4>2. task'[t].pc = "start" /\ \A u \in Tasks \ {t} : task'[u] = task[u]
        BY <1>0, <4>1 DEF IdleTask, TypeInv, TypeOK
      <4> QED
        BY <4>2 DEF RunsApart, Located
    <3>2. CASE UNCHANGED task
      BY <3>2 DEF RunsApart
    <3> QED
      BY <1>6, <3>1, <3>2 DEF Dispatcher, DispTick, DispPick, DispClaim
  <2> QED
    BY <1>0, <1>1, <1>6, <2>1, <2>2, OthersApart
<1>7. CASE Boot \/ Crash
  <2>1. RunsApart
    <3>1. CASE BootAdopt
      <4>1. PICK s \in sweep.adopt, t \in Tasks :
              task' = [task EXCEPT ![t] = [IdleTask EXCEPT !.pc = "adopted", !.card = s[1], !.name = s[2]]]
        BY <3>1 DEF BootAdopt
      <4>2. /\ task'[t].pc = "adopted" /\ task'[t].card = s[1] /\ task'[t].name = s[2]
            /\ \A u \in Tasks \ {t} : task'[u] = task[u]
        BY <1>0, <4>1 DEF IdleTask, TypeInv, TypeOK
      <4>3. card'[s[1]].env \in {s[2], NoEnv}
        BY <3>1 DEF BootAdopt, SessionInv, AdoptInPlace
      <4> QED
        BY <4>2, <4>3 DEF RunsApart
    <3>2. CASE BootDone \/ BootBlind
      BY <3>2 DEF BootDone, BootBlind, RunsApart
    <3>3. CASE Crash
      BY <3>3 DEF Crash, RunsApart, Located, IdleTask
    <3> QED
      BY <1>7, <3>1, <3>2, <3>3 DEF Boot
  <2> QED
    BY <1>0, <1>1, <1>7, <2>1, OthersApart
<1> QED
  BY <1>2, <1>3, <1>4, <1>5, <1>6, <1>7 DEF Next, RunStep

LEMMA SessionHolds == Spec => []SessionInv
  BY SessionInit, SessionNext, InvHolds, PTL DEF Spec

(* An agent is only ever told to resume a session that lives in the sandbox it is       *)
(* started in: the session the card remembers was not lost with another sandbox,         *)
(* whatever park, halt, cut, a late delete or a crash did to the card before.             *)
THEOREM ResumesSafe == Spec => []ResumesWhereItLived
<1>1. RunInv /\ SessionInv => ResumesWhereItLived
  <2> SUFFICES ASSUME RunInv, SessionInv, NEW t \in Tasks, Resumes(t), Reach(t)
               PROVE  card[task[t].card].conv = "live"
    BY DEF ResumesWhereItLived
  <2> DEFINE c == task[t].card
  <2>1. task[t].pc = "arm" /\ c \in Cards /\ card[c] \in Card /\ task[t].name # NoEnv
    BY DEF Resumes, Reach, At, RunInv, TypeInv, TypeOK, Wired, Busy
  <2>2. ASSUME card[c].conv = "lost" PROVE FALSE
    <3>1. card[c].env = task[t].name
      BY <2>1, <2>2 DEF SessionInv, SessionKnown
    <3>2. box[c][card[c].env].st # "up"
      BY <2>1, <2>2, <3>1 DEF SessionInv, LostIsGone
    <3> QED
      BY <3>1, <3>2 DEF Reach, Here
  <2> QED
    BY <2>1, <2>2 DEF Resumes, Card
<1> QED
  BY <1>1, InvHolds, SessionHolds, PTL

-------------------------------------------------------------------------------
(* Where a held card's run works. *)

Halting(c) == \E k \in calls : k.verb = "halt" /\ k.card = c

(* The card names sandbox n for as long as it is held and nobody is halting it. *)
Placed(c, n) == card[c].state \in Held /\ ~Halting(c) => card[c].env = n

(* A run, what start-up adopts, and the sandbox start-up has in hand. *)
RunPlaced == \A t \in Tasks : task[t].pc \in Located => Placed(task[t].card, task[t].name)
AdoptPlaced ==
  ~up => /\ \A s \in sweep.adopt : Placed(s[1], s[2])
         /\ sweep.pc \in {"check", "past", "probe", "bounce"} => Placed(sweep.at[1], sweep.at[2])

PlaceInv == RunPlaced /\ AdoptPlaced

(* A section that leaves a held card the name of its sandbox. *)
Firm(r, q) == q.state \in Held => r.state \in Held /\ q.env = r.env

(* A step that does, or that begins a halt. *)
Anchored(c) ==
  card'[c].state \in Held /\ ~Halting(c)' =>
    card[c].state \in Held /\ card'[c].env = card[c].env /\ ~Halting(c)

LEMMA AnchoredPlaced ==
  ASSUME NEW c \in Cards, NEW n, Anchored(c), Placed(c, n)
  PROVE  Placed(c, n)'
  BY DEF Anchored, Placed

LEMMA FirmMoves ==
  ASSUME NEW r \in Card, NEW to \in States \ Held, NEW by
  PROVE  Firm(r, Moved(r, to, by)) /\ Firm(r, Try(r, to, by))
<1>1. Moved(r, to, by).state = to
  BY MovedKeeps
<1> QED
  BY <1>1 DEF Try, Firm

LEMMA FirmTouches ==
  ASSUME NEW r \in Card, NEW n
  PROVE  \A q \in {r, Enqueued(r), Steered(r), Asked(r), Counted(r), Bereft(r, n), Beaten(r)} :
           Firm(r, q)
  BY TouchKeeps, ClaimKeeps, BereftKeeps DEF Firm, Held

(* The last section of a halt lets go of a held card whatever happened since the first. *)
LEMMA CarriedFirm ==
  ASSUME NEW k \in Call, NEW r \in Card
  PROVE  /\ Firm(r, CarriedOut(k, r))
         /\ k.verb = "halt" => CarriedOut(k, r).state \notin Held
<1>1. "Backlog" \in States \ Held /\ "Done" \in States \ Held
  BY DEF States, Held
<1>2. \A by : Firm(r, Try(r, "Backlog", by)) /\ Firm(r, Try(r, "Done", by))
  BY <1>1, FirmMoves
<1>3. Firm(r, r) /\ Firm(r, Enqueued(r))
  BY FirmTouches
<1>4. /\ Firm(r, [r EXCEPT !.parked = TRUE])
      /\ Firm(r, [r EXCEPT !.parked = TRUE, !.awaiting = FALSE])
      /\ Firm(r, [r EXCEPT !.deadline = "none", !.awaiting = FALSE])
  BY DEF Firm, Card
<1>5. k.verb \in {"hold", "queue", "halt", "answer", "defer", "changes", "feedback",
                  "merged", "unlease"}
  BY DEF Call
<1>6. k.verb = "halt" => CarriedOut(k, r).state \notin Held
  <2>1. r.state \in Held => Can(r, "Backlog")
    BY DEF Held, Can, Check, Allowed, Edges
  <2>2. Moved(r, "Backlog", "human").state = "Backlog"
    BY <1>1, MovedKeeps
  <2> QED
    BY <2>1, <2>2, <1>1 DEF CarriedOut, Try
<1> QED
  BY <1>2, <1>3, <1>4, <1>5, <1>6 DEF CarriedOut

LEMMA PutAnchored ==
  ASSUME TypeInv, NEW c \in Cards, NEW q, Put(c, q), Firm(card[c], q), calls \subseteq calls'
  PROVE  \A d \in Cards : Anchored(d)
<1>1. \A d \in Cards : card'[d] = IF d = c THEN q ELSE card[d]
  BY DEF Put, TypeInv, TypeOK
<1> QED
  BY <1>1 DEF Anchored, Firm, Halting

LEMMA SameAnchored ==
  ASSUME card' = card, calls \subseteq calls'
  PROVE  \A d \in Cards : Anchored(d)
  BY DEF Anchored, Halting

LEMMA OperatorAnchored ==
  ASSUME TypeInv, Operator
  PROVE  \A d \in Cards : Anchored(d)
<1>a. \A c \in Cards : card[c] \in Card
  BY DEF TypeInv, TypeOK
<1>m. ASSUME NEW c \in Cards, NEW to \in States \ Held, NEW by, Put(c, Moved(card[c], to, by)),
             calls \subseteq calls'
      PROVE  \A d \in Cards : Anchored(d)
  BY <1>a, <1>m, FirmMoves, PutAnchored
<1>1. CASE SetAuto
  <2>1. \A c \in Cards : card'[c] \in {card[c], Enqueued(card[c]), [card[c] EXCEPT !.awaiting = FALSE]}
    BY <1>1 DEF SetAuto
  <2>2. \A c \in Cards : Firm(card[c], [card[c] EXCEPT !.awaiting = FALSE])
    BY <1>a DEF Firm, Card
  <2>3. \A c \in Cards : Firm(card[c], card'[c])
    BY <1>a, <2>1, <2>2, FirmTouches
  <2> QED
    BY <1>1, <2>3 DEF SetAuto, Anchored, Firm, Halting
<1>2. ASSUME NEW c \in Cards,
             Dispatch(c) \/ Steer(c) \/ Answer(c) \/ RequestChanges(c) \/ Feedback(c)
      PROVE  \A d \in Cards : Anchored(d)
  <2>1. calls \subseteq calls'
    BY <1>2 DEF Dispatch, Steer, Answer, RequestChanges, Feedback, OnlyBoard, Later
  <2> QED
    BY <1>a, <1>2, <2>1, FirmTouches, PutAnchored
    DEF Dispatch, Steer, Answer, RequestChanges, Feedback
<1>3. ASSUME NEW c \in Cards, NEW to \in States, Move(c, to)
      PROVE  \A d \in Cards : Anchored(d)
  <2>1. to \in States \ Held
    BY <1>3, PatchAssumption DEF Move, Held
  <2> QED
    BY <1>3, <2>1, <1>m DEF Move
<1>4. ASSUME NEW c \in Cards, Cut(c) \/ Park(c)
      PROVE  \A d \in Cards : Anchored(d)
  <2>1. "Retired" \in States \ Held /\ "Backlog" \in States \ Held
    BY DEF States, Held
  <2>2. calls \subseteq calls'
    BY <1>4 DEF Cut, Park, Later
  <2> QED
    BY <1>4, <2>1, <2>2, <1>m DEF Cut, Park
<1>5. ASSUME NEW c \in Cards, Unarchive(c)
      PROVE  \A d \in Cards : Anchored(d)
  <2>1. UnarchiveTarget(card[c].prior, FALSE, TRUE) \in States \ Held
    BY <1>a DEF UnarchiveTarget, Card, States, Held
  <2>2. calls \subseteq calls'
    BY <1>5 DEF Unarchive, Later
  <2> QED
    BY <1>5, <2>1, <2>2, <1>m DEF Unarchive
<1>6. ASSUME NEW c \in Cards, Unpark(c)
      PROVE  \A d \in Cards : Anchored(d)
  <2>1. Firm(card[c], [card[c] EXCEPT !.parked = FALSE]) /\ calls \subseteq calls'
    BY <1>a, <1>6 DEF Firm, Card, Unpark, Later
  <2> QED
    BY <1>6, <2>1, PutAnchored DEF Unpark
<1>7. ASSUME NEW c \in Cards, Merged(c)
      PROVE  \A d \in Cards : Anchored(d)
  BY <1>7, SameAnchored DEF Merged, Board, Later
<1>8. ASSUME NEW c \in Cards, Halt(c)
      PROVE  \A d \in Cards : Anchored(d)
  <2> DEFINE k == [verb |-> "halt", card |-> c, env |-> card[c].env]
  <2>0. calls' = calls \cup {k}
    BY <1>8 DEF Halt, Later
  <2>1. Halting(c)' /\ calls \subseteq calls'
    <3>1. k \in calls' /\ k.verb = "halt" /\ k.card = c
      BY <2>0
    <3> QED
      BY <2>0, <3>1 DEF Halting
  <2>2. \A d \in Cards : d # c => card'[d] = card[d]
    BY <1>8 DEF Halt, Put, TypeInv, TypeOK
  <2> QED
    BY <2>1, <2>2 DEF Anchored, Halting
<1> QED
  BY <1>1, <1>2, <1>3, <1>4, <1>5, <1>6, <1>7, <1>8 DEF Operator

LEMMA UnfinishedAnchored ==
  ASSUME TypeInv, Unfinished
  PROVE  \A d \in Cards : Anchored(d)
<1>1. PICK k \in calls : CarryOn(k)
  BY DEF Unfinished
<1>2. k \in Call /\ k.card \in Cards /\ card[k.card] \in Card
  BY DEF TypeInv, TypeOK, Call
<1>3. Put(k.card, CarriedOut(k, card[k.card])) /\ calls \ {k} \subseteq calls'
  BY <1>1 DEF CarryOn
<1>4. \A d \in Cards : card'[d] = IF d = k.card THEN CarriedOut(k, card[d]) ELSE card[d]
  BY <1>2, <1>3 DEF Put, TypeInv, TypeOK
<1>5. \A d \in Cards : Halting(d) => Halting(d)' \/ (k.verb = "halt" /\ k.card = d)
  BY <1>3 DEF Halting
<1> QED
  BY <1>2, <1>4, <1>5, CarriedFirm DEF Anchored, Firm

LEMMA WorldAnchored ==
  ASSUME TypeInv, World
  PROVE  \A d \in Cards : Anchored(d)
<1>0. calls' = calls
  BY WorldFrame
<1>1. ASSUME NEW s \in deletes, DeleteLands(s) PROVE \A d \in Cards : Anchored(d)
  BY <1>0, <1>1, FirmTouches, PutAnchored DEF DeleteLands, Remove, TypeInv, TypeOK, Spots
<1>2. ASSUME NEW c \in Cards, Expire(c) PROVE \A d \in Cards : Anchored(d)
  <2>1. Firm(card[c], [card[c] EXCEPT !.deadline = "past"])
    BY DEF TypeInv, TypeOK, Firm, Card
  <2> QED
    BY <1>0, <1>2, <2>1, PutAnchored DEF Expire
<1>3. CASE card' = card
  BY <1>0, <1>3, SameAnchored
<1> QED
  BY <1>1, <1>2, <1>3 DEF World, CoolDown, AgentExits, BoxDies, OnlyBox

LEMMA SweeperAnchored ==
  ASSUME TypeInv, Sweeper, ~SweepReopen
  PROVE  \A d \in Cards : Anchored(d)
<1>0. calls' = calls
  BY SweeperFrame
<1>a. \A c \in Cards : card[c] \in Card
  BY DEF TypeInv, TypeOK
<1>b. \A c \in Cards : \A by : Firm(card[c], Try(card[c], "Backlog", by))
  <2>1. "Backlog" \in States \ Held
    BY DEF States, Held
  <2> QED
    BY <1>a, <2>1, FirmMoves
<1>c. sweep.pc \in {"reap", "past", "bounce", "probe"} => sweep.at[1] \in Cards
  BY DEF TypeInv, Wired, Spots
<1>1. CASE SweepCollect \/ SweepList \/ SweepLook \/ SweepCheck
  BY <1>0, <1>1, SameAnchored DEF SweepCollect, SweepList, SweepLook, SweepCheck, OnlySweep
<1>2. CASE SweepRequeue
  <2>1. PICK c \in sweep.expired : Put(c, Try(card[c], "Backlog", "deadline-sweeper"))
    BY <1>2 DEF SweepRequeue
  <2>2. c \in Cards
    BY DEF TypeInv, TypeOK, Sweep
  <2> QED
    BY <1>0, <1>b, <2>1, <2>2, PutAnchored
<1>3. CASE SweepReap
  <2>1. card' = card \/ Put(sweep.at[1], Bereft(card[sweep.at[1]], sweep.at[2]))
    BY <1>3 DEF SweepReap, Remove
  <2> QED
    BY <1>0, <1>3, <1>a, <1>c, <2>1, FirmTouches, SameAnchored, PutAnchored DEF SweepReap, Sweeping
<1>4. CASE SweepProbe
  BY <1>0, <1>4, <1>a, <1>c, FirmTouches, SameAnchored, PutAnchored DEF SweepProbe, Sweeping, Board
<1>5. CASE SweepBounce
  BY <1>0, <1>5, <1>b, <1>c, PutAnchored DEF SweepBounce
<1> QED
  BY <1>1, <1>2, <1>3, <1>4, <1>5 DEF Sweeper

LEMMA RunKeepsPlaces ==
  ASSUME RunInv, SessionInv, PlaceInv, NEW t \in Tasks, RunStep(t)
  PROVE  PlaceInv'
<1> DEFINE c == task[t].card
<1>0. TypeInv /\ c \in Cards /\ Busy(t) /\ t \in InFlight
  BY RunIsBusy DEF RunInv, InFlight
<1>1. RunPlaces(t) /\ RunKeepsOthers(t)
  BY <1>0, RunLocates, RunMinds DEF SessionInv
<1>2. /\ \A u \in Tasks : Busy(u)' => Busy(u) /\ task'[u].card = task[u].card
      /\ \A u \in Tasks \ {t} : task'[u] = task[u]
  BY <1>0, RunKeepsTasks
<1>3. UNCHANGED <<sweep, up, calls>>
  BY RunFrame
<1>4. \A d : Halting(d)' <=> Halting(d)
  BY <1>3 DEF Halting
<1>5. \A d \in Cards : \A n : d # c /\ Placed(d, n) => Placed(d, n)'
  BY <1>1, <1>4 DEF Placed, RunKeepsOthers
<1>6. card'[c].state \in Held => card[c].state \in Held
  BY <1>0, RunHolds DEF RunInv
<1>7. RunPlaced'
  <2> SUFFICES ASSUME NEW u \in Tasks, task'[u].pc \in Located
               PROVE  Placed(task[u].card, task[u].name)'
    BY DEF RunPlaced
  <2>1. Busy(u) /\ task'[u].card = task[u].card
    BY <1>2 DEF Busy, Located
  <2>2. CASE u = t
    <3>1. CASE card'[c].env = task'[t].name
      BY <2>1, <2>2, <3>1 DEF Placed
    <3>2. CASE task[t].pc \in Located /\ task'[t].name = task[t].name /\ card'[c].env = card[c].env
      <4>1. Placed(c, task[t].name)
        BY <3>2 DEF PlaceInv, RunPlaced
      <4> QED
        BY <1>4, <1>6, <2>1, <2>2, <3>2, <4>1 DEF Placed
    <3> QED
      BY <1>1, <2>2, <3>1, <3>2 DEF RunPlaces
  <2>3. CASE u # t
    <3>1. task'[u] = task[u] /\ task[u].card \in Cards /\ task[u].card # c
      BY <1>0, <1>2, <2>1, <2>3 DEF RunInv, OneRunPerCard, InFlight, TypeInv, Wired
    <3>2. Placed(task[u].card, task[u].name)
      BY <3>1 DEF PlaceInv, RunPlaced
    <3>3. card'[task[u].card] = card[task[u].card]
      BY <1>1, <3>1 DEF RunKeepsOthers
    <3> QED
      BY <1>4, <3>1, <3>2, <3>3 DEF Placed
  <2> QED
    BY <2>2, <2>3
<1>8. AdoptPlaced'
  <2> SUFFICES ASSUME ~up PROVE AdoptPlaced'
    BY <1>3 DEF AdoptPlaced
  <2>1. sweep.pc = "scan" /\ \A s \in sweep.adopt : s[1] \in Cards /\ s[1] # c
    BY <1>0 DEF RunInv, BootScan, Scanning, BootAdoptions, Active, TypeInv, TypeOK, Sweep, Spots
  <2>2. \A s \in sweep.adopt : card'[s[1]] = card[s[1]]
    BY <1>1, <2>1 DEF RunKeepsOthers
  <2> QED
    BY <1>3, <1>4, <2>1, <2>2 DEF PlaceInv, AdoptPlaced, Placed
<1> QED
  BY <1>7, <1>8 DEF PlaceInv

LEMMA SweeperPlaces ==
  ASSUME RunInv, PlaceInv, Sweeper, ~SweepReopen
  PROVE  PlaceInv'
<1>0. /\ \A c \in Cards : Anchored(c)
      /\ UNCHANGED <<task, up>>
  BY SweeperAnchored, SweeperFrame DEF RunInv
<1>a. /\ sweep \in Sweep /\ \A s \in sweep.adopt : s \in Spots /\ s[1] \in Cards
      /\ sweep.pc \in {"check", "past", "probe", "bounce"} => sweep.at[1] \in Cards
      /\ \A t \in Tasks : task[t].pc \in Located => task[t].card \in Cards
  BY DEF RunInv, TypeInv, TypeOK, Wired, Sweep, Spots, Busy, Located
<1>1. RunPlaced'
  BY <1>0, <1>a, AnchoredPlaced DEF PlaceInv, RunPlaced, Placed
<1>2. AdoptPlaced'
  <2> SUFFICES ASSUME ~up PROVE AdoptPlaced'
    BY <1>0 DEF AdoptPlaced
  <2>0. PICK adopt, at : adopt = sweep.adopt /\ at = sweep.at
    OBVIOUS
  <2>a. /\ \A s \in adopt : Placed(s[1], s[2])'
        /\ sweep.pc \in {"check", "past", "probe", "bounce"} => Placed(at[1], at[2])'
    <3>1. /\ \A s \in sweep.adopt : Placed(s[1], s[2])
          /\ sweep.pc \in {"check", "past", "probe", "bounce"} => Placed(sweep.at[1], sweep.at[2])
      BY DEF PlaceInv, AdoptPlaced
    <3>2. \A c \in Cards : \A n : Placed(c, n) => Placed(c, n)'
      BY <1>0, AnchoredPlaced
    <3> QED
      BY <1>a, <2>0, <3>1, <3>2
  <2>b. ASSUME sweep'.adopt \subseteq sweep.adopt,
               sweep'.pc \in {"check", "past", "probe", "bounce"} =>
                 /\ sweep'.at = sweep.at
                 /\ sweep.pc \in {"check", "past", "probe", "bounce"}
        PROVE  AdoptPlaced'
    <3>1. sweep'.pc \in {"check", "past", "probe", "bounce"} => sweep'.at = at /\ Placed(at[1], at[2])'
      BY <2>0, <2>a, <2>b
    <3> QED
      BY <2>0, <2>a, <2>b, <3>1 DEF AdoptPlaced, Placed, Halting
  <2>c. ASSUME sweep' = Onward PROVE AdoptPlaced'
    BY <1>a, <2>b, <2>c, OnwardType
  <2>1. CASE SweepCollect \/ SweepList
    BY <2>1, <2>b DEF SweepCollect, SweepList, Pass
  <2>2. CASE SweepRequeue
    BY <1>a, <2>2, <2>b DEF SweepRequeue, Sweeping, Sweep
  <2>3. CASE SweepLook
    <3>1. PICK s \in sweep.spots, plan \in {"none", "reopen", "past", "probe"} :
            /\ card[s[1]].state \in Held /\ plan # "none" => Mine(s)
            /\ sweep' = IF Keep(card[s[1]]) /\ plan = "none" THEN [sweep EXCEPT !.spots = @ \ {s}]
                        ELSE [sweep EXCEPT !.spots = @ \ {s}, !.at = s, !.plan = plan,
                                           !.pc = IF Keep(card[s[1]]) THEN "check" ELSE "reap"]
      BY <2>3 DEF SweepLook
    <3>2. CASE Keep(card[s[1]]) /\ plan = "none"
      <4>1. sweep'.adopt = sweep.adopt /\ sweep'.pc = sweep.pc /\ sweep'.at = sweep.at
        BY <1>a, <3>1, <3>2 DEF Sweep
      <4> QED
        BY <4>1, <2>b
    <3>3. CASE ~(Keep(card[s[1]]) /\ plan = "none")
      <4>1. /\ sweep'.adopt = sweep.adopt /\ sweep'.at = s
            /\ sweep'.pc \in {"check", "reap"} /\ (sweep'.pc = "check" => plan # "none")
        BY <1>a, <3>1, <3>3 DEF Sweep
      <4>2. sweep'.pc = "check" => Placed(s[1], s[2])'
        BY <2>3, <3>1, <4>1 DEF SweepLook, OnlySweep, Placed, Mine
      <4> QED
        BY <2>0, <2>a, <4>1, <4>2 DEF AdoptPlaced, Placed, Halting
    <3> QED
      BY <3>2, <3>3
  <2>4. CASE SweepReap \/ SweepBounce
    BY <2>4, <2>c DEF SweepReap, SweepBounce
  <2>5. CASE SweepCheck
    <3>1. CASE sweep' = [sweep EXCEPT !.pc = sweep.plan, !.plan = "none"]
      <4>1. sweep.pc = "check" /\ sweep'.adopt = sweep.adopt /\ sweep'.at = sweep.at
        BY <1>a, <2>5, <3>1 DEF SweepCheck, Sweeping, Sweep
      <4> QED
        BY <4>1, <2>b
    <3> QED
      BY <2>5, <3>1, <2>c DEF SweepCheck
  <2>6. CASE SweepProbe
    <3>0. sweep.pc = "probe"
      BY <2>6 DEF SweepProbe, Sweeping
    <3>1. CASE sweep' = [sweep EXCEPT !.pc = "bounce"]
      <4>1. sweep'.adopt = sweep.adopt /\ sweep'.at = sweep.at
        BY <1>a, <3>1 DEF Sweep
      <4> QED
        BY <3>0, <4>1, <2>b
    <3>2. CASE sweep' = [Onward EXCEPT !.adopt = @ \cup {sweep.at}]
      <4>1. sweep'.adopt = sweep.adopt \cup {sweep.at} /\ sweep'.pc = "scan"
        BY <1>a, <3>2, OnwardType DEF Sweep
      <4> QED
        BY <2>0, <2>a, <3>0, <4>1 DEF AdoptPlaced, Placed, Halting
    <3> QED
      BY <2>6, <3>1, <3>2, <2>c DEF SweepProbe
  <2> QED
    BY <2>1, <2>2, <2>3, <2>4, <2>5, <2>6 DEF Sweeper
<1> QED
  BY <1>1, <1>2 DEF PlaceInv

LEMMA DispatcherPlaces ==
  ASSUME RunInv, PlaceInv, Dispatcher
  PROVE  PlaceInv'
<1>0. /\ up /\ up' = up /\ calls' = calls
      /\ \A t \in Tasks : task[t].pc \in Located => task[t].card \in Active
      /\ Active \subseteq Cards
  BY DEF RunInv, BootComesFirst, Dispatcher, DispTick, DispPick, DispClaim, DispSpawn,
         Active, InFlight, Busy, Located, TypeInv, Wired
<1>1. AdoptPlaced'
  BY <1>0 DEF AdoptPlaced
<1>2. \A c \in Active : Anchored(c)
  <2>1. CASE DispClaim
    <3>1. disp.card \notin Active /\ disp.card \in Cards
      BY <2>1 DEF DispClaim, RunInv, PickedIsFree, TypeInv, Wired
    <3>2. \A c \in Active : card'[c] = card[c]
      BY <1>0, <2>1, <3>1 DEF DispClaim, Put, Board, RunInv, TypeInv, TypeOK
    <3> QED
      BY <1>0, <3>2 DEF Anchored, Halting
  <2>2. CASE DispTick
    <3>1. \A c \in Cards : card'[c] \in {card[c], Enqueued(card[c])}
      BY <2>2 DEF DispTick
    <3>2. \A c \in Cards : Firm(card[c], card'[c])
      BY <3>1, FirmTouches DEF RunInv, TypeInv, TypeOK
    <3> QED
      BY <1>0, <3>2 DEF Anchored, Firm, Halting
  <2>3. CASE DispPick \/ DispSpawn
    BY <1>0, <2>3, SameAnchored DEF DispPick, DispSpawn
  <2> QED
    BY <2>1, <2>2, <2>3 DEF Dispatcher
<1>3. RunPlaced'
  <2>1. \A t \in Tasks : task'[t].pc \in Located => task'[t] = task[t]
    <3>1. CASE DispSpawn
      <4>1. PICK t \in Tasks :
              task' = [task EXCEPT ![t] = [IdleTask EXCEPT !.pc = "start", !.card = disp.card]]
        BY <3>1 DEF DispSpawn
      <4>2. task'[t].pc = "start" /\ \A u \in Tasks \ {t} : task'[u] = task[u]
        BY <4>1 DEF IdleTask, RunInv, TypeInv, TypeOK
      <4> QED
        BY <4>2 DEF Located
    <3> QED
      BY <3>1 DEF Dispatcher, DispTick, DispPick, DispClaim
  <2> SUFFICES ASSUME NEW t \in Tasks, task'[t].pc \in Located
               PROVE  Placed(task[t].card, task[t].name)'
    BY DEF RunPlaced
  <2>2. PICK c \in Active, n \in {task[t].name} : c = task[t].card
    BY <1>0, <2>1
  <2>3. Placed(c, n)
    BY <2>1, <2>2 DEF PlaceInv, RunPlaced
  <2>4. Placed(c, n)'
    BY <1>0, <1>2, <2>3, AnchoredPlaced
  <2> QED
    BY <2>1, <2>2, <2>4 DEF Placed, Halting
<1> QED
  BY <1>1, <1>3 DEF PlaceInv

LEMMA BootPlaces ==
  ASSUME RunInv, PlaceInv, Boot \/ Crash
  PROVE  PlaceInv'
<1>1. CASE BootAdopt
  <2>1. PICK s \in sweep.adopt, t \in Tasks :
          /\ task' = [task EXCEPT ![t] = [IdleTask EXCEPT !.pc = "adopted", !.card = s[1], !.name = s[2]]]
          /\ sweep' = [sweep EXCEPT !.adopt = @ \ {s}]
    BY <1>1 DEF BootAdopt
  <2>2. /\ task'[t].card = s[1] /\ task'[t].name = s[2]
        /\ \A u \in Tasks \ {t} : task'[u] = task[u]
    BY <2>1 DEF IdleTask, RunInv, TypeInv, TypeOK
  <2>3. /\ ~up /\ UNCHANGED <<card, calls, up>> /\ sweep.pc = "scan"
        /\ sweep'.pc = sweep.pc /\ sweep'.adopt = sweep.adopt \ {s}
    BY <1>1, <2>1 DEF BootAdopt, Sweeping, RunInv, TypeInv, TypeOK, Sweep
  <2>4. AdoptPlaced'
    BY <2>3 DEF PlaceInv, AdoptPlaced, Placed, Halting
  <2>5. RunPlaced'
    BY <2>1, <2>2, <2>3 DEF PlaceInv, AdoptPlaced, RunPlaced, Placed, Halting
  <2> QED
    BY <2>4, <2>5 DEF PlaceInv
<1>2. CASE BootDone \/ BootBlind
  BY <1>2 DEF BootDone, BootBlind, PlaceInv, RunPlaced, AdoptPlaced, Placed, Halting
<1>3. CASE Crash
  BY <1>3 DEF Crash, IdleTask, Pass, Located, PlaceInv, RunPlaced, AdoptPlaced
<1> QED
  BY <1>1, <1>2, <1>3 DEF Boot

LEMMA PlaceNext ==
  ASSUME RunInv, SessionInv, PlaceInv, [Next]_vars, ~SweepReopen
  PROVE  PlaceInv'
<1>a. /\ \A t \in Tasks : task[t].pc \in Located => task[t].card \in Cards
      /\ \A s \in sweep.adopt : s[1] \in Cards
      /\ sweep.pc \in {"check", "past", "probe", "bounce"} => sweep.at[1] \in Cards
  BY DEF RunInv, TypeInv, TypeOK, Wired, Sweep, Spots, Busy, Located
<1>1. ASSUME \A c \in Cards : Anchored(c), UNCHANGED <<task, sweep, up>>
      PROVE  PlaceInv'
  <2>1. \A c \in Cards : \A n : Placed(c, n) => Placed(c, n)'
    BY <1>1, AnchoredPlaced
  <2> QED
    BY <1>1, <1>a, <2>1 DEF PlaceInv, RunPlaced, AdoptPlaced, Placed, Halting
<1>2. ASSUME NEW t \in Tasks, RunStep(t) PROVE PlaceInv'
  BY <1>2, RunKeepsPlaces
<1>3. CASE Operator \/ Unfinished \/ World
  <2>1. UNCHANGED <<task, sweep, up>>
    BY <1>3, OperatorFrame, WorldFrame
  <2> QED
    BY <1>1, <1>3, <2>1, OperatorAnchored, UnfinishedAnchored, WorldAnchored DEF RunInv
<1>4. CASE UNCHANGED vars
  BY <1>1, <1>4, SameAnchored DEF vars
<1> QED
  BY <1>2, <1>3, <1>4, SweeperPlaces, DispatcherPlaces, BootPlaces DEF Next, RunStep

LEMMA PlaceInit == Init => PlaceInv
  BY DEF Init, IdleTask, Located, PlaceInv, RunPlaced, AdoptPlaced

(* Start-up reopens a Backlog card for the sandbox it saw it naming; in between the card  *)
(* may lose that name.                                                                     *)
ReopensTheNamed == SweepReopen => card[sweep.at[1]].env = sweep.at[2]

LEMMA ReopenPlaces ==
  ASSUME RunInv, PlaceInv, SweepReopen, ReopensTheNamed
  PROVE  PlaceInv'
<1>1. sweep.pc = "reopen" /\ ~up /\ UNCHANGED <<task, calls, up>>
  BY DEF SweepReopen, Sweeping, SweepAndBoard, RunInv, ReopensAtBoot
<1>2. /\ \A t \in Tasks : task[t].pc = "idle"
      /\ \A s \in sweep.adopt : s[1] = sweep.at[1] => s = sweep.at
  BY <1>1 DEF RunInv, BootScan, Scanning, Busy
<1>3. /\ sweep \in Sweep /\ \A s \in sweep.adopt : s[1] \in Cards
      /\ sweep.at[1] \in Cards /\ card \in [Cards -> Card]
  BY <1>1 DEF RunInv, TypeInv, TypeOK, Wired, Sweep, Spots
<1>4. RunPlaced'
  BY <1>1, <1>2 DEF RunPlaced, Located
<1>5. CASE card' = card /\ sweep' = Onward
  <2>1. sweep'.pc = "scan" /\ sweep'.adopt = sweep.adopt
    BY <1>3, <1>5, OnwardType
  <2> QED
    BY <1>1, <1>4, <1>5, <2>1 DEF PlaceInv, AdoptPlaced, Placed, Halting
<1>6. CASE Put(sweep.at[1], Reopened(card[sweep.at[1]])) /\ sweep' = [sweep EXCEPT !.pc = "probe"]
  <2>1. sweep'.at = sweep.at /\ sweep'.adopt = sweep.adopt
    BY <1>3, <1>6 DEF Sweep
  <2>2. card'[sweep.at[1]].env = sweep.at[2]
    BY <1>3, <1>6, ClaimKeeps DEF Put, ReopensTheNamed
  <2>3. \A c \in Cards : c # sweep.at[1] => card'[c] = card[c]
    BY <1>3, <1>6 DEF Put
  <2> QED
    BY <1>1, <1>2, <1>3, <1>4, <2>1, <2>2, <2>3 DEF PlaceInv, AdoptPlaced, Placed, Halting
<1> QED
  BY <1>5, <1>6 DEF SweepReopen, Board

(* As long as a card that start-up reopens still names the sandbox it is reopened for, a    *)
(* held card that nobody is halting names the sandbox its run works in, through every        *)
(* crash and adoption: what the next start-up would adopt, and the sweeper must not reap.    *)
(* (A card halted between start-up's look at it and its reopening comes back held, with a    *)
(* run and without a name.)                                                                   *)
THEOREM RunsWhereTheCardSays ==
  Spec /\ [][ReopensTheNamed]_vars => []RunIsWhereTheCardSays
<1>1. RunInv /\ SessionInv /\ PlaceInv /\ [Next]_vars /\ [ReopensTheNamed]_vars => PlaceInv'
  <2> SUFFICES ASSUME RunInv, SessionInv, PlaceInv, [Next]_vars, [ReopensTheNamed]_vars
               PROVE  PlaceInv'
    OBVIOUS
  <2>1. CASE UNCHANGED vars
    BY <2>1 DEF vars, PlaceInv, RunPlaced, AdoptPlaced, Placed, Halting
  <2>2. CASE SweepReopen /\ ~UNCHANGED vars
    BY <2>2, ReopenPlaces
  <2>3. CASE ~SweepReopen
    BY <2>3, PlaceNext
  <2> QED
    BY <2>1, <2>2, <2>3
<1>2. PlaceInv => RunIsWhereTheCardSays
  BY DEF PlaceInv, RunPlaced, Placed, Halting, RunIsWhereTheCardSays, Located, InFlight
<1> QED
  BY PlaceInit, <1>1, <1>2, InvHolds, SessionHolds, PTL DEF Spec

-------------------------------------------------------------------------------
(* Who watches an agent, as long as no exec is lost and the process does not die. *)

(* A run watches its agent, settles its verdict, and then stops it. *)
Watching == {"watch", "finish", "ask", "plead", "deliver", "stop"}

Attends(t, c, n) == task[t].pc \in Watching /\ task[t].card = c /\ task[t].name = n

(* A live agent is in a sandbox that is up, and a run still has to stop it. *)
AgentsAttended ==
  \A c \in Cards, n \in Names :
    /\ ~box[c][n].stray
    /\ box[c][n].agent = "live" => box[c][n].st = "up" /\ \E t \in Tasks : Attends(t, c, n)

(* No run was adopted, and none is let go with its agent running. *)
NoneDetached == \A t \in Tasks : task[t].pc # "adopted" /\ task[t].out \notin {"lost", "detach"}

WatchInv == up /\ NoneDetached /\ AgentsAttended

(* A step that starts no agent and moves none. *)
Calm(c, n) ==
  /\ box'[c][n].stray => box[c][n].stray
  /\ box'[c][n].agent = "live" => box[c][n].agent = "live" /\ box'[c][n].st = box[c][n].st

LEMMA RemoveCalm ==
  ASSUME TypeInv, NEW c \in Cards, NEW m, Remove(c, m)
  PROVE  \A d \in Cards, n \in Names : Calm(d, n)
  BY BoxAt DEF Remove, Calm, NoBox

LEMMA SameCalm ==
  ASSUME box' = box
  PROVE  \A d \in Cards, n \in Names : Calm(d, n)
  BY DEF Calm

LEMMA CalmKeeps ==
  ASSUME AgentsAttended, \A c \in Cards, n \in Names : Calm(c, n),
         \A t \in Tasks : task[t].pc \in Watching => task'[t] = task[t]
  PROVE  AgentsAttended'
<1> SUFFICES ASSUME NEW c \in Cards, NEW n \in Names
             PROVE  /\ ~box'[c][n].stray
                    /\ box'[c][n].agent = "live" =>
                         box'[c][n].st = "up" /\ \E t \in Tasks : Attends(t, c, n)'
  BY DEF AgentsAttended
<1>1. Calm(c, n)
  OBVIOUS
<1>2. \A t \in Tasks : Attends(t, c, n) => Attends(t, c, n)'
  BY DEF Attends
<1> QED
  BY <1>1, <1>2 DEF AgentsAttended, Calm

LEMMA WorldCalm ==
  ASSUME TypeInv, World
  PROVE  \A d \in Cards, n \in Names : Calm(d, n)
<1>1. ASSUME NEW s \in deletes, DeleteLands(s) PROVE \A d \in Cards, n \in Names : Calm(d, n)
  BY <1>1, RemoveCalm DEF DeleteLands, TypeInv, TypeOK, Spots
<1>2. ASSUME NEW c \in Cards, NEW n \in Names, AgentExits(c, n) \/ BoxDies(c, n)
      PROVE  \A d \in Cards, m \in Names : Calm(d, m)
  <2>0. box[c][n] \in Box
    BY DEF TypeInv, TypeOK
  <2>1. \E b : /\ SetBox(c, n, b)
               /\ b.stray => box[c][n].stray
               /\ b.agent = "live" => box[c][n].agent = "live" /\ b.st = box[c][n].st
    <3>1. CASE BoxDies(c, n)
      <4> DEFINE b == [box[c][n] EXCEPT !.st = "down", !.agent = "none", !.stray = FALSE]
      <4>1. ~b.stray /\ b.agent = "none"
        BY <2>0 DEF Box
      <4>2. SetBox(c, n, b)
        BY <3>1 DEF BoxDies
      <4> HIDE DEF b
      <4> QED
        BY <4>1, <4>2
    <3>2. CASE AgentExits(c, n)
      <4>1. PICK kind, d, ask, work :
              /\ d = IF kind = "agent" THEN [box[c][n] EXCEPT !.agent = "exited"]
                     ELSE [box[c][n] EXCEPT !.stray = FALSE]
              /\ SetBox(c, n, [d EXCEPT !.ask = ask, !.work = work])
        BY <3>2 DEF AgentExits
      <4>2. /\ d.stray => box[c][n].stray
            /\ d.agent = "live" => box[c][n].agent = "live"
            /\ d.st = box[c][n].st
        BY <2>0, <4>1 DEF Box
      <4>3. /\ [d EXCEPT !.ask = ask, !.work = work].stray = d.stray
            /\ [d EXCEPT !.ask = ask, !.work = work].agent = d.agent
            /\ [d EXCEPT !.ask = ask, !.work = work].st = d.st
        BY <2>0, <4>1 DEF Box
      <4> QED
        BY <4>1, <4>2, <4>3
    <3> QED
      BY <1>2, <3>1, <3>2
  <2> QED
    BY <2>1, BoxAt DEF Calm
<1>3. CASE box' = box
  BY <1>3, SameCalm
<1> QED
  BY <1>1, <1>2, <1>3 DEF World, CoolDown, Expire, OnlyBoard

(* What a run does to the agents of its own card. *)
RunAttends(t) ==
  LET c == task[t].card IN
  /\ task'[t].pc # "adopted" /\ task'[t].out \notin {"lost", "detach"}
  /\ \A n \in Names :
       /\ ~box'[c][n].stray
       /\ box'[c][n].agent = "live" =>
            /\ box'[c][n].st = "up"
            /\ task'[t].pc \in Watching /\ task'[t].name = n

LEMMA RunWatches ==
  ASSUME RunInv, WatchInv, "drop" \notin Faults, NEW t \in Tasks, RunStep(t)
  PROVE  RunAttends(t)
<1> DEFINE c == task[t].card
<1> USE DEF At, Watching
<1>0. /\ c \in Cards /\ card[c] \in Card /\ task \in [Tasks -> Task] /\ task[t] \in Task
      /\ box \in [Cards -> [Names -> Box]] /\ Busy(t) /\ TypeInv
  BY RunIsBusy DEF RunInv, TypeInv, TypeOK
<1>1. /\ task[t].pc # "adopted" /\ task[t].out \notin {"lost", "detach"}
      /\ \A n \in Names : /\ ~box[c][n].stray
                          /\ box[c][n].agent = "live" =>
                               /\ box[c][n].st = "up" /\ task[t].pc \in Watching /\ task[t].name = n
  BY <1>0 DEF WatchInv, NoneDetached, AgentsAttended, Attends, RunInv, OneRunPerCard, InFlight, Busy
<1>g. ASSUME NEW pc, Goto(t, pc)
      PROVE  task'[t].pc = pc /\ task'[t].name = task[t].name /\ task'[t].out = task[t].out
  BY <1>0, <1>g DEF Goto, Task
<1>e. ASSUME NEW pc, NEW out, Ends(t, pc, out)
      PROVE  task'[t].pc = pc /\ task'[t].name = task[t].name /\ task'[t].out = out
  BY <1>0, <1>e DEF Ends, Task
<1>i. ASSUME Retire(t) PROVE task'[t].pc = "idle" /\ task'[t].out = "ok"
  BY <1>0, <1>i DEF Retire, IdleTask
<1> DEFINE Fine == task'[t].pc # "adopted" /\ task'[t].out \notin {"lost", "detach"}
(* A run that watches goes on watching; one that does not has no agent to lose. *)
<1>s. ASSUME box' = box, Fine,
             task[t].pc \notin Watching \/ (task'[t].pc \in Watching /\ task'[t].name = task[t].name)
      PROVE  RunAttends(t)
  BY <1>1, <1>s DEF RunAttends
<1>c. ASSUME \A n \in Names : Calm(c, n), Fine, task[t].pc \notin Watching
      PROVE  RunAttends(t)
  BY <1>1, <1>c DEF RunAttends, Calm
<1>2. CASE RunStart(t) \/ RunUncovered(t)
  BY <1>1, <1>2, <1>g, <1>e, <1>s DEF RunStart, RunUncovered, OnlyTask
<1>3. CASE RunRouted(t) \/ RunReuse(t)
  <2>1. task[t].pc \in {"route", "probe"} /\ box' = box
    BY <1>1, <1>3 DEF RunRouted, RunReuse, OnlyTask
  <2>2. Fine
    BY <1>0, <1>1, <1>3 DEF RunRouted, RunReuse, Task
  <2> QED
    BY <1>s, <2>1, <2>2
<1>4. CASE RunAsk(t)
  BY <1>1, <1>4, <1>g, <1>s DEF RunAsk, TaskAndBoard
<1>5. CASE RunPlead(t)
  BY <1>1, <1>5, <1>e, <1>i, <1>s DEF RunPlead, TaskAndBoard
<1>6. CASE RunBind(t) \/ RunName(t) \/ RunBeat(t)
  BY <1>1, <1>6, <1>g, <1>s DEF RunBind, RunName, RunBeat, TaskAndBoard
<1>7. CASE RunCold(t)
  <2>1. \A n \in Names : Calm(c, n)
    BY <1>0, <1>7, RemoveCalm, SameCalm DEF RunCold
  <2>2. Fine /\ task[t].pc = "probe"
    BY <1>0, <1>1, <1>7 DEF RunCold, Task
  <2> QED
    BY <1>c, <2>1, <2>2
<1>8. CASE RunMake(t)
  <2>1. SetBox(c, task[t].name, NewBox) /\ Goto(t, "beat") /\ task[t].pc = "make"
    BY <1>8 DEF RunMake
  <2>2. \A n \in Names : Calm(c, n)
    BY <1>0, <2>1, BoxAt DEF Calm, NewBox, NoBox
  <2> QED
    BY <1>1, <1>c, <1>g, <2>1, <2>2
<1>9. CASE RunUnmade(t)
  <2>1. \A n \in Names : Calm(c, n)
    BY <1>0, <1>9, RemoveCalm DEF RunUnmade
  <2> QED
    BY <1>1, <1>9, <1>c, <1>e, <2>1 DEF RunUnmade
<1>10. CASE RunArm(t)
  <2>0. task[t].pc = "arm" /\ task[t].name # NoEnv /\ task[t].name \in Names
    BY <1>0, <1>10 DEF RunArm, Reach, Task
  <2>1. Here(t) \in Box /\ Here(t).st = "up" /\ ~Here(t).stray /\ Here(t).agent # "live"
    BY <1>0, <1>1, <1>10, <2>0 DEF RunArm, Reach, Here
  <2> DEFINE b == [Here(t) EXCEPT !.agent = "live", !.stray = @ \/ Here(t).agent = "live"]
  <2>2. b.st = "up" /\ ~b.stray
    BY <2>1 DEF Box
  <2>3. SetBox(c, task[t].name, b)
    BY <1>10 DEF RunArm
  <2>4. task'[t].pc = "watch" /\ task'[t].name = task[t].name /\ task'[t].out = task[t].out
    BY <1>0, <1>10 DEF RunArm, Task
  <2>5. \A n \in Names : box'[c][n] = IF n = task[t].name THEN b ELSE box[c][n]
    BY <1>0, <2>3, BoxAt
  <2> HIDE DEF b
  <2> QED
    BY <1>1, <2>0, <2>2, <2>4, <2>5 DEF RunAttends
<1>11. CASE RunBroken(t) \/ RunCancelled(t)
  BY <1>1, <1>11, <1>e, <1>s DEF RunBroken, RunCancelled, WindDown, OnlyTask, Cancellable
<1>12. CASE RunHear(t)
  BY <1>0, <1>1, <1>12, <1>s DEF RunHear
<1>13. CASE RunStreamEnds(t) \/ RunStreamBreaks(t) \/ RunNoVerdict(t) \/ RunRefused(t)
  BY <1>1, <1>13, <1>e, <1>g, <1>s
  DEF RunStreamEnds, RunStreamBreaks, RunNoVerdict, RunRefused, OnlyTask
<1>14. CASE RunVerdict(t)
  <2>1. /\ task[t].pc = "finish"
        /\ \E pc \in {"ask", "deliver", "stop"}, out \in {"ok", "failed", "infra"} : Ends(t, pc, out)
    <3>1. task[t].pc = "finish" /\ task[t].out # "lost"
      BY <1>1, <1>14 DEF RunVerdict
    <3> QED
      BY <1>14, <3>1 DEF RunVerdict
  <2>2. CASE box' = box
    BY <1>e, <1>s, <2>1, <2>2
  <2>3. CASE Reach(t) /\ SetBox(c, task[t].name, [Here(t) EXCEPT !.ask = "used"])
    <3>1. task[t].name \in Names /\ Here(t) \in Box
      BY <1>0, <2>3 DEF Reach, Task, Here
    <3> DEFINE b == [Here(t) EXCEPT !.ask = "used"]
    <3>2. b.agent = Here(t).agent /\ b.st = Here(t).st /\ b.stray = Here(t).stray
      BY <3>1 DEF Box
    <3>3. \A n \in Names : box'[c][n] = IF n = task[t].name THEN b ELSE box[c][n]
      BY <1>0, <2>3, BoxAt
    <3> HIDE DEF b
    <3>4. Fine /\ task'[t].pc \in Watching /\ task'[t].name = task[t].name
      BY <1>e, <2>1
    <3> QED
      BY <1>1, <3>2, <3>3, <3>4 DEF RunAttends, Here
  <2> QED
    BY <1>14, <2>2, <2>3 DEF RunVerdict
<1>15. CASE RunDeliver(t)
  BY <1>1, <1>15, <1>e, <1>s DEF RunDeliver, TaskAndBoard
<1>16. CASE RunStop(t)
  <2>1. task[t].pc = "stop" /\ Goto(t, "settle") /\ StopsAgent(task[t].out)
    BY <1>1, <1>16 DEF RunStop, StopsAgent
  <2>2. CASE box' = box
    <3>1. ~Reach(t) \/ Here(t).agent # "live"
      <4>1. Reach(t) /\ Here(t).agent = "live" => box' # box
        <5> SUFFICES ASSUME Reach(t), Here(t).agent = "live" PROVE box' # box
          OBVIOUS
        <5>1. SetBox(c, task[t].name, [Here(t) EXCEPT !.agent = "none"])
          BY <1>16, <2>1 DEF RunStop
        <5>2. task[t].name \in Names /\ Here(t) \in Box
          BY <1>0 DEF Reach, Task, Here
        <5>3. box'[c][task[t].name] = [Here(t) EXCEPT !.agent = "none"]
          BY <1>0, <5>1, <5>2, BoxAt
        <5>4. [Here(t) EXCEPT !.agent = "none"].agent = "none"
          BY <5>2 DEF Box
        <5> QED
          BY <5>3, <5>4 DEF Here
      <4> QED
        BY <2>2, <4>1
    <3>2. \A n \in Names : box[c][n].agent # "live"
      BY <1>0, <1>1, <3>1, MaxAttemptsAssumption DEF Reach, Here, Names, NoEnv
    <3> QED
      BY <1>1, <1>g, <2>1, <2>2, <3>2 DEF RunAttends
  <2>3. CASE SetBox(c, task[t].name, [Here(t) EXCEPT !.agent = "none"]) /\ Reach(t)
    <3>1. task[t].name \in Names /\ Here(t) \in Box
      BY <1>0, <2>3 DEF Reach, Task, Here
    <3> DEFINE b == [Here(t) EXCEPT !.agent = "none"]
    <3>2. b.agent = "none" /\ b.stray = Here(t).stray
      BY <3>1 DEF Box
    <3>3. \A n \in Names : box'[c][n] = IF n = task[t].name THEN b ELSE box[c][n]
      BY <1>0, <2>3, BoxAt
    <3> HIDE DEF b
    <3> QED
      BY <1>1, <1>g, <2>1, <3>1, <3>2, <3>3 DEF RunAttends, Here
  <2> QED
    BY <1>16, <2>2, <2>3 DEF RunStop
<1>17. CASE RunSettle(t) \/ RunRequeue(t)
  BY <1>1, <1>17, <1>i, <1>s DEF RunSettle, RunRequeue, TaskAndBoard
<1>18. CASE RunCount(t)
  <2> DEFINE next == IF Counted(card[c]).failures < MaxAttempts THEN "requeue" ELSE "giveup"
             pc   == IF card[c].state = "Claimed" THEN "promote" ELSE next
             out  == IF next = "requeue" THEN "failed" ELSE "bad"
  <2>1. Ends(t, pc, out) /\ task[t].pc = "settle" /\ box' = box
    BY <1>18 DEF RunCount, Ends, TaskAndBoard
  <2>2. pc # "adopted" /\ out \notin {"lost", "detach"}
    OBVIOUS
  <2> HIDE DEF pc, out
  <2> QED
    BY <1>e, <1>s, <2>1, <2>2
<1>19. CASE RunPromote(t)
  BY <1>1, <1>19, <1>g, <1>s DEF RunPromote, TaskAndBoard
<1> QED
  BY <1>2, <1>3, <1>4, <1>5, <1>6, <1>7, <1>8, <1>9, <1>10, <1>11, <1>12, <1>13, <1>14, <1>15,
     <1>16, <1>17, <1>18, <1>19 DEF RunStep, Run

LEMMA WatchNext ==
  ASSUME RunInv, WatchInv, [Next]_vars, "drop" \notin Faults, MaxRestarts = 0
  PROVE  WatchInv'
<1>0. TypeInv /\ up /\ task \in [Tasks -> Task]
  BY DEF RunInv, TypeInv, TypeOK, WatchInv
<1>a. ASSUME \A c \in Cards, n \in Names : Calm(c, n), up' = up,
             \A t \in Tasks : \/ task'[t] = task[t]
                              \/ /\ task[t].pc = "idle"
                                 /\ task'[t].pc = "start" /\ task'[t].out = "ok"
      PROVE  WatchInv'
  <2>1. AgentsAttended'
    BY <1>a, CalmKeeps DEF WatchInv, Watching
  <2>2. NoneDetached'
    BY <1>a DEF WatchInv, NoneDetached
  <2> QED
    BY <1>a, <2>1, <2>2 DEF WatchInv
<1>1. ASSUME NEW t \in Tasks, RunStep(t) PROVE WatchInv'
  <2> DEFINE c == task[t].card
  <2>0. c \in Cards
    BY <1>0, <1>1, RunIsBusy
  <2>1. RunAttends(t) /\ RunKeepsOthers(t)
    BY <1>0, <1>1, RunWatches, RunMinds
  <2>2. /\ \A u \in Tasks : Busy(u)' => task'[u].card = task[u].card
        /\ \A u \in Tasks \ {t} : task'[u] = task[u]
    BY <1>0, <1>1, RunKeepsTasks
  <2>3. NoneDetached'
    BY <2>1, <2>2 DEF RunAttends, WatchInv, NoneDetached
  <2>4. AgentsAttended'
    <3> SUFFICES ASSUME NEW d \in Cards, NEW n \in Names
                 PROVE  /\ ~box'[d][n].stray
                        /\ box'[d][n].agent = "live" =>
                             box'[d][n].st = "up" /\ \E u \in Tasks : Attends(u, d, n)'
      BY DEF AgentsAttended
    <3>1. CASE d = c
      BY <2>1, <2>2, <3>1 DEF RunAttends, Attends, Busy, Watching
    <3>2. CASE d # c
      <4>1. box'[d] = box[d]
        BY <2>1, <3>2 DEF RunKeepsOthers
      <4>2. \A u \in Tasks : Attends(u, d, n) => Attends(u, d, n)'
        BY <2>2, <3>2 DEF Attends
      <4> QED
        BY <4>1, <4>2 DEF WatchInv, AgentsAttended
    <3> QED
      BY <3>1, <3>2
  <2>5. up' = up
    BY <1>1, RunFrame
  <2> QED
    BY <2>3, <2>4, <2>5 DEF WatchInv
<1>2. CASE Operator \/ Unfinished \/ World
  <2>1. UNCHANGED <<task, up>>
    BY <1>2, OperatorFrame, WorldFrame
  <2>2. Operator \/ Unfinished => box' = box
    BY OperatorFrame
  <2>3. \A c \in Cards, n \in Names : Calm(c, n)
    BY <1>0, <1>2, <2>2, WorldCalm, SameCalm
  <2> QED
    BY <1>a, <2>1, <2>3
<1>3. CASE Sweeper
  <2>1. UNCHANGED <<task, up>>
    BY <1>3, SweeperFrame
  <2>2. \A c \in Cards, n \in Names : Calm(c, n)
    <3>1. CASE SweepReap
      <4>1. sweep.at[1] \in Cards
        BY <1>0, <3>1 DEF SweepReap, Sweeping, TypeInv, Wired, Spots
      <4> QED
        BY <1>0, <3>1, <4>1, RemoveCalm, SameCalm DEF SweepReap
    <3>2. CASE box' = box
      BY <3>2, SameCalm
    <3> QED
      BY <1>3, <3>1, <3>2 DEF Sweeper, SweepCollect, SweepRequeue, SweepList, SweepLook, SweepCheck,
                SweepReopen, SweepProbe, SweepBounce, OnlySweep, SweepAndBoard
  <2> QED
    BY <1>a, <2>1, <2>2
<1>4. CASE Dispatcher
  <2>1. box' = box /\ up' = up
    BY <1>4 DEF Dispatcher, DispTick, DispPick, DispClaim, DispSpawn
  <2>2. CASE DispSpawn
    <3>1. PICK t \in Tasks :
            /\ task[t].pc = "idle"
            /\ task' = [task EXCEPT ![t] = [IdleTask EXCEPT !.pc = "start", !.card = disp.card]]
      BY <2>2 DEF DispSpawn, Busy
    <3>2. /\ task'[t].pc = "start" /\ task'[t].out = "ok"
          /\ \A u \in Tasks \ {t} : task'[u] = task[u]
      BY <1>0, <3>1 DEF IdleTask
    <3> QED
      BY <1>a, <2>1, <3>1, <3>2, SameCalm
  <2>3. CASE task' = task
    BY <1>a, <2>1, <2>3, SameCalm
  <2> QED
    BY <1>4, <2>2, <2>3 DEF Dispatcher, DispTick, DispPick, DispClaim
<1>5. CASE UNCHANGED vars
  BY <1>a, <1>5, SameCalm DEF vars
<1>6. ~Boot /\ ~Crash
  BY <1>0 DEF Boot, BootAdopt, BootDone, BootBlind, Crash, TypeInv, TypeOK
<1> QED
  BY <1>1, <1>2, <1>3, <1>4, <1>5, <1>6 DEF Next, RunStep

LEMMA WatchInit == Init => WatchInv
  BY DEF Init, IdleTask, NoBox, WatchInv, NoneDetached, AgentsAttended

(* While no exec and no delete is lost and the process does not die, no agent works       *)
(* unwatched and none shares its sandbox: every way a run ends - its verdict, an error,     *)
(* the board's cancelling it - stops its agent first, whatever verbs interleave with it.    *)
THEOREM EveryAgentIsWatched ==
  ASSUME "drop" \notin Faults, MaxRestarts = 0
  PROVE  Spec => []NoUnwatchedAgent
<1>1. RunInv /\ WatchInv /\ [Next]_vars => WatchInv'
  BY WatchNext
<1>2. WatchInv => NoUnwatchedAgent
  BY DEF WatchInv, AgentsAttended, Attends, NoUnwatchedAgent, InFlight, Busy, Watching
<1> QED
  BY WatchInit, <1>1, <1>2, InvHolds, PTL DEF Spec
================================================================================
