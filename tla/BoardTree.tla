------------------------------ MODULE BoardTree ------------------------------
(***************************************************************************)
(* The tree of work items (src/store.rs): Projects, the flat Tasks under   *)
(* them, the edges between Tasks, and the proposals that become Tasks.     *)
(*                                                                         *)
(* A verb is a thread that takes the Board's lock once per section and     *)
(* keeps what it read in locals in between, so another verb may run        *)
(* between any two sections of it: `job` holds those threads.              *)
(*                                                                         *)
(* Of a card's life the tree needs Backlog, Claimed, Review and the ends;  *)
(* CardRuns models the rest.  A title is a member of a small set, compared *)
(* the way normalize_title compares them; "plan" is any title that         *)
(* is_initial_plan_task recognizes.  Project.plan is left out: this        *)
(* version clears it and never writes it.                                  *)
(***************************************************************************)
EXTENDS Integers, Sequences, FiniteSets

CONSTANTS
  Workers,      \* threads running verbs of several sections
  MaxId,        \* bound: item ids handed out
  MaxMade,      \* bound: items one verb may create
  Titles,       \* titles of Tasks other than the Initial plan
  Keys,         \* plan keys
  Plans,        \* proposals an Initial plan may carry
  Splits,       \* proposals another card may carry
  Mixes         \* what happens: each behaviour is one of these mixes of verbs

AllVerbs == {"init", "task", "plan", "split", "done", "heal", "changes", "epics",
             "cut", "unarchive", "delete"}

Spec_ == [key: Keys, title: Titles, needs: SUBSET Keys]

(* verbs    the verbs that happen                                              *)
(* overlap  whether another verb may run between two sections of one           *)
(* titles   what an operator may call a Task                                   *)
(* ids      bound: the highest id; crashes, bound: restarts of the process     *)
Mix == [verbs: SUBSET AllVerbs, overlap: BOOLEAN, titles: SUBSET Titles,
        ids: 1 .. MaxId, crashes: Nat]

ASSUME BoundsAssumption == MaxId \in Nat \ {0} /\ MaxMade \in Nat
ASSUME TitlesAssumption == "plan" \notin Titles /\ "project" \notin Titles
ASSUME ProposalsAssumption ==
  \A p \in Plans \cup Splits : p \in Seq(Spec_) /\ Len(p) \in 1 .. MaxMade
ASSUME MixesAssumption == Mixes \subseteq Mix

VARIABLES
  item,       \* BoardState.items: a function on the ids that are there
  nextId,     \* BoardState.next_id
  kids,       \* BoardState.children_by_parent
  byState,    \* BoardState.ids_by_state
  job,        \* [Workers -> Job]
  approved,   \* [Ids -> how often the card was moved to Done, 2 standing for more]
  crashes,    \* restarts so far
  mix         \* the mix of this behaviour

vars == <<item, nextId, kids, byState, job, approved, crashes, mix>>

M == INSTANCE CardMachine WITH MaxAttempts <- 1

Ids == 1 .. MaxId
NoId == 0
None == <<>>
Unmade == [k \in Keys |-> NoId]

(* made: the item_id stamps of the proposal; from: the card whose proposal made it. *)
Item == [parent: Ids \cup {NoId}, title: Titles \cup {"plan", "project"},
         state: M!States, prior: M!States, blocked: SUBSET Ids,
         proposal: Plans \cup Splits \cup {None}, made: [Keys -> Ids \cup {NoId}],
         from: Ids \cup {NoId}]

Pcs == {"idle", "seed", "check", "insert", "shape", "ready", "commit", "wire",
        "read", "load", "match", "next", "stamp", "drop", "bounce", "set", "review",
        "walk", "retire", "look", "restore", "scan", "judge", "open", "close"}

(* id      the card or Project the verb is about                               *)
(* proj    the parent to create under                                          *)
(* new     the item just created, or the one a walk has in hand                *)
(* again   create_project is at its second seed                                *)
(* specs   the proposal it works from; todo, what is left of it                *)
(* needs   the blockers to set; for epics, the Projects that were still Draft  *)
(* known   siblings by title, keys items by plan key: read once                *)
Job == [verb: AllVerbs \cup {"project"}, pc: Pcs,
        id: Ids \cup {NoId}, proj: Ids \cup {NoId}, new: Ids \cup {NoId},
        title: Titles \cup {"plan"}, needs: SUBSET Ids, again: BOOLEAN,
        specs: Plans \cup Splits \cup {None},
        todo: Seq(Spec_),
        known: [Titles -> Ids \cup {NoId}], keys: [Keys -> Ids \cup {NoId}],
        stack: SUBSET Ids, to: M!States]

Idle == [verb |-> "project", pc |-> "idle", id |-> NoId, proj |-> NoId, new |-> NoId,
         title |-> "plan", needs |-> {}, again |-> FALSE, specs |-> None, todo |-> None,
         known |-> [t \in Titles |-> NoId], keys |-> Unmade, stack |-> {}, to |-> "Draft"]

Live == DOMAIN item
IsProject(i) == item[i].parent = NoId
IsInitial(i) == item[i].title = "plan"

Init ==
  /\ item = <<>> /\ nextId = 1
  /\ kids = [i \in Ids |-> {}] /\ byState = [s \in M!States |-> {}]
  /\ job = [w \in Workers |-> Idle] /\ approved = [i \in Ids |-> 0] /\ crashes = 0
  /\ mix \in Mixes

-------------------------------------------------------------------------------
(* The write paths: insert_item, remove_item and transition_locked, each with  *)
(* the upkeep of the two indexes.  Room keeps the bound in Insert from biting. *)

NewItem(parent, title, from) ==
  [parent |-> parent, title |-> title, state |-> "Draft", prior |-> "Retired",
   blocked |-> {}, proposal |-> None, made |-> Unmade, from |-> from]

InsertReusing(r) ==          \* mutant: next_id is not advanced
  /\ nextId \in Ids
  /\ item' = [i \in Live \cup {nextId} |-> IF i = nextId THEN r ELSE item[i]]
  /\ UNCHANGED nextId
  /\ kids' = IF r.parent = NoId THEN kids ELSE [kids EXCEPT ![r.parent] = @ \cup {nextId}]
  /\ byState' = [byState EXCEPT ![r.state] = @ \cup {nextId}]

Insert(r) ==
  /\ nextId \in Ids
  /\ item' = [i \in Live \cup {nextId} |-> IF i = nextId THEN r ELSE item[i]]
  /\ nextId' = nextId + 1
  /\ kids' = IF r.parent = NoId THEN kids ELSE [kids EXCEPT ![r.parent] = @ \cup {nextId}]
  /\ byState' = [byState EXCEPT ![r.state] = @ \cup {nextId}]

Subtree(i) == {i} \cup kids[i] \cup UNION {kids[k] : k \in kids[i]}

UnlinkedBelow(gone) ==       \* mutant: the item itself stays in its parent's entry
  [i \in Ids |-> kids[i] \ {g \in gone : item[g].parent \in gone}]
Unlinked(gone) == [i \in Ids |-> kids[i] \ gone]

Unblocked(i, gone) == item[i].blocked \ gone

RemoveAll(gone) ==
  /\ item' = [i \in Live \ gone |-> [item[i] EXCEPT !.blocked = Unblocked(i, gone)]]
  /\ kids' = Unlinked(gone)
  /\ byState' = [s \in M!States |-> byState[s] \ gone]
  /\ UNCHANGED nextId

OpenKids(i) == {k \in kids[i] : k \in Live /\ item[k].state # "Retired"}
Blockers(i) == {b \in item[i].blocked : b \in Live /\ item[b].state \notin M!Terminal}

Can(i, to) ==
  /\ i \in Live
  /\ M!Check(item[i].state, to, OpenKids(i) # {}, ~IsProject(i), Blockers(i) # {})

Move(i, to) ==
  /\ item' = [item EXCEPT ![i].state = to,
                          ![i].prior = IF to = "Retired" THEN item[i].state ELSE "Retired"]
  /\ byState' = [byState EXCEPT ![item[i].state] = @ \ {i}, ![to] = @ \cup {i}]
  /\ UNCHANGED <<nextId, kids>>

Write(i, r) == item' = [item EXCEPT ![i] = r] /\ UNCHANGED <<nextId, kids, byState>>
Same == UNCHANGED <<item, nextId, kids, byState>>

-------------------------------------------------------------------------------
(* Threads.  A verb starts when a worker is free and, if it creates items,     *)
(* when ids are left for all that is under way.                                *)

At(w, pc) == job[w].pc = pc
NoneHalfway == \A w \in Workers : At(w, "idle")
Free(w) == At(w, "idle") /\ (mix.overlap \/ NoneHalfway)
Happens(verb) == verb \in mix.verbs
Go(w, j) == job' = [job EXCEPT ![w] = j] /\ UNCHANGED <<approved, crashes, mix>>
Next_(w, pc) == Go(w, [job[w] EXCEPT !.pc = pc])
End(w) == Go(w, Idle)
Start(verb, pc, i) == [Idle EXCEPT !.verb = verb, !.pc = pc, !.id = i]

Makers == {w \in Workers : ~At(w, "idle") /\ job[w].verb \in {"project", "init", "task", "done", "heal"}}
Room == nextId + MaxMade * (Cardinality(Makers) + 1) <= mix.ids + 1

-------------------------------------------------------------------------------
(* Creating.  create_project inserts a Project, create() seeds its Initial     *)
(* plan, create_project seeds again, and the handler moves it to Shaping.      *)
(* create checks the parent under one lock and inserts under the next.         *)

NewProject(w) ==
  /\ Free(w) /\ Room
  /\ Insert(NewItem(NoId, "project", NoId))
  /\ Go(w, [Start("project", "seed", nextId) EXCEPT !.proj = nextId])

InitPlan(w, p) ==
  /\ Happens("init") /\ Free(w) /\ Room /\ p \in Live /\ IsProject(p)
  /\ Go(w, [Start("init", "seed", p) EXCEPT !.proj = p]) /\ Same

Siblings(p) == {i \in Live : item[i].parent = p}

NewTask(w, p, t, needs) ==
  /\ Happens("task") /\ t \in mix.titles /\ Free(w) /\ Room
  /\ p \in Live /\ IsProject(p) /\ needs \in {{}} \cup {{i} : i \in Siblings(p)}
  /\ Go(w, [Start("task", "check", p) EXCEPT !.proj = p, !.title = t, !.needs = needs])
  /\ Same

(* Where a worker goes when its item is in Backlog (made), or will not be. *)
Onward(j, made) ==
  IF j.verb = "project"
  THEN IF j.again THEN [j EXCEPT !.pc = "commit"] ELSE [j EXCEPT !.pc = "seed", !.again = TRUE]
  ELSE IF ~made \/ j.verb = "init" \/ (j.verb = "task" /\ j.needs = {}) THEN Idle
  ELSE IF j.verb = "task" THEN [j EXCEPT !.pc = "wire"]
  ELSE [j EXCEPT !.pc = "next", !.keys[Head(j.todo).key] = j.new, !.todo = Tail(@)]

BacklogSeedOf(p) == {i \in Siblings(p) : IsInitial(i) /\ item[i].state = "Backlog"}   \* mutant
SeedOf(p) == {i \in Siblings(p) : IsInitial(i)}

(* seed_initial_plan: nothing to do when the Project has an Initial plan. *)
Seed(w) ==
  LET j == job[w] IN
  /\ At(w, "seed") /\ Same
  /\ Go(w, IF j.id \in Live /\ SeedOf(j.id) = {}
           THEN [j EXCEPT !.pc = "check", !.title = "plan"] ELSE Onward(j, TRUE))

CheckParent(w) ==
  LET j == job[w] IN
  /\ At(w, "check") /\ Same
  /\ Go(w, IF j.proj \in Live /\ IsProject(j.proj)
           THEN [j EXCEPT !.pc = "insert"] ELSE Onward(j, FALSE))

Create(w) ==
  LET j == job[w] IN
  /\ At(w, "insert")
  /\ Insert(NewItem(j.proj, j.title, IF j.verb \in {"done", "heal"} THEN j.id ELSE NoId))
  /\ Go(w, [j EXCEPT !.pc = "shape", !.new = nextId])

(* Draft -> Shaping; only seed_initial_plan goes on when it is refused. *)
Shape(w) ==
  LET j == job[w] IN
  /\ At(w, "shape")
  /\ IF Can(j.new, "Shaping") THEN Move(j.new, "Shaping") /\ Next_(w, "ready")
     ELSE /\ Same
          /\ IF j.title = "plan" THEN Next_(w, "ready") ELSE Go(w, Onward(j, FALSE))

Ready(w) ==
  LET j == job[w] IN
  /\ At(w, "ready")
  /\ IF Can(j.new, "Backlog") THEN Move(j.new, "Backlog") /\ Go(w, Onward(j, TRUE))
     ELSE Same /\ Go(w, Onward(j, FALSE))

(* The handler's last step for a Project, its refusal ignored. *)
Commit(w) ==
  /\ At(w, "commit") /\ End(w)
  /\ IF Can(job[w].id, "Shaping") THEN Move(job[w].id, "Shaping") ELSE Same

(* set_blocked_by: an item that is gone is skipped, the blockers are not looked at. *)
Block(i, needs) == IF i \in Live THEN Write(i, [item[i] EXCEPT !.blocked = needs]) ELSE Same

WireTask(w) ==
  /\ At(w, "wire") /\ job[w].verb = "task"
  /\ Block(job[w].new, job[w].needs) /\ End(w)

-------------------------------------------------------------------------------
(* Proposals.  A proposal is set on a card and becomes sibling Tasks when the  *)
(* card reaches Done, in the thread that moved it there; heal runs the same    *)
(* materialization on a card that is Done already.                             *)

Propose(w, c, p) ==
  /\ Happens("plan") /\ Free(w) /\ c \in Live /\ IsInitial(c)
  /\ item[c].state \notin M!Terminal
  /\ Go(w, [Start("plan", "set", c) EXCEPT !.specs = p]) /\ Same

(* The agent of a claimed card hands in split.json. *)
Split(w, c, p) ==
  /\ Happens("split") /\ Free(w) /\ c \in Live /\ ~IsProject(c) /\ ~IsInitial(c)
  /\ item[c].state = "Claimed"
  /\ Go(w, [Start("split", "set", c) EXCEPT !.specs = p]) /\ Same

Frozen(c) == IsInitial(c) /\ item[c].state \in M!Terminal

SetProposal(w) ==
  LET j == job[w] IN
  /\ At(w, "set")
  /\ IF j.id \in Live /\ ~Frozen(j.id)
     THEN /\ Write(j.id, [item[j.id] EXCEPT !.proposal = j.specs, !.made = Unmade])
          /\ IF j.verb = "split" THEN Next_(w, "review") ELSE End(w)
     ELSE Same /\ End(w)

Review(w) ==
  /\ At(w, "review") /\ End(w)
  /\ IF Can(job[w].id, "Review") THEN Move(job[w].id, "Review") ELSE Same

FinishSplit(w, c) ==         \* mutant: an Initial plan's proposal is not materialized
  /\ Happens("done") /\ Free(w) /\ Room /\ c \in Live /\ ~IsProject(c) /\ Can(c, "Done")
  /\ Move(c, "Done") /\ Go(w, IF IsInitial(c) THEN Idle ELSE Start("done", "read", c))
(* approve_review, approve_plan, a merged pull request: a Task moves to Done. *)
Finish(w, c) ==
  /\ Happens("done") /\ Free(w) /\ Room /\ c \in Live /\ ~IsProject(c) /\ Can(c, "Done")
  /\ Move(c, "Done")
  /\ job' = [job EXCEPT ![w] = Start("done", "read", c)]
  /\ approved' = [approved EXCEPT ![c] = IF @ = 0 THEN 1 ELSE 2]
  /\ UNCHANGED <<crashes, mix>>

Heal(w, c) ==
  /\ Happens("heal") /\ Free(w) /\ Room /\ c \in Live /\ ~IsProject(c)
  /\ item[c].state = "Done" /\ item[c].proposal # None
  /\ Same
  /\ Go(w, Start("heal", "load", c))

KeysOf(p) == {p[n].key : n \in DOMAIN p}
Linked(c) == \A k \in KeysOf(item[c].proposal) : item[c].made[k] # NoId

ReadProposal(w) ==
  LET j == job[w] IN
  /\ At(w, "read") /\ Same
  /\ Go(w, IF j.id \in Live /\ item[j.id].proposal # None /\ ~Linked(j.id)
           THEN [j EXCEPT !.pc = "load"] ELSE Idle)

(* materialize_proposal reads the card again. *)
Load(w) ==
  LET j == job[w] IN
  /\ At(w, "load") /\ Same
  /\ Go(w, IF j.id \in Live /\ item[j.id].proposal # None
           THEN [j EXCEPT !.pc = "match", !.specs = item[j.id].proposal,
                          !.proj = item[j.id].parent]
           ELSE Idle)

ReusableDone(c, p, t) ==     \* mutant: a sibling that is still at work is made again
  {i \in Siblings(p) : i # c /\ item[i].state = "Done" /\ item[i].title = t}
Reusable(c, p, t) ==
  {i \in Siblings(p) : i # c /\ item[i].state # "Retired" /\ item[i].title = t}

(* The siblings' titles, read once; of two alike the map keeps the later id. *)
Match(w) ==
  LET j == job[w]
      Known(t) == LET s == Reusable(j.id, j.proj, t)
                  IN IF s = {} THEN NoId ELSE CHOOSE i \in s : \A k \in s : k <= i
  IN /\ At(w, "match") /\ Same
     /\ Go(w, [j EXCEPT !.pc = "next", !.known = [t \in Titles |-> Known(t)], !.todo = j.specs])

(* The next row: a sibling that was there is reused, else one is created; when *)
(* no row is left the edges are written.                                       *)
NextRow(w) ==
  LET j == job[w]
      k == j.known[Head(j.todo).title]
  IN /\ At(w, "next") /\ Same
     /\ Go(w, IF j.todo = None THEN [j EXCEPT !.pc = "wire", !.todo = j.specs]
              ELSE IF k # NoId
              THEN [j EXCEPT !.keys[Head(j.todo).key] = k, !.todo = Tail(@)]
              ELSE [j EXCEPT !.pc = "check", !.title = Head(j.todo).title])

Edges(keys, needs) == {keys[k] : k \in needs} \ {NoId}

WireRow(w) ==
  LET j == job[w]
      needs == Edges(j.keys, Head(j.todo).needs)
  IN /\ At(w, "wire") /\ j.verb \in {"done", "heal"}
     /\ IF j.todo = None THEN Same /\ Next_(w, "stamp")
        ELSE /\ Go(w, [j EXCEPT !.todo = Tail(@)])
             /\ IF needs = {} THEN Same ELSE Block(j.keys[Head(j.todo).key], needs)

(* The Initial plan keeps its proposal with the ids stamped; a split drops it. *)
Stamp(w) ==
  LET j == job[w]
      c == j.id
      hit == [k \in Keys |-> IF k \in KeysOf(item[c].proposal) /\ j.keys[k] # NoId
                             THEN j.keys[k] ELSE item[c].made[k]]
  IN /\ At(w, "stamp") /\ End(w)
     /\ IF c \notin Live THEN Same
        ELSE Write(c, IF IsInitial(c) THEN [item[c] EXCEPT !.made = hit]
                      ELSE [item[c] EXCEPT !.proposal = None, !.made = Unmade])

(* request_changes: the proposal goes before the move, and whatever the move says. *)
Changes(w, c) ==
  /\ Happens("changes") /\ Free(w) /\ c \in Live
  /\ Go(w, Start("changes", "drop", c)) /\ Same

DropProposal(w) ==
  LET c == job[w].id IN
  /\ At(w, "drop") /\ Next_(w, "bounce")
  /\ IF c \in Live THEN Write(c, [item[c] EXCEPT !.proposal = None, !.made = Unmade]) ELSE Same

Bounce(w) ==
  /\ At(w, "bounce") /\ End(w)
  /\ IF Can(job[w].id, "Backlog") THEN Move(job[w].id, "Backlog") ELSE Same

-------------------------------------------------------------------------------
(* Single-section verbs: the supervisor claims a card and reports on it;       *)
(* delete_item takes a whole subtree under one lock.                           *)

AtOnce == (mix.overlap \/ NoneHalfway) /\ UNCHANGED <<job, approved, crashes, mix>>

Claim(c) == AtOnce /\ Can(c, "Claimed") /\ ~IsProject(c) /\ Move(c, "Claimed")
Report(c) == AtOnce /\ c \in Live /\ item[c].state = "Claimed" /\ Move(c, "Review")
Delete(i) == AtOnce /\ Happens("delete") /\ i \in Live /\ RemoveAll(Subtree(i))

-------------------------------------------------------------------------------
(* Walks over a scope.  The tree is flat and a child is younger than its       *)
(* parent, so taking the highest id of the stack is the code's pop.            *)

Highest(s) == CHOOSE i \in s : \A k \in s : k <= i

Cut(w, i) ==
  /\ Happens("cut") /\ Free(w) /\ i \in Live
  /\ Go(w, [Start("cut", "walk", i) EXCEPT !.stack = {i}]) /\ Same

BelowOpen(i) == {k \in kids[i] : item[k].state = "Backlog"}     \* mutant
Below(i) == kids[i]

(* cut_scope: the children are read, then the parent is retired. *)
Walk(w) ==
  LET j == job[w]
      i == Highest(j.stack)
  IN /\ At(w, "walk") /\ Same
     /\ Go(w, IF j.stack = {} THEN Idle
              ELSE [j EXCEPT !.pc = "retire", !.new = i, !.stack = (@ \ {i}) \cup Below(i)])

Retire(w) ==
  /\ At(w, "retire") /\ Next_(w, "walk")
  /\ IF Can(job[w].new, "Retired") THEN Move(job[w].new, "Retired") ELSE Same

(* unarchive_scope: the walk is read in one step, and undone from its end. *)
Unarchive(w, i) ==
  /\ Happens("unarchive") /\ Free(w) /\ i \in Live /\ item[i].state = "Retired"
  /\ Go(w, [Start("unarchive", "look", i) EXCEPT !.stack = Subtree(i)]) /\ Same

Deepest(s, root) ==
  IF s = {root} THEN root ELSE CHOOSE i \in s \ {root} : \A k \in s \ {root} : i <= k

Look(w) ==
  LET j == job[w]
      i == Deepest(j.stack, j.id)
      to == M!UnarchiveTarget(item[i].prior, kids[i] # {}, ~IsProject(i))
  IN /\ At(w, "look") /\ Same
     /\ Go(w, IF j.stack = {} THEN Idle
              ELSE IF i \in Live /\ item[i].state = "Retired"
              THEN [j EXCEPT !.pc = "restore", !.new = i, !.to = to, !.stack = @ \ {i}]
              ELSE [j EXCEPT !.stack = @ \ {i}])

Restore(w) ==
  LET j == job[w] IN
  /\ At(w, "restore")
  /\ IF Can(j.new, j.to) THEN Move(j.new, j.to) /\ Next_(w, "look") ELSE Same /\ End(w)

(* heal_completed_epics: open Projects, then each one's children, then its move. *)
Epics(w) ==
  /\ Happens("epics") /\ Free(w)
  /\ LET open == {i \in Live : IsProject(i) /\ item[i].state \notin M!Terminal}
     IN Go(w, [Start("epics", "judge", NoId) EXCEPT
                 !.stack = open, !.needs = {i \in open : item[i].state = "Draft"}])
  /\ Same

FinishedOnce(p) == \E k \in Siblings(p) : item[k].state \in M!Terminal      \* mutant
Finished(p) == Siblings(p) # {} /\ \A k \in Siblings(p) : item[k].state \in M!Terminal

Judge(w) ==
  LET j == job[w]
      i == CHOOSE k \in j.stack : \A h \in j.stack : k <= h
  IN /\ At(w, "judge") /\ Same
     /\ Go(w, IF j.stack = {} THEN Idle
              ELSE IF Finished(i)
              THEN [j EXCEPT !.pc = "open", !.new = i, !.stack = @ \ {i}]
              ELSE [j EXCEPT !.stack = @ \ {i}])

Open(w) ==
  /\ At(w, "open") /\ Next_(w, "close")
  /\ IF job[w].new \in job[w].needs /\ Can(job[w].new, "Shaping")
     THEN Move(job[w].new, "Shaping") ELSE Same

Close(w) ==
  /\ At(w, "close") /\ Next_(w, "judge")
  /\ IF Can(job[w].new, "Done") THEN Move(job[w].new, "Done") ELSE Same

-------------------------------------------------------------------------------
(* A restart: every thread is gone; heal_loaded_state and rebuild_hot_indexes. *)
Healed(r) == IF r.title = "plan" /\ r.state = "Shaping" THEN [r EXCEPT !.state = "Backlog"] ELSE r

Crash ==
  /\ crashes < mix.crashes /\ crashes' = crashes + 1 /\ UNCHANGED mix
  /\ job' = [w \in Workers |-> Idle]
  /\ item' = [i \in Live |-> Healed(item[i])]
  /\ kids' = [i \in Ids |-> {k \in Live : item[k].parent = i}]
  /\ byState' = [s \in M!States |-> {i \in Live : Healed(item[i]).state = s}]
  /\ UNCHANGED <<nextId, approved>>

Starts(w) ==
  \/ NewProject(w) \/ Epics(w)
  \/ \E i \in Ids : \/ InitPlan(w, i) \/ Finish(w, i) \/ Heal(w, i) \/ Changes(w, i)
                    \/ Cut(w, i) \/ Unarchive(w, i)
                    \/ \E t \in Titles, needs \in {{}} \cup {{k} : k \in Ids} : NewTask(w, i, t, needs)
                    \/ \E p \in Plans : Propose(w, i, p)
                    \/ \E p \in Splits : Split(w, i, p)

Goes(w) ==
  \/ Seed(w) \/ CheckParent(w) \/ Create(w) \/ Shape(w) \/ Ready(w) \/ Commit(w)
  \/ WireTask(w) \/ SetProposal(w) \/ Review(w)
  \/ ReadProposal(w) \/ Load(w) \/ Match(w) \/ NextRow(w) \/ WireRow(w) \/ Stamp(w)
  \/ DropProposal(w) \/ Bounce(w) \/ Walk(w) \/ Retire(w) \/ Look(w) \/ Restore(w)
  \/ Judge(w) \/ Open(w) \/ Close(w)

Next ==
  \/ \E w \in Workers : Starts(w) \/ Goes(w)
  \/ \E i \in Ids : Claim(i) \/ Report(i) \/ Delete(i)
  \/ Crash

Spec == Init /\ [][Next]_vars

-------------------------------------------------------------------------------
TypeOK ==
  /\ Live \subseteq 1 .. nextId - 1 /\ \A i \in Live : item[i] \in Item
  /\ nextId \in 1 .. MaxId + 1 /\ mix \in Mixes /\ crashes \in 0 .. mix.crashes
  /\ kids \in [Ids -> SUBSET Ids] /\ byState \in [M!States -> SUBSET Ids]
  /\ job \in [Workers -> Job] /\ approved \in [Ids -> 0 .. 2]

(* What rebuild_hot_indexes would compute from the items. *)
RebuiltKids == [i \in Ids |-> Siblings(i)]
RebuiltByState == [s \in M!States |-> {i \in Live : item[i].state = s}]

(* children_by_parent and ids_by_state, kept up by hand at every insert, move  *)
(* and delete, are what a rebuild from the items would give: list_backlog,     *)
(* sweep_leases and cut_scope see the board through them alone.                *)
IndexesAgree == kids = RebuiltKids /\ byState = RebuiltByState

(* One approval makes one Task per title, whoever moved the card to Done and   *)
(* whatever else creates siblings meanwhile: only the winner of the transition *)
(* materializes.  A card that is approved twice may have twins: a split that   *)
(* comes late takes it from Done to Review again (store.rs:4889) while its     *)
(* Tasks are being made, and so does an approval of a card archived meanwhile. *)
(* Healing is for threads that died: it is left to one at a time, and a Task   *)
(* that was retired or never made is all it makes again.                       *)
OncePerProposal ==
  \A i, k \in Live :
    /\ item[i].from # NoId /\ item[i].from = item[k].from /\ item[i].title = item[k].title
    /\ approved[item[i].from] <= 1
    /\ item[i].state # "Retired" /\ item[k].state # "Retired"
    => i = k

(* A Project gets one Initial plan although create and create_project both     *)
(* seed one: the second seed finds the first, in whatever state it is by then. *)
OneInitialPlan ==
  \A i, k \in Live : IsInitial(i) /\ IsInitial(k) /\ item[i].parent = item[k].parent => i = k

(* In no run, for the code does not keep it (a Task is created under a Project *)
(* that a delete takes away between its two sections): no row refers to a row  *)
(* that is gone, which the database's foreign keys would refuse at every flush. *)
Savable ==
  \A i \in Live : (IsProject(i) \/ item[i].parent \in Live) /\ item[i].blocked \subseteq Live

(* Cutting a scope leaves nothing open in it, and restoring it leaves nothing  *)
(* retired in it, when no other verb runs meanwhile; but for a Project that    *)
(* was cut in Backlog and lost its Tasks since, which nothing brings back: it  *)
(* has neither a definition of done nor a Task, so Backlog refuses it.         *)
Hollow(i) == IsProject(i) /\ kids[i] = {} /\ item[i].prior = "Backlog"
ScopeMovesWhole ==
  [][\A w \in Workers :
       LET j == job[w] IN
       ~mix.overlap /\ job'[w].pc = "idle" /\ crashes' = crashes =>
         /\ (j.pc = "walk" /\ j.id \in Live) =>
              \A i \in Subtree(j.id) : item[i].state = "Retired"
         /\ (j.pc \in {"look", "restore"} /\ j.id \in Live) =>
              \A i \in Subtree(j.id) : item[i].state = "Retired" => Hollow(i)]_vars

(* heal_completed_epics closes a Project only when everything in it is over,   *)
(* and never brings an archived one back, when no other verb runs meanwhile.   *)
ClosedWhenOver ==
  [][\A w \in Workers :
       LET p == job[w].new IN
       ~mix.overlap /\ job[w].pc = "close" /\ item' # item =>
         item[p].state # "Retired" /\ \A k \in Siblings(p) : item[k].state \in M!Terminal]_vars

(* An approved proposal becomes Tasks without being asked for again: while the *)
(* process lives and nobody takes its Tasks away, none waits for its Tasks     *)
(* once the verbs that were under way have come to their end.  A Task that is  *)
(* approved before it came to Backlog stops the thread that makes the rest of  *)
(* its proposal, so proposals with an approved Task are left out.              *)
Waits(c) ==
  /\ c \in Live /\ item[c].state = "Done" /\ item[c].proposal # None /\ ~Linked(c)
  /\ \A i \in Live : item[i].from = c => approved[i] = 0
ApprovedBecomesTasks ==
  mix.overlap /\ (\A w \in Workers : At(w, "idle")) => \A c \in Live : ~Waits(c)

(* In no run, for the code does not keep it (request_changes drops it): an     *)
(* Initial plan that is Done keeps the proposal it was approved with.          *)
FrozenOnceDone ==
  [][\A c \in Live : c \in DOMAIN item' /\ IsInitial(c) /\ item[c].state = "Done"
       => item'[c].proposal = item[c].proposal]_vars

(* In no run, for the code does not keep it (it heals plans that are stamped): *)
(* healing creates Tasks only for a proposal whose Tasks were never created.   *)
HealsOnlyUnmade ==
  [][\A w \in Workers : job[w].verb = "heal" /\ job[w].pc = "insert" /\ nextId' # nextId
       => job[w].id \in Live /\ ~Linked(job[w].id)]_vars
===============================================================================
