----------------------------- MODULE BoardTreeProofs -----------------------------
(***************************************************************************)
(* The tree is type-correct and its two indexes are what a rebuild would   *)
(* give, a Project has one Initial plan, an approval makes one Task per    *)
(* title and forgets none, a scope is cut and restored to its last Task,   *)
(* and a Project is closed only when all in it is over: for every number   *)
(* of threads and items, every set of proposals and every mix of verbs.    *)
(***************************************************************************)
EXTENDS BoardTree, WellFoundedInduction, TLAPS

(* A number below a bound: the highest and the lowest of a set exist. *)
LEMMA NatOrder == IsWellFoundedOn({p \in Nat \X Nat : p[1] < p[2]}, Nat)
  BY NatLessThanWellFounded DEF OpToRel

LEMMA LowestOf ==
  ASSUME NEW S \in SUBSET Nat, S # {}
  PROVE  \E i \in S : \A k \in S : i <= k
<1> DEFINE R == {p \in Nat \X Nat : p[1] < p[2]}
<1>1. IsWellFoundedOn(R, Nat)
  BY NatOrder
<1>2. \E x \in S : \A y \in S : ~(<<y, x>> \in R)
  <2> HIDE DEF R
  <2>1. S \subseteq Nat /\ S # {}
    OBVIOUS
  <2> QED
    BY <1>1, <2>1, WFMin, Zenon
<1>3. PICK i \in S : \A k \in S : ~(<<k, i>> \in R)
  BY <1>2
<1>4. \A k \in S : i <= k
  <2> TAKE k \in S
  <2>1. i \in Nat /\ k \in Nat
    OBVIOUS
  <2>2. <<k, i>> \in R <=> k < i
    BY <2>1
  <2> QED
    BY <1>3, <2>1, <2>2
<1> QED
  BY <1>4

LEMMA HighestOf ==
  ASSUME NEW n \in Nat, NEW S \in SUBSET (1 .. n), S # {}
  PROVE  \E i \in S : \A k \in S : k <= i
<1> DEFINE T == {j \in Nat : n - j \in S}
<1>1. \A k \in S : n - k \in T /\ k \in Int
  <2> TAKE k \in S
  <2>1. k \in Int /\ 1 <= k /\ k <= n
    OBVIOUS
  <2>2. n - k \in Nat /\ n - (n - k) = k
    BY <2>1
  <2> QED
    BY <2>1, <2>2
<1>2. PICK t \in T : \A u \in T : t <= u
  <2>1. T # {} /\ T \in SUBSET Nat
    BY <1>1
  <2> HIDE DEF T
  <2> QED
    BY <2>1, LowestOf
<1>3. n - t \in S /\ t \in Nat
  OBVIOUS
<1>4. ASSUME NEW k \in S
      PROVE  k <= n - t
  <2>1. t <= n - k /\ k \in Int
    BY <1>1, <1>2
  <2> QED
    BY <1>3, <2>1
<1> QED
  BY <1>3, <1>4

-------------------------------------------------------------------------------
(* The write paths. *)

TreeOK ==
  /\ Live \subseteq 1 .. nextId - 1 /\ \A i \in Live : item[i] \in Item
  /\ nextId \in 1 .. MaxId + 1
  /\ kids \in [Ids -> SUBSET Ids] /\ byState \in [M!States -> SUBSET Ids]

Indexed == TreeOK /\ IndexesAgree

(* The fields that no section changes once an item is there. *)
SameOrigin(r, q) == r.parent = q.parent /\ r.title = q.title /\ r.from = q.from

(* Nothing is added and only a cut retires: what is there was there. *)
Thins ==
  /\ DOMAIN item' \subseteq DOMAIN item
  /\ \A i \in DOMAIN item' :
       /\ SameOrigin(item'[i], item[i])
       /\ item'[i].state = "Retired" => item[i].state = "Retired" \/ Happens("cut")
  /\ nextId' = nextId

(* Every section does one of these to the tree. *)
Adds(p, t, f) == Insert(NewItem(p, t, f))
Rewrites == \E i \in Live, r \in Item :
  SameOrigin(r, item[i]) /\ r.state = item[i].state /\ Write(i, r)
Shift == \E i \in Live, to \in M!States : (to = "Retired" => Happens("cut")) /\ Move(i, to)
Keeps == Same \/ Rewrites \/ Shift

LEMMA TreeFacts ==
  ASSUME TreeOK
  PROVE  /\ Live \subseteq Ids /\ nextId \in Nat /\ nextId \notin Live
         /\ MaxId \in Nat /\ \A i \in Live : item[i].state \in M!States
  BY BoundsAssumption DEF TreeOK, Ids, Item

LEMMA NewItemType ==
  ASSUME NEW p \in Ids \cup {NoId}, NEW t \in Titles \cup {"plan", "project"},
         NEW f \in Ids \cup {NoId}
  PROVE  /\ NewItem(p, t, f) \in Item
         /\ NewItem(p, t, f).parent = p /\ NewItem(p, t, f).title = t
         /\ NewItem(p, t, f).from = f /\ NewItem(p, t, f).state = "Draft"
<1>1. "Draft" \in M!States /\ "Retired" \in M!States /\ Unmade \in [Keys -> Ids \cup {NoId}]
  BY DEF M!States, Unmade
<1> QED
  BY <1>1 DEF NewItem, Item

LEMMA AddKeeps ==
  ASSUME Indexed, NEW p \in Ids \cup {NoId}, NEW t \in Titles \cup {"plan", "project"},
         NEW f \in Ids \cup {NoId}, Adds(p, t, f)
  PROVE  /\ Indexed'
         /\ Live' = Live \cup {nextId} /\ \A i \in Live : item'[i] = item[i]
         /\ SameOrigin(item'[nextId], [parent |-> p, title |-> t, from |-> f])
         /\ nextId' = nextId + 1 /\ nextId \notin Live /\ nextId \in Ids
         /\ item'[nextId].state = "Draft"
<1> DEFINE r == NewItem(p, t, f)
<1>1. r \in Item /\ r.parent = p /\ r.title = t /\ r.from = f /\ r.state = "Draft"
  BY NewItemType
<1>2. /\ nextId \in Ids /\ nextId' = nextId + 1
      /\ item' = [i \in Live \cup {nextId} |-> IF i = nextId THEN r ELSE item[i]]
      /\ kids' = IF r.parent = NoId THEN kids ELSE [kids EXCEPT ![r.parent] = @ \cup {nextId}]
      /\ byState' = [byState EXCEPT ![r.state] = @ \cup {nextId}]
  BY DEF Adds, Insert
<1> HIDE DEF r
<1>3. DOMAIN item' = Live \cup {nextId} /\ item'[nextId] = r /\ \A i \in Live : item'[i] = item[i]
  BY <1>2, TreeFacts DEF Indexed
<1>4. Live' = Live \cup {nextId}
  BY <1>3 DEF Live
<1>5. nextId' \in 1 .. MaxId + 1 /\ Live' \subseteq 1 .. nextId' - 1
  BY <1>2, <1>4, BoundsAssumption DEF Indexed, TreeOK, Ids
<1>6. kids' \in [Ids -> SUBSET Ids] /\ byState' \in [M!States -> SUBSET Ids]
  BY <1>1, <1>2 DEF Indexed, TreeOK, Item, NoId, Ids
<1>7. \A i \in Live' : item'[i] \in Item
  BY <1>1, <1>3, <1>4 DEF Indexed, TreeOK
<1>8. TreeOK'
  BY <1>5, <1>6, <1>7 DEF TreeOK
<1>9. kids' = RebuiltKids'
  <2>1. RebuiltKids' = [j \in Ids |-> {k \in Live' : item'[k].parent = j}]
    BY DEF RebuiltKids, Siblings, Live
  <2>2. kids = [j \in Ids |-> {k \in Live : item[k].parent = j}]
    BY DEF Indexed, IndexesAgree, RebuiltKids, Siblings
  <2>3. ASSUME NEW j \in Ids
        PROVE  kids'[j] = {k \in Live' : item'[k].parent = j}
    BY <1>1, <1>2, <1>3, <1>4, <2>2, <2>3 DEF NoId, Ids
  <2> QED
    BY <1>6, <2>1, <2>3
<1>10. byState' = RebuiltByState'
  <2>1. RebuiltByState' = [s \in M!States |-> {k \in Live' : item'[k].state = s}]
    BY DEF RebuiltByState, Live
  <2>2. byState = [s \in M!States |-> {k \in Live : item[k].state = s}]
    BY DEF Indexed, IndexesAgree, RebuiltByState
  <2>3. ASSUME NEW s \in M!States
        PROVE  byState'[s] = {k \in Live' : item'[k].state = s}
    BY <1>1, <1>2, <1>3, <1>4, <2>2, <2>3
  <2> QED
    BY <1>6, <2>1, <2>3
<1> QED
  BY <1>1, <1>2, <1>3, <1>4, <1>8, <1>9, <1>10, TreeFacts DEF Indexed, IndexesAgree, SameOrigin

LEMMA MoveKeeps ==
  ASSUME Indexed, NEW i \in Live, NEW to \in M!States, Move(i, to),
         to = "Retired" => Happens("cut")
  PROVE  Indexed' /\ Thins /\ Live' = Live
<1> DEFINE prior == IF to = "Retired" THEN item[i].state ELSE "Retired"
           r == [item[i] EXCEPT !.state = to, !.prior = prior]
<1>1. prior \in M!States /\ item[i] \in Item
  BY TreeFacts DEF Indexed, TreeOK, M!States
<1>2. r \in Item /\ SameOrigin(r, item[i]) /\ r.state = to
  BY <1>1 DEF Item, SameOrigin
<1>3. item' = [item EXCEPT ![i] = r]
      /\ byState' = [byState EXCEPT ![item[i].state] = @ \ {i}, ![to] = @ \cup {i}]
      /\ UNCHANGED <<nextId, kids>>
  BY DEF Move
<1> HIDE DEF r, prior
<1>4. Live' = Live /\ item'[i] = r /\ \A k \in Live : k # i => item'[k] = item[k]
  BY <1>3 DEF Live
<1>5. \A k \in Live : item'[k] \in Item /\ SameOrigin(item'[k], item[k])
  BY <1>2, <1>4 DEF Indexed, TreeOK, SameOrigin
<1>6. Thins
  <2>1. \A k \in Live : item'[k].state = "Retired" => item[k].state = "Retired" \/ Happens("cut")
    BY <1>2, <1>4
  <2> QED
    BY <1>3, <1>4, <1>5, <2>1 DEF Thins, Live
<1>7. byState' \in [M!States -> SUBSET Ids]
  BY <1>3, TreeFacts DEF Indexed, TreeOK
<1>8. TreeOK'
  BY <1>3, <1>4, <1>5, <1>7 DEF Indexed, TreeOK
<1>9. kids' = RebuiltKids'
  BY <1>3, <1>4, <1>5 DEF Indexed, IndexesAgree, RebuiltKids, Siblings, SameOrigin
<1>10. byState' = RebuiltByState'
  <2>1. byState = [s \in M!States |-> {k \in Live : item[k].state = s}]
    BY DEF Indexed, IndexesAgree, RebuiltByState
  <2>2. ASSUME NEW s \in M!States
        PROVE  byState'[s] = {k \in Live' : item'[k].state = s}
    <3>1. item[i].state \in M!States
      BY TreeFacts DEF Indexed
    <3>2. byState'[s] = IF s = to THEN (IF s = item[i].state THEN byState[s] \ {i} ELSE byState[s]) \cup {i}
                        ELSE IF s = item[i].state THEN byState[s] \ {i} ELSE byState[s]
      BY <1>3, <2>1, <3>1
    <3>3. byState[s] = {k \in Live : item[k].state = s}
      BY <2>1
    <3> QED
      BY <1>2, <1>4, <3>2, <3>3
  <2>3. RebuiltByState' = [s \in M!States |-> {k \in Live' : item'[k].state = s}]
    BY DEF RebuiltByState, Live
  <2> QED
    BY <1>7, <2>2, <2>3
<1> QED
  BY <1>4, <1>6, <1>8, <1>9, <1>10 DEF Indexed, IndexesAgree

LEMMA RewriteKeeps ==
  ASSUME Indexed, NEW i \in Live, NEW r \in Item,
         SameOrigin(r, item[i]), r.state = item[i].state, Write(i, r)
  PROVE  Indexed' /\ Thins /\ Live' = Live
<1>1. item' = [item EXCEPT ![i] = r] /\ UNCHANGED <<nextId, kids, byState>>
  BY DEF Write
<1>2. Live' = Live /\ item'[i] = r /\ \A k \in Live : k # i => item'[k] = item[k]
  BY <1>1 DEF Live
<1>3. \A k \in Live : /\ item'[k] \in Item /\ SameOrigin(item'[k], item[k])
                      /\ item'[k].state = item[k].state
  BY <1>2 DEF Indexed, TreeOK, SameOrigin
<1>4. Thins
  BY <1>1, <1>2, <1>3 DEF Thins, Live
<1>5. TreeOK'
  BY <1>1, <1>2, <1>3 DEF Indexed, TreeOK
<1>6. RebuiltKids' = RebuiltKids /\ RebuiltByState' = RebuiltByState
  BY <1>2, <1>3 DEF RebuiltKids, RebuiltByState, Siblings, SameOrigin
<1> QED
  BY <1>1, <1>2, <1>4, <1>5, <1>6 DEF Indexed, IndexesAgree

LEMMA SameKeeps ==
  ASSUME Indexed, Same
  PROVE  Indexed' /\ Thins /\ Live' = Live
  BY DEF Indexed, TreeOK, Same, Thins, Live, IndexesAgree, RebuiltKids, RebuiltByState,
         Siblings, SameOrigin

LEMMA KeepsTree ==
  ASSUME Indexed, Keeps
  PROVE  Indexed' /\ Thins /\ Live' = Live
  BY SameKeeps, MoveKeeps, RewriteKeeps DEF Keeps, Shift, Rewrites

LEMMA RemoveKeeps ==
  ASSUME Indexed, NEW gone, RemoveAll(gone)
  PROVE  Indexed' /\ Thins
<1>1. /\ item' = [i \in Live \ gone |-> [item[i] EXCEPT !.blocked = item[i].blocked \ gone]]
      /\ kids' = [i \in Ids |-> kids[i] \ gone]
      /\ byState' = [s \in M!States |-> byState[s] \ gone]
      /\ nextId' = nextId
  BY DEF RemoveAll, Unblocked, Unlinked
<1>2. Live' = Live \ gone
  BY <1>1 DEF Live
<1>3. \A i \in Live' : /\ item'[i] \in Item /\ SameOrigin(item'[i], item[i])
                       /\ item'[i].state = item[i].state
  BY <1>1, <1>2 DEF Indexed, TreeOK, Item, SameOrigin
<1>4. Thins
  BY <1>1, <1>2, <1>3 DEF Thins, Live
<1>5. TreeOK'
  BY <1>1, <1>2, <1>3 DEF Indexed, TreeOK
<1>6. RebuiltKids' = [i \in Ids |-> RebuiltKids[i] \ gone]
  BY <1>2, <1>3 DEF RebuiltKids, Siblings, SameOrigin
<1>7. RebuiltByState' = [s \in M!States |-> RebuiltByState[s] \ gone]
  BY <1>2, <1>3 DEF RebuiltByState
<1> QED
  BY <1>1, <1>4, <1>5, <1>6, <1>7 DEF Indexed, IndexesAgree

LEMMA CrashKeeps ==
  ASSUME Indexed, Crash
  PROVE  Indexed' /\ Thins
<1>1. /\ item' = [i \in Live |-> Healed(item[i])] /\ nextId' = nextId
      /\ kids' = [i \in Ids |-> {k \in Live : item[k].parent = i}]
      /\ byState' = [s \in M!States |-> {i \in Live : Healed(item[i]).state = s}]
  BY DEF Crash
<1>2. Live' = Live
  BY <1>1 DEF Live
<1>3. \A i \in Live : Healed(item[i]) \in Item /\ SameOrigin(Healed(item[i]), item[i])
  BY DEF Indexed, TreeOK, Item, SameOrigin, Healed, M!States
<1>4. Thins
  BY <1>1, <1>2, <1>3 DEF Thins, Live, Healed
<1>5. TreeOK'
  BY <1>1, <1>2, <1>3, TreeFacts DEF Indexed, TreeOK
<1>6. RebuiltKids' = kids' /\ RebuiltByState' = byState'
  BY <1>1, <1>2, <1>3 DEF RebuiltKids, RebuiltByState, Siblings, SameOrigin
<1> QED
  BY <1>4, <1>5, <1>6 DEF Indexed, IndexesAgree

-------------------------------------------------------------------------------
(* The threads. *)

Making == {"check", "insert", "shape", "ready"}

(* What a thread of each verb may be at, and what it then has in hand. *)
Plant(j) == j.pc # "idle" /\ j.verb \in {"project", "init"}
Forms(j) == j.pc # "idle" /\ j.verb \in {"done", "heal"}
Fits(j) ==
  \/ j.pc = "idle"
  \/ /\ j.verb \in {"project", "init"} /\ j.proj = j.id
     /\ j.pc \in {"seed", "commit"} \/ (j.pc \in Making /\ j.title = "plan")
  \/ (j.verb = "task" /\ j.pc \in Making \cup {"wire"} /\ j.title \in Titles)
  \/ /\ j.verb \in {"done", "heal"}
     /\ \/ j.pc \in {"read", "load", "match", "next", "wire", "stamp"}
        \/ (j.pc \in Making /\ j.todo # None /\ j.title = Head(j.todo).title)
  \/ j.verb \in {"plan", "split", "changes"} /\ j.pc \in {"set", "review", "drop", "bounce"}
  \/ j.verb = "cut" /\ j.pc \in {"walk", "retire"}
  \/ j.verb = "unarchive" /\ (j.pc = "look" \/ (j.pc = "restore" /\ j.to # "Retired"))
  \/ j.verb = "epics" /\ j.pc \in {"judge", "open", "close"}

OneAtATime ==
  ~mix.overlap => \A w, v \in Workers : w # v => At(w, "idle") \/ At(v, "idle")

ThreadsOK ==
  /\ job \in [Workers -> Job] /\ \A w \in Workers : Fits(job[w])
  /\ \A w \in Workers : At(w, "idle") \/ job[w].verb = "project" \/ Happens(job[w].verb)
  /\ OneAtATime
  /\ mix \in Mixes /\ crashes \in 0 .. mix.crashes /\ approved \in [Ids -> 0 .. 2]

TreeInv == Indexed /\ ThreadsOK

(* How a thread goes on from j to q, as far as the properties can tell. *)
SeedsOn(j, q) ==
  /\ Plant(j) /\ q.id = j.id
  /\ q.pc \in {"check", "insert"} => j.pc \in {"check", "insert"} \/ SeedOf(q.id) = {}
MakesOn(j, q) ==
  /\ Forms(j) /\ q.id = j.id /\ q.verb = j.verb
  /\ q.pc \in {"read", "load"} => j.pc = "read"
  /\ q.pc = "match" => j.pc = "load" /\ j.id \in Live /\ q.proj = item[j.id].parent
  /\ IF j.pc \in {"read", "load"} THEN q.pc \in {"load", "match"} ELSE q.proj = j.proj
  /\ q.pc \in {"next", "check", "insert"} =>
       \/ /\ j.pc = "match" /\ q.pc = "next" /\ q.todo \in Plans \cup Splits \cup {None}
          /\ \A t \in Titles : Reusable(j.id, j.proj, t) # {} => q.known[t] # NoId
       \/ /\ j.pc \in {"next", "check", "insert"} /\ q.todo = j.todo /\ q.known = j.known
          /\ q.pc = "check" => q.known[q.title] = NoId
          /\ q.pc = "insert" => j.pc = "check" /\ q.title = j.title
       \/ /\ j.pc \in {"next", "ready"} /\ q.pc = "next"
          /\ j.todo # None /\ q.todo = Tail(j.todo) /\ q.known = j.known
  /\ q.pc \in {"shape", "ready"} =>
       j.pc \in {"shape", "ready"} /\ q.todo = j.todo /\ q.known = j.known

Takes(w, q) == job' = [job EXCEPT ![w] = q] /\ UNCHANGED <<crashes, mix>>

Continues(w, q) ==
  /\ Keeps /\ UNCHANGED approved
  /\ \/ q.pc = "idle"
     \/ Free(w) /\ Happens(q.verb)
     \/ ~At(w, "idle") /\ q.verb = job[w].verb
  /\ Plant(q) => SeedsOn(job[w], q)
  /\ Forms(q) => MakesOn(job[w], q)

LEMMA ThreadFacts ==
  ASSUME TreeInv, NEW w \in Workers
  PROVE  job[w] \in Job /\ Fits(job[w])
  BY DEF TreeInv, ThreadsOK

LEMMA TailFacts ==
  ASSUME NEW s \in Seq(Spec_), s # None
  PROVE  /\ Head(s) \in Spec_ /\ Tail(s) \in Seq(Spec_)
         /\ 1 \in DOMAIN s /\ Head(s) = s[1]
         /\ \A n \in DOMAIN Tail(s) :
              n \in Nat \ {0} /\ n + 1 \in DOMAIN s /\ Tail(s)[n] = s[n + 1]
  BY DEF None

LEMMA ProposalFacts ==
  /\ None \in Seq(Spec_)
  /\ \A p \in Plans \cup Splits \cup {None} : p \in Seq(Spec_)
<1>1. None \in Seq(Spec_)
  BY DEF None
<1> QED
  BY <1>1, ProposalsAssumption

LEMMA IdleFacts == Idle \in Job /\ Idle.pc = "idle" /\ Fits(Idle)
<1>1. Unmade \in [Keys -> Ids \cup {NoId}] /\ [t \in Titles |-> NoId] \in [Titles -> Ids \cup {NoId}]
  BY DEF Unmade
<1>2. "Draft" \in M!States /\ None \in Seq(Spec_)
  BY ProposalFacts DEF M!States
<1> QED
  BY <1>1, <1>2 DEF Idle, Job, Fits, Pcs

LEMMA StartType ==
  ASSUME NEW verb \in AllVerbs \cup {"project"}, NEW pc \in Pcs, NEW i \in Ids \cup {NoId}
  PROVE  /\ Start(verb, pc, i) \in Job
         /\ Start(verb, pc, i).verb = verb /\ Start(verb, pc, i).pc = pc /\ Start(verb, pc, i).id = i
<1> HIDE DEF Idle
<1>1. Idle \in Job
  BY IdleFacts
<1> QED
  BY <1>1 DEF Start, Job

LEMMA PcType ==
  ASSUME NEW j \in Job, NEW pc \in Pcs
  PROVE  /\ [j EXCEPT !.pc = pc] \in Job /\ [j EXCEPT !.pc = pc].pc = pc
         /\ [j EXCEPT !.pc = pc].verb = j.verb /\ [j EXCEPT !.pc = pc].id = j.id
         /\ [j EXCEPT !.pc = pc].proj = j.proj /\ [j EXCEPT !.pc = pc].todo = j.todo
         /\ [j EXCEPT !.pc = pc].title = j.title /\ [j EXCEPT !.pc = pc].known = j.known
  BY DEF Job

LEMMA CanFacts ==
  ASSUME Indexed, NEW i, NEW to \in M!States, Can(i, to), to = "Retired" => Happens("cut")
  PROVE  i \in Live /\ (Move(i, to) => Keeps)
  BY DEF Can, Keeps, Shift

(* A thread that only goes to another place, or ends. *)
LEMMA EndContinues ==
  ASSUME Keeps, UNCHANGED approved, NEW w \in Workers
  PROVE  Continues(w, Idle)
  BY IdleFacts DEF Continues, Plant, Forms

LEMMA BeginContinues ==
  ASSUME Keeps, UNCHANGED approved, NEW w \in Workers, Free(w), NEW q \in Job, Happens(q.verb),
         q.verb \in {"task", "plan", "split", "changes", "epics", "cut", "unarchive"}
  PROVE  Continues(w, q)
  BY DEF Continues, Plant, Forms

LEMMA OtherContinues ==
  ASSUME Keeps, UNCHANGED approved, NEW w \in Workers, ~At(w, "idle"), NEW q \in Job,
         q.verb = job[w].verb,
         q.verb \in {"task", "plan", "split", "changes", "epics", "cut", "unarchive"}
  PROVE  Continues(w, q)
  BY DEF Continues, Plant, Forms

LEMMA OnwardContinues ==
  ASSUME TreeInv, NEW w \in Workers, Keeps, UNCHANGED approved,
         NEW made \in BOOLEAN,
         \/ job[w].pc = "seed"
         \/ job[w].pc \in Making /\ (made => job[w].pc = "ready")
  PROVE  /\ Onward(job[w], made) \in Job /\ Fits(Onward(job[w], made))
         /\ Continues(w, Onward(job[w], made))
<1> DEFINE j == job[w]
<1>1. j \in Job /\ Fits(j)
  BY ThreadFacts
<1>2. ~At(w, "idle")
  BY DEF At, Making
<1>3. CASE j.verb = "project" /\ j.again
  <2> DEFINE q == [j EXCEPT !.pc = "commit"]
  <2>1. Onward(j, made) = q
    BY <1>3 DEF Onward
  <2>2. q \in Job /\ q.pc = "commit" /\ q.verb = j.verb /\ q.id = j.id /\ q.proj = j.proj
    BY <1>1 DEF Job, Pcs
  <2> HIDE DEF q
  <2>3. Fits(q)
    BY <1>1, <1>3, <2>2 DEF Fits, Making
  <2>4. Continues(w, q)
    BY <1>2, <1>3, <2>2 DEF Continues, Plant, Forms, SeedsOn, At
  <2> QED
    BY <2>1, <2>2, <2>3, <2>4
<1>4. CASE j.verb = "project" /\ ~j.again
  <2> DEFINE q == [j EXCEPT !.pc = "seed", !.again = TRUE]
  <2>1. Onward(j, made) = q
    BY <1>4 DEF Onward
  <2>2. q \in Job /\ q.pc = "seed" /\ q.verb = j.verb /\ q.id = j.id /\ q.proj = j.proj
    BY <1>1 DEF Job, Pcs
  <2> HIDE DEF q
  <2>3. Fits(q)
    BY <1>1, <1>4, <2>2 DEF Fits, Making
  <2>4. Continues(w, q)
    BY <1>2, <1>4, <2>2 DEF Continues, Plant, Forms, SeedsOn, At
  <2> QED
    BY <2>1, <2>2, <2>3, <2>4
<1>5. CASE j.verb # "project" /\ (~made \/ j.verb = "init" \/ (j.verb = "task" /\ j.needs = {}))
  <2>1. Onward(j, made) = Idle
    BY <1>5 DEF Onward
  <2> QED
    BY <2>1, IdleFacts, EndContinues
<1>6. CASE made /\ j.verb = "task" /\ j.needs # {}
  <2> DEFINE q == [j EXCEPT !.pc = "wire"]
  <2>1. Onward(j, made) = q
    BY <1>6 DEF Onward
  <2>2. q \in Job /\ q.pc = "wire" /\ q.verb = j.verb /\ q.title = j.title
    BY <1>1 DEF Job, Pcs
  <2> HIDE DEF q
  <2>3. Fits(q)
    BY <1>1, <1>6, <2>2 DEF Fits, Making
  <2>4. Continues(w, q)
    BY <1>2, <1>6, <2>2, OtherContinues
  <2> QED
    BY <2>1, <2>2, <2>3, <2>4
<1>7. CASE made /\ j.verb \notin {"project", "init", "task"}
  <2> DEFINE q == [j EXCEPT !.pc = "next", !.keys[Head(j.todo).key] = j.new, !.todo = Tail(@)]
  <2>1. Onward(j, made) = q
    BY <1>7 DEF Onward
  <2>2. j.verb \in {"done", "heal"} /\ j.todo # None /\ j.pc = "ready"
    BY <1>1, <1>7 DEF Fits, Making
  <2>3. j.todo \in Seq(Spec_) /\ j.new \in Ids \cup {NoId}
    BY <1>1 DEF Job
  <2>4. Head(j.todo) \in Spec_ /\ Tail(j.todo) \in Seq(Spec_)
    BY <2>2, <2>3, TailFacts
  <2>5. Head(j.todo).key \in Keys
    BY <2>4 DEF Spec_
  <2>6. /\ q \in Job /\ q.pc = "next" /\ q.verb = j.verb /\ q.id = j.id
        /\ q.todo = Tail(j.todo) /\ q.proj = j.proj /\ q.known = j.known
    BY <1>1, <2>3, <2>4, <2>5 DEF Job, Pcs
  <2> HIDE DEF q
  <2>7. Fits(q)
    BY <2>2, <2>6 DEF Fits
  <2>8. Continues(w, q)
    BY <1>2, <2>2, <2>6 DEF Continues, Plant, Forms, MakesOn, At
  <2> QED
    BY <2>1, <2>6, <2>7, <2>8
<1> QED
  BY <1>3, <1>4, <1>5, <1>6, <1>7

LEMMA StayContinues ==
  ASSUME TreeInv, NEW w \in Workers, ~At(w, "idle"), Keeps, UNCHANGED approved, NEW pc \in Pcs,
         <<job[w].pc, pc>> \in {<<"check", "insert">>, <<"shape", "ready">>, <<"read", "load">>,
                                <<"wire", "stamp">>}
  PROVE  Continues(w, [job[w] EXCEPT !.pc = pc])
<1> DEFINE j == job[w]
           q == [j EXCEPT !.pc = pc]
<1>1. /\ q.pc = pc /\ q.verb = j.verb /\ q.id = j.id /\ q.todo = j.todo
      /\ q.proj = j.proj /\ q.known = j.known /\ q.title = j.title
  BY ThreadFacts, PcType
<1> HIDE DEF q
<1>2. Continues(w, q)
  BY <1>1 DEF Continues, Plant, Forms, SeedsOn, MakesOn, At
<1> QED
  BY <1>2 DEF q

-------------------------------------------------------------------------------
(* The actions, one by one. *)

Found(w, q) ==
  /\ Free(w) /\ Adds(NoId, "project", NoId) /\ UNCHANGED approved
  /\ q.verb = "project" /\ q.pc = "seed" /\ q.id = nextId
AsksForPlan(w, q) ==
  /\ Free(w) /\ Happens("init") /\ Same /\ UNCHANGED approved
  /\ q.verb = "init" /\ q.pc = "seed" /\ q.id \in Live
Approves(w, q) ==
  /\ Free(w) /\ Happens("done") /\ Keeps /\ q.verb = "done" /\ q.pc = "read" /\ q.id \in Live
  /\ approved' = [approved EXCEPT ![q.id] = IF @ = 0 THEN 1 ELSE 2]
Heals(w, q) ==
  /\ Free(w) /\ Happens("heal") /\ Same /\ UNCHANGED approved
  /\ q.verb = "heal" /\ q.pc = "load" /\ q.id \in Live
Inserts(w, q) ==
  LET j == job[w] IN
  /\ At(w, "insert") /\ UNCHANGED approved
  /\ Adds(j.proj, j.title, IF j.verb \in {"done", "heal"} THEN j.id ELSE NoId)
  /\ q.verb = j.verb /\ q.pc = "shape" /\ q.id = j.id /\ q.todo = j.todo /\ q.title = j.title
  /\ q.proj = j.proj /\ q.known = j.known

Sorts(w, q) ==
  \/ Continues(w, q) \/ Found(w, q) \/ AsksForPlan(w, q) \/ Approves(w, q) \/ Heals(w, q)
  \/ Inserts(w, q)
WorkerStep(w) == \E q \in Job : Fits(q) /\ Takes(w, q) /\ Sorts(w, q)

LEMMA GoTakes ==
  ASSUME NEW w, NEW q, Go(w, q)
  PROVE  Takes(w, q) /\ UNCHANGED approved
  BY DEF Go, Takes

LEMMA StartSteps ==
  ASSUME TreeInv, NEW w \in Workers, NEW i \in Ids,
         \/ Changes(w, i) \/ Cut(w, i) \/ Unarchive(w, i) \/ Epics(w)
         \/ \E t \in Titles, needs \in {{}} \cup {{k} : k \in Ids} : NewTask(w, i, t, needs)
         \/ \E p \in Plans : Propose(w, i, p)
         \/ \E p \in Splits : Split(w, i, p)
  PROVE  WorkerStep(w)
<1>1. SUFFICES ASSUME NEW q \in Job, Fits(q), Go(w, q), Same, Free(w), Happens(q.verb),
                      q.verb \in {"task", "plan", "split", "changes", "epics", "cut", "unarchive"}
               PROVE  WorkerStep(w)
  <2>1. CASE Changes(w, i)
    <3> DEFINE q == Start("changes", "drop", i)
    <3>1. q \in Job /\ q.verb = "changes" /\ q.pc = "drop"
      BY StartType DEF AllVerbs, Pcs
    <3>2. Go(w, q) /\ Same /\ Free(w) /\ Happens("changes")
      BY <2>1 DEF Changes
    <3> HIDE DEF q
    <3> QED
      BY <1>1, <3>1, <3>2 DEF Fits
  <2>2. CASE Cut(w, i)
    <3> DEFINE s == Start("cut", "walk", i)
               q == [s EXCEPT !.stack = {i}]
    <3>1. s \in Job /\ s.verb = "cut" /\ s.pc = "walk"
      BY StartType DEF AllVerbs, Pcs
    <3>2. Go(w, q) /\ Same /\ Free(w) /\ Happens("cut")
      BY <2>2 DEF Cut
    <3> HIDE DEF s
    <3>3. q \in Job /\ q.verb = "cut" /\ q.pc = "walk"
      BY <3>1 DEF Job
    <3> HIDE DEF q
    <3> QED
      BY <1>1, <3>2, <3>3 DEF Fits
  <2>3. CASE Unarchive(w, i)
    <3> DEFINE s == Start("unarchive", "look", i)
               q == [s EXCEPT !.stack = Subtree(i)]
    <3>1. s \in Job /\ s.verb = "unarchive" /\ s.pc = "look"
      BY StartType DEF AllVerbs, Pcs
    <3>2. Go(w, q) /\ Same /\ Free(w) /\ Happens("unarchive")
      BY <2>3 DEF Unarchive
    <3>3. Subtree(i) \in SUBSET Ids
      BY DEF Subtree, TreeInv, Indexed, TreeOK
    <3> HIDE DEF s
    <3>4. q \in Job /\ q.verb = "unarchive" /\ q.pc = "look"
      BY <3>1, <3>3 DEF Job
    <3> HIDE DEF q
    <3> QED
      BY <1>1, <3>2, <3>4 DEF Fits
  <2>4. CASE Epics(w)
    <3> DEFINE s == Start("epics", "judge", NoId)
    <3>0. "epics" \in AllVerbs \cup {"project"} /\ "judge" \in Pcs /\ NoId \in Ids \cup {NoId}
      BY DEF AllVerbs, Pcs
    <3>1. s \in Job /\ s.verb = "epics" /\ s.pc = "judge"
      BY <3>0, StartType
    <3> DEFINE open == {k \in Live : IsProject(k) /\ item[k].state \notin M!Terminal}
               drafts == {k \in open : item[k].state = "Draft"}
               q == [s EXCEPT !.stack = open, !.needs = drafts]
    <3>2. Go(w, q) /\ Same /\ Free(w) /\ Happens("epics")
      BY <2>4 DEF Epics
    <3>3. open \in SUBSET Ids /\ drafts \in SUBSET Ids
      BY TreeFacts DEF TreeInv, Indexed
    <3> HIDE DEF s, open, drafts
    <3>4. q \in Job /\ q.verb = "epics" /\ q.pc = "judge"
      BY <3>1, <3>3 DEF Job
    <3> HIDE DEF q
    <3> QED
      BY <1>1, <3>2, <3>4 DEF Fits
  <2>5. ASSUME NEW t \in Titles, NEW needs \in {{}} \cup {{k} : k \in Ids}, NewTask(w, i, t, needs)
        PROVE  WorkerStep(w)
    <3> DEFINE s == Start("task", "check", i)
               q == [s EXCEPT !.proj = i, !.title = t, !.needs = needs]
    <3>1. s \in Job /\ s.verb = "task" /\ s.pc = "check"
      BY StartType DEF AllVerbs, Pcs
    <3>2. Go(w, q) /\ Same /\ Free(w) /\ Happens("task")
      BY <2>5 DEF NewTask
    <3>3. needs \in SUBSET Ids
      OBVIOUS
    <3> HIDE DEF s
    <3>4. q \in Job /\ q.verb = "task" /\ q.pc = "check" /\ q.title = t
      BY <3>1, <3>3 DEF Job
    <3> HIDE DEF q
    <3> QED
      BY <1>1, <3>2, <3>4 DEF Fits, Making
  <2>6. ASSUME NEW p \in Plans, Propose(w, i, p)
        PROVE  WorkerStep(w)
    <3> DEFINE s == Start("plan", "set", i)
               q == [s EXCEPT !.specs = p]
    <3>1. s \in Job /\ s.verb = "plan" /\ s.pc = "set"
      BY StartType DEF AllVerbs, Pcs
    <3>2. Go(w, q) /\ Same /\ Free(w) /\ Happens("plan")
      BY <2>6 DEF Propose
    <3> HIDE DEF s
    <3>4. q \in Job /\ q.verb = "plan" /\ q.pc = "set"
      BY <3>1 DEF Job
    <3> HIDE DEF q
    <3> QED
      BY <1>1, <3>2, <3>4 DEF Fits
  <2>7. ASSUME NEW p \in Splits, Split(w, i, p)
        PROVE  WorkerStep(w)
    <3> DEFINE s == Start("split", "set", i)
               q == [s EXCEPT !.specs = p]
    <3>1. s \in Job /\ s.verb = "split" /\ s.pc = "set"
      BY StartType DEF AllVerbs, Pcs
    <3>2. Go(w, q) /\ Same /\ Free(w) /\ Happens("split")
      BY <2>7 DEF Split
    <3> HIDE DEF s
    <3>4. q \in Job /\ q.verb = "split" /\ q.pc = "set"
      BY <3>1 DEF Job
    <3> HIDE DEF q
    <3> QED
      BY <1>1, <3>2, <3>4 DEF Fits
  <2> QED
    BY <2>1, <2>2, <2>3, <2>4, <2>5, <2>6, <2>7
<1>2. Keeps
  BY <1>1 DEF Keeps
<1>3. Continues(w, q)
  BY <1>1, <1>2, GoTakes, BeginContinues
<1> QED
  BY <1>1, <1>3, GoTakes DEF WorkerStep, Sorts

(* Creating. *)
LEMMA CreateSteps ==
  ASSUME TreeInv, NEW w \in Workers,
         \/ Seed(w) \/ CheckParent(w) \/ Create(w) \/ Shape(w) \/ Ready(w) \/ Commit(w)
  PROVE  WorkerStep(w)
<1> DEFINE j == job[w]
<1>1. j \in Job /\ Fits(j)
  BY ThreadFacts
<1>2. Indexed
  BY DEF TreeInv
<1>3. "Shaping" \in M!States /\ "Backlog" \in M!States
  BY DEF M!States
<1>4. ASSUME NEW made \in BOOLEAN, Keeps, Go(w, Onward(j, made)),
             \/ j.pc = "seed"
             \/ j.pc \in Making /\ (made => j.pc = "ready")
      PROVE  WorkerStep(w)
  BY <1>4, GoTakes, OnwardContinues DEF WorkerStep, Sorts
<1>5. CASE Seed(w)
  <2>1. At(w, "seed") /\ Same /\ j.pc = "seed" /\ j.verb \in {"project", "init"}
    BY <1>1, <1>5 DEF Seed, At, Fits, Making
  <2>2. Keeps
    BY <2>1 DEF Keeps
  <2>3. CASE j.id \in Live /\ SeedOf(j.id) = {}
    <3> DEFINE q == [j EXCEPT !.pc = "check", !.title = "plan"]
    <3>1. Go(w, q)
      BY <1>5, <2>3 DEF Seed
    <3>2. /\ q \in Job /\ q.pc = "check" /\ q.verb = j.verb /\ q.id = j.id
          /\ q.title = "plan" /\ q.proj = j.proj
      BY <1>1 DEF Job, Pcs
    <3> HIDE DEF q
    <3>3. Fits(q)
      BY <1>1, <2>1, <3>2 DEF Fits, Making
    <3>4. Continues(w, q)
      BY <2>1, <2>2, <2>3, <3>1, <3>2, GoTakes DEF Continues, Plant, Forms, SeedsOn, At
    <3> QED
      BY <3>1, <3>2, <3>3, <3>4, GoTakes DEF WorkerStep, Sorts
  <2>4. CASE ~(j.id \in Live /\ SeedOf(j.id) = {})
    <3>1. Go(w, Onward(j, TRUE))
      BY <1>5, <2>4 DEF Seed
    <3> QED
      BY <1>4, <2>1, <2>2, <3>1
  <2> QED
    BY <2>3, <2>4
<1>6. CASE CheckParent(w)
  <2>1. At(w, "check") /\ Same /\ j.pc = "check"
    BY <1>6 DEF CheckParent, At
  <2>2. Keeps
    BY <2>1 DEF Keeps
  <2>3. CASE j.proj \in Live /\ IsProject(j.proj)
    <3> DEFINE q == [j EXCEPT !.pc = "insert"]
    <3>1. Go(w, q)
      BY <1>6, <2>3 DEF CheckParent
    <3>2. /\ q \in Job /\ q.pc = "insert" /\ q.verb = j.verb /\ q.id = j.id
          /\ q.title = j.title /\ q.proj = j.proj /\ q.todo = j.todo
      BY <1>1 DEF Job, Pcs
    <3>3. Continues(w, q)
      BY <2>1, <2>2, <3>1, GoTakes, StayContinues DEF At, Pcs
    <3> HIDE DEF q
    <3>4. Fits(q)
      BY <1>1, <2>1, <3>2 DEF Fits, Making
    <3> QED
      BY <3>1, <3>2, <3>3, <3>4, GoTakes DEF WorkerStep, Sorts
  <2>4. CASE ~(j.proj \in Live /\ IsProject(j.proj))
    <3>1. Go(w, Onward(j, FALSE))
      BY <1>6, <2>4 DEF CheckParent
    <3> QED
      BY <1>4, <2>1, <2>2, <3>1 DEF Making
  <2> QED
    BY <2>3, <2>4
<1>7. CASE Create(w)
  <2> DEFINE q == [j EXCEPT !.pc = "shape", !.new = nextId]
  <2>1. At(w, "insert") /\ Go(w, q)
        /\ Adds(j.proj, j.title, IF j.verb \in {"done", "heal"} THEN j.id ELSE NoId)
    BY <1>7 DEF Create, Adds
  <2>2. nextId \in Ids
    BY <2>1 DEF Adds, Insert
  <2>3. /\ q \in Job /\ q.pc = "shape" /\ q.verb = j.verb /\ q.id = j.id
        /\ q.title = j.title /\ q.proj = j.proj /\ q.todo = j.todo /\ q.known = j.known
    BY <1>1, <2>2 DEF Job, Pcs
  <2> HIDE DEF q
  <2>4. Fits(q)
    BY <1>1, <2>1, <2>3 DEF Fits, Making, At
  <2>5. Inserts(w, q)
    BY <2>1, <2>3, GoTakes DEF Inserts
  <2> QED
    BY <2>1, <2>3, <2>4, <2>5, GoTakes DEF WorkerStep, Sorts
<1>8. CASE Shape(w)
  <2>1. At(w, "shape") /\ j.pc = "shape"
    BY <1>8 DEF Shape, At
  <2>2. Keeps
    BY <1>2, <1>3, <1>8, CanFacts DEF Shape, Keeps
  <2>3. CASE Next_(w, "ready")
    <3> DEFINE q == [j EXCEPT !.pc = "ready"]
    <3>1. Go(w, q)
      BY <2>3 DEF Next_
    <3>2. /\ q \in Job /\ q.pc = "ready" /\ q.verb = j.verb /\ q.id = j.id
          /\ q.title = j.title /\ q.proj = j.proj /\ q.todo = j.todo
      BY <1>1 DEF Job, Pcs
    <3>3. Continues(w, q)
      BY <2>1, <2>2, <3>1, GoTakes, StayContinues DEF At, Pcs
    <3> HIDE DEF q
    <3>4. Fits(q)
      BY <1>1, <2>1, <3>2 DEF Fits, Making
    <3> QED
      BY <3>1, <3>2, <3>3, <3>4, GoTakes DEF WorkerStep, Sorts
  <2>4. CASE Go(w, Onward(j, FALSE))
    BY <1>4, <2>1, <2>2, <2>4 DEF Making
  <2> QED
    BY <1>8, <2>3, <2>4 DEF Shape
<1>9. CASE Ready(w)
  <2>1. At(w, "ready") /\ j.pc = "ready"
    BY <1>9 DEF Ready, At
  <2>2. Keeps
    BY <1>2, <1>3, <1>9, CanFacts DEF Ready, Keeps
  <2>3. Go(w, Onward(j, TRUE)) \/ Go(w, Onward(j, FALSE))
    BY <1>9 DEF Ready
  <2> QED
    BY <1>4, <2>1, <2>2, <2>3 DEF Making
<1>10. CASE Commit(w)
  <2>1. Keeps
    BY <1>2, <1>3, <1>10, CanFacts DEF Commit, Keeps
  <2>2. Go(w, Idle)
    BY <1>10 DEF Commit, End
  <2> QED
    BY <2>1, <2>2, GoTakes, IdleFacts, EndContinues DEF WorkerStep, Sorts
<1> QED
  BY <1>5, <1>6, <1>7, <1>8, <1>9, <1>10

(* Ends, and steps of one thread to another place. *)
LEMMA EndSteps ==
  ASSUME TreeInv, NEW w \in Workers, Keeps, End(w)
  PROVE  WorkerStep(w)
  BY GoTakes, IdleFacts, EndContinues DEF WorkerStep, Sorts, End

LEMMA SetFacts ==
  ASSUME TreeInv, NEW i \in Live, NEW p \in Plans \cup Splits \cup {None},
         NEW made \in [Keys -> Ids \cup {NoId}], NEW needs \in SUBSET Ids
  PROVE  /\ Write(i, [item[i] EXCEPT !.proposal = p, !.made = made]) => Keeps
         /\ Write(i, [item[i] EXCEPT !.made = made]) => Keeps
         /\ Write(i, [item[i] EXCEPT !.blocked = needs]) => Keeps
<1>1. item[i] \in Item
  BY DEF TreeInv, Indexed, TreeOK
<1>2. \A r \in {[item[i] EXCEPT !.proposal = p, !.made = made], [item[i] EXCEPT !.made = made],
                [item[i] EXCEPT !.blocked = needs]} :
        r \in Item /\ SameOrigin(r, item[i]) /\ r.state = item[i].state
  BY <1>1 DEF Item, SameOrigin
<1> QED
  BY <1>2 DEF Keeps, Rewrites

LEMMA BlockKeeps ==
  ASSUME TreeInv, NEW i, NEW needs \in SUBSET Ids, Block(i, needs)
  PROVE  Keeps
<1>1. CASE i \in Live
  <2>1. None \in Plans \cup Splits \cup {None} /\ Unmade \in [Keys -> Ids \cup {NoId}]
    BY DEF Unmade
  <2> QED
    BY <1>1, <2>1, SetFacts DEF Block
<1>2. CASE i \notin Live
  BY <1>2 DEF Block, Keeps
<1> QED
  BY <1>1, <1>2

LEMMA ProposeSteps ==
  ASSUME TreeInv, NEW w \in Workers,
         \/ WireTask(w) \/ SetProposal(w) \/ Review(w) \/ DropProposal(w) \/ Bounce(w) \/ Stamp(w)
  PROVE  WorkerStep(w)
<1> DEFINE j == job[w]
<1>1. j \in Job /\ Fits(j)
  BY ThreadFacts
<1>2. Indexed
  BY DEF TreeInv
<1>3. "Review" \in M!States /\ "Backlog" \in M!States
  BY DEF M!States
<1>4. Unmade \in [Keys -> Ids \cup {NoId}] /\ None \in Plans \cup Splits \cup {None}
  BY DEF Unmade
<1>5. ASSUME NEW pc \in {"review", "bounce"}, Keeps, Next_(w, pc), ~At(w, "idle"),
             j.verb \in {"plan", "split", "changes"}
      PROVE  WorkerStep(w)
  <2> DEFINE q == [j EXCEPT !.pc = pc]
  <2>1. Go(w, q)
    BY <1>5 DEF Next_
  <2>2. q \in Job /\ q.pc = pc /\ q.verb = j.verb
    BY <1>1 DEF Job, Pcs
  <2> HIDE DEF q
  <2>3. Fits(q)
    BY <1>5, <2>2 DEF Fits
  <2>4. Continues(w, q)
    BY <1>5, <2>1, <2>2, GoTakes, OtherContinues
  <2> QED
    BY <2>1, <2>2, <2>3, <2>4, GoTakes DEF WorkerStep, Sorts
<1>6. CASE WireTask(w)
  <2>1. Block(j.new, j.needs) /\ End(w)
    BY <1>6 DEF WireTask
  <2>2. j.needs \in SUBSET Ids
    BY <1>1 DEF Job
  <2> QED
    BY <2>1, <2>2, BlockKeeps, EndSteps
<1>7. CASE SetProposal(w)
  <2>1. At(w, "set") /\ j.pc = "set" /\ j.verb \in {"plan", "split", "changes"}
    BY <1>1, <1>7 DEF SetProposal, At, Fits, Making
  <2>2. CASE j.id \in Live /\ ~Frozen(j.id)
    <3>1. Write(j.id, [item[j.id] EXCEPT !.proposal = j.specs, !.made = Unmade])
      BY <1>7, <2>2 DEF SetProposal
    <3>2. j.specs \in Plans \cup Splits \cup {None} /\ {} \in SUBSET Ids
      BY <1>1 DEF Job
    <3>3. Keeps
      BY <1>4, <2>2, <3>1, <3>2, SetFacts
    <3>4. IF j.verb = "split" THEN Next_(w, "review") ELSE End(w)
      BY <1>7, <2>2 DEF SetProposal
    <3> QED
      BY <1>5, <2>1, <3>3, <3>4, EndSteps DEF At
  <2>3. CASE ~(j.id \in Live /\ ~Frozen(j.id))
    BY <1>7, <2>3, EndSteps DEF SetProposal, Keeps
  <2> QED
    BY <2>2, <2>3
<1>8. CASE Review(w)
  <2>1. Keeps /\ End(w)
    BY <1>2, <1>3, <1>8, CanFacts DEF Review, Keeps
  <2> QED
    BY <2>1, EndSteps
<1>9. CASE DropProposal(w)
  <2>1. At(w, "drop") /\ j.pc = "drop" /\ Next_(w, "bounce")
    BY <1>9 DEF DropProposal, At
  <2>2. ASSUME j.id \in Live
        PROVE  Keeps
    <3>1. Write(j.id, [item[j.id] EXCEPT !.proposal = None, !.made = Unmade])
      BY <1>9, <2>2 DEF DropProposal
    <3>2. {} \in SUBSET Ids
      OBVIOUS
    <3> QED
      BY <1>4, <2>2, <3>1, <3>2, SetFacts
  <2>3. ASSUME j.id \notin Live
        PROVE  Keeps
    BY <1>9, <2>3 DEF DropProposal, Keeps
  <2>4. Keeps
    BY <2>2, <2>3
  <2> DEFINE q == [j EXCEPT !.pc = "bounce"]
  <2>5. Go(w, q)
    BY <2>1 DEF Next_
  <2>6. q \in Job /\ q.pc = "bounce" /\ q.verb = j.verb
    BY <1>1 DEF Job, Pcs
  <2> HIDE DEF q
  <2>7. j.verb \in {"plan", "split", "changes"}
    BY <1>1, <2>1 DEF Fits, Making
  <2>8. Fits(q) /\ Continues(w, q)
    BY <2>1, <2>4, <2>5, <2>6, <2>7, GoTakes, OtherContinues DEF Fits, At
  <2> QED
    BY <2>5, <2>6, <2>8, GoTakes DEF WorkerStep, Sorts
<1>10. CASE Bounce(w)
  <2>1. Keeps /\ End(w)
    BY <1>2, <1>3, <1>10, CanFacts DEF Bounce, Keeps
  <2> QED
    BY <2>1, EndSteps
<1>11. CASE Stamp(w)
  <2> DEFINE c == j.id
             hit == [k \in Keys |-> IF k \in KeysOf(item[c].proposal) /\ j.keys[k] # NoId
                                    THEN j.keys[k] ELSE item[c].made[k]]
  <2>1. End(w)
    BY <1>11 DEF Stamp
  <2>2. CASE c \notin Live
    BY <1>11, <2>1, <2>2, EndSteps DEF Stamp, Keeps
  <2>3. CASE c \in Live
    <3>1. item[c].made \in [Keys -> Ids \cup {NoId}] /\ j.keys \in [Keys -> Ids \cup {NoId}]
      BY <1>1, <2>3 DEF Job, TreeInv, Indexed, TreeOK, Item
    <3>2. hit \in [Keys -> Ids \cup {NoId}] /\ {} \in SUBSET Ids
      BY <3>1
    <3>3. Write(c, IF IsInitial(c) THEN [item[c] EXCEPT !.made = hit]
                   ELSE [item[c] EXCEPT !.proposal = None, !.made = Unmade])
      BY <1>11, <2>3 DEF Stamp
    <3> HIDE DEF hit
    <3>4. Keeps
      BY <1>4, <2>3, <3>2, <3>3, SetFacts
    <3> QED
      BY <2>1, <3>4, EndSteps
  <2> QED
    BY <2>2, <2>3
<1> QED
  BY <1>6, <1>7, <1>8, <1>9, <1>10, <1>11

LEMMA ParentType ==
  ASSUME NEW j \in Job, NEW p \in Ids \cup {NoId}
  PROVE  /\ [j EXCEPT !.proj = p] \in Job
         /\ [j EXCEPT !.proj = p].verb = j.verb /\ [j EXCEPT !.proj = p].id = j.id
  BY DEF Job

LEMMA LoadType ==
  ASSUME NEW j \in Job, NEW s \in Plans \cup Splits \cup {None}, NEW p \in Ids \cup {NoId}
  PROVE  /\ [j EXCEPT !.pc = "match", !.specs = s, !.proj = p] \in Job
         /\ [j EXCEPT !.pc = "match", !.specs = s, !.proj = p].pc = "match"
         /\ [j EXCEPT !.pc = "match", !.specs = s, !.proj = p].verb = j.verb
         /\ [j EXCEPT !.pc = "match", !.specs = s, !.proj = p].id = j.id
<1> DEFINE r == [j EXCEPT !.specs = s]
           q == [r EXCEPT !.proj = p]
<1>1. r \in Job /\ r.verb = j.verb /\ r.id = j.id
  BY DEF Job
<1>2. [j EXCEPT !.pc = "match", !.specs = s, !.proj = p] = [q EXCEPT !.pc = "match"]
  BY DEF Job
<1> HIDE DEF r
<1>3. q \in Job /\ q.verb = r.verb /\ q.id = r.id
  BY <1>1, ParentType
<1> HIDE DEF q
<1>4. "match" \in Pcs
  BY DEF Pcs
<1>5. /\ [q EXCEPT !.pc = "match"] \in Job /\ [q EXCEPT !.pc = "match"].pc = "match"
      /\ [q EXCEPT !.pc = "match"].verb = q.verb /\ [q EXCEPT !.pc = "match"].id = q.id
  BY <1>3, <1>4, PcType
<1> QED
  BY <1>1, <1>2, <1>3, <1>5

LEMMA RowSteps ==
  ASSUME TreeInv, NEW w \in Workers,
         ReadProposal(w) \/ Load(w) \/ Match(w) \/ NextRow(w) \/ WireRow(w)
  PROVE  WorkerStep(w)
<1> DEFINE j == job[w]
<1>1. j \in Job /\ Fits(j)
  BY ThreadFacts
<1>2. j.todo \in Seq(Spec_) /\ j.specs \in Seq(Spec_) /\ j.specs \in Plans \cup Splits \cup {None}
  BY <1>1, ProposalFacts DEF Job
<1>3. CASE ReadProposal(w)
  <2>1. At(w, "read") /\ Same /\ j.pc = "read" /\ j.verb \in {"done", "heal"}
    BY <1>1, <1>3 DEF ReadProposal, At, Fits, Making
  <2>2. Keeps
    BY <2>1 DEF Keeps
  <2> DEFINE q == [j EXCEPT !.pc = "load"]
  <2>3. CASE Go(w, q)
    <3>1. q \in Job /\ q.pc = "load" /\ q.verb = j.verb
      BY <1>1 DEF Job, Pcs
    <3>2. Continues(w, q)
      BY <2>1, <2>2, <2>3, GoTakes, StayContinues DEF At, Pcs
    <3> HIDE DEF q
    <3>3. Fits(q)
      BY <2>1, <3>1 DEF Fits
    <3> QED
      BY <2>3, <3>1, <3>2, <3>3, GoTakes DEF WorkerStep, Sorts
  <2>4. CASE End(w)
    BY <2>2, <2>4, EndSteps
  <2> QED
    BY <1>3, <2>3, <2>4 DEF ReadProposal, End
<1>4. CASE Load(w)
  <2>1. At(w, "load") /\ Same /\ j.pc = "load" /\ j.verb \in {"done", "heal"}
    BY <1>1, <1>4 DEF Load, At, Fits, Making
  <2>2. Keeps
    BY <2>1 DEF Keeps
  <2>3. CASE j.id \in Live /\ item[j.id].proposal # None
    <3> DEFINE proposal == item[j.id].proposal
               parent == item[j.id].parent
               q == [j EXCEPT !.pc = "match", !.specs = proposal, !.proj = parent]
    <3>1. Go(w, q)
      BY <1>4, <2>3 DEF Load
    <3>2. /\ proposal \in Plans \cup Splits \cup {None}
          /\ parent \in Ids \cup {NoId}
      BY <2>3 DEF TreeInv, Indexed, TreeOK, Item
    <3> HIDE DEF proposal, parent
    <3>3. q \in Job /\ q.pc = "match" /\ q.verb = j.verb /\ q.id = j.id /\ q.proj = parent
      <4>1. q \in Job
        BY <1>1, <3>2, LoadType
      <4>2. q.pc = "match" /\ q.verb = j.verb /\ q.id = j.id /\ q.proj = parent
        BY <1>1 DEF Job
      <4> QED
        BY <4>1, <4>2
    <3> HIDE DEF q
    <3>4. Fits(q)
      BY <2>1, <3>3 DEF Fits
    <3>5. Continues(w, q)
      BY <2>1, <2>2, <2>3, <3>1, <3>3, GoTakes DEF Continues, Plant, Forms, MakesOn, At, parent
    <3> QED
      BY <3>1, <3>3, <3>4, <3>5, GoTakes DEF WorkerStep, Sorts
  <2>4. CASE ~(j.id \in Live /\ item[j.id].proposal # None)
    BY <1>4, <2>2, <2>4, EndSteps DEF Load, End
  <2> QED
    BY <2>3, <2>4
<1>5. CASE Match(w)
  <2>1. At(w, "match") /\ Same /\ j.pc = "match" /\ j.verb \in {"done", "heal"}
    BY <1>1, <1>5 DEF Match, At, Fits, Making
  <2>2. Keeps
    BY <2>1 DEF Keeps
  <2> DEFINE Known(t) == LET s == Reusable(j.id, j.proj, t)
                         IN IF s = {} THEN NoId ELSE CHOOSE i \in s : \A k \in s : k <= i
             known == [t \in Titles |-> Known(t)]
             q == [j EXCEPT !.pc = "next", !.known = known, !.todo = j.specs]
  <2>3. Go(w, q)
    BY <1>5 DEF Match
  <2>4. ASSUME NEW t \in Titles
        PROVE  Known(t) \in Ids \cup {NoId}
    <3> DEFINE s == Reusable(j.id, j.proj, t)
    <3>1. s \in SUBSET (1 .. MaxId)
      BY TreeFacts DEF Reusable, Siblings, TreeInv, Indexed, Ids
    <3> HIDE DEF s
    <3>2. s # {} => \E i \in s : \A k \in s : k <= i
      BY <3>1, HighestOf, BoundsAssumption
    <3> QED
      BY <3>1, <3>2 DEF s, Ids
  <2>5. known \in [Titles -> Ids \cup {NoId}]
    BY <2>4
  <2>9. \A t \in Titles : Reusable(j.id, j.proj, t) # {} => known[t] # NoId
    <3> TAKE t \in Titles
    <3> DEFINE s == Reusable(j.id, j.proj, t)
    <3>1. s \in SUBSET (1 .. MaxId)
      BY TreeFacts DEF Reusable, Siblings, TreeInv, Indexed, Ids
    <3> HIDE DEF s
    <3>2. s # {} => \E i \in s : \A k \in s : k <= i
      BY <3>1, HighestOf, BoundsAssumption
    <3>3. s # {} => Known(t) \in Ids
      BY <3>1, <3>2 DEF s, Ids
    <3>4. known[t] = Known(t)
      OBVIOUS
    <3> HIDE DEF known, Known
    <3>5. s # {} => known[t] # NoId
      BY <3>3, <3>4, BoundsAssumption DEF Ids, NoId
    <3> QED
      BY <3>5 DEF s
  <2> HIDE DEF known
  <2>6. /\ q \in Job /\ q.pc = "next" /\ q.verb = j.verb /\ q.id = j.id /\ q.todo = j.specs
        /\ q.proj = j.proj /\ q.known = known
    BY <1>1, <1>2, <2>5 DEF Job, Pcs
  <2> HIDE DEF q
  <2>7. Fits(q)
    BY <2>1, <2>6 DEF Fits
  <2>8. Continues(w, q)
    BY <1>2, <2>1, <2>2, <2>3, <2>6, <2>9, GoTakes DEF Continues, Plant, Forms, MakesOn, At
  <2> QED
    BY <2>3, <2>6, <2>7, <2>8, GoTakes DEF WorkerStep, Sorts
<1>6. CASE NextRow(w)
  <2> DEFINE k == j.known[Head(j.todo).title]
  <2>1. At(w, "next") /\ Same /\ j.pc = "next" /\ j.verb \in {"done", "heal"}
    BY <1>1, <1>6 DEF NextRow, At, Fits, Making
  <2>2. Keeps
    BY <2>1 DEF Keeps
  <2>3. CASE j.todo = None
    <3> DEFINE q == [j EXCEPT !.pc = "wire", !.todo = j.specs]
    <3>1. Go(w, q)
      BY <1>6, <2>3 DEF NextRow
    <3>2. q \in Job /\ q.pc = "wire" /\ q.verb = j.verb /\ q.id = j.id /\ q.proj = j.proj
      BY <1>1, <1>2 DEF Job, Pcs
    <3> HIDE DEF q
    <3>3. Fits(q)
      BY <2>1, <3>2 DEF Fits
    <3>4. Continues(w, q)
      BY <2>1, <2>2, <3>1, <3>2, GoTakes DEF Continues, Plant, Forms, MakesOn, At
    <3> QED
      BY <3>1, <3>2, <3>3, <3>4, GoTakes DEF WorkerStep, Sorts
  <2>4. ASSUME j.todo # None
        PROVE  /\ Head(j.todo) \in Spec_ /\ Tail(j.todo) \in Seq(Spec_)
               /\ Head(j.todo).title \in Titles /\ Head(j.todo).key \in Keys
               /\ k \in Ids \cup {NoId}
    <3>1. Head(j.todo) \in Spec_ /\ Tail(j.todo) \in Seq(Spec_)
      BY <1>2, <2>4, TailFacts
    <3>2. j.known \in [Titles -> Ids \cup {NoId}]
      BY <1>1 DEF Job
    <3> QED
      BY <3>1, <3>2 DEF Spec_
  <2>5. CASE j.todo # None /\ k # NoId
    <3> DEFINE q == [j EXCEPT !.keys[Head(j.todo).key] = k, !.todo = Tail(@)]
    <3>1. Go(w, q)
      BY <1>6, <2>5 DEF NextRow
    <3> HIDE DEF k
    <3>2. /\ q \in Job /\ q.pc = "next" /\ q.verb = j.verb /\ q.id = j.id
          /\ q.todo = Tail(j.todo) /\ q.proj = j.proj /\ q.known = j.known
      BY <1>1, <2>1, <2>4, <2>5 DEF Job, Pcs
    <3> HIDE DEF q
    <3>3. Fits(q)
      BY <2>1, <3>2 DEF Fits
    <3>4. Continues(w, q)
      BY <2>1, <2>2, <2>5, <3>1, <3>2, GoTakes DEF Continues, Plant, Forms, MakesOn, At
    <3> QED
      BY <3>1, <3>2, <3>3, <3>4, GoTakes DEF WorkerStep, Sorts
  <2>6. CASE j.todo # None /\ k = NoId
    <3> DEFINE t == Head(j.todo).title
               q == [j EXCEPT !.pc = "check", !.title = t]
    <3>1. Go(w, q)
      BY <1>6, <2>6 DEF NextRow
    <3>2. t \in Titles
      BY <2>4, <2>6
    <3> HIDE DEF t
    <3>3. /\ q \in Job /\ q.pc = "check" /\ q.verb = j.verb /\ q.id = j.id
          /\ q.todo = j.todo /\ q.title = t /\ q.proj = j.proj /\ q.known = j.known
      BY <1>1, <3>2 DEF Job, Pcs
    <3> HIDE DEF q
    <3>4. Fits(q)
      BY <2>1, <2>6, <3>3 DEF Fits, Making, t
    <3>5. Continues(w, q)
      BY <2>1, <2>2, <2>6, <3>1, <3>3, GoTakes DEF Continues, Plant, Forms, MakesOn, At, t, k
    <3> QED
      BY <3>1, <3>3, <3>4, <3>5, GoTakes DEF WorkerStep, Sorts
  <2> QED
    BY <2>3, <2>5, <2>6
<1>7. CASE WireRow(w)
  <2> DEFINE needs == Edges(j.keys, Head(j.todo).needs)
  <2>1. At(w, "wire") /\ j.pc = "wire" /\ j.verb \in {"done", "heal"}
    BY <1>7 DEF WireRow, At
  <2>2. CASE j.todo = None
    <3> DEFINE q == [j EXCEPT !.pc = "stamp"]
    <3>1. Go(w, q) /\ Same
      BY <1>7, <2>2 DEF WireRow, Next_
    <3>2. Keeps
      BY <3>1 DEF Keeps
    <3>3. q \in Job /\ q.pc = "stamp" /\ q.verb = j.verb
      BY <1>1 DEF Job, Pcs
    <3>4. Continues(w, q)
      BY <2>1, <3>1, <3>2, GoTakes, StayContinues DEF At, Pcs
    <3> HIDE DEF q
    <3>5. Fits(q)
      BY <2>1, <3>3 DEF Fits
    <3> QED
      BY <3>1, <3>3, <3>4, <3>5, GoTakes DEF WorkerStep, Sorts
  <2>3. CASE j.todo # None
    <3> DEFINE q == [j EXCEPT !.todo = Tail(@)]
    <3>1. Go(w, q) /\ (IF needs = {} THEN Same ELSE Block(j.keys[Head(j.todo).key], needs))
      BY <1>7, <2>3 DEF WireRow
    <3>2. Head(j.todo) \in Spec_ /\ Tail(j.todo) \in Seq(Spec_)
      BY <1>2, <2>3, TailFacts
    <3>3. needs \in SUBSET Ids
      <4>1. Head(j.todo).needs \in SUBSET Keys /\ j.keys \in [Keys -> Ids \cup {NoId}]
        BY <1>1, <3>2 DEF Job, Spec_
      <4> QED
        BY <4>1 DEF Edges
    <3> HIDE DEF needs
    <3>4. Keeps
      BY <3>1, <3>3, BlockKeeps DEF Keeps
    <3>5. q \in Job /\ q.pc = "wire" /\ q.verb = j.verb /\ q.id = j.id /\ q.proj = j.proj
      BY <1>1, <2>1, <3>2 DEF Job, Pcs
    <3> HIDE DEF q
    <3>6. Fits(q)
      BY <2>1, <3>5 DEF Fits
    <3>7. Continues(w, q)
      BY <2>1, <3>1, <3>4, <3>5, GoTakes DEF Continues, Plant, Forms, MakesOn, At
    <3> QED
      BY <3>1, <3>5, <3>6, <3>7, GoTakes DEF WorkerStep, Sorts
  <2> QED
    BY <2>2, <2>3
<1> QED
  BY <1>3, <1>4, <1>5, <1>6, <1>7

(* Walks over a scope: what a walk has in hand is an id. *)
LEMMA HandType ==
  ASSUME NEW j \in Job, NEW pc \in Pcs, NEW i \in Ids, NEW s \in SUBSET Ids, NEW to \in M!States
  PROVE  /\ [j EXCEPT !.pc = pc, !.new = i, !.stack = s] \in Job
         /\ [j EXCEPT !.pc = pc, !.new = i, !.to = to, !.stack = s] \in Job
         /\ [j EXCEPT !.stack = s] \in Job
<1>1. [j EXCEPT !.stack = s] \in Job
  BY DEF Job
<1>2. [j EXCEPT !.pc = pc, !.new = i, !.stack = s] \in Job
  BY DEF Job
<1>3. [j EXCEPT !.pc = pc, !.new = i, !.to = to, !.stack = s] \in Job
  BY DEF Job
<1> QED
  BY <1>1, <1>2, <1>3

LEMMA WalkSteps ==
  ASSUME TreeInv, NEW w \in Workers,
         \/ Walk(w) \/ Retire(w) \/ Look(w) \/ Restore(w) \/ Judge(w) \/ Open(w) \/ Close(w)
  PROVE  WorkerStep(w)
<1> DEFINE j == job[w]
           verbs == {"epics", "cut", "unarchive"}
           pcs == {"walk", "retire", "look", "restore", "judge", "open", "close"}
<1>1. j \in Job /\ Fits(j)
  BY ThreadFacts
<1>2. Indexed /\ pcs \subseteq Pcs /\ j.stack \in SUBSET Ids
  BY <1>1 DEF TreeInv, Pcs, Job
<1>3. {"Retired", "Shaping", "Done"} \subseteq M!States
  BY DEF M!States
<1>4. ASSUME NEW q \in Job, Keeps, Go(w, q), q.verb = j.verb,
             \/ {j.pc, q.pc} \subseteq {"walk", "retire"}
             \/ {j.pc, q.pc} \subseteq {"look", "restore"} /\ (q.pc = "restore" => q.to # "Retired")
             \/ {j.pc, q.pc} \subseteq {"judge", "open", "close"}
      PROVE  WorkerStep(w)
  <2>1. ~At(w, "idle") /\ j.verb \in {"epics", "cut", "unarchive"}
    BY <1>1, <1>4 DEF At, Fits, Making
  <2>2. Fits(q)
    BY <1>1, <1>4 DEF Fits, Making
  <2>3. Continues(w, q)
    BY <1>4, <2>1, <2>2, GoTakes, OtherContinues
  <2> QED
    BY <1>4, <2>2, <2>3, GoTakes DEF WorkerStep, Sorts
<1>5. ASSUME NEW pc \in pcs, Keeps, Next_(w, pc),
             <<j.pc, pc>> \in {<<"retire", "walk">>, <<"restore", "look">>, <<"open", "close">>,
                               <<"close", "judge">>}
      PROVE  WorkerStep(w)
  <2> DEFINE q == [j EXCEPT !.pc = pc]
  <2>1. q \in Job /\ q.pc = pc /\ q.verb = j.verb
    BY <1>1, <1>2, PcType
  <2>2. Go(w, q)
    BY <1>5 DEF Next_
  <2> HIDE DEF q
  <2> QED
    BY <1>4, <1>5, <2>1, <2>2
<1>6. ASSUME NEW pc \in pcs, NEW i \in Ids, NEW s \in SUBSET Ids, Keeps,
             <<j.pc, pc>> \in {<<"walk", "retire">>, <<"judge", "open">>},
             Go(w, [j EXCEPT !.pc = pc, !.new = i, !.stack = s])
      PROVE  WorkerStep(w)
  <2> DEFINE q == [j EXCEPT !.pc = pc, !.new = i, !.stack = s]
  <2>1. q \in Job
    BY <1>1, <1>2, <1>3, HandType
  <2>2. q.pc = pc /\ q.verb = j.verb
    BY <1>1 DEF Job
  <2> HIDE DEF q
  <2> QED
    BY <1>4, <1>6, <2>1, <2>2 DEF q
<1>7. ASSUME NEW s \in SUBSET Ids, Keeps, j.pc \in {"look", "judge"}, Go(w, [j EXCEPT !.stack = s])
      PROVE  WorkerStep(w)
  <2> DEFINE q == [j EXCEPT !.stack = s]
  <2>1. q \in Job /\ q.pc = j.pc /\ q.verb = j.verb
    BY <1>1 DEF Job
  <2> HIDE DEF q
  <2> QED
    BY <1>4, <1>7, <2>1 DEF q
<1>8. CASE Walk(w)
  <2> DEFINE i == Highest(j.stack)
  <2>1. j.pc = "walk" /\ Keeps
    BY <1>8 DEF Walk, At, Keeps
  <2>2. CASE j.stack = {}
    BY <1>8, <2>1, <2>2, EndSteps DEF Walk, End
  <2>3. CASE j.stack # {}
    <3> DEFINE s == (j.stack \ {i}) \cup Below(i)
    <3>1. \E k \in j.stack : \A h \in j.stack : h <= k
      BY <1>2, <2>3, HighestOf, BoundsAssumption DEF Ids
    <3>2. i \in Ids
      BY <1>2, <3>1 DEF Highest
    <3>3. Below(i) \in SUBSET Ids
      BY <1>2, <3>2 DEF Below, Indexed, TreeOK
    <3>4. Go(w, [j EXCEPT !.pc = "retire", !.new = i, !.stack = s])
      BY <1>8, <2>3 DEF Walk
    <3>5. s \in SUBSET Ids
      BY <1>2, <3>3
    <3> HIDE DEF i, s
    <3> QED
      BY <1>6, <2>1, <3>2, <3>4, <3>5
  <2> QED
    BY <2>2, <2>3
<1>9. CASE Retire(w)
  <2>1. j.pc = "retire" /\ Next_(w, "walk")
    BY <1>9 DEF Retire, At
  <2>2. Happens("cut")
    BY <1>1, <2>1 DEF Fits, Making, TreeInv, ThreadsOK, At
  <2>3. Keeps
    BY <1>2, <1>3, <1>9, <2>2, CanFacts DEF Retire, Keeps
  <2> QED
    BY <1>5, <2>1, <2>3
<1>10. CASE Look(w)
  <2> DEFINE i == Deepest(j.stack, j.id)
             to == M!UnarchiveTarget(item[i].prior, kids[i] # {}, ~IsProject(i))
             s == j.stack \ {i}
  <2>1. j.pc = "look" /\ Keeps
    BY <1>10 DEF Look, At, Keeps
  <2>2. s \in SUBSET Ids
    BY <1>2
  <2>3. CASE j.stack = {}
    BY <1>10, <2>1, <2>3, EndSteps DEF Look, End
  <2>4. CASE j.stack # {} /\ ~(i \in Live /\ item[i].state = "Retired")
    <3>1. Go(w, [j EXCEPT !.stack = s])
      BY <1>10, <2>4 DEF Look
    <3> HIDE DEF s
    <3> QED
      BY <1>7, <2>1, <2>2, <3>1
  <2>5. CASE j.stack # {} /\ i \in Live /\ item[i].state = "Retired"
    <3> DEFINE q == [j EXCEPT !.pc = "restore", !.new = i, !.to = to, !.stack = s]
    <3>1. Go(w, q)
      BY <1>10, <2>5 DEF Look
    <3>2. i \in Ids /\ item[i].prior \in M!States
      BY <1>2, <2>5, TreeFacts DEF Indexed, TreeOK, Item
    <3>3. to \in M!States /\ to # "Retired"
      BY <3>2 DEF M!UnarchiveTarget, M!States
    <3>4. "restore" \in Pcs
      BY <1>2
    <3> HIDE DEF i, to, s
    <3>5. q \in Job
      BY <1>1, <2>2, <3>2, <3>3, <3>4, HandType
    <3>6. q.pc = "restore" /\ q.verb = j.verb /\ q.to = to
      BY <1>1 DEF Job
    <3> HIDE DEF q
    <3> QED
      BY <1>4, <2>1, <3>1, <3>3, <3>5, <3>6
  <2> QED
    BY <2>3, <2>4, <2>5
<1>11. CASE Restore(w)
  <2>1. j.to \in M!States
    BY <1>1 DEF Job
  <2>2. j.pc = "restore" /\ j.to # "Retired"
    BY <1>1, <1>11 DEF Restore, At, Fits, Making
  <2>3. Keeps /\ (Next_(w, "look") \/ End(w))
    BY <1>2, <1>11, <2>1, <2>2, CanFacts DEF Restore, Keeps
  <2> QED
    BY <1>5, <2>2, <2>3, EndSteps
<1>12. CASE Judge(w)
  <2> DEFINE i == CHOOSE k \in j.stack : \A h \in j.stack : k <= h
             s == j.stack \ {i}
  <2>1. j.pc = "judge" /\ Keeps
    BY <1>12 DEF Judge, At, Keeps
  <2>2. s \in SUBSET Ids
    BY <1>2
  <2>3. CASE j.stack = {}
    BY <1>12, <2>1, <2>3, EndSteps DEF Judge, End
  <2>4. CASE j.stack # {} /\ ~Finished(i)
    <3>1. Go(w, [j EXCEPT !.stack = s])
      BY <1>12, <2>4 DEF Judge
    <3> HIDE DEF s
    <3> QED
      BY <1>7, <2>1, <2>2, <3>1
  <2>5. CASE j.stack # {} /\ Finished(i)
    <3>1. Go(w, [j EXCEPT !.pc = "open", !.new = i, !.stack = s])
      BY <1>12, <2>5 DEF Judge
    <3>2. \E k \in j.stack : \A h \in j.stack : k <= h
      <4>1. j.stack \in SUBSET Nat
        BY <1>2, BoundsAssumption DEF Ids
      <4> QED
        BY <2>5, <4>1, LowestOf
    <3>3. i \in Ids
      BY <1>2, <3>2
    <3> HIDE DEF i, s
    <3> QED
      BY <1>6, <2>1, <2>2, <3>1, <3>3
  <2> QED
    BY <2>3, <2>4, <2>5
<1>13. CASE Open(w)
  BY <1>2, <1>3, <1>5, <1>13, CanFacts DEF Open, Keeps, At
<1>14. CASE Close(w)
  BY <1>2, <1>3, <1>5, <1>14, CanFacts DEF Close, Keeps, At
<1> QED
  BY <1>8, <1>9, <1>10, <1>11, <1>12, <1>13, <1>14

(* The verbs that create items begin. *)
LEMMA MakerSteps ==
  ASSUME TreeInv, NEW w \in Workers, NEW i \in Ids,
         NewProject(w) \/ InitPlan(w, i) \/ Finish(w, i) \/ Heal(w, i)
  PROVE  WorkerStep(w)
<1>1. CASE NewProject(w)
  <2> DEFINE s == Start("project", "seed", nextId)
             q == [s EXCEPT !.proj = nextId]
  <2>1. Free(w) /\ Adds(NoId, "project", NoId) /\ Go(w, q)
    BY <1>1 DEF NewProject, Adds
  <2>2. nextId \in Ids
    BY <2>1 DEF Adds, Insert
  <2>3. "seed" \in Pcs /\ "project" \in AllVerbs \cup {"project"} /\ nextId \in Ids \cup {NoId}
    BY <2>2 DEF Pcs
  <2>4. s \in Job /\ s.verb = "project" /\ s.pc = "seed" /\ s.id = nextId
    <3>1. PICK n \in Ids \cup {NoId} : n = nextId
      BY <2>3
    <3>2. LET r == Start("project", "seed", n)
          IN r \in Job /\ r.verb = "project" /\ r.pc = "seed" /\ r.id = n
      BY <2>3, StartType
    <3> QED
      BY <3>1, <3>2
  <2> HIDE DEF s
  <2>5. q \in Job
    BY <2>3, <2>4, ParentType
  <2>6. q.verb = "project" /\ q.pc = "seed" /\ q.id = nextId /\ q.proj = nextId
    BY <2>4 DEF Job
  <2> HIDE DEF q
  <2>7. Fits(q) /\ Found(w, q)
    BY <2>1, <2>6, GoTakes DEF Fits, Found
  <2> QED
    BY <2>1, <2>5, <2>7, GoTakes DEF WorkerStep, Sorts
<1>2. CASE InitPlan(w, i)
  <2> DEFINE s == Start("init", "seed", i)
             q == [s EXCEPT !.proj = i]
  <2>1. Free(w) /\ Happens("init") /\ Same /\ i \in Live /\ Go(w, q)
    BY <1>2 DEF InitPlan
  <2>2. "seed" \in Pcs /\ "init" \in AllVerbs \cup {"project"}
    BY DEF Pcs, AllVerbs
  <2>3. s \in Job /\ s.verb = "init" /\ s.pc = "seed" /\ s.id = i
    BY <2>2, StartType
  <2> HIDE DEF s
  <2>4. q \in Job
    BY <2>3, ParentType
  <2>5. q.verb = "init" /\ q.pc = "seed" /\ q.id = i /\ q.proj = i
    BY <2>3 DEF Job
  <2> HIDE DEF q
  <2>6. Fits(q) /\ AsksForPlan(w, q)
    BY <2>1, <2>5, GoTakes DEF Fits, AsksForPlan
  <2> QED
    BY <2>1, <2>4, <2>6, GoTakes DEF WorkerStep, Sorts
<1>3. CASE Finish(w, i)
  <2> DEFINE q == Start("done", "read", i)
  <2>1. "read" \in Pcs /\ "done" \in AllVerbs \cup {"project"}
    BY DEF Pcs, AllVerbs
  <2>2. q \in Job /\ q.verb = "done" /\ q.pc = "read" /\ q.id = i
    BY <2>1, StartType
  <2>3. /\ Free(w) /\ Happens("done") /\ i \in Live /\ Move(i, "Done")
        /\ Takes(w, q) /\ approved' = [approved EXCEPT ![i] = IF @ = 0 THEN 1 ELSE 2]
    BY <1>3 DEF Finish, Takes
  <2> HIDE DEF q
  <2>4. "Done" \in M!States
    BY DEF M!States
  <2>5. Keeps
    BY <2>3, <2>4 DEF Keeps, Shift
  <2>6. Fits(q) /\ Approves(w, q)
    BY <2>2, <2>3, <2>5 DEF Fits, Approves
  <2> QED
    BY <2>2, <2>3, <2>6 DEF WorkerStep, Sorts
<1>4. CASE Heal(w, i)
  <2> DEFINE q == Start("heal", "load", i)
  <2>1. "load" \in Pcs /\ "heal" \in AllVerbs \cup {"project"}
    BY DEF Pcs, AllVerbs
  <2>2. q \in Job /\ q.verb = "heal" /\ q.pc = "load" /\ q.id = i
    BY <2>1, StartType
  <2>3. Free(w) /\ Happens("heal") /\ Same /\ Go(w, q)
    BY <1>4 DEF Heal
  <2> HIDE DEF q
  <2>4. Fits(q) /\ Heals(w, q)
    BY <1>4, <2>2, <2>3, GoTakes DEF Fits, Heals, Heal
  <2> QED
    BY <2>2, <2>3, <2>4, GoTakes DEF WorkerStep, Sorts
<1> QED
  BY <1>1, <1>2, <1>3, <1>4

-------------------------------------------------------------------------------
(* Every step is one of a worker, of a single-section verb, or a restart. *)

AtOnceStep ==
  /\ mix.overlap \/ NoneHalfway
  /\ Keeps \/ \E gone : RemoveAll(gone)
  /\ UNCHANGED <<job, approved, crashes, mix>>

LEMMA StepKinds ==
  ASSUME TreeInv, Next
  PROVE  (\E w \in Workers : WorkerStep(w)) \/ AtOnceStep \/ Crash
<1>1. ASSUME NEW w \in Workers, Starts(w)
      PROVE  WorkerStep(w)
  <2>1. CASE NewProject(w) \/ Epics(w)
    <3>1. PICK i \in Ids : i = 1
      BY BoundsAssumption DEF Ids
    <3> QED
      BY <2>1, <3>1, MakerSteps, StartSteps
  <2>2. CASE ~(NewProject(w) \/ Epics(w))
    <3>1. PICK i \in Ids :
             \/ InitPlan(w, i) \/ Finish(w, i) \/ Heal(w, i) \/ Changes(w, i)
             \/ Cut(w, i) \/ Unarchive(w, i)
             \/ \E t \in Titles, needs \in {{}} \cup {{k} : k \in Ids} : NewTask(w, i, t, needs)
             \/ \E p \in Plans : Propose(w, i, p)
             \/ \E p \in Splits : Split(w, i, p)
      BY <1>1, <2>2 DEF Starts
    <3>2. CASE InitPlan(w, i) \/ Finish(w, i) \/ Heal(w, i)
      BY <3>2, MakerSteps
    <3>3. CASE ~(InitPlan(w, i) \/ Finish(w, i) \/ Heal(w, i))
      BY <3>1, <3>3, StartSteps
    <3> QED
      BY <3>2, <3>3
  <2> QED
    BY <2>1, <2>2
<1>2. ASSUME NEW w \in Workers, Goes(w)
      PROVE  WorkerStep(w)
  BY <1>2, CreateSteps, ProposeSteps, RowSteps, WalkSteps DEF Goes
<1>3. ASSUME NEW i \in Ids, Claim(i) \/ Report(i) \/ Delete(i)
      PROVE  AtOnceStep
  <2>1. "Claimed" \in M!States /\ "Review" \in M!States
    BY DEF M!States
  <2>2. CASE Claim(i)
    BY <2>1, <2>2, CanFacts DEF Claim, AtOnce, AtOnceStep, TreeInv
  <2>3. CASE Report(i)
    BY <2>1, <2>3 DEF Report, AtOnce, AtOnceStep, Keeps, Shift
  <2>4. CASE Delete(i)
    BY <2>4 DEF Delete, AtOnce, AtOnceStep
  <2> QED
    BY <1>3, <2>2, <2>3, <2>4
<1> QED
  BY <1>1, <1>2, <1>3 DEF Next

LEMMA TreeInit ==
  ASSUME Init
  PROVE  TreeInv
<1>1. Live = {} /\ nextId = 1
  BY DEF Init, Live
<1>2. TreeOK /\ IndexesAgree
  <2>1. kids = [i \in Ids |-> {}] /\ byState = [s \in M!States |-> {}]
    BY DEF Init
  <2> QED
    BY <1>1, <2>1, BoundsAssumption DEF TreeOK, IndexesAgree, RebuiltKids, RebuiltByState, Siblings
<1>3. ThreadsOK
  <2>1. /\ job = [w \in Workers |-> Idle] /\ mix \in Mixes /\ crashes = 0
        /\ approved = [i \in Ids |-> 0]
    BY DEF Init
  <2>2. mix.crashes \in Nat
    BY <2>1, MixesAssumption DEF Mix
  <2> QED
    BY <2>1, <2>2, IdleFacts DEF ThreadsOK, OneAtATime, At
<1> QED
  BY <1>2, <1>3 DEF TreeInv, Indexed

LEMMA TreeStep ==
  ASSUME TreeInv, [Next]_vars
  PROVE  TreeInv'
<1>1. CASE UNCHANGED vars
  <2>1. Same /\ UNCHANGED <<job, approved, crashes, mix>>
    BY <1>1 DEF vars, Same
  <2>2. Indexed'
    BY <2>1, SameKeeps DEF TreeInv
  <2> QED
    BY <2>1, <2>2 DEF TreeInv, ThreadsOK, Fits, OneAtATime, At, Happens
<1>2. ASSUME NEW w \in Workers, WorkerStep(w)
      PROVE  TreeInv'
  <2>1. PICK q \in Job : Fits(q) /\ Takes(w, q) /\ Sorts(w, q)
    BY <1>2 DEF WorkerStep
  <2>2. job[w] \in Job /\ Fits(job[w])
    BY ThreadFacts
  <2>3. Indexed'
    <3>1. CASE Inserts(w, q)
      <4> DEFINE p == job[w].proj
                 t == job[w].title
                 f == IF job[w].verb \in {"done", "heal"} THEN job[w].id ELSE NoId
      <4>1. Adds(p, t, f)
        BY <3>1 DEF Inserts
      <4>2. p \in Ids \cup {NoId} /\ t \in Titles \cup {"plan"} /\ job[w].id \in Ids \cup {NoId}
        BY <2>2 DEF Job
      <4>3. f \in Ids \cup {NoId}
        BY <4>2
      <4> HIDE DEF p, t, f
      <4> QED
        BY <4>1, <4>2, <4>3, AddKeeps DEF TreeInv
    <3>2. CASE Found(w, q)
      BY <3>2, AddKeeps DEF Found, TreeInv
    <3>3. CASE Keeps
      BY <3>3, KeepsTree DEF TreeInv
    <3> QED
      BY <2>1, <3>1, <3>2, <3>3 DEF Sorts, Continues, AsksForPlan, Approves, Heals, Keeps
  <2>4. approved' \in [Ids -> 0 .. 2]
    <3>1. approved \in [Ids -> 0 .. 2]
      BY DEF TreeInv, ThreadsOK
    <3>2. CASE UNCHANGED approved
      BY <3>1, <3>2
    <3>3. CASE approved' = [approved EXCEPT ![q.id] = IF @ = 0 THEN 1 ELSE 2]
      <4> DEFINE v == IF approved[q.id] = 0 THEN 1 ELSE 2
      <4>1. v \in 0 .. 2 /\ approved' = [approved EXCEPT ![q.id] = v]
        BY <3>3
      <4> HIDE DEF v
      <4> QED
        BY <3>1, <4>1
    <3> QED
      BY <2>1, <3>2, <3>3 DEF Sorts, Continues, AsksForPlan, Approves, Heals, Inserts, Found
  <2>5. job' = [job EXCEPT ![w] = q] /\ UNCHANGED <<crashes, mix>>
    BY <2>1 DEF Takes
  <2>6. /\ q.pc = "idle" \/ q.verb = "project" \/ Happens(q.verb)
        /\ q.pc = "idle" \/ ~At(w, "idle") \/ Free(w)
    BY <2>1 DEF Sorts, Continues, Found, AsksForPlan, Approves, Heals, Inserts, TreeInv, ThreadsOK, At
  <2>7. job \in [Workers -> Job] /\ \A v \in Workers : Fits(job[v])
    BY DEF TreeInv, ThreadsOK
  <2>8. job' \in [Workers -> Job] /\ \A v \in Workers : Fits(job[v])'
    <3>1. \A v \in Workers : job'[v] = IF v = w THEN q ELSE job[v]
      BY <2>5, <2>7
    <3>2. \A v \in Workers : Fits(job'[v])
      BY <2>1, <2>7, <3>1
    <3> QED
      BY <2>5, <2>7, <3>2 DEF Fits
  <2>9. /\ (\A v \in Workers : At(v, "idle") \/ job[v].verb = "project" \/ Happens(job[v].verb))'
        /\ OneAtATime'
    BY <2>5, <2>6, <2>7 DEF TreeInv, ThreadsOK, OneAtATime, At, Happens, Free, NoneHalfway
  <2> QED
    BY <2>3, <2>4, <2>5, <2>8, <2>9 DEF TreeInv, ThreadsOK
<1>3. CASE AtOnceStep
  <2>1. Indexed'
    BY <1>3, KeepsTree, RemoveKeeps DEF AtOnceStep, TreeInv
  <2> QED
    BY <1>3, <2>1 DEF AtOnceStep, TreeInv, ThreadsOK, Fits, OneAtATime, At, Happens
<1>4. CASE Crash
  <2>1. Indexed'
    BY <1>4, CrashKeeps DEF TreeInv
  <2>2. /\ job' = [w \in Workers |-> Idle] /\ UNCHANGED <<approved, mix>>
        /\ crashes < mix.crashes /\ crashes' = crashes + 1
    BY <1>4 DEF Crash
  <2>3. mix.crashes \in Nat /\ crashes \in 0 .. mix.crashes
    BY MixesAssumption DEF TreeInv, ThreadsOK, Mix
  <2> QED
    BY <2>1, <2>2, <2>3, IdleFacts DEF TreeInv, ThreadsOK, OneAtATime, At
<1> QED
  BY <1>1, <1>2, <1>3, <1>4, StepKinds

(* BoardTree.TypeOK holds for every number of threads, items and proposals. *)
THEOREM TreeTypes == Spec => []TypeOK
<1>1. TreeInv => TypeOK
  BY DEF TreeInv, Indexed, TreeOK, ThreadsOK, TypeOK
<1> QED
  BY <1>1, TreeInit, TreeStep, PTL DEF Spec

(* IndexesAgree: after every section of every verb the two indexes the board   *)
(* keeps by hand are what rebuild_hot_indexes would compute from the items.    *)
THEOREM IndexesStand == Spec => []IndexesAgree
<1>1. TreeInv => IndexesAgree
  BY DEF TreeInv, Indexed
<1> QED
  BY <1>1, TreeInit, TreeStep, PTL DEF Spec

-------------------------------------------------------------------------------
(* One Initial plan for a Project.  While a thread is between its look and its *)
(* insert nobody else may seed the same Project: its verb runs alone, or the   *)
(* Project is its own, and no other verb makes a card that is an Initial plan. *)

SeedsApart == mix.overlap => "init" \notin mix.verbs

PlanInv ==
  /\ OneInitialPlan
  /\ \A w \in Workers : Plant(job[w]) =>
       /\ job[w].id \in 1 .. nextId - 1
       /\ job[w].pc \in {"check", "insert"} => SeedOf(job[w].id) = {}
  /\ \A w, v \in Workers : w # v /\ Plant(job[w]) /\ Plant(job[v]) => job[w].id # job[v].id

LEMMA MixStays ==
  ASSUME TreeInv, [Next]_vars
  PROVE  mix' = mix
  BY StepKinds DEF WorkerStep, Takes, AtOnceStep, Crash, vars

LEMMA ThinSeeds ==
  ASSUME TreeInv, Thins
  PROVE  /\ \A p : SeedOf(p)' \subseteq SeedOf(p)
         /\ OneInitialPlan => OneInitialPlan'
<1>1. \A i \in Live' : i \in Live /\ item'[i].title = item[i].title /\ item'[i].parent = item[i].parent
  BY DEF Thins, SameOrigin, Live
<1> QED
  BY <1>1 DEF SeedOf, Siblings, IsInitial, OneInitialPlan

LEMMA PlanThins ==
  ASSUME TreeInv, PlanInv, Thins,
         \A w \in Workers : Plant(job[w])' =>
           /\ Plant(job[w]) /\ job'[w].id = job[w].id
           /\ job'[w].pc \in {"check", "insert"} =>
                job[w].pc \in {"check", "insert"} \/ SeedOf(job[w].id) = {}
  PROVE  PlanInv'
<1>1. \A p : SeedOf(p)' \subseteq SeedOf(p)
  BY ThinSeeds
<1>2. OneInitialPlan' /\ nextId' = nextId
  BY ThinSeeds DEF PlanInv, Thins
<1>3. ASSUME NEW w \in Workers, Plant(job[w])'
      PROVE  /\ job'[w].id \in 1 .. nextId' - 1
             /\ job'[w].pc \in {"check", "insert"} => SeedOf(job[w].id)' = {}
  <2>1. /\ Plant(job[w]) /\ job'[w].id = job[w].id
        /\ job'[w].pc \in {"check", "insert"} => SeedOf(job[w].id) = {}
    BY <1>3 DEF PlanInv
  <2>2. PICK p : p = job[w].id
    OBVIOUS
  <2>3. SeedOf(p)' \subseteq SeedOf(p)
    BY <1>1
  <2>4. job'[w].pc \in {"check", "insert"} => SeedOf(job[w].id)' = {}
    BY <2>1, <2>2, <2>3 DEF SeedOf, Siblings, IsInitial, Live
  <2> QED
    BY <1>2, <2>1, <2>4 DEF PlanInv
<1>4. ASSUME NEW w \in Workers, NEW v \in Workers, w # v, Plant(job[w])', Plant(job[v])'
      PROVE  job'[w].id # job'[v].id
  BY <1>4 DEF PlanInv
<1> QED
  BY <1>2, <1>3, <1>4 DEF PlanInv

LEMMA PlanStep ==
  ASSUME TreeInv, SeedsApart, PlanInv, [Next]_vars
  PROVE  PlanInv'
<1>1. CASE UNCHANGED vars
  BY <1>1 DEF vars, PlanInv, Plant, SeedOf, Siblings, IsInitial, OneInitialPlan, Live
<1>2. CASE AtOnceStep
  <2>1. Thins /\ job' = job
    BY <1>2, KeepsTree, RemoveKeeps DEF AtOnceStep, TreeInv
  <2> QED
    BY <2>1, PlanThins DEF Plant
<1>3. CASE Crash
  <2>1. Thins /\ job' = [w \in Workers |-> Idle]
    BY <1>3, CrashKeeps DEF Crash, TreeInv
  <2> QED
    BY <2>1, PlanThins, IdleFacts DEF Plant
<1>4. ASSUME NEW w \in Workers, WorkerStep(w)
      PROVE  PlanInv'
  <2>1. PICK q \in Job : Fits(q) /\ Takes(w, q) /\ Sorts(w, q)
    BY <1>4 DEF WorkerStep
  <2>2. /\ job' = [job EXCEPT ![w] = q] /\ mix' = mix
        /\ job \in [Workers -> Job] /\ Fits(job[w])
    BY <2>1 DEF Takes, TreeInv, ThreadsOK
  <2>3. job'[w] = q /\ \A v \in Workers : v # w => job'[v] = job[v]
    BY <2>2
  <2>4. CASE Continues(w, q) \/ Approves(w, q) \/ Heals(w, q)
    <3>1. Thins
      BY <2>4, KeepsTree DEF Continues, Approves, Heals, Keeps, TreeInv
    <3>2. Plant(q) => SeedsOn(job[w], q)
      BY <2>4 DEF Continues, Approves, Heals, Plant
    <3> QED
      BY <2>3, <3>1, <3>2, PlanThins DEF Plant, SeedsOn
  <2>5. CASE AsksForPlan(w, q)
    <3>1. Same /\ q.verb = "init" /\ q.pc = "seed" /\ q.id \in Live /\ ~mix.overlap
      BY <2>5 DEF AsksForPlan, SeedsApart, Happens
    <3>2. \A v \in Workers : job[v].pc = "idle"
      BY <2>5, <3>1 DEF AsksForPlan, Free, NoneHalfway, At
    <3>3. \A v \in Workers : Plant(job[v])' => v = w
      BY <2>3, <3>2 DEF Plant
    <3>4. OneInitialPlan' /\ nextId' = nextId
      BY <3>1 DEF Same, PlanInv, OneInitialPlan, IsInitial, Live
    <3>5. q.id \in 1 .. nextId - 1
      BY <3>1 DEF TreeInv, Indexed, TreeOK
    <3> QED
      BY <2>3, <3>1, <3>3, <3>4, <3>5 DEF PlanInv, Plant
  <2>6. CASE Found(w, q)
    <3>1. /\ Adds(NoId, "project", NoId) /\ q.verb = "project" /\ q.pc = "seed" /\ q.id = nextId
          /\ At(w, "idle")
      BY <2>6 DEF Found, Free
    <3>2. /\ Live' = Live \cup {nextId} /\ \A i \in Live : item'[i] = item[i]
          /\ item'[nextId].title = "project" /\ nextId' = nextId + 1
      BY <3>1, AddKeeps DEF TreeInv, SameOrigin
    <3>3. nextId \in Nat \ {0}
      BY BoundsAssumption DEF TreeInv, Indexed, TreeOK
    <3>4. OneInitialPlan'
      BY <3>2 DEF OneInitialPlan, IsInitial, PlanInv
    <3>5. \A p : SeedOf(p)' \subseteq SeedOf(p)
      BY <3>2 DEF SeedOf, Siblings, IsInitial
    <3>6. ASSUME NEW v \in Workers, v # w, Plant(job[v])
          PROVE  /\ job[v].id \in 1 .. nextId - 1 /\ job[v].id # q.id
                 /\ job'[v].id \in 1 .. nextId' - 1
                 /\ job'[v].pc \in {"check", "insert"} => SeedOf(job[v].id)' = {}
      <4>1. job[v].id \in 1 .. nextId - 1 /\ job'[v] = job[v]
        BY <2>3, <3>6 DEF PlanInv
      <4>2. PICK p : p = job[v].id
        OBVIOUS
      <4>3. SeedOf(p)' \subseteq SeedOf(p)
        BY <3>5
      <4>4. job'[v].pc \in {"check", "insert"} => SeedOf(job[v].id)' = {}
        BY <3>6, <4>1, <4>2, <4>3 DEF PlanInv, SeedOf, Siblings, IsInitial, Live
      <4> QED
        BY <3>1, <3>2, <3>3, <4>1, <4>4
    <3>7. job'[w].id \in 1 .. nextId' - 1 /\ job'[w].pc \notin {"check", "insert"}
      BY <2>3, <3>1, <3>2, <3>3
    <3>8. \A v \in Workers : v # w /\ Plant(job[v])' => Plant(job[v]) /\ job'[v].id = job[v].id
      BY <2>3 DEF Plant
    <3> QED
      BY <2>3, <3>1, <3>4, <3>6, <3>7, <3>8 DEF PlanInv
  <2>7. CASE Inserts(w, q)
    <3> DEFINE j == job[w]
               f == IF j.verb \in {"done", "heal"} THEN j.id ELSE NoId
    <3>1. /\ Adds(j.proj, j.title, f) /\ j.pc = "insert"
          /\ q.verb = j.verb /\ q.pc = "shape" /\ q.id = j.id
      BY <2>7 DEF Inserts, At
    <3>2. j \in Job /\ Fits(j)
      BY <2>2
    <3>3. j.proj \in Ids \cup {NoId} /\ j.title \in Titles \cup {"plan", "project"} /\ f \in Ids \cup {NoId}
      BY <3>2 DEF Job
    <3> HIDE DEF f
    <3>4. /\ Live' = Live \cup {nextId} /\ \A i \in Live : item'[i] = item[i]
          /\ item'[nextId].title = j.title /\ item'[nextId].parent = j.proj
          /\ nextId' = nextId + 1 /\ nextId \notin Live
      BY <3>1, <3>3, AddKeeps DEF TreeInv, SameOrigin
    <3>5. nextId \in Nat \ {0}
      BY BoundsAssumption DEF TreeInv, Indexed, TreeOK
    <3>6. \/ (j.verb \in {"project", "init"} /\ j.proj = j.id /\ j.title = "plan" /\ Plant(j))
          \/ (~Plant(j) /\ j.title # "plan")
      <4>1. CASE j.verb \in {"project", "init"}
        BY <3>1, <3>2, <4>1 DEF Fits, Making, Plant
      <4>2. CASE j.verb = "task"
        BY <3>1, <3>2, <4>2, TitlesAssumption DEF Fits, Making, Plant
      <4>3. CASE j.verb \in {"done", "heal"}
        <5>1. j.todo # None /\ j.title = Head(j.todo).title /\ j.todo \in Seq(Spec_)
          BY <3>1, <3>2, <4>3 DEF Fits, Making, Job
        <5>2. Head(j.todo) \in Spec_
          BY <5>1, TailFacts
        <5>3. j.title \in Titles
          BY <5>1, <5>2 DEF Spec_
        <5> QED
          BY <4>3, <5>3, TitlesAssumption DEF Plant
      <4> QED
        BY <3>1, <3>2, <4>1, <4>2, <4>3 DEF Fits
    <3>7. Plant(j) => SeedOf(j.id) = {}
      BY <3>1 DEF PlanInv
    <3>8. ASSUME NEW i \in Live', NEW k \in Live', IsInitial(i)', IsInitial(k)',
                 item'[i].parent = item'[k].parent
          PROVE  i = k
      <4>1. CASE i \in Live /\ k \in Live
        BY <3>4, <3>8, <4>1 DEF PlanInv, OneInitialPlan, IsInitial
      <4>2. ASSUME NEW h \in Live, IsInitial(h), item[h].parent = j.proj, j.title = "plan"
            PROVE  FALSE
        BY <3>6, <3>7, <4>2 DEF SeedOf, Siblings
      <4>3. CASE i = nextId /\ k # nextId
        BY <3>4, <3>8, <4>2, <4>3 DEF IsInitial
      <4>4. CASE k = nextId /\ i # nextId
        BY <3>4, <3>8, <4>2, <4>4 DEF IsInitial
      <4> QED
        BY <3>4, <4>1, <4>3, <4>4
    <3>9. ASSUME NEW v \in Workers, v # w, Plant(job[v])
          PROVE  /\ job'[v] = job[v] /\ job[v].id \in 1 .. nextId' - 1
                 /\ job[v].pc \in {"check", "insert"} => SeedOf(job[v].id)' = {}
      <4>1. job'[v] = job[v] /\ job[v].id \in 1 .. nextId - 1
        BY <2>3, <3>9 DEF PlanInv
      <4>2. PICK p : p = job[v].id
        OBVIOUS
      <4>3. Plant(j) => p # j.proj
        BY <3>6, <3>9, <4>2 DEF PlanInv, Plant
      <4>4. SeedOf(p)' \subseteq SeedOf(p)
        BY <3>4, <3>6, <4>3 DEF SeedOf, Siblings, IsInitial
      <4>5. job[v].pc \in {"check", "insert"} => SeedOf(p)' = {}
        BY <3>9, <4>2, <4>4 DEF PlanInv
      <4>6. job[v].pc \in {"check", "insert"} => SeedOf(job[v].id)' = {}
        BY <4>1, <4>2, <4>5 DEF SeedOf, Siblings, IsInitial, Live
      <4> QED
        BY <3>4, <3>5, <4>1, <4>6
    <3>10. Plant(q) => Plant(j)
      BY <3>1 DEF Plant
    <3>11. Plant(q) => q.id \in 1 .. nextId' - 1
      BY <3>1, <3>4, <3>5, <3>10 DEF PlanInv
    <3>12. ASSUME NEW v \in Workers, Plant(job[v])'
           PROVE  /\ job'[v].id \in 1 .. nextId' - 1
                  /\ job'[v].pc \in {"check", "insert"} => SeedOf(job[v].id)' = {}
      <4>1. CASE v = w
        BY <2>3, <3>1, <3>11, <3>12, <4>1 DEF Plant
      <4>2. CASE v # w
        <5>1. job'[v] = job[v] /\ Plant(job[v])
          BY <2>3, <3>12, <4>2 DEF Plant
        <5>2. /\ job[v].id \in 1 .. nextId' - 1
              /\ job[v].pc \in {"check", "insert"} => SeedOf(job[v].id)' = {}
          BY <3>9, <4>2, <5>1
        <5> QED
          BY <5>1, <5>2 DEF SeedOf, Siblings, IsInitial, Live
      <4> QED
        BY <4>1, <4>2
    <3>13. ASSUME NEW v \in Workers, NEW u \in Workers, v # u, Plant(job[v])', Plant(job[u])'
           PROVE  job'[v].id # job'[u].id
      BY <2>3, <3>1, <3>10, <3>13 DEF PlanInv, Plant
    <3> QED
      BY <3>8, <3>12, <3>13 DEF PlanInv, OneInitialPlan
  <2> QED
    BY <2>1, <2>4, <2>5, <2>6, <2>7 DEF Sorts
<1> QED
  BY <1>1, <1>2, <1>3, <1>4, StepKinds

(* OneInitialPlan, whatever verbs run between each other's sections, unless    *)
(* init_plan is one of them: two that look at one Project together both find   *)
(* it without an Initial plan.                                                 *)
THEOREM OnePlanStands == Spec => [](SeedsApart => OneInitialPlan)
<1> DEFINE Inv == TreeInv /\ (SeedsApart => PlanInv)
<1>1. Init => Inv
  <2> SUFFICES ASSUME Init PROVE Inv
    OBVIOUS
  <2>1. Live = {} /\ job = [w \in Workers |-> Idle]
    BY DEF Init, Live
  <2>2. \A w \in Workers : ~Plant(job[w])
    BY <2>1, IdleFacts DEF Plant
  <2> QED
    BY <2>1, <2>2, TreeInit DEF PlanInv, OneInitialPlan
<1>2. Inv /\ [Next]_vars => Inv'
  BY TreeStep, MixStays, PlanStep DEF SeedsApart
<1>3. Inv => (SeedsApart => OneInitialPlan)
  BY DEF PlanInv
<1> QED
  BY <1>1, <1>2, <1>3, PTL DEF Spec

-------------------------------------------------------------------------------
(* One Task per approval and title.  What a thread still has to make (`todo`)  *)
(* and what it found already made (`known`) stay apart from what was made of   *)
(* the proposal since it looked: because it alone makes Tasks of that card,    *)
(* or, when cards are healed, because it saw all that was ever made of it.     *)

Made(c) == {i \in Live : item[i].from = c}
Distinct(s) == \A m, n \in DOMAIN s : s[m].title = s[n].title => m = n

(* No two rows of a proposal have one title: the code sees to that for splits  *)
(* (store.rs:4846), and not for plans.                                         *)
DistinctRows == \A p \in Plans \cup Splits : Distinct(p)

(* A card is healed with no other verb under way and nothing ever archived.    *)
HealsAlone == "heal" \in mix.verbs => ~mix.overlap /\ "cut" \notin mix.verbs

TwinFree ==
  \A i, k \in Live :
    /\ item[i].from # NoId /\ item[i].from = item[k].from /\ item[i].title = item[k].title
    /\ approved[item[i].from] <= 1
    => i = k
Kin ==
  \A i \in Live :
    /\ item[i].from < nextId /\ item[i].from # i
    /\ item[i].from \in Live => item[i].parent = item[item[i].from].parent

Covered(j, rows) ==
  \A i \in Made(j.id), n \in rows :
    item[i].title = j.todo[n].title => j.known[j.todo[n].title] # NoId
MakerOK(j) ==
  /\ j.id \in 1 .. nextId - 1
  /\ j.id \in Live /\ j.pc \notin {"read", "load"} => j.proj = item[j.id].parent
  /\ j.pc \in {"check", "insert"} => j.known[j.title] = NoId
  /\ approved[j.id] <= 1 /\ j.pc \in {"next", "check", "insert"} =>
       Distinct(j.todo) /\ Covered(j, DOMAIN j.todo)
  /\ approved[j.id] <= 1 /\ j.pc \in {"shape", "ready"} =>
       Distinct(j.todo) /\ Covered(j, DOMAIN j.todo \ {1})

Early(j) ==
  /\ j.verb = "done" /\ approved[j.id] >= 1
  /\ approved[j.id] = 1 /\ j.pc \in {"read", "load", "match"} => Made(j.id) = {}
Apart ==
  \A w, v \in Workers :
    w # v /\ Forms(job[w]) /\ Forms(job[v]) /\ job[w].id = job[v].id => approved[job[w].id] = 2

OnceInv ==
  /\ TwinFree /\ Kin
  /\ \A w \in Workers, j \in Job : j = job[w] /\ Forms(j) => MakerOK(j)
  /\ Happens("heal") =>
       /\ \A i \in Live : item[i].state # "Retired"
       /\ \A w \in Workers, j \in Job : j = job[w] /\ Forms(j) => j.id \in Live
  /\ ~Happens("heal") =>
       /\ \A i \in Live : item[i].from # NoId => approved[item[i].from] >= 1
       /\ \A w \in Workers, j \in Job : j = job[w] /\ Forms(j) => Early(j)
       /\ Apart

Grows == \A c \in Ids : approved[c] <= approved'[c]

LEMMA ThinFacts ==
  ASSUME TreeInv, Thins
  PROVE  /\ \A i \in Live' : /\ i \in Live /\ item'[i].title = item[i].title
                             /\ item'[i].parent = item[i].parent /\ item'[i].from = item[i].from
         /\ \A c : Made(c)' \subseteq Made(c)
         /\ nextId' = nextId
<1>1. \A i \in Live' : /\ i \in Live /\ item'[i].title = item[i].title
                       /\ item'[i].parent = item[i].parent /\ item'[i].from = item[i].from
  BY DEF Thins, SameOrigin, Live
<1> QED
  BY <1>1 DEF Made, Thins

LEMMA ItemFacts ==
  ASSUME TreeInv, NEW i \in Live
  PROVE  /\ item[i].from \in Ids \cup {NoId} /\ item[i].parent \in Ids \cup {NoId}
         /\ i \in 1 .. nextId - 1 /\ i \in Ids
         /\ nextId \in Nat /\ MaxId \in Nat
<1>1. item[i] \in Item /\ i \in 1 .. nextId - 1
  BY DEF TreeInv, Indexed, TreeOK
<1> QED
  BY <1>1, TreeFacts DEF TreeInv, Indexed, Item

LEMMA GrowFacts ==
  ASSUME TreeInv, TreeInv', Grows, NEW c \in Ids
  PROVE  /\ approved[c] \in 0 .. 2 /\ approved'[c] \in 0 .. 2 /\ approved[c] <= approved'[c]
         /\ approved'[c] <= 1 => approved[c] <= 1
  BY DEF TreeInv, ThreadsOK, Grows

(* A step that adds nothing disturbs neither the Tasks nor a thread's findings. *)
LEMMA MakerThins ==
  ASSUME TreeInv, TreeInv', Thins, Grows, NEW j \in Job, MakerOK(j)
  PROVE  MakerOK(j)'
<1>1. /\ \A i \in Live' : /\ i \in Live /\ item'[i].title = item[i].title
                          /\ item'[i].parent = item[i].parent /\ item'[i].from = item[i].from
      /\ Made(j.id)' \subseteq Made(j.id) /\ nextId' = nextId
  BY ThinFacts
<1>2. j.id \in Ids
  <2>1. j.id \in 1 .. nextId - 1 /\ nextId \in 1 .. MaxId + 1
    BY DEF MakerOK, TreeInv, Indexed, TreeOK
  <2> QED
    BY <2>1, BoundsAssumption DEF Ids
<1>3. approved'[j.id] <= 1 => approved[j.id] <= 1
  BY <1>2, GrowFacts
<1>4. \A rows : Covered(j, rows) => Covered(j, rows)'
  BY <1>1 DEF Covered, Made
<1>5. j.id \in Live' /\ j.pc \notin {"read", "load"} => j.proj = item'[j.id].parent
  BY <1>1 DEF MakerOK
<1>6. approved'[j.id] <= 1 /\ j.pc \in {"next", "check", "insert"} =>
        Distinct(j.todo) /\ Covered(j, DOMAIN j.todo)'
  BY <1>3, <1>4 DEF MakerOK
<1>7. approved'[j.id] <= 1 /\ j.pc \in {"shape", "ready"} =>
        Distinct(j.todo) /\ Covered(j, DOMAIN j.todo \ {1})'
  BY <1>3, <1>4 DEF MakerOK
<1> QED
  BY <1>1, <1>5, <1>6, <1>7 DEF MakerOK

LEMMA OnceThins ==
  ASSUME TreeInv, TreeInv', OnceInv, Thins, Grows, mix' = mix,
         Happens("heal") => "cut" \notin mix.verbs,
         \A w \in Workers, q \in Job : q = job'[w] /\ Forms(q) =>
           /\ MakerOK(q)
           /\ Happens("heal") => q.id \in Live'
           /\ ~Happens("heal") => Early(q)',
         ~Happens("heal") => Apart'
  PROVE  OnceInv'
<1>1. /\ \A i \in Live' : /\ i \in Live /\ item'[i].title = item[i].title
                          /\ item'[i].parent = item[i].parent /\ item'[i].from = item[i].from
      /\ nextId' = nextId
  BY ThinFacts
<1>2. \A i \in Live : item[i].from # NoId => item[i].from \in Ids
  BY ItemFacts
<1>3. TwinFree'
  <2>1. \A i \in Live : item[i].from # NoId =>
          (approved'[item[i].from] <= 1 => approved[item[i].from] <= 1)
    BY <1>2, GrowFacts
  <2> QED
    BY <1>1, <2>1 DEF OnceInv, TwinFree
<1>4. Kin'
  BY <1>1 DEF OnceInv, Kin
<1>5. Happens("heal") => \A i \in Live' : item'[i].state # "Retired"
  BY <1>1 DEF OnceInv, Thins, Happens, Live
<1>6. ~Happens("heal") => \A i \in Live' : item'[i].from # NoId => approved'[item'[i].from] >= 1
  <2> SUFFICES ASSUME ~Happens("heal"), NEW i \in Live', item'[i].from # NoId
               PROVE  approved'[item'[i].from] >= 1
    OBVIOUS
  <2>1. PICK c \in Ids : c = item[i].from
    BY <1>1, <1>2
  <2>2. approved[c] >= 1
    BY <1>1, <2>1 DEF OnceInv
  <2>3. approved'[c] >= 1
    BY <2>2, GrowFacts
  <2> QED
    BY <1>1, <2>1, <2>3
<1>7. \A w \in Workers, q \in Job : q = job'[w] /\ Forms(q) => MakerOK(q)'
  BY MakerThins
<1>8. Happens("heal")' <=> Happens("heal")
  BY DEF Happens
<1> QED
  BY <1>3, <1>4, <1>5, <1>6, <1>7, <1>8 DEF OnceInv, Forms

(* A thread that goes on keeps its findings true. *)
LEMMA MakerOn ==
  ASSUME TreeInv, OnceInv, DistinctRows, NEW j \in Job, NEW q \in Job, Fits(j), Forms(q),
         MakesOn(j, q), MakerOK(j),
         Happens("heal") => j.id \in Live, ~Happens("heal") => Early(j)
  PROVE  MakerOK(q) /\ (~Happens("heal") => Early(q))
<1>1. q.id = j.id /\ q.verb = j.verb /\ j.id \in 1 .. nextId - 1 /\ Forms(j)
  BY DEF MakesOn, MakerOK
<1>2. ~Happens("heal") => Early(q)
  <2>1. q.pc \in {"read", "load", "match"} => j.pc \in {"read", "load"}
    BY DEF MakesOn
  <2> QED
    BY <1>1, <2>1 DEF Early
<1>3. q.id \in Live /\ q.pc \notin {"read", "load"} => q.proj = item[q.id].parent
  <2>1. CASE j.pc \in {"read", "load"}
    BY <1>1, <2>1 DEF MakesOn
  <2>2. CASE j.pc \notin {"read", "load"}
    BY <1>1, <2>2 DEF MakesOn, MakerOK
  <2> QED
    BY <2>1, <2>2
<1>4. q.pc \in {"check", "insert"} => q.known[q.title] = NoId
  BY DEF MakesOn, MakerOK
<1>5. ASSUME approved[q.id] <= 1, q.pc \in {"next", "check", "insert"}
      PROVE  Distinct(q.todo) /\ Covered(q, DOMAIN q.todo)
  <2>1. CASE /\ j.pc = "match" /\ q.todo \in Plans \cup Splits \cup {None}
             /\ \A t \in Titles : Reusable(j.id, j.proj, t) # {} => q.known[t] # NoId
    <3>1. Distinct(q.todo)
      <4>1. Distinct(None)
        BY DEF Distinct, None
      <4> QED
        BY <2>1, <4>1 DEF DistinctRows
    <3>2. ASSUME NEW i \in Made(j.id), NEW n \in DOMAIN q.todo, item[i].title = q.todo[n].title
          PROVE  q.known[q.todo[n].title] # NoId
      <4>1. Happens("heal")
        <5>1. j.id \in Ids
          BY <1>1, TreeFacts, BoundsAssumption DEF TreeInv, Indexed, TreeOK, Ids
        <5>2. approved[j.id] \in 0 .. 2
          BY <5>1 DEF TreeInv, ThreadsOK
        <5> QED
          BY <1>1, <1>5, <2>1, <3>2, <5>2 DEF Early
      <4>2. /\ i \in Live /\ item[i].from = j.id /\ j.id \in Live
            /\ item[i].parent = j.proj /\ i # j.id /\ item[i].state # "Retired"
        BY <2>1, <4>1 DEF Made, OnceInv, Kin, MakerOK
      <4>3. q.todo[n].title \in Titles
        <5>1. q.todo \in Seq(Spec_)
          BY DEF Job
        <5>2. q.todo[n] \in Spec_
          BY <5>1
        <5> QED
          BY <5>2 DEF Spec_
      <4>4. i \in Reusable(j.id, j.proj, q.todo[n].title)
        BY <3>2, <4>2 DEF Reusable, Siblings
      <4> QED
        BY <2>1, <4>3, <4>4
    <3> QED
      BY <1>1, <3>1, <3>2 DEF Covered
  <2>2. CASE j.pc \in {"next", "check", "insert"} /\ q.todo = j.todo /\ q.known = j.known
    BY <1>1, <1>5, <2>2 DEF MakerOK, Covered
  <2>3. CASE /\ j.pc \in {"next", "ready"}
             /\ j.todo # None /\ q.todo = Tail(j.todo) /\ q.known = j.known
    <3>1. Distinct(j.todo) /\ Covered(j, DOMAIN j.todo \ {1})
      BY <1>1, <1>5, <2>3 DEF MakerOK, Covered
    <3>2. \A n \in DOMAIN q.todo : /\ n + 1 \in DOMAIN j.todo \ {1} /\ n \in Int
                                   /\ q.todo[n] = j.todo[n + 1]
      <4> DEFINE t == Tail(j.todo)
      <4>1. j.todo \in Seq(Spec_)
        BY DEF Job
      <4>2. \A n \in DOMAIN t :
              n \in Nat \ {0} /\ n + 1 \in DOMAIN j.todo /\ t[n] = j.todo[n + 1]
        BY <2>3, <4>1, TailFacts
      <4>3. q.todo = t
        BY <2>3
      <4> HIDE DEF t
      <4> QED
        BY <4>2, <4>3
    <3>3. Distinct(q.todo)
      BY <3>1, <3>2 DEF Distinct
    <3>4. Covered(q, DOMAIN q.todo)
      BY <1>1, <2>3, <3>1, <3>2 DEF Covered
    <3> QED
      BY <3>3, <3>4
  <2> QED
    BY <1>5, <2>1, <2>2, <2>3 DEF MakesOn
<1>6. ASSUME approved[q.id] <= 1, q.pc \in {"shape", "ready"}
      PROVE  Distinct(q.todo) /\ Covered(q, DOMAIN q.todo \ {1})
  BY <1>1, <1>6 DEF MakesOn, MakerOK, Covered
<1> QED
  BY <1>1, <1>2, <1>3, <1>4, <1>5, <1>6 DEF MakerOK

(* What the other threads know outlives a new item that is not of their card. *)
LEMMA MakerAdds ==
  ASSUME TreeInv, TreeInv', OnceInv, UNCHANGED approved, NEW j \in Job, MakerOK(j),
         Live' = Live \cup {nextId}, \A i \in Live : item'[i] = item[i],
         nextId' = nextId + 1, nextId \notin Live,
         j.id # item'[nextId].from \/ approved[j.id] = 2
  PROVE  MakerOK(j)'
<1>1. nextId \in Nat /\ j.id \in 1 .. nextId - 1
  BY TreeFacts DEF TreeInv, Indexed, MakerOK
<1>2. j.id \in 1 .. nextId' - 1
  BY <1>1
<1>3. j.id \in Live' => j.id \in Live /\ item'[j.id] = item[j.id]
  BY <1>1
<1>4. ASSUME approved[j.id] <= 1
      PROVE  \A rows : Covered(j, rows) => Covered(j, rows)'
  <2>1. Made(j.id)' \subseteq Made(j.id)
    BY <1>4 DEF Made
  <2>2. \A i \in Made(j.id) : item'[i] = item[i]
    BY DEF Made
  <2> QED
    BY <2>1, <2>2 DEF Covered
<1>5. approved' = approved
  OBVIOUS
<1>6. j.id \in Live' /\ j.pc \notin {"read", "load"} => j.proj = item'[j.id].parent
  BY <1>3 DEF MakerOK
<1>7. approved'[j.id] <= 1 /\ j.pc \in {"next", "check", "insert"} =>
        Distinct(j.todo) /\ Covered(j, DOMAIN j.todo)'
  BY <1>4, <1>5 DEF MakerOK
<1>8. approved'[j.id] <= 1 /\ j.pc \in {"shape", "ready"} =>
        Distinct(j.todo) /\ Covered(j, DOMAIN j.todo \ {1})'
  BY <1>4, <1>5 DEF MakerOK
<1> QED
  BY <1>2, <1>6, <1>7, <1>8 DEF MakerOK

LEMMA OnceGoes ==
  ASSUME TreeInv, TreeInv', HealsAlone, DistinctRows, OnceInv,
         NEW w \in Workers, NEW q \in Job, Fits(q), Takes(w, q),
         Continues(w, q) \/ AsksForPlan(w, q) \/ Heals(w, q)
  PROVE  OnceInv'
<1>1. /\ job' = [job EXCEPT ![w] = q] /\ mix' = mix
      /\ job \in [Workers -> Job] /\ job[w] \in Job /\ Fits(job[w])
  BY DEF Takes, TreeInv, ThreadsOK
<1>2. job'[w] = q /\ \A v \in Workers : v # w => job'[v] = job[v]
  BY <1>1
<1>3. Keeps /\ UNCHANGED approved
  BY DEF Continues, AsksForPlan, Heals, Keeps
<1>4. Thins /\ Live' = Live
  BY <1>3, KeepsTree DEF TreeInv
<1>5. Grows
  BY <1>3 DEF Grows, TreeInv, ThreadsOK
<1>6. CASE Forms(q) => Continues(w, q)
  <2>1. Forms(q) => /\ MakesOn(job[w], q) /\ MakerOK(q)
                    /\ Happens("heal") => q.id \in Live
                    /\ ~Happens("heal") => Early(q)
    <3> SUFFICES ASSUME Forms(q)
                 PROVE  /\ MakesOn(job[w], q) /\ MakerOK(q)
                        /\ Happens("heal") => q.id \in Live
                        /\ ~Happens("heal") => Early(q)
      OBVIOUS
    <3>1. MakesOn(job[w], q)
      BY <1>6 DEF Continues
    <3>2. Forms(job[w]) /\ q.id = job[w].id
      BY <3>1 DEF MakesOn
    <3>3. /\ MakerOK(job[w])
          /\ Happens("heal") => job[w].id \in Live
          /\ ~Happens("heal") => Early(job[w])
      BY <1>1, <3>2 DEF OnceInv
    <3> QED
      BY <1>1, <3>1, <3>2, <3>3, MakerOn
  <2>2. Early(q) => Early(q)'
    <3>1. Made(q.id)' \subseteq Made(q.id)
      BY <1>4, ThinFacts
    <3> QED
      BY <1>3, <3>1 DEF Early, Made, Live
  <2>3. ASSUME NEW v \in Workers, NEW r \in Job, r = job'[v], Forms(r)
        PROVE  /\ MakerOK(r)
               /\ Happens("heal") => r.id \in Live'
               /\ ~Happens("heal") => Early(r)'
    <3>1. CASE v = w
      BY <1>2, <1>4, <2>1, <2>2, <2>3, <3>1
    <3>2. CASE v # w
      <4>1. r = job[v]
        BY <1>2, <2>3, <3>2
      <4>2. /\ MakerOK(r)
            /\ Happens("heal") => r.id \in Live
            /\ ~Happens("heal") => Early(r)
        BY <2>3, <4>1 DEF OnceInv
      <4>3. Early(r) => Early(r)'
        <5>1. Made(r.id)' \subseteq Made(r.id)
          BY <1>4, ThinFacts
        <5> QED
          BY <1>3, <5>1 DEF Early, Made, Live
      <4> QED
        BY <1>4, <4>2, <4>3
    <3> QED
      BY <3>1, <3>2
  <2>4. ~Happens("heal") => Apart'
    <3>1. ~Happens("heal") => Apart
      BY DEF OnceInv
    <3>2. \A v \in Workers : Forms(job[v])' => Forms(job[v]) /\ job'[v].id = job[v].id
      BY <1>2, <2>1 DEF Forms, MakesOn
    <3> QED
      BY <1>3, <3>1, <3>2 DEF Apart
  <2> QED
    BY <1>1, <1>4, <1>5, <2>3, <2>4, OnceThins DEF HealsAlone, Happens
<1>7. CASE Forms(q) /\ ~Continues(w, q)
  <2>1. Heals(w, q)
    BY <1>7 DEF AsksForPlan, Forms
  <2>2. /\ Happens("heal") /\ ~mix.overlap /\ q.id \in Live /\ q.pc = "load"
        /\ \A v \in Workers : job[v].pc = "idle"
    BY <2>1 DEF Heals, Free, NoneHalfway, At, HealsAlone, Happens
  <2>3. MakerOK(q)
    <3>1. q.id \in 1 .. nextId - 1
      BY <2>2 DEF TreeInv, Indexed, TreeOK
    <3> QED
      BY <2>2, <3>1 DEF MakerOK
  <2>4. \A v \in Workers, r \in Job : r = job'[v] /\ Forms(r) => r = q
    BY <1>2, <2>2 DEF Forms
  <2> QED
    BY <1>1, <1>4, <1>5, <2>2, <2>3, <2>4, OnceThins DEF HealsAlone, Happens
<1> QED
  BY <1>6, <1>7

LEMMA OnceApproves ==
  ASSUME TreeInv, TreeInv', HealsAlone, OnceInv,
         NEW w \in Workers, NEW q \in Job, Takes(w, q), Approves(w, q)
  PROVE  OnceInv'
<1> DEFINE c == q.id
<1>1. /\ job' = [job EXCEPT ![w] = q] /\ mix' = mix /\ job \in [Workers -> Job]
  BY DEF Takes, TreeInv, ThreadsOK
<1>2. job'[w] = q /\ \A v \in Workers : v # w => job'[v] = job[v]
  BY <1>1
<1>3. /\ Keeps /\ q.verb = "done" /\ q.pc = "read" /\ c \in Live
      /\ approved' = [approved EXCEPT ![c] = IF @ = 0 THEN 1 ELSE 2]
  BY DEF Approves
<1>4. Thins /\ Live' = Live
  BY <1>3, KeepsTree DEF TreeInv
<1>5. c \in Ids /\ approved \in [Ids -> 0 .. 2]
  BY <1>3, TreeFacts DEF TreeInv, Indexed, ThreadsOK
<1>6. /\ approved'[c] = IF approved[c] = 0 THEN 1 ELSE 2
      /\ \A k \in Ids : k # c => approved'[k] = approved[k]
  BY <1>3, <1>5
<1>7. Grows
  BY <1>5, <1>6 DEF Grows
<1>8. MakerOK(q)
  <2>1. c \in 1 .. nextId - 1
    BY <1>3 DEF TreeInv, Indexed, TreeOK
  <2> QED
    BY <1>3, <2>1 DEF MakerOK
<1>9. ASSUME ~Happens("heal")
      PROVE  Early(q)'
  <2>1. Made(c)' \subseteq Made(c)
    BY <1>4, ThinFacts
  <2>2. approved[c] = 0 => Made(c) = {}
    <3> SUFFICES ASSUME approved[c] = 0, NEW i \in Made(c) PROVE FALSE
      OBVIOUS
    <3>1. item[i].from = c /\ i \in Live
      BY DEF Made
    <3>2. c # NoId
      BY <1>5 DEF Ids, NoId
    <3> QED
      BY <1>9, <3>1, <3>2 DEF OnceInv
  <2>3. approved'[c] >= 1 /\ (approved'[c] = 1 => Made(c) = {})
    BY <1>5, <1>6, <2>2
  <2>4. approved'[c] = 1 => Made(c)' = {}
    BY <2>1, <2>3
  <2> QED
    BY <1>3, <2>3, <2>4 DEF Early, Made, Live
<1>10. ASSUME NEW v \in Workers, v # w, NEW r \in Job, r = job[v], Forms(r)
       PROVE  /\ MakerOK(r)
              /\ Happens("heal") => r.id \in Live'
              /\ ~Happens("heal") => Early(r)' /\ (r.id = c => approved'[c] = 2)
  <2>1. /\ MakerOK(r)
        /\ Happens("heal") => r.id \in Live
        /\ ~Happens("heal") => Early(r)
    BY <1>10 DEF OnceInv
  <2>2. r.id \in Ids
    <3>1. r.id \in 1 .. nextId - 1 /\ nextId \in 1 .. MaxId + 1
      BY <2>1 DEF MakerOK, TreeInv, Indexed, TreeOK
    <3> QED
      BY <3>1, BoundsAssumption DEF Ids
  <2>3. Made(r.id)' \subseteq Made(r.id)
    BY <1>4, ThinFacts
  <2>4. Early(r) /\ r.id = c => approved'[c] = 2
    BY <1>5, <1>6, <2>2 DEF Early
  <2>5. Early(r) => Early(r)'
    <3>1. CASE r.id = c
      BY <1>6, <2>4, <3>1 DEF Early, Made, Live
    <3>2. CASE r.id # c
      BY <1>6, <2>2, <2>3, <3>2 DEF Early, Made, Live
    <3> QED
      BY <3>1, <3>2
  <2> QED
    BY <1>4, <2>1, <2>4, <2>5
<1>11. ASSUME NEW v \in Workers, NEW r \in Job, r = job'[v], Forms(r)
       PROVE  /\ MakerOK(r)
              /\ Happens("heal") => r.id \in Live'
              /\ ~Happens("heal") => Early(r)'
  <2>1. CASE v = w
    BY <1>2, <1>3, <1>4, <1>8, <1>9, <1>11, <2>1
  <2>2. CASE v # w
    BY <1>2, <1>10, <1>11, <2>2
  <2> QED
    BY <2>1, <2>2
<1>12. ASSUME ~Happens("heal")
       PROVE  Apart'
  <2> SUFFICES ASSUME NEW v \in Workers, NEW u \in Workers, v # u,
                      Forms(job[v])', Forms(job[u])', job'[v].id = job'[u].id
               PROVE  approved'[job'[v].id] = 2
    BY DEF Apart
  <2>1. ASSUME NEW x \in Workers, x # w, Forms(job[x])', job'[x].id = c
        PROVE  approved'[c] = 2
    <3>1. job[x] \in Job /\ job'[x] = job[x] /\ Forms(job[x])
      BY <1>1, <1>2, <2>1 DEF Forms
    <3> QED
      BY <1>10, <1>12, <2>1, <3>1
  <2>2. CASE v = w \/ u = w
    BY <1>2, <2>1, <2>2
  <2>3. CASE v # w /\ u # w
    <3>1. job'[v] = job[v] /\ job'[u] = job[u] /\ Forms(job[v]) /\ Forms(job[u])
      BY <1>2, <2>3 DEF Forms
    <3>2. approved[job[v].id] = 2
      BY <1>12, <3>1 DEF OnceInv, Apart
    <3>3. MakerOK(job[v])
      BY <1>1, <3>1 DEF OnceInv
    <3>4. job[v].id \in Ids
      <4>1. job[v].id \in 1 .. nextId - 1 /\ nextId \in 1 .. MaxId + 1
        BY <3>3 DEF MakerOK, TreeInv, Indexed, TreeOK
      <4> QED
        BY <4>1, BoundsAssumption DEF Ids
    <3> QED
      BY <1>6, <3>1, <3>2, <3>4
  <2> QED
    BY <2>2, <2>3
<1> QED
  BY <1>1, <1>4, <1>7, <1>11, <1>12, OnceThins DEF HealsAlone, Happens

(* A new item: a Project, or what the thread w has checked a moment ago. *)
LEMMA OnceAdds ==
  ASSUME TreeInv, TreeInv', HealsAlone, OnceInv,
         NEW w \in Workers, NEW q \in Job, Takes(w, q),
         Found(w, q) \/ Inserts(w, q)
  PROVE  OnceInv'
<1> DEFINE j == job[w]
           maker == Inserts(w, q) /\ j.verb \in {"done", "heal"}
<1>1. /\ job' = [job EXCEPT ![w] = q] /\ mix' = mix
      /\ job \in [Workers -> Job] /\ j \in Job /\ Fits(j)
  BY DEF Takes, TreeInv, ThreadsOK
<1>2. job'[w] = q /\ \A v \in Workers : v # w => job'[v] = job[v]
  BY <1>1
<1>3. UNCHANGED approved /\ approved \in [Ids -> 0 .. 2]
  BY DEF Found, Inserts, TreeInv, ThreadsOK
<1>4. /\ Live' = Live \cup {nextId} /\ \A i \in Live : item'[i] = item[i]
      /\ nextId' = nextId + 1 /\ nextId \notin Live /\ nextId \in Ids
      /\ item'[nextId].state = "Draft"
      /\ maker => /\ item'[nextId].from = j.id /\ item'[nextId].title = j.title
                  /\ item'[nextId].parent = j.proj
      /\ ~maker => item'[nextId].from = NoId
  <2>1. CASE Found(w, q)
    <3>1. Adds(NoId, "project", NoId) /\ At(w, "idle")
      BY <2>1 DEF Found, Free
    <3>2. ~maker
      BY <3>1 DEF Inserts, At
    <3> QED
      BY <3>1, <3>2, AddKeeps DEF TreeInv, SameOrigin
  <2>2. CASE Inserts(w, q)
    <3> DEFINE p == j.proj
               t == j.title
               f == IF j.verb \in {"done", "heal"} THEN j.id ELSE NoId
    <3>1. Adds(p, t, f)
      BY <2>2 DEF Inserts
    <3>2. p \in Ids \cup {NoId} /\ t \in Titles \cup {"plan"} /\ j.id \in Ids \cup {NoId}
      BY <1>1 DEF Job
    <3>3. f \in Ids \cup {NoId} /\ (maker => f = j.id) /\ (~maker => f = NoId)
      BY <2>2, <3>2
    <3> HIDE DEF maker, f
    <3>4. /\ Live' = Live \cup {nextId} /\ \A i \in Live : item'[i] = item[i]
          /\ nextId' = nextId + 1 /\ nextId \notin Live /\ nextId \in Ids
          /\ item'[nextId].state = "Draft"
          /\ item'[nextId].from = f /\ item'[nextId].title = t /\ item'[nextId].parent = p
      BY <3>1, <3>2, <3>3, AddKeeps DEF TreeInv, SameOrigin
    <3> QED
      BY <3>3, <3>4
  <2> QED
    BY <2>1, <2>2
<1>5. /\ maker => /\ j.pc = "insert" /\ Forms(j) /\ MakerOK(j) /\ j.id < nextId
                  /\ Happens("heal") => j.id \in Live
                  /\ ~Happens("heal") => Early(j)
                  /\ q.pc = "shape" /\ q.verb = j.verb /\ q.id = j.id /\ q.todo = j.todo
                  /\ q.proj = j.proj /\ q.known = j.known
      /\ ~maker => ~Forms(q)
  <2>1. CASE maker
    <3>1. Inserts(w, q) /\ j.pc = "insert" /\ Forms(j)
      BY <2>1 DEF Inserts, At, Forms
    <3>2. MakerOK(j)
      BY <1>1, <3>1 DEF OnceInv
    <3>3. j.id \in 1 .. nextId - 1 /\ nextId \in Nat
      BY <3>2, TreeFacts DEF MakerOK, TreeInv, Indexed
    <3> QED
      BY <1>1, <2>1, <3>1, <3>2, <3>3 DEF OnceInv, Inserts
  <2>2. CASE ~maker
    BY <2>2 DEF Found, Inserts, Forms
  <2> QED
    BY <2>1, <2>2
<1> HIDE DEF maker
<1>6. maker => /\ j.todo # None /\ 1 \in DOMAIN j.todo /\ j.title = j.todo[1].title
               /\ j.known[j.title] = NoId
  <2> SUFFICES ASSUME maker
               PROVE  /\ j.todo # None /\ 1 \in DOMAIN j.todo /\ j.title = j.todo[1].title
                      /\ j.known[j.title] = NoId
    OBVIOUS
  <2>1. j.todo # None /\ j.title = Head(j.todo).title /\ j.todo \in Seq(Spec_)
    BY <1>1, <1>5 DEF Fits, Making, Forms, Job
  <2>2. 1 \in DOMAIN j.todo /\ Head(j.todo) = j.todo[1]
    BY <2>1, TailFacts
  <2> QED
    BY <1>5, <2>1, <2>2 DEF MakerOK
<1>7. maker /\ approved[j.id] <= 1 =>
        /\ Distinct(j.todo)
        /\ \A i \in Made(j.id), n \in DOMAIN j.todo :
             item[i].title = j.todo[n].title => j.known[j.todo[n].title] # NoId
  BY <1>5 DEF MakerOK, Covered
<1>8. ASSUME maker, approved[j.id] <= 1, NEW i \in Live, item[i].from = j.id
      PROVE  item[i].title # j.title
  <2>1. i \in Made(j.id)
    BY <1>8 DEF Made
  <2> QED
    BY <1>6, <1>7, <1>8, <2>1
<1>9. nextId \in Nat \ {0} /\ \A i \in Live : i \in 1 .. nextId - 1
  BY <1>4 DEF Ids, TreeInv, Indexed, TreeOK
<1>10. TwinFree'
  <2> SUFFICES ASSUME NEW i \in Live', NEW k \in Live', item'[i].from # NoId,
                      item'[i].from = item'[k].from, item'[i].title = item'[k].title,
                      approved[item'[i].from] <= 1
               PROVE  i = k
    BY <1>3 DEF TwinFree
  <2>1. CASE i \in Live /\ k \in Live
    BY <1>4, <2>1 DEF OnceInv, TwinFree
  <2>2. CASE i = nextId /\ k \in Live
    <3>1. maker /\ item[k].from = j.id /\ item[k].title = j.title /\ approved[j.id] <= 1
      BY <1>4, <2>2
    <3> QED
      BY <1>8, <2>2, <3>1
  <2>3. CASE k = nextId /\ i \in Live
    <3>1. maker /\ item[i].from = j.id /\ item[i].title = j.title /\ approved[j.id] <= 1
      BY <1>4, <2>3
    <3> QED
      BY <1>8, <2>3, <3>1
  <2> QED
    BY <1>4, <2>1, <2>2, <2>3
<1>11. Kin'
  <2> SUFFICES ASSUME NEW i \in Live'
               PROVE  /\ item'[i].from < nextId' /\ item'[i].from # i
                      /\ item'[i].from \in Live' => item'[i].parent = item'[item'[i].from].parent
    BY DEF Kin
  <2>1. CASE i \in Live
    <3>1. /\ item'[i] = item[i] /\ item[i].from < nextId /\ item[i].from # i
          /\ item[i].from \in Live => item[i].parent = item[item[i].from].parent
          /\ item[i].from \in Nat
      BY <1>4, <2>1, ItemFacts DEF OnceInv, Kin, Ids, NoId
    <3>2. item[i].from # nextId
      BY <1>9, <3>1
    <3> QED
      BY <1>4, <1>9, <3>1, <3>2
  <2>2. CASE i = nextId /\ maker
    <3>1. item'[i].from = j.id /\ j.id < nextId /\ j.id \in Nat /\ item'[i].parent = j.proj
      BY <1>4, <1>5, <1>9, <2>2 DEF MakerOK
    <3>2. j.id # nextId
      BY <1>9, <3>1
    <3>3. j.id \in Live' => j.id \in Live /\ j.proj = item[j.id].parent /\ item'[j.id] = item[j.id]
      BY <1>4, <1>5, <2>2, <3>2 DEF MakerOK
    <3> QED
      BY <1>4, <1>9, <2>2, <3>1, <3>2, <3>3
  <2>3. CASE i = nextId /\ ~maker
    <3>1. item'[i].from = NoId /\ NoId \notin Live'
      BY <1>4, <1>9, <2>3 DEF NoId
    <3> QED
      BY <1>4, <1>9, <2>3, <3>1 DEF NoId
  <2> QED
    BY <1>4, <2>1, <2>2, <2>3
<1>12. ASSUME NEW v \in Workers, v # w, NEW r \in Job, r = job[v], Forms(r)
       PROVE  /\ MakerOK(r)'
              /\ Happens("heal") => r.id \in Live'
              /\ ~Happens("heal") => Early(r)'
  <2>1. /\ MakerOK(r)
        /\ Happens("heal") => r.id \in Live
        /\ ~Happens("heal") => Early(r)
    BY <1>12 DEF OnceInv
  <2>2. maker /\ r.id = j.id => approved[r.id] = 2
    <3> SUFFICES ASSUME maker, r.id = j.id PROVE approved[r.id] = 2
      OBVIOUS
    <3>1. CASE Happens("heal")
      <4>1. ~mix.overlap
        BY <3>1 DEF HealsAlone, Happens
      <4> QED
        BY <1>5, <1>12, <4>1 DEF TreeInv, ThreadsOK, OneAtATime, At, Forms
    <3>2. CASE ~Happens("heal")
      BY <1>5, <1>12, <3>2 DEF OnceInv, Apart
    <3> QED
      BY <3>1, <3>2
  <2>3. r.id # item'[nextId].from \/ approved[r.id] = 2
    <3>1. r.id \in 1 .. nextId - 1
      BY <2>1 DEF MakerOK
    <3>2. r.id # NoId
      BY <1>9, <3>1 DEF NoId
    <3> QED
      BY <1>4, <2>2, <3>2
  <2>4. MakerOK(r)'
    BY <1>3, <1>4, <2>1, <2>3, MakerAdds
  <2>5. Early(r) => Early(r)'
    <3>1. approved[r.id] = 1 => Made(r.id)' \subseteq Made(r.id)
      BY <1>4, <2>3 DEF Made
    <3> QED
      BY <1>3, <3>1 DEF Early, Made, Live
  <2> QED
    BY <1>4, <2>1, <2>4, <2>5
<1>13. ASSUME maker
       PROVE  /\ MakerOK(q)'
              /\ Happens("heal") => q.id \in Live'
              /\ ~Happens("heal") => Early(q)'
  <2>1. q.id \in 1 .. nextId' - 1
    BY <1>4, <1>5, <1>9, <1>13 DEF MakerOK
  <2>2. q.id \in Live' /\ q.pc \notin {"read", "load"} => q.proj = item'[q.id].parent
    <3>1. j.id # nextId
      BY <1>5, <1>9, <1>13 DEF MakerOK
    <3> QED
      BY <1>4, <1>5, <1>13, <3>1 DEF MakerOK
  <2>3. ASSUME approved[j.id] <= 1, NEW i \in Made(q.id)', NEW n \in DOMAIN q.todo \ {1},
               item'[i].title = q.todo[n].title
        PROVE  q.known[q.todo[n].title] # NoId
    <3>1. i \in Live' /\ item'[i].from = j.id
      BY <1>5, <1>13 DEF Made
    <3>2. CASE i \in Live
      <4>1. i \in Made(j.id) /\ item'[i] = item[i]
        BY <1>4, <3>1, <3>2 DEF Made
      <4> QED
        BY <1>5, <1>7, <1>13, <2>3, <4>1
    <3>3. CASE i = nextId
      <4>1. j.todo[1].title = j.todo[n].title /\ n \in DOMAIN j.todo /\ n # 1
        BY <1>4, <1>5, <1>6, <1>13, <2>3, <3>3
      <4> QED
        BY <1>6, <1>7, <1>13, <2>3, <4>1 DEF Distinct
    <3> QED
      BY <1>4, <3>1, <3>2, <3>3
  <2>4. approved[j.id] <= 1 => Distinct(q.todo) /\ Covered(q, DOMAIN q.todo \ {1})'
    BY <1>5, <1>7, <1>13, <2>3 DEF Covered
  <2>5. MakerOK(q)'
    BY <1>3, <1>5, <1>13, <2>1, <2>2, <2>4 DEF MakerOK
  <2>6. ~Happens("heal") => Early(q)'
    BY <1>3, <1>5, <1>13 DEF Early
  <2> QED
    BY <1>4, <1>5, <1>13, <2>5, <2>6
<1>14. ASSUME NEW v \in Workers, NEW r \in Job, r = job'[v], Forms(r)
       PROVE  /\ MakerOK(r)'
              /\ Happens("heal") => r.id \in Live'
              /\ ~Happens("heal") => Early(r)'
  <2>1. CASE v = w
    <3>1. r = q /\ maker
      BY <1>2, <1>5, <1>14, <2>1
    <3> QED
      BY <1>13, <3>1
  <2>2. CASE v # w
    BY <1>2, <1>12, <1>14, <2>2
  <2> QED
    BY <2>1, <2>2
<1>15. Happens("heal") => \A i \in Live' : item'[i].state # "Retired"
  BY <1>4 DEF OnceInv
<1>16. ~Happens("heal") => \A i \in Live' : item'[i].from # NoId => approved'[item'[i].from] >= 1
  <2> SUFFICES ASSUME ~Happens("heal"), NEW i \in Live', item'[i].from # NoId
               PROVE  approved[item'[i].from] >= 1
    BY <1>3
  <2>1. CASE i \in Live
    BY <1>4, <2>1 DEF OnceInv
  <2>2. CASE i = nextId
    BY <1>4, <1>5, <2>2 DEF Early
  <2> QED
    BY <1>4, <2>1, <2>2
<1>17. ~Happens("heal") => Apart'
  <2>1. \A v \in Workers : Forms(job[v])' => Forms(job[v]) /\ job'[v].id = job[v].id
    BY <1>2, <1>5 DEF Forms
  <2> QED
    BY <1>3, <2>1 DEF OnceInv, Apart
<1>18. Happens("heal")' <=> Happens("heal")
  BY <1>1 DEF Happens
<1> QED
  BY <1>10, <1>11, <1>14, <1>15, <1>16, <1>17, <1>18 DEF OnceInv, Forms

LEMMA OnceStep ==
  ASSUME TreeInv, HealsAlone, DistinctRows, OnceInv, [Next]_vars
  PROVE  OnceInv'
<1>1. TreeInv' /\ mix' = mix
  BY TreeStep, MixStays
<1>2. ASSUME Thins, UNCHANGED approved,
             \A w \in Workers : Forms(job[w])' => job'[w] = job[w] /\ Live' = Live
      PROVE  OnceInv'
  <2>1. Grows
    BY <1>2 DEF Grows, TreeInv, ThreadsOK
  <2>2. ASSUME NEW w \in Workers, NEW q \in Job, q = job'[w], Forms(q)
        PROVE  /\ MakerOK(q)
               /\ Happens("heal") => q.id \in Live'
               /\ ~Happens("heal") => Early(q)'
    <3>1. q = job[w] /\ Live' = Live
      BY <1>2, <2>2 DEF Forms
    <3>2. /\ MakerOK(q)
          /\ Happens("heal") => q.id \in Live
          /\ ~Happens("heal") => Early(q)
      BY <2>2, <3>1 DEF OnceInv
    <3>3. Made(q.id)' \subseteq Made(q.id)
      BY <1>2, ThinFacts
    <3>4. Early(q) => Early(q)'
      BY <1>2, <3>3 DEF Early, Made, Live
    <3> QED
      BY <3>1, <3>2, <3>4
  <2>3. ~Happens("heal") => Apart'
    BY <1>2 DEF OnceInv, Apart, Forms
  <2> QED
    BY <1>1, <1>2, <2>1, <2>2, <2>3, OnceThins DEF HealsAlone, Happens
<1>3. CASE UNCHANGED vars
  <2>1. Thins /\ Live' = Live /\ UNCHANGED <<job, approved>>
    BY <1>3, SameKeeps DEF vars, Same, TreeInv
  <2> QED
    BY <1>2, <2>1
<1>4. CASE AtOnceStep
  <2>1. Thins /\ UNCHANGED <<job, approved>>
    BY <1>4, KeepsTree, RemoveKeeps DEF AtOnceStep, TreeInv
  <2>2. CASE Keeps
    BY <1>2, <2>1, <2>2, KeepsTree DEF TreeInv
  <2>3. CASE ~Keeps /\ NoneHalfway
    BY <1>2, <2>1, <2>3 DEF NoneHalfway, At, Forms
  <2>4. CASE mix.overlap
    <3>1. ~Happens("heal") /\ Grows
      BY <1>4, <2>4 DEF HealsAlone, Happens, AtOnceStep, Grows, TreeInv, ThreadsOK
    <3>2. ASSUME NEW w \in Workers, NEW q \in Job, q = job'[w], Forms(q)
          PROVE  MakerOK(q) /\ Early(q)'
      <4>1. MakerOK(q) /\ Early(q)
        BY <2>1, <3>1, <3>2 DEF OnceInv
      <4>2. Made(q.id)' \subseteq Made(q.id)
        BY <2>1, ThinFacts
      <4> QED
        BY <2>1, <4>1, <4>2 DEF Early, Made, Live
    <3>3. Apart'
      BY <2>1, <3>1 DEF OnceInv, Apart, Forms
    <3> QED
      BY <1>1, <2>1, <3>1, <3>2, <3>3, OnceThins
  <2> QED
    BY <1>4, <2>2, <2>3, <2>4 DEF AtOnceStep
<1>5. CASE Crash
  <2>1. Thins /\ UNCHANGED approved /\ job' = [w \in Workers |-> Idle]
    BY <1>5, CrashKeeps DEF Crash, TreeInv
  <2> QED
    BY <1>2, <2>1, IdleFacts DEF Forms
<1>6. ASSUME NEW w \in Workers, WorkerStep(w)
      PROVE  OnceInv'
  <2>1. PICK q \in Job : Fits(q) /\ Takes(w, q) /\ Sorts(w, q)
    BY <1>6 DEF WorkerStep
  <2> QED
    BY <1>1, <2>1, OnceGoes, OnceApproves, OnceAdds DEF Sorts
<1> QED
  BY <1>3, <1>4, <1>5, <1>6, StepKinds

(* OncePerProposal, whatever verbs run between each other's sections: an       *)
(* approval makes one Task per title, and a card that is healed while no other *)
(* verb is under way gets no Task that it has.                                 *)
THEOREM OnePerApproval == ASSUME DistinctRows PROVE Spec => [](HealsAlone => OncePerProposal)
<1> DEFINE Inv == TreeInv /\ (HealsAlone => OnceInv)
<1>1. Init => Inv
  <2> SUFFICES ASSUME Init PROVE Inv
    OBVIOUS
  <2>1. Live = {} /\ job = [w \in Workers |-> Idle]
    BY DEF Init, Live
  <2>2. \A w \in Workers : ~Forms(job[w])
    BY <2>1, IdleFacts DEF Forms
  <2> QED
    BY <2>1, <2>2, TreeInit DEF OnceInv, TwinFree, Kin, Apart
<1>2. Inv /\ [Next]_vars => Inv'
  BY TreeStep, MixStays, OnceStep DEF HealsAlone
<1>3. Inv => (HealsAlone => OncePerProposal)
  BY DEF OnceInv, TwinFree, OncePerProposal
<1> QED
  BY <1>1, <1>2, <1>3, PTL DEF Spec
-------------------------------------------------------------------------------
(* The walks over a scope, for every tree: what a verb that has the Board to   *)
(* itself has come to, from its first section to its last.                     *)

(* Cut: who is not retired yet is in hand, or below somebody on the stack. *)
CutOK(j) ==
  j.pc \in {"walk", "retire"} =>
    /\ j.id \in Live /\ j.stack \subseteq Live
    /\ \A i \in Subtree(j.id) : \/ item[i].state = "Retired" \/ (j.pc = "retire" /\ i = j.new)
                                \/ \E s \in j.stack : i \in Subtree(s)

(* Unarchive: who is still retired is in hand or on the stack, the root last, *)
(* and goes where it came from.                                               *)
RestoreOK(j) ==
  j.pc \in {"look", "restore"} =>
    /\ j.id \in Live /\ j.stack \subseteq Subtree(j.id)
    /\ \A i \in Subtree(j.id) : \/ item[i].state # "Retired" \/ i \in j.stack
                                \/ (j.pc = "restore" /\ i = j.new)
    /\ j.pc = "restore" =>
         /\ j.new \in Subtree(j.id) /\ item[j.new].state = "Retired"
         /\ j.new = j.id => j.stack = {}
         /\ j.to = M!UnarchiveTarget(item[j.new].prior, kids[j.new] # {}, ~IsProject(j.new))

(* Epics: the Projects on the stack are open as they were when they were read, *)
(* and the one in hand has nothing left to do.                                 *)
OpenProject(p) == p \in Live /\ IsProject(p) /\ item[p].state \notin M!Terminal
EpicsOK(j) ==
  j.pc \in {"judge", "open", "close"} =>
    /\ \A p \in j.stack : OpenProject(p)
    /\ j.pc \in {"open", "close"} =>
         /\ OpenProject(j.new) /\ j.new \notin j.stack
         /\ \A k \in Siblings(j.new) : item[k].state \in M!Terminal

ScopeOK(j) == CutOK(j) /\ RestoreOK(j) /\ EpicsOK(j)
ScopeInv == ~mix.overlap => \A w \in Workers : ScopeOK(job[w])

Scoped == {"walk", "retire", "look", "restore", "judge", "open", "close"}

-------------------------------------------------------------------------------
LEMMA SubtreeFacts ==
  ASSUME Indexed, NEW i \in Live
  PROVE  /\ kids[i] = Siblings(i) /\ kids[i] \subseteq Live /\ Subtree(i) \subseteq Live
         /\ i \in Subtree(i) /\ \A k \in Subtree(i) : k # i => ~IsProject(k)
<1>1. \A k \in Live : kids[k] = Siblings(k) /\ kids[k] \subseteq Live
  BY TreeFacts DEF Indexed, IndexesAgree, RebuiltKids, Siblings
<1>2. \A k \in Live : \A h \in kids[k] : ~IsProject(h)
  <2> SUFFICES ASSUME NEW k \in Live, NEW h \in kids[k] PROVE ~IsProject(h)
    OBVIOUS
  <2>1. item[h].parent = k /\ k \in 1 .. nextId - 1 /\ nextId \in 1 .. MaxId + 1
    BY <1>1 DEF Siblings, Indexed, TreeOK
  <2> QED
    BY <2>1, BoundsAssumption DEF IsProject, NoId
<1> QED
  BY <1>1, <1>2 DEF Subtree

(* What a move leaves of the tree. *)
LEMMA MoveFacts ==
  ASSUME Indexed, NEW i \in Live, NEW to \in M!States, Move(i, to)
  PROVE  /\ Live' = Live /\ kids' = kids /\ item'[i].state = to
         /\ item'[i].parent = item[i].parent
         /\ \A k \in Live : k # i => item'[k] = item[k]
<1>1. item[i] \in Item
  BY DEF Indexed, TreeOK
<1> DEFINE r == [item[i] EXCEPT !.state = to,
                   !.prior = IF to = "Retired" THEN item[i].state ELSE "Retired"]
<1>2. item' = [item EXCEPT ![i] = r] /\ kids' = kids
  BY DEF Move
<1>3. r.state = to /\ r.parent = item[i].parent
  BY <1>1 DEF Item
<1> HIDE DEF r
<1> QED
  BY <1>2, <1>3 DEF Live

LEMMA SameScope ==
  ASSUME NEW q, Same, ScopeOK(q)
  PROVE  ScopeOK(q)'
<1>1. Live' = Live
  BY DEF Same, Live
<1>2. \A i : Subtree(i)' = Subtree(i) /\ (IsProject(i)' <=> IsProject(i)) /\ Siblings(i)' = Siblings(i)
  BY <1>1 DEF Same, Subtree, IsProject, Siblings
<1>3. UNCHANGED <<item, kids>>
  BY DEF Same
<1>4. CutOK(q)'
  BY <1>1, <1>2, <1>3 DEF ScopeOK, CutOK
<1>5. RestoreOK(q)'
  BY <1>1, <1>2, <1>3 DEF ScopeOK, RestoreOK
<1>6. EpicsOK(q)'
  BY <1>1, <1>2, <1>3 DEF ScopeOK, EpicsOK, OpenProject
<1> QED
  BY <1>4, <1>5, <1>6 DEF ScopeOK

LEMMA OffScope ==
  ASSUME NEW q, q.pc \notin Scoped
  PROVE  ScopeOK(q) /\ ScopeOK(q)'
  BY DEF Scoped, ScopeOK, CutOK, RestoreOK, EpicsOK

-------------------------------------------------------------------------------
(* Whose step it is: while the others rest. *)
OthersRest(w) == \A v \in Workers : v # w => At(v, "idle")

LEMMA ScopeTurn ==
  ASSUME TreeInv, NEW w \in Workers, OthersRest(w), NEW q, job' = [job EXCEPT ![w] = q],
         ScopeOK(q)'
  PROVE  ScopeInv'
<1>1. \A v \in Workers : job'[v] = IF v = w THEN q ELSE job[v]
  BY DEF TreeInv, ThreadsOK
<1>2. \A v \in Workers : ScopeOK(job[v])'
  <2> TAKE v \in Workers
  <2>1. PICK r : r = job'[v]
    OBVIOUS
  <2>2. v # w => r.pc \notin Scoped
    BY <1>1, <2>1 DEF OthersRest, At, Scoped
  <2>3. ScopeOK(r)'
    BY <1>1, <2>1, <2>2, OffScope
  <2> QED
    BY <2>1, <2>3 DEF ScopeOK, CutOK, RestoreOK, EpicsOK
<1> QED
  BY <1>2 DEF ScopeInv

OtherGoes(w) ==
  \/ Seed(w) \/ CheckParent(w) \/ Create(w) \/ Shape(w) \/ Ready(w) \/ Commit(w)
  \/ WireTask(w) \/ SetProposal(w) \/ Review(w)
  \/ ReadProposal(w) \/ Load(w) \/ Match(w) \/ NextRow(w) \/ WireRow(w) \/ Stamp(w)
  \/ DropProposal(w) \/ Bounce(w)
OtherStarts(w) ==
  \/ NewProject(w)
  \/ \E i \in Ids : \/ InitPlan(w, i) \/ Finish(w, i) \/ Heal(w, i) \/ Changes(w, i)
                    \/ \E t \in Titles, needs \in {{}} \cup {{k} : k \in Ids} : NewTask(w, i, t, needs)
                    \/ \E p \in Plans : Propose(w, i, p)
                    \/ \E p \in Splits : Split(w, i, p)
Walks(w) == Walk(w) \/ Retire(w) \/ Look(w) \/ Restore(w) \/ Judge(w) \/ Open(w) \/ Close(w)
WalkStarts(w) == Epics(w) \/ \E i \in Ids : Cut(w, i) \/ Unarchive(w, i)

LEMMA OnwardOff ==
  ASSUME NEW j \in Job, NEW made \in BOOLEAN
  PROVE  Onward(j, made).pc \notin Scoped
  BY DEF Onward, Idle, Job, Scoped

(* The other verbs never come to a walk. *)
StaysOff(w) == \E q : job' = [job EXCEPT ![w] = q] /\ q.pc \notin Scoped

LEMMA OtherOff ==
  ASSUME TreeInv, NEW w \in Workers, OtherGoes(w) \/ OtherStarts(w)
  PROVE  StaysOff(w)
<1> USE DEF StaysOff
<1> DEFINE j == job[w]
<1>1. j \in Job
  BY ThreadFacts
<1>2. \A pc \in Pcs : [j EXCEPT !.pc = pc].pc = pc
  BY <1>1, PcType
<1>3. Idle.pc = "idle" /\ \A verb, pc, i : Start(verb, pc, i).pc = pc
  BY DEF Idle, Start
<1>4. ASSUME NEW pc \in {"check", "insert", "shape", "ready", "review", "stamp", "bounce"}, Next_(w, pc)
      PROVE  StaysOff(w)
  BY <1>2, <1>4 DEF Next_, Go, Pcs, Scoped
<1>5. ASSUME End(w) PROVE StaysOff(w)
  BY <1>3, <1>5 DEF End, Go, Scoped
<1>6. ASSUME NEW made \in BOOLEAN, Go(w, Onward(j, made))
      PROVE  StaysOff(w)
  BY <1>1, <1>6, OnwardOff DEF Go
<1>7. CASE Seed(w) \/ CheckParent(w)
  <2>1. CASE \E made \in BOOLEAN : Go(w, Onward(j, made))
    BY <1>6, <2>1
  <2>2. CASE Go(w, [j EXCEPT !.pc = "check", !.title = "plan"])
    <3>1. [j EXCEPT !.pc = "check", !.title = "plan"].pc \notin Scoped
      BY <1>1 DEF Job, Scoped
    <3> QED
      BY <2>2, <3>1 DEF Go
  <2>3. CASE Go(w, [j EXCEPT !.pc = "insert"])
    BY <1>4, <2>3 DEF Next_
  <2> QED
    BY <1>7, <2>1, <2>2, <2>3 DEF Seed, CheckParent
<1>8. CASE Create(w)
  <2>1. Go(w, [j EXCEPT !.pc = "shape", !.new = nextId])
    BY <1>8 DEF Create
  <2>2. [j EXCEPT !.pc = "shape", !.new = nextId].pc \notin Scoped
    BY <1>1 DEF Job, Scoped
  <2> QED
    BY <2>1, <2>2 DEF Go
<1>9. CASE Shape(w) \/ Ready(w)
  <2>1. Next_(w, "ready") \/ \E made \in BOOLEAN : Go(w, Onward(j, made))
    BY <1>9 DEF Shape, Ready
  <2> QED
    BY <1>4, <1>6, <2>1
<1>10. CASE Commit(w) \/ WireTask(w) \/ Review(w) \/ Stamp(w) \/ Bounce(w)
  BY <1>5, <1>10 DEF Commit, WireTask, Review, Stamp, Bounce
<1>11. CASE SetProposal(w) \/ DropProposal(w)
  BY <1>4, <1>5, <1>11 DEF SetProposal, DropProposal
<1>12. CASE ReadProposal(w)
  <2>1. Go(w, [j EXCEPT !.pc = "load"]) \/ Go(w, Idle)
    BY <1>12 DEF ReadProposal
  <2> QED
    BY <1>2, <1>3, <2>1 DEF Go, Pcs, Scoped
<1>13. CASE Load(w)
  <2>1. \/ Go(w, [j EXCEPT !.pc = "match", !.specs = item[j.id].proposal, !.proj = item[j.id].parent])
        \/ Go(w, Idle)
    BY <1>13 DEF Load
  <2>2. [j EXCEPT !.pc = "match", !.specs = item[j.id].proposal, !.proj = item[j.id].parent].pc
          \notin Scoped
    BY <1>1 DEF Job, Scoped
  <2> QED
    BY <1>3, <2>1, <2>2 DEF Go, Scoped
<1>14. CASE Match(w)
  <2>1. PICK f : Go(w, [j EXCEPT !.pc = "next", !.known = f, !.todo = j.specs])
    BY <1>14 DEF Match
  <2>2. [j EXCEPT !.pc = "next", !.known = f, !.todo = j.specs].pc \notin Scoped
    BY <1>1 DEF Job, Scoped
  <2> QED
    BY <2>1, <2>2 DEF Go
<1>15. CASE NextRow(w)
  <2>1. At(w, "next") /\ \/ Go(w, [j EXCEPT !.pc = "wire", !.todo = j.specs])
                         \/ \E k : Go(w, [j EXCEPT !.keys[Head(j.todo).key] = k, !.todo = Tail(@)])
                         \/ Go(w, [j EXCEPT !.pc = "check", !.title = Head(j.todo).title])
    BY <1>15 DEF NextRow
  <2>2. /\ [j EXCEPT !.pc = "wire", !.todo = j.specs].pc \notin Scoped
        /\ [j EXCEPT !.pc = "check", !.title = Head(j.todo).title].pc \notin Scoped
    BY <1>1 DEF Job, Scoped
  <2>3. \A k : [j EXCEPT !.keys[Head(j.todo).key] = k, !.todo = Tail(@)].pc \notin Scoped
    BY <1>1, <2>1 DEF Job, Scoped, At
  <2> QED
    BY <2>1, <2>2, <2>3 DEF Go
<1>16. CASE WireRow(w)
  <2>1. At(w, "wire") /\ (Next_(w, "stamp") \/ Go(w, [j EXCEPT !.todo = Tail(@)]))
    BY <1>16 DEF WireRow
  <2>2. [j EXCEPT !.todo = Tail(@)].pc \notin Scoped
    BY <1>1, <2>1 DEF Job, Scoped, At
  <2> QED
    BY <1>4, <2>1, <2>2 DEF Go
<1>17. CASE OtherStarts(w)
  <2>1. ASSUME NEW verb, NEW pc \in {"seed", "check", "set", "read", "load", "drop"}, NEW i
        PROVE  /\ Start(verb, pc, i).pc \notin Scoped
               /\ \A p : [Start(verb, pc, i) EXCEPT !.proj = p].pc \notin Scoped
               /\ \A p : [Start(verb, pc, i) EXCEPT !.specs = p].pc \notin Scoped
               /\ \A p, t, needs :
                    [Start(verb, pc, i) EXCEPT !.proj = p, !.title = t, !.needs = needs].pc
                      \notin Scoped
    BY DEF Start, Idle, Scoped
  <2>2. CASE NewProject(w)
    BY <2>1, <2>2 DEF NewProject, Go
  <2>3. ASSUME NEW i \in Ids, InitPlan(w, i) PROVE StaysOff(w)
    BY <2>1, <2>3 DEF InitPlan, Go
  <2>4. ASSUME NEW i \in Ids, Finish(w, i) \/ Heal(w, i) \/ Changes(w, i) PROVE StaysOff(w)
    BY <2>1, <2>4 DEF Finish, Heal, Changes, Go
  <2>5. ASSUME NEW i \in Ids, NEW t, NEW needs, NewTask(w, i, t, needs) PROVE StaysOff(w)
    BY <2>1, <2>5 DEF NewTask, Go
  <2>6. ASSUME NEW i \in Ids, NEW p, Propose(w, i, p) \/ Split(w, i, p) PROVE StaysOff(w)
    <3>1. CASE Propose(w, i, p)
      BY <2>1, <3>1 DEF Propose, Go
    <3>2. CASE Split(w, i, p)
      BY <2>1, <3>2 DEF Split, Go
    <3> QED
      BY <2>6, <3>1, <3>2
  <2>7. CASE ~NewProject(w)
    <3>1. PICK i \in Ids :
            \/ InitPlan(w, i) \/ Finish(w, i) \/ Heal(w, i) \/ Changes(w, i)
            \/ \E t \in Titles, needs \in {{}} \cup {{k} : k \in Ids} : NewTask(w, i, t, needs)
            \/ \E p \in Plans : Propose(w, i, p)
            \/ \E p \in Splits : Split(w, i, p)
      BY <1>17, <2>7 DEF OtherStarts
    <3> HIDE DEF StaysOff
    <3>2. CASE \E t \in Titles, needs \in {{}} \cup {{k} : k \in Ids} : NewTask(w, i, t, needs)
      BY <2>5, <3>2
    <3> QED
      BY <2>3, <2>4, <2>6, <3>1, <3>2
  <2> QED
    BY <2>2, <2>7
<1> QED
  BY <1>7, <1>8, <1>9, <1>10, <1>11, <1>12, <1>13, <1>14, <1>15, <1>16, <1>17 DEF OtherGoes

LEMMA RestFacts ==
  ASSUME TreeInv, ~mix.overlap, NEW w \in Workers
  PROVE  /\ ~At(w, "idle") => OthersRest(w)
         /\ Free(w) => OthersRest(w)
  BY DEF TreeInv, ThreadsOK, OneAtATime, OthersRest, Free, NoneHalfway

LEMMA TurnsApart ==
  ASSUME TreeInv, ~mix.overlap, NEW w \in Workers, Starts(w) \/ Goes(w)
  PROVE  /\ OthersRest(w)
         /\ OtherGoes(w) \/ OtherStarts(w) \/ Walks(w) \/ WalkStarts(w)
<1>1. CASE Starts(w)
  <2>1. Free(w)
    BY <1>1 DEF Starts, NewProject, Epics, InitPlan, Finish, Heal, Changes, Cut, Unarchive,
                NewTask, Propose, Split
  <2> QED
    BY <1>1, <2>1, RestFacts DEF Starts, OtherStarts, WalkStarts
<1>2. CASE Goes(w)
  <2>1. ~At(w, "idle")
    BY <1>2 DEF Goes, Seed, CheckParent, Create, Shape, Ready, Commit, WireTask, SetProposal,
                Review, ReadProposal, Load, Match, NextRow, WireRow, Stamp, DropProposal,
                Bounce, Walk, Retire, Look, Restore, Judge, Open, Close, At
  <2> QED
    BY <1>2, <2>1, RestFacts DEF Goes, OtherGoes, Walks
<1> QED
  BY <1>1, <1>2

-------------------------------------------------------------------------------
(* A cut, section by section. *)
LEMMA CutSteps ==
  ASSUME TreeInv, NEW w \in Workers, ScopeOK(job[w]),
         Walk(w) \/ Retire(w) \/ \E i \in Ids : Cut(w, i)
  PROVE  \E q : job' = [job EXCEPT ![w] = q] /\ ScopeOK(q)'
<1>0. PICK j \in Job : j = job[w]
  BY ThreadFacts
<1>1. Indexed /\ CutOK(j) /\ j.stack \subseteq Ids
  BY <1>0 DEF TreeInv, ScopeOK, Job
<1>2. CASE \E i \in Ids : Cut(w, i)
  <2>1. PICK i \in Ids : Cut(w, i)
    BY <1>2
  <2> DEFINE q == [Start("cut", "walk", i) EXCEPT !.stack = {i}]
  <2>2. job' = [job EXCEPT ![w] = q] /\ Same /\ i \in Live
    BY <2>1 DEF Cut, Go
  <2>3. q.pc = "walk" /\ q.id = i /\ q.stack = {i}
    BY DEF Start, Idle
  <2> HIDE DEF q
  <2>4. ScopeOK(q)
    BY <2>2, <2>3 DEF ScopeOK, CutOK, RestoreOK, EpicsOK
  <2> QED
    BY <2>2, <2>4, SameScope
<1>3. CASE Walk(w)
  <2>0. j.pc = "walk" /\ Same
    BY <1>0, <1>3 DEF Walk, At
  <2>1. CASE j.stack = {}
    <3>1. job' = [job EXCEPT ![w] = Idle]
      BY <1>0, <1>3, <2>1 DEF Walk, Go
    <3>2. Idle.pc \notin Scoped
      BY DEF Idle, Scoped
    <3>3. ScopeOK(Idle)
      BY <3>2, OffScope
    <3> HIDE DEF Idle
    <3> QED
      BY <2>0, <3>1, <3>3, SameScope
  <2>2. CASE j.stack # {}
    <3>1. PICK i : i = Highest(j.stack)
      OBVIOUS
    <3>2. i \in j.stack
      <4>1. \E k \in j.stack : \A h \in j.stack : h <= k
        BY <1>1, <2>2, HighestOf, BoundsAssumption DEF Ids
      <4> QED
        BY <3>1, <4>1 DEF Highest
    <3>3. PICK s : s = (j.stack \ {i}) \cup kids[i]
      OBVIOUS
    <3> DEFINE q == [j EXCEPT !.pc = "retire", !.new = i, !.stack = s]
    <3>4. job' = [job EXCEPT ![w] = q]
      BY <1>0, <1>3, <2>2, <3>1, <3>3 DEF Walk, Go, Below
    <3>5. q.pc = "retire" /\ q.id = j.id /\ q.new = i /\ q.stack = s
      BY DEF Job
    <3> HIDE DEF q
    <3>6. i \in Live /\ kids[i] \subseteq Live
      BY <1>1, <2>0, <3>2, SubtreeFacts DEF CutOK
    <3>7. ASSUME NEW k \in Subtree(j.id), k # i, item[k].state # "Retired"
          PROVE  \E h \in s : k \in Subtree(h)
      <4>1. PICK h \in j.stack : k \in Subtree(h)
        BY <1>1, <2>0, <3>7 DEF CutOK
      <4>2. CASE h # i
        BY <3>3, <4>1, <4>2
      <4>3. CASE h = i
        BY <3>3, <3>7, <4>1, <4>3 DEF Subtree
      <4> QED
        BY <4>2, <4>3
    <3>8. CutOK(q)
      BY <1>1, <2>0, <3>3, <3>5, <3>6, <3>7 DEF CutOK
    <3>9. ScopeOK(q)
      BY <3>5, <3>8 DEF ScopeOK, RestoreOK, EpicsOK
    <3> QED
      BY <2>0, <3>4, <3>9, SameScope
  <2> QED
    BY <2>1, <2>2
<1>4. CASE Retire(w)
  <2>0. j.pc = "retire"
    BY <1>0, <1>4 DEF Retire, At
  <2> DEFINE q == [j EXCEPT !.pc = "walk"]
  <2>1. job' = [job EXCEPT ![w] = q]
    BY <1>0, <1>4 DEF Retire, Next_, Go
  <2>2. q.pc = "walk" /\ q.id = j.id /\ q.stack = j.stack
    BY DEF Job
  <2> HIDE DEF q
  <2>3. j.id \in Live /\ Subtree(j.id) \subseteq Live
    BY <1>1, <2>0, SubtreeFacts DEF CutOK
  <2>4. CASE Can(j.new, "Retired") /\ Move(j.new, "Retired")
    <3>1. j.new \in Live /\ "Retired" \in M!States
      BY <2>4 DEF Can, M!States
    <3>2. /\ Live' = Live /\ kids' = kids /\ item'[j.new].state = "Retired"
          /\ \A k \in Live : k # j.new => item'[k] = item[k]
      BY <1>1, <2>4, <3>1, MoveFacts
    <3>3. \A k : Subtree(k)' = Subtree(k)
      BY <3>2 DEF Subtree
    <3>4. CutOK(q)'
      BY <1>1, <2>0, <2>2, <2>3, <3>2, <3>3 DEF CutOK
    <3>5. ScopeOK(q)'
      BY <2>2, <3>4 DEF ScopeOK, RestoreOK, EpicsOK
    <3> QED
      BY <2>1, <3>5
  <2>5. CASE ~Can(j.new, "Retired") /\ Same
    <3>1. j.new \notin Live \/ item[j.new].state = "Retired"
      BY <2>5 DEF Can, M!Check, M!Allowed
    <3>2. CutOK(q)
      BY <1>1, <2>0, <2>2, <2>3, <3>1 DEF CutOK
    <3>3. ScopeOK(q)
      BY <2>2, <3>2 DEF ScopeOK, RestoreOK, EpicsOK
    <3> QED
      BY <2>1, <2>5, <3>3, SameScope
  <2> QED
    BY <1>0, <1>4, <2>4, <2>5 DEF Retire
<1> QED
  BY <1>2, <1>3, <1>4

(* Where unarchiving takes a card is open to it, unless it is a Project that   *)
(* holds nothing and was cut in Backlog.                                       *)
LEMMA CanRestore ==
  ASSUME Indexed, NEW i \in Live, item[i].state = "Retired",
         NEW to, to = M!UnarchiveTarget(item[i].prior, kids[i] # {}, ~IsProject(i)),
         IsProject(i) => \A k \in kids[i] : item[k].state # "Retired",
         ~Can(i, to)
  PROVE  Hollow(i)
<1>1. item[i].prior \in M!States /\ kids[i] \subseteq Live
  BY SubtreeFacts DEF Indexed, TreeOK, Item
<1>2. to \in {"Draft", "Shaping", "Backlog", "Review", "Done"}
  BY <1>1 DEF M!UnarchiveTarget, M!States
<1>3. M!Allowed("Retired", to)
  BY <1>2 DEF M!Allowed, M!Edges
<1>4. to = "Backlog" /\ OpenKids(i) = {} /\ IsProject(i)
  BY <1>2, <1>3 DEF Can, M!Check
<1>5. kids[i] = {}
  BY <1>1, <1>4 DEF OpenKids
<1>6. item[i].prior = "Backlog"
  BY <1>1, <1>4, <1>5 DEF M!UnarchiveTarget, M!States
<1> QED
  BY <1>4, <1>5, <1>6 DEF Hollow

(* In hand while unarchiving: all else in the scope is back, or still to come; *)
(* before the root, all else is back.                                          *)
LEMMA RestoreFacts ==
  ASSUME Indexed, NEW j \in Job, j.pc = "restore", RestoreOK(j)
  PROVE  /\ j.new \in Live /\ j.to \in M!States /\ j.to # "Retired"
         /\ Subtree(j.id) \subseteq Live
         /\ ~Can(j.new, j.to) =>
              /\ Hollow(j.new)
              /\ \A i \in Subtree(j.id) : i # j.new => item[i].state # "Retired"
<1>1. j.id \in Live /\ Subtree(j.id) \subseteq Live /\ j.new \in Subtree(j.id)
  BY SubtreeFacts DEF RestoreOK
<1>2. item[j.new].prior \in M!States
  BY <1>1 DEF Indexed, TreeOK, Item
<1>3. j.to \in M!States /\ j.to # "Retired"
  BY <1>2 DEF RestoreOK, M!UnarchiveTarget, M!States
<1>4. IsProject(j.new) =>
        /\ j.new = j.id
        /\ \A i \in Subtree(j.id) : i # j.new => item[i].state # "Retired"
  BY <1>1, SubtreeFacts DEF RestoreOK
<1>5. IsProject(j.new) => \A k \in kids[j.new] : item[k].state # "Retired"
  <2> SUFFICES ASSUME IsProject(j.new), NEW k \in kids[j.new] PROVE item[k].state # "Retired"
    OBVIOUS
  <2>1. k \in Subtree(j.id) /\ ~IsProject(k)
    <3>1. k \in Siblings(j.new)
      BY <1>1, SubtreeFacts
    <3>2. item[k].parent = j.new /\ j.new \in 1 .. nextId - 1 /\ nextId \in 1 .. MaxId + 1
      BY <1>1, <3>1 DEF Siblings, Indexed, TreeOK
    <3> QED
      BY <1>4, <3>2, BoundsAssumption DEF Subtree, IsProject, NoId
  <2> QED
    BY <1>4, <2>1
<1>6. ~Can(j.new, j.to) => Hollow(j.new)
  BY <1>1, <1>5, CanRestore DEF RestoreOK
<1> QED
  BY <1>1, <1>3, <1>4, <1>6 DEF Hollow

LEMMA RestoreSteps ==
  ASSUME TreeInv, NEW w \in Workers, ScopeOK(job[w]),
         Look(w) \/ Restore(w) \/ \E i \in Ids : Unarchive(w, i)
  PROVE  \E q : job' = [job EXCEPT ![w] = q] /\ ScopeOK(q)'
<1>0. PICK j \in Job : j = job[w]
  BY ThreadFacts
<1>1. Indexed /\ RestoreOK(j)
  BY <1>0 DEF TreeInv, ScopeOK
<1>2. Idle.pc \notin Scoped
  BY DEF Idle, Scoped
<1>3. CASE \E i \in Ids : Unarchive(w, i)
  <2>1. PICK i \in Ids : Unarchive(w, i)
    BY <1>3
  <2>2. PICK s : s = Subtree(i)
    OBVIOUS
  <2> DEFINE q == [Start("unarchive", "look", i) EXCEPT !.stack = s]
  <2>3. job' = [job EXCEPT ![w] = q] /\ Same /\ i \in Live
    BY <2>1, <2>2 DEF Unarchive, Go
  <2>4. q.pc = "look" /\ q.id = i /\ q.stack = s
    BY DEF Start, Idle
  <2> HIDE DEF q
  <2>5. ScopeOK(q)
    BY <2>2, <2>3, <2>4 DEF ScopeOK, CutOK, RestoreOK, EpicsOK
  <2> QED
    BY <2>3, <2>5, SameScope
<1>4. CASE Look(w)
  <2>0. j.pc = "look" /\ Same
    BY <1>0, <1>4 DEF Look, At
  <2>1. CASE j.stack = {}
    <3>1. job' = [job EXCEPT ![w] = Idle]
      BY <1>0, <1>4, <2>1 DEF Look, Go
    <3>2. ScopeOK(Idle)
      BY <1>2, OffScope
    <3> HIDE DEF Idle
    <3> QED
      BY <2>0, <3>1, <3>2, SameScope
  <2>2. CASE j.stack # {}
    <3>1. PICK i : i = Deepest(j.stack, j.id)
      OBVIOUS
    <3>2. i \in j.stack /\ (i = j.id => j.stack = {i})
      <4>1. CASE j.stack = {j.id}
        BY <3>1, <4>1 DEF Deepest
      <4>2. CASE j.stack # {j.id}
        <5> DEFINE rest == j.stack \ {j.id}
        <5>1. rest # {} /\ rest \in SUBSET Nat
          BY <2>2, <4>2, BoundsAssumption DEF Job, Ids
        <5> HIDE DEF rest
        <5>2. \E k \in rest : \A h \in rest : k <= h
          BY <5>1, LowestOf
        <5>3. i \in rest
          BY <3>1, <4>2, <5>2 DEF Deepest, rest
        <5> QED
          BY <5>3 DEF rest
      <4> QED
        BY <4>1, <4>2
    <3>3. PICK s, to : /\ s = j.stack \ {i}
                       /\ to = M!UnarchiveTarget(item[i].prior, kids[i] # {}, ~IsProject(i))
      OBVIOUS
    <3>4. CASE i \in Live /\ item[i].state = "Retired"
      <4> DEFINE q == [j EXCEPT !.pc = "restore", !.new = i, !.to = to, !.stack = s]
      <4>1. job' = [job EXCEPT ![w] = q]
        BY <1>0, <1>4, <2>2, <3>1, <3>3, <3>4 DEF Look, Go
      <4>2. q.pc = "restore" /\ q.id = j.id /\ q.new = i /\ q.stack = s /\ q.to = to
        BY DEF Job
      <4> HIDE DEF q
      <4>3. RestoreOK(q)
        BY <1>1, <2>0, <3>2, <3>3, <3>4, <4>2 DEF RestoreOK
      <4>4. ScopeOK(q)
        BY <4>2, <4>3 DEF ScopeOK, CutOK, EpicsOK
      <4> QED
        BY <2>0, <4>1, <4>4, SameScope
    <3>5. CASE ~(i \in Live /\ item[i].state = "Retired")
      <4> DEFINE q == [j EXCEPT !.stack = s]
      <4>1. job' = [job EXCEPT ![w] = q]
        BY <1>0, <1>4, <2>2, <3>1, <3>3, <3>5 DEF Look, Go
      <4>2. q.pc = "look" /\ q.id = j.id /\ q.stack = s
        BY <2>0 DEF Job
      <4> HIDE DEF q
      <4>3. item[i].state # "Retired"
        BY <1>1, <2>0, <3>2, <3>5, SubtreeFacts DEF RestoreOK
      <4>4. RestoreOK(q)
        BY <1>1, <2>0, <3>3, <4>2, <4>3 DEF RestoreOK
      <4>5. ScopeOK(q)
        BY <4>2, <4>4 DEF ScopeOK, CutOK, EpicsOK
      <4> QED
        BY <2>0, <4>1, <4>5, SameScope
    <3> QED
      BY <3>4, <3>5
  <2> QED
    BY <2>1, <2>2
<1>5. CASE Restore(w)
  <2>0. j.pc = "restore"
    BY <1>0, <1>5 DEF Restore, At
  <2>1. CASE Can(j.new, j.to)
    <3> DEFINE q == [j EXCEPT !.pc = "look"]
    <3>1. job' = [job EXCEPT ![w] = q] /\ Move(j.new, j.to)
      BY <1>0, <1>5, <2>1 DEF Restore, Next_, Go
    <3>2. q.pc = "look" /\ q.id = j.id /\ q.stack = j.stack
      BY DEF Job
    <3> HIDE DEF q
    <3>3. /\ j.new \in Live /\ j.to \in M!States /\ j.to # "Retired"
          /\ Subtree(j.id) \subseteq Live
      BY <1>1, <2>0, RestoreFacts
    <3>4. /\ Live' = Live /\ kids' = kids /\ item'[j.new].state = j.to
          /\ \A k \in Live : k # j.new => item'[k] = item[k]
      BY <1>1, <3>1, <3>3, MoveFacts
    <3>5. \A k : Subtree(k)' = Subtree(k)
      BY <3>4 DEF Subtree
    <3>6. RestoreOK(q)'
      BY <1>1, <2>0, <3>2, <3>3, <3>4, <3>5 DEF RestoreOK
    <3>7. ScopeOK(q)'
      BY <3>2, <3>6 DEF ScopeOK, CutOK, EpicsOK
    <3> QED
      BY <3>1, <3>7
  <2>2. CASE ~Can(j.new, j.to)
    <3>1. job' = [job EXCEPT ![w] = Idle] /\ Same
      BY <1>0, <1>5, <2>2 DEF Restore, End, Go
    <3>2. ScopeOK(Idle)
      BY <1>2, OffScope
    <3> HIDE DEF Idle
    <3> QED
      BY <3>1, <3>2, SameScope
  <2> QED
    BY <2>1, <2>2
<1> QED
  BY <1>3, <1>4, <1>5

-------------------------------------------------------------------------------
(* heal_completed_epics, section by section. *)

(* A Project that moves does not show among anybody's siblings' ends. *)
LEMMA ProjectMoves ==
  ASSUME Indexed, NEW p \in Live, IsProject(p), NEW to \in M!States, Move(p, to)
  PROVE  /\ \A i \in Live : i # p /\ OpenProject(i) => OpenProject(i)'
         /\ to \notin M!Terminal => OpenProject(p)'
         /\ Siblings(p)' = Siblings(p) /\ \A k \in Siblings(p) : item'[k].state = item[k].state
<1>1. /\ Live' = Live /\ item'[p].state = to /\ item'[p].parent = item[p].parent
      /\ \A k \in Live : k # p => item'[k] = item[k]
  BY MoveFacts
<1>2. p # NoId /\ p \notin Siblings(p)
  BY TreeFacts, BoundsAssumption DEF Indexed, IsProject, Siblings, NoId, Ids
<1> QED
  BY <1>1, <1>2 DEF OpenProject, IsProject, Siblings

LEMMA EpicsSteps ==
  ASSUME TreeInv, NEW w \in Workers, ScopeOK(job[w]),
         Epics(w) \/ Judge(w) \/ Open(w) \/ Close(w)
  PROVE  \E q : job' = [job EXCEPT ![w] = q] /\ ScopeOK(q)'
<1>0. PICK j \in Job : j = job[w]
  BY ThreadFacts
<1>1. Indexed /\ EpicsOK(j)
  BY <1>0 DEF TreeInv, ScopeOK
<1>2. {"Shaping", "Done"} \subseteq M!States /\ "Shaping" \notin M!Terminal
  BY DEF M!States, M!Terminal
<1>3. CASE Epics(w)
  <2>1. PICK s, n : /\ s = {i \in Live : IsProject(i) /\ item[i].state \notin M!Terminal}
                    /\ n = {i \in s : item[i].state = "Draft"}
    OBVIOUS
  <2> DEFINE q == [Start("epics", "judge", NoId) EXCEPT !.stack = s, !.needs = n]
  <2>2. job' = [job EXCEPT ![w] = q] /\ Same
    BY <1>3, <2>1 DEF Epics, Go
  <2>3. q.pc = "judge" /\ q.stack = s
    BY DEF Start, Idle
  <2> HIDE DEF q
  <2>4. ScopeOK(q)
    BY <2>1, <2>3 DEF ScopeOK, CutOK, RestoreOK, EpicsOK, OpenProject
  <2> QED
    BY <2>2, <2>4, SameScope
<1>4. CASE Judge(w)
  <2>0. j.pc = "judge" /\ Same
    BY <1>0, <1>4 DEF Judge, At
  <2>1. CASE j.stack = {}
    <3>1. job' = [job EXCEPT ![w] = Idle]
      BY <1>0, <1>4, <2>1 DEF Judge, Go
    <3>2. Idle.pc \notin Scoped
      BY DEF Idle, Scoped
    <3>3. ScopeOK(Idle)
      BY <3>2, OffScope
    <3> HIDE DEF Idle
    <3> QED
      BY <2>0, <3>1, <3>3, SameScope
  <2>2. CASE j.stack # {}
    <3>1. PICK i : i = CHOOSE k \in j.stack : \A h \in j.stack : k <= h
      OBVIOUS
    <3>2. i \in j.stack
      <4>1. j.stack \in SUBSET Nat
        BY BoundsAssumption DEF Job, Ids
      <4>2. \E k \in j.stack : \A h \in j.stack : k <= h
        BY <2>2, <4>1, LowestOf
      <4> QED
        BY <3>1, <4>2
    <3>3. PICK s : s = j.stack \ {i}
      OBVIOUS
    <3>4. CASE Finished(i)
      <4> DEFINE q == [j EXCEPT !.pc = "open", !.new = i, !.stack = s]
      <4>1. job' = [job EXCEPT ![w] = q]
        BY <1>0, <1>4, <2>2, <3>1, <3>3, <3>4 DEF Judge, Go
      <4>2. q.pc = "open" /\ q.new = i /\ q.stack = s
        BY DEF Job
      <4> HIDE DEF q
      <4>3. EpicsOK(q)
        BY <1>1, <2>0, <3>2, <3>3, <3>4, <4>2 DEF EpicsOK, Finished
      <4>4. ScopeOK(q)
        BY <4>2, <4>3 DEF ScopeOK, CutOK, RestoreOK
      <4> QED
        BY <2>0, <4>1, <4>4, SameScope
    <3>5. CASE ~Finished(i)
      <4> DEFINE q == [j EXCEPT !.stack = s]
      <4>1. job' = [job EXCEPT ![w] = q]
        BY <1>0, <1>4, <2>2, <3>1, <3>3, <3>5 DEF Judge, Go
      <4>2. q.pc = "judge" /\ q.stack = s
        BY <2>0 DEF Job
      <4> HIDE DEF q
      <4>3. EpicsOK(q)
        BY <1>1, <2>0, <3>3, <4>2 DEF EpicsOK
      <4>4. ScopeOK(q)
        BY <4>2, <4>3 DEF ScopeOK, CutOK, RestoreOK
      <4> QED
        BY <2>0, <4>1, <4>4, SameScope
    <3> QED
      BY <3>4, <3>5
  <2> QED
    BY <2>1, <2>2
<1>5. CASE Open(w)
  <2> DEFINE q == [j EXCEPT !.pc = "close"]
  <2>0. j.pc = "open" /\ job' = [job EXCEPT ![w] = q]
    BY <1>0, <1>5 DEF Open, At, Next_, Go
  <2>1. q.pc = "close" /\ q.new = j.new /\ q.stack = j.stack
    BY DEF Job
  <2> HIDE DEF q
  <2>2. /\ OpenProject(j.new) /\ j.new \notin j.stack /\ \A p \in j.stack : OpenProject(p)
        /\ \A k \in Siblings(j.new) : item[k].state \in M!Terminal
    BY <1>1, <2>0 DEF EpicsOK
  <2>3. CASE Same
    <3>1. ScopeOK(q)
      BY <2>1, <2>2 DEF ScopeOK, CutOK, RestoreOK, EpicsOK
    <3> QED
      BY <2>0, <2>3, <3>1, SameScope
  <2>4. CASE Move(j.new, "Shaping")
    <3>1. /\ \A p \in j.stack : OpenProject(p)'
          /\ OpenProject(j.new)' /\ Siblings(j.new)' = Siblings(j.new)
          /\ \A k \in Siblings(j.new) : item'[k].state = item[k].state
      BY <1>1, <1>2, <2>2, <2>4, ProjectMoves DEF OpenProject
    <3>2. EpicsOK(q)'
      BY <2>1, <2>2, <3>1 DEF EpicsOK, M!Terminal
    <3>3. ScopeOK(q)'
      BY <2>1, <3>2 DEF ScopeOK, CutOK, RestoreOK
    <3> QED
      BY <2>0, <3>3
  <2> QED
    BY <1>0, <1>5, <2>3, <2>4 DEF Open
<1>6. CASE Close(w)
  <2> DEFINE q == [j EXCEPT !.pc = "judge"]
  <2>0. j.pc = "close" /\ job' = [job EXCEPT ![w] = q]
    BY <1>0, <1>6 DEF Close, At, Next_, Go
  <2>1. q.pc = "judge" /\ q.stack = j.stack
    BY DEF Job
  <2> HIDE DEF q
  <2>2. OpenProject(j.new) /\ j.new \notin j.stack /\ \A p \in j.stack : OpenProject(p)
    BY <1>1, <2>0 DEF EpicsOK
  <2>3. CASE Same
    <3>1. ScopeOK(q)
      BY <2>1, <2>2 DEF ScopeOK, CutOK, RestoreOK, EpicsOK
    <3> QED
      BY <2>0, <2>3, <3>1, SameScope
  <2>4. CASE Move(j.new, "Done")
    <3>1. \A p \in j.stack : OpenProject(p)'
      BY <1>1, <1>2, <2>2, <2>4, ProjectMoves DEF OpenProject
    <3>2. EpicsOK(q)'
      BY <2>1, <3>1 DEF EpicsOK
    <3>3. ScopeOK(q)'
      BY <2>1, <3>2 DEF ScopeOK, CutOK, RestoreOK
    <3> QED
      BY <2>0, <3>3
  <2> QED
    BY <1>0, <1>6, <2>3, <2>4 DEF Close
<1> QED
  BY <1>3, <1>4, <1>5, <1>6

-------------------------------------------------------------------------------
LEMMA ScopeStep ==
  ASSUME TreeInv, ScopeInv, [Next]_vars
  PROVE  ScopeInv'
<1> SUFFICES ASSUME ~mix.overlap PROVE ScopeInv'
  BY MixStays DEF ScopeInv
<1>0. \A w \in Workers : ScopeOK(job[w])
  BY DEF ScopeInv
<1>1. CASE UNCHANGED vars
  <2>1. Same /\ job' = job
    BY <1>1 DEF vars, Same
  <2>2. \A w \in Workers : ScopeOK(job[w])'
    <3> TAKE w \in Workers
    <3>1. PICK j : j = job[w]
      OBVIOUS
    <3>2. ScopeOK(j)'
      BY <1>0, <2>1, <3>1, SameScope
    <3> QED
      BY <2>1, <3>1, <3>2 DEF ScopeOK, CutOK, RestoreOK, EpicsOK
  <2> QED
    BY <2>2 DEF ScopeInv
<1>2. ASSUME NEW w \in Workers, Starts(w) \/ Goes(w) PROVE ScopeInv'
  <2>1. OthersRest(w) /\ (OtherGoes(w) \/ OtherStarts(w) \/ Walks(w) \/ WalkStarts(w))
    BY <1>2, TurnsApart
  <2>2. \E q : job' = [job EXCEPT ![w] = q] /\ ScopeOK(q)'
    <3>1. CASE OtherGoes(w) \/ OtherStarts(w)
      BY <3>1, OtherOff, OffScope DEF StaysOff
    <3>2. CASE Walks(w) \/ WalkStarts(w)
      BY <1>0, <3>2, CutSteps, RestoreSteps, EpicsSteps DEF Walks, WalkStarts
    <3> QED
      BY <2>1, <3>1, <3>2
  <2> QED
    BY <2>1, <2>2, ScopeTurn
<1>3. CASE \A w \in Workers : At(w, "idle")'
  BY <1>3 DEF At, ScopeInv, ScopeOK, CutOK, RestoreOK, EpicsOK
<1>4. CASE \E i \in Ids : Claim(i) \/ Report(i) \/ Delete(i)
  <2>1. NoneHalfway /\ job' = job
    BY <1>4 DEF Claim, Report, Delete, AtOnce
  <2> QED
    BY <1>3, <2>1 DEF NoneHalfway, At
<1>5. CASE Crash
  BY <1>3, <1>5, IdleFacts DEF Crash, At
<1> QED
  BY <1>1, <1>2, <1>4, <1>5 DEF Next

LEMMA ScopeInit ==
  ASSUME Init
  PROVE  ScopeInv
<1>1. \A w \in Workers : job[w] = Idle
  BY DEF Init
<1>2. Idle.pc \notin Scoped
  BY DEF Idle, Scoped
<1> QED
  BY <1>1, <1>2, OffScope DEF ScopeInv

LEMMA ScopeHolds == Spec => [](TreeInv /\ ScopeInv)
<1>1. Init => TreeInv /\ ScopeInv
  BY TreeInit, ScopeInit
<1>2. TreeInv /\ ScopeInv /\ [Next]_vars => (TreeInv /\ ScopeInv)'
  BY TreeStep, ScopeStep
<1> QED
  BY <1>1, <1>2, PTL DEF Spec

(* A scope that is cut or restored while no other verb runs is cut or restored *)
(* to the last Task, but for the Project that has nothing to come back to.     *)
THEOREM ScopesMove == Spec => ScopeMovesWhole
<1> DEFINE Apply(w) ==
      ~mix.overlap /\ job'[w].pc = "idle" /\ crashes' = crashes =>
        /\ (job[w].pc = "walk" /\ job[w].id \in Live) =>
             \A i \in Subtree(job[w].id) : item[i].state = "Retired"
        /\ (job[w].pc \in {"look", "restore"} /\ job[w].id \in Live) =>
             \A i \in Subtree(job[w].id) : item[i].state = "Retired" => Hollow(i)
<1>1. ASSUME TreeInv, ScopeInv, Next, NEW w \in Workers, ~mix.overlap,
             job[w].pc \in {"walk", "look", "restore"}, job'[w].pc = "idle", crashes' = crashes
      PROVE  /\ job[w].pc = "walk" => Walk(w) /\ job[w].stack = {}
             /\ job[w].pc = "look" => Look(w) /\ job[w].stack = {}
             /\ job[w].pc = "restore" => Restore(w) /\ ~Can(job[w].new, job[w].to)
  <2>0. PICK j \in Job : j = job[w]
    BY <1>1, ThreadFacts
  <2>1. PICK v \in Workers : Starts(v) \/ Goes(v)
    <3>1. ~Crash
      <4>1. crashes \in Int
        BY <1>1, MixesAssumption DEF TreeInv, ThreadsOK, Mix
      <4> QED
        BY <1>1, <4>1 DEF Crash
    <3>2. ~\E i \in Ids : Claim(i) \/ Report(i) \/ Delete(i)
      BY <1>1 DEF Claim, Report, Delete, AtOnce
    <3> QED
      BY <1>1, <3>1, <3>2 DEF Next
  <2>2. v = w
    BY <1>1, <2>1, TurnsApart DEF OthersRest, At
  <2>3. Walk(w) \/ Look(w) \/ Restore(w)
    <3>1. ~Starts(w)
      BY <1>1 DEF Starts, NewProject, Epics, InitPlan, Finish, Heal, Changes, Cut, Unarchive,
                  NewTask, Propose, Split, Free, At
    <3> QED
      BY <1>1, <2>1, <2>2, <3>1
      DEF Goes, Seed, CheckParent, Create, Shape, Ready, Commit, WireTask, SetProposal, Review,
          ReadProposal, Load, Match, NextRow, WireRow, Stamp, DropProposal, Bounce, Retire,
          Judge, Open, Close, At
  <2>4. \A q : job' = [job EXCEPT ![w] = q] => q.pc = "idle"
    BY <1>1 DEF TreeInv, ThreadsOK
  <2>5. CASE Walk(w)
    <3>1. \A i, s : [j EXCEPT !.pc = "retire", !.new = i, !.stack = s].pc = "retire"
      BY DEF Job
    <3>2. j.stack = {}
      BY <2>0, <2>4, <2>5, <3>1 DEF Walk, Go
    <3> QED
      BY <2>0, <2>5, <3>2 DEF Walk, At
  <2>6. CASE Look(w)
    <3>1. \A i, s, to :
            /\ [j EXCEPT !.pc = "restore", !.new = i, !.to = to, !.stack = s].pc = "restore"
            /\ [j EXCEPT !.stack = s].pc = j.pc
      BY DEF Job
    <3>2. j.pc = "look"
      BY <2>0, <2>6 DEF Look, At
    <3>3. j.stack = {}
      BY <2>0, <2>4, <2>6, <3>1, <3>2 DEF Look, Go
    <3> QED
      BY <2>0, <2>6, <3>2, <3>3
  <2>7. CASE Restore(w)
    <3>1. [j EXCEPT !.pc = "look"].pc = "look"
      BY DEF Job
    <3>2. ~Can(j.new, j.to)
      BY <2>0, <2>4, <2>7, <3>1 DEF Restore, Next_, Go
    <3> QED
      BY <2>0, <2>7, <3>2 DEF Restore, At
  <2> QED
    BY <2>3, <2>5, <2>6, <2>7
<1>2. TreeInv /\ ScopeInv /\ [Next]_vars => [\A w \in Workers : Apply(w)]_vars
  <2> SUFFICES ASSUME TreeInv, ScopeInv, Next, NEW w \in Workers PROVE Apply(w)
    OBVIOUS
  <2> SUFFICES ASSUME ~mix.overlap, job'[w].pc = "idle", crashes' = crashes,
                      job[w].pc \in {"walk", "look", "restore"}
               PROVE  Apply(w)
    OBVIOUS
  <2>0. PICK j \in Job : j = job[w]
    BY ThreadFacts
  <2>1. Indexed /\ CutOK(j) /\ RestoreOK(j)
    BY <2>0 DEF TreeInv, ScopeInv, ScopeOK
  <2>2. /\ j.pc = "walk" => j.stack = {}
        /\ j.pc = "look" => j.stack = {}
        /\ j.pc = "restore" => ~Can(j.new, j.to)
    BY <1>1, <2>0
  <2>3. j.pc = "walk" => \A i \in Subtree(j.id) : item[i].state = "Retired"
    BY <2>1, <2>2 DEF CutOK
  <2>4. j.pc = "look" => \A i \in Subtree(j.id) : item[i].state # "Retired"
    BY <2>1, <2>2 DEF RestoreOK
  <2>5. j.pc = "restore" => \A i \in Subtree(j.id) : item[i].state = "Retired" => Hollow(i)
    BY <2>1, <2>2, RestoreFacts
  <2> QED
    BY <2>0, <2>3, <2>4, <2>5
<1> QED
  BY <1>2, ScopeHolds, PTL DEF Spec, ScopeMovesWhole

(* A Project is closed only when all in it is over, and never out of the        *)
(* archive, while heal_completed_epics has the Board to itself.                 *)
THEOREM EpicsClose == Spec => ClosedWhenOver
<1>1. ASSUME TreeInv, ScopeInv, NEW w \in Workers, ~mix.overlap, job[w].pc = "close"
      PROVE  /\ item[job[w].new].state # "Retired"
             /\ \A k \in Siblings(job[w].new) : item[k].state \in M!Terminal
  BY <1>1 DEF ScopeInv, ScopeOK, EpicsOK, OpenProject, M!Terminal
<1>2. TreeInv /\ ScopeInv /\ [Next]_vars =>
        [\A w \in Workers :
           LET p == job[w].new IN
           ~mix.overlap /\ job[w].pc = "close" /\ item' # item =>
             item[p].state # "Retired" /\ \A k \in Siblings(p) : item[k].state \in M!Terminal]_vars
  BY <1>1
<1> QED
  BY <1>2, ScopeHolds, PTL DEF Spec, ClosedWhenOver

-------------------------------------------------------------------------------
(* No approved proposal is forgotten.  While nothing is undone, a card that is *)
(* Done and still waits for its Tasks has a thread in hand that has not come   *)
(* to its end: the one that moved it to Done, or the one that brings it a      *)
(* split and moves it out of Done next.  That thread cannot turn back, for     *)
(* each thing it asks of the tree (the card, its Project, the Task it has just *)
(* made) stays as it found it, whatever the other threads do.                  *)

NothingUndone ==
  mix.crashes = 0 /\ mix.verbs \cap {"cut", "unarchive", "delete", "changes"} = {}

Container(p) == p \in Live /\ IsProject(p)
Card(i) == i \in Live /\ ~IsProject(i)

(* Every card is in a Project, and Projects have no proposals. *)
Flat ==
  \A i \in Live : IF IsProject(i) THEN ~IsInitial(i) /\ item[i].proposal = None
                  ELSE Container(item[i].parent)

Shapes(j) == j.pc \in {"shape", "ready"}
RowPcs == {"match", "next", "check", "insert", "shape", "ready"}

(* What a thread has in hand is what its next sections ask for. *)
Grips(j) ==
  /\ j.pc \notin {"drop", "bounce"}
  /\ j.pc = "insert" => Container(j.proj)
  /\ j.pc \in {"set", "review"} =>
       Card(j.id) /\ (j.verb = "plan" <=> IsInitial(j.id)) /\ (j.verb = "plan" <=> j.verb # "split")
  /\ j.pc = "review" => j.verb = "split"
  /\ Plant(j) => Container(j.id)
  /\ j.pc = "judge" => \A i \in j.stack : Container(i)
  /\ j.pc \in {"open", "close"} => Container(j.new) /\ \A i \in j.stack : Container(i)
  /\ Forms(j) => Card(j.id)
  /\ Forms(j) /\ j.pc \in RowPcs => Container(j.proj)
  /\ Shapes(j) => Card(j.new)
  /\ Shapes(j) /\ Forms(j) => item[j.new].from = j.id
  /\ j.pc = "shape" => item[j.new].state = "Draft"
  /\ j.pc = "ready" => item[j.new].state = "Shaping" \/ approved[j.new] > 0

(* The thread of an approved Initial plan: the rows behind it have their id.   *)
Keyed(j) ==
  j.pc # "idle" /\ j.verb = "done" /\ IsInitial(j.id) =>
    /\ item[j.id].state = "Done"
    /\ j.pc \notin {"read", "load"} => j.specs = item[j.id].proposal
    /\ j.pc \in RowPcs \ {"match"} =>
         \A k \in KeysOf(j.specs) : j.keys[k] # NoId \/ k \in KeysOf(j.todo)
    /\ j.pc \in {"wire", "stamp"} => \A k \in KeysOf(j.specs) : j.keys[k] # NoId

InHand(j, c) ==
  /\ j.id = c
  /\ (j.verb = "done" /\ j.pc # "idle") \/ (j.verb = "split" /\ j.pc = "review")

WaitInv ==
  /\ Flat
  /\ \A w \in Workers : Grips(job[w]) /\ Keyed(job[w])
  /\ \A w, v \in Workers : w # v /\ Shapes(job[w]) /\ Shapes(job[v]) => job[w].new # job[v].new
  /\ \A c \in Live : Waits(c) => \E w \in Workers : InHand(job[w], c)

-------------------------------------------------------------------------------
(* What the others rely on: a step leaves it alone, but for the item `own`. *)
Steady(own) ==
  /\ Live \subseteq Live'
  /\ \A i \in Live :
       /\ SameOrigin(item'[i], item[i]) /\ approved[i] <= approved'[i]
       /\ IsProject(i) => item'[i].proposal = item[i].proposal
       /\ IsInitial(i) /\ item[i].state = "Done" =>
            item'[i].state = "Done" /\ item'[i].proposal = item[i].proposal
       /\ ~IsProject(i) /\ i # own /\ item[i].state \in {"Draft", "Shaping"} =>
            item'[i].state = item[i].state \/ (item[i].state = "Shaping" /\ approved'[i] > 0)

LEMMA SteadyFacts ==
  ASSUME NEW own, Steady(own)
  PROVE  /\ \A i : Container(i) => Container(i)'
         /\ \A i : Card(i) => Card(i)'
         /\ \A i \in Live : /\ i \in Live' /\ (IsInitial(i)' <=> IsInitial(i))
                            /\ item'[i].from = item[i].from
  BY DEF Steady, SameOrigin, Container, Card, IsProject, IsInitial

LEMMA ApprovedType ==
  ASSUME TreeInv, TreeInv', NEW i \in Live
  PROVE  approved[i] \in Nat /\ approved'[i] \in Nat /\ i \in Ids /\ i # NoId
<1>1. i \in Ids /\ i # NoId
  BY TreeFacts DEF TreeInv, Indexed, Ids, NoId
<1> QED
  BY <1>1 DEF TreeInv, ThreadsOK

LEMMA GripStays ==
  ASSUME TreeInv, TreeInv', NEW own, Steady(own), NEW j, Grips(j), Shapes(j) => j.new # own
  PROVE  Grips(j)'
<1>1. /\ \A i : (Container(i) => Container(i)') /\ (Card(i) => Card(i)')
      /\ \A i \in Live : i \in Live' /\ (IsInitial(i)' <=> IsInitial(i)) /\ item'[i].from = item[i].from
  BY SteadyFacts
<1>2. \A i : Container(i) \/ Card(i) => i \in Live
  BY DEF Container, Card
<1>3. Shapes(j) => j.new \in Live /\ ~IsProject(j.new) /\ j.new # own
  BY DEF Grips, Card
<1>4. j.pc = "shape" => item'[j.new].state = "Draft"
  BY <1>3 DEF Grips, Steady, Shapes
<1>5. j.pc = "ready" => item'[j.new].state = "Shaping" \/ approved'[j.new] > 0
  <2> SUFFICES ASSUME j.pc = "ready" PROVE item'[j.new].state = "Shaping" \/ approved'[j.new] > 0
    OBVIOUS
  <2>1. j.new \in Live /\ ~IsProject(j.new) /\ j.new # own
    BY <1>3 DEF Shapes
  <2>2. item[j.new].state = "Shaping" \/ approved[j.new] > 0
    BY DEF Grips
  <2>3. approved[j.new] \in Nat /\ approved'[j.new] \in Nat
    BY <2>1, ApprovedType
  <2> QED
    BY <2>1, <2>2, <2>3 DEF Steady
<1>6. Shapes(j) /\ Forms(j) => item'[j.new].from = j.id
  BY <1>1, <1>3 DEF Grips
<1> QED
  BY <1>1, <1>2, <1>4, <1>5, <1>6 DEF Grips, Plant, Forms, Shapes

LEMMA KeyedStays ==
  ASSUME NEW own, Steady(own), NEW j, Grips(j), Keyed(j)
  PROVE  Keyed(j)'
<1>1. CASE j.pc # "idle" /\ j.verb = "done"
  <2>1. j.id \in Live
    BY <1>1 DEF Grips, Forms, Card
  <2>2. IsInitial(j.id)' <=> IsInitial(j.id)
    BY <2>1, SteadyFacts
  <2>3. IsInitial(j.id) => item'[j.id].state = "Done" /\ item'[j.id].proposal = item[j.id].proposal
    BY <1>1, <2>1 DEF Keyed, Steady
  <2> QED
    BY <2>2, <2>3 DEF Keyed
<1>2. CASE ~(j.pc # "idle" /\ j.verb = "done")
  BY <1>2 DEF Keyed
<1> QED
  BY <1>1, <1>2

(* A thread takes a step, and each card that waits afterwards is in its hand  *)
(* then, or waited before and was not in its hand.                            *)
LEMMA WaitTurn ==
  ASSUME TreeInv, TreeInv', WaitInv, NEW w \in Workers, NEW q, job' = [job EXCEPT ![w] = q],
         NEW own, Steady(own), own = NoId \/ (Shapes(job[w]) /\ job[w].new = own),
         Flat', Grips(q)', Keyed(q)',
         Shapes(q) => q.new \notin Live \/ (Shapes(job[w]) /\ q.new = job[w].new),
         \A c \in Live' : Waits(c)' => InHand(q, c) \/ (c \in Live /\ Waits(c) /\ ~InHand(job[w], c))
  PROVE  WaitInv'
<1>1. job'[w] = q /\ \A v \in Workers : v # w => job'[v] = job[v]
  BY DEF TreeInv, ThreadsOK
<1>2. \A v \in Workers : Shapes(job[v]) => job[v].new \in Live
  BY DEF WaitInv, Grips, Card
<1>3. \A v \in Workers : v # w /\ Shapes(job[v]) => job[v].new # own
  BY <1>2, ApprovedType DEF WaitInv
<1>4. ASSUME NEW v \in Workers, v # w
      PROVE  Grips(job[v])' /\ Keyed(job[v])'
  <2>1. PICK j : j = job[v]
    OBVIOUS
  <2>2. Grips(j) /\ Keyed(j) /\ (Shapes(j) => j.new # own)
    BY <1>3, <1>4, <2>1 DEF WaitInv
  <2>3. Grips(j)' /\ Keyed(j)'
    BY <2>2, GripStays, KeyedStays
  <2>4. j = job'[v]
    BY <1>1, <1>4, <2>1
  <2> QED
    BY <2>3, <2>4 DEF Grips, Keyed, Plant, Forms, Shapes
<1>5. Grips(job[w])' /\ Keyed(job[w])'
  BY <1>1 DEF Grips, Keyed, Plant, Forms, Shapes
<1>6. \A u, v \in Workers : u # v /\ Shapes(job[u])' /\ Shapes(job[v])' => job'[u].new # job'[v].new
  <2>1. \A v \in Workers : v # w => (Shapes(job[v])' <=> Shapes(job[v])) /\ job'[v].new = job[v].new
    BY <1>1 DEF Shapes
  <2>2. Shapes(job[w])' <=> Shapes(q)
    BY <1>1 DEF Shapes
  <2>3. \A v \in Workers : v # w /\ Shapes(q) /\ Shapes(job[v]) => job[v].new # q.new
    BY <1>2 DEF WaitInv
  <2> QED
    BY <1>1, <2>1, <2>2, <2>3 DEF WaitInv
<1>7. ASSUME NEW c \in Live', Waits(c)'
      PROVE  \E v \in Workers : InHand(job[v], c)'
  <2>1. CASE InHand(q, c)
    BY <1>1, <2>1 DEF InHand
  <2>2. CASE c \in Live /\ Waits(c) /\ ~InHand(job[w], c)
    <3>1. PICK v \in Workers : InHand(job[v], c)
      BY <2>2 DEF WaitInv
    <3>2. v # w
      BY <2>2, <3>1
    <3> QED
      BY <1>1, <3>1, <3>2 DEF InHand
  <2> QED
    BY <1>7, <2>1, <2>2
<1> QED
  BY <1>4, <1>5, <1>6, <1>7 DEF WaitInv

(* Claims and reports: no thread is at it. *)
LEMMA WaitRests ==
  ASSUME TreeInv, TreeInv', WaitInv, job' = job, Steady(NoId), Flat',
         \A c \in Live' : Waits(c)' => c \in Live /\ Waits(c)
  PROVE  WaitInv'
<1>1. \A v \in Workers : Shapes(job[v]) => job[v].new # NoId
  BY ApprovedType DEF WaitInv, Grips, Card
<1>2. ASSUME NEW v \in Workers
      PROVE  Grips(job[v])' /\ Keyed(job[v])'
  <2>1. PICK j : j = job[v]
    OBVIOUS
  <2>2. Grips(j) /\ Keyed(j) /\ (Shapes(j) => j.new # NoId)
    BY <1>1, <2>1 DEF WaitInv
  <2>3. Grips(j)' /\ Keyed(j)'
    BY <2>2, GripStays, KeyedStays
  <2>4. j = job'[v]
    BY <2>1
  <2> QED
    BY <2>3, <2>4 DEF Grips, Keyed, Plant, Forms, Shapes
<1> QED
  BY <1>2 DEF WaitInv, Shapes, InHand

-------------------------------------------------------------------------------
(* What the steps do to the tree. *)
LEMMA WaitsBack ==
  ASSUME TreeInv, TreeInv', NEW own, Steady(own), NEW c \in Live, Waits(c)',
         item[c].state = "Done", item[c].proposal # None, ~Linked(c)
  PROVE  Waits(c)
<1>1. ASSUME NEW i \in Live, item[i].from = c
      PROVE  approved[i] = 0
  <2>1. i \in Live' /\ item'[i].from = c
    BY <1>1, SteadyFacts
  <2>2. approved'[i] = 0
    BY <2>1 DEF Waits
  <2>3. approved[i] \in Nat /\ approved[i] <= approved'[i]
    BY ApprovedType DEF Steady
  <2> QED
    BY <2>2, <2>3
<1> QED
  BY <1>1 DEF Waits

LEMMA SameTurn ==
  ASSUME TreeInv, TreeInv', WaitInv, NEW w \in Workers, NEW q, Go(w, q), Same,
         Grips(q), Keyed(q), Shapes(q) => Shapes(job[w]) /\ q.new = job[w].new,
         \A c \in Live : Waits(c) /\ InHand(job[w], c) => InHand(q, c)
  PROVE  WaitInv'
<1>1. item' = item /\ approved' = approved /\ job' = [job EXCEPT ![w] = q] /\ Live' = Live
  BY DEF Go, Same, Live
<1>2. Steady(NoId)
  <2>1. \A i \in Live : approved[i] \in Nat
    BY ApprovedType
  <2> QED
    BY <1>1, <2>1 DEF Steady, SameOrigin
<1>3. Flat'
  BY <1>1 DEF WaitInv, Flat, IsProject, IsInitial, Container
<1>4. Grips(q)' /\ Keyed(q)'
  BY <1>1 DEF Grips, Keyed, Container, Card, IsProject, IsInitial, Plant, Forms
<1>5. \A c \in Live' : Waits(c)' => c \in Live /\ Waits(c)
  BY <1>1 DEF Waits, Linked
<1>6. \A c \in Live' : Waits(c)' => InHand(q, c) \/ (c \in Live /\ Waits(c) /\ ~InHand(job[w], c))
  BY <1>5
<1> QED
  BY <1>1, <1>2, <1>3, <1>4, <1>6, WaitTurn

LEMMA MoveSteady ==
  ASSUME TreeInv, TreeInv', Flat, NEW i \in Live, NEW to \in M!States, Move(i, to), NEW own, Grows,
         ~IsProject(i) /\ item[i].state \in {"Draft", "Shaping"} =>
           i = own \/ (item[i].state = "Shaping" /\ approved'[i] > 0),
         IsInitial(i) => item[i].state # "Done"
  PROVE  /\ Steady(own) /\ Flat' /\ Live' = Live /\ item'[i].state = to
         /\ \A c \in Live : /\ item'[c].proposal = item[c].proposal /\ (Linked(c)' <=> Linked(c))
                            /\ SameOrigin(item'[c], item[c])
                            /\ c # i => item'[c] = item[c]
<1>1. item[i] \in Item
  BY DEF TreeInv, Indexed, TreeOK
<1> DEFINE r == [item[i] EXCEPT !.state = to,
                   !.prior = IF to = "Retired" THEN item[i].state ELSE "Retired"]
<1>2. item' = [item EXCEPT ![i] = r]
  BY DEF Move
<1>3. r.state = to /\ SameOrigin(r, item[i]) /\ r.proposal = item[i].proposal /\ r.made = item[i].made
  BY <1>1 DEF Item, SameOrigin
<1> HIDE DEF r
<1>4. /\ Live' = Live /\ item'[i].state = to
      /\ \A c \in Live : /\ item'[c].proposal = item[c].proposal /\ item'[c].made = item[c].made
                         /\ SameOrigin(item'[c], item[c])
                         /\ c # i => item'[c] = item[c]
  BY <1>2, <1>3 DEF Live, SameOrigin
<1>5. \A c \in Live : Linked(c)' <=> Linked(c)
  BY <1>4 DEF Linked
<1>6. \A c \in Live : approved[c] <= approved'[c]
  BY ApprovedType DEF Grows
<1>7. Steady(own)
  BY <1>4, <1>6 DEF Steady
<1>8. Flat'
  BY <1>4 DEF Flat, IsProject, IsInitial, Container, SameOrigin
<1> QED
  BY <1>4, <1>5, <1>7, <1>8

(* A move that approves nothing leaves what waits, but for what it moved. *)
LEMMA MoveWaits ==
  ASSUME TreeInv, TreeInv', Flat, NEW i \in Live, NEW to \in M!States, Move(i, to), NEW own,
         approved' = approved,
         ~IsProject(i) /\ item[i].state \in {"Draft", "Shaping"} => i = own,
         IsInitial(i) => item[i].state # "Done",
         to = "Done" => IsProject(i)
  PROVE  /\ Steady(own) /\ Flat' /\ Live' = Live /\ item'[i].state = to
         /\ item'[i].from = item[i].from
         /\ \A c \in Live' : Waits(c)' => c \in Live /\ Waits(c) /\ c # i
<1>0. Grows
  BY DEF Grows, TreeInv, ThreadsOK
<1>1. /\ Steady(own) /\ Flat' /\ Live' = Live /\ item'[i].state = to
      /\ \A c \in Live : /\ item'[c].proposal = item[c].proposal /\ (Linked(c)' <=> Linked(c))
                         /\ SameOrigin(item'[c], item[c])
                         /\ c # i => item'[c] = item[c]
  BY <1>0, MoveSteady
<1>2. ASSUME NEW c \in Live, Waits(c)'
      PROVE  Waits(c) /\ c # i
  <2>1. item'[c].state = "Done" /\ item'[c].proposal # None /\ ~Linked(c)'
    BY <1>2 DEF Waits
  <2>2. item[c].proposal # None /\ ~Linked(c)
    BY <1>1, <2>1
  <2>3. c # i
    BY <1>1, <2>1, <2>2 DEF Flat
  <2>4. item[c].state = "Done"
    BY <1>1, <2>1, <2>3
  <2> QED
    BY <1>1, <1>2, <2>2, <2>3, <2>4, WaitsBack
<1> QED
  BY <1>1, <1>2 DEF SameOrigin

LEMMA MoveTurn ==
  ASSUME TreeInv, TreeInv', WaitInv, NEW w \in Workers, NEW q, Go(w, q),
         NEW i \in Live, NEW to \in M!States, Move(i, to), to = "Done" => IsProject(i),
         IsInitial(i) => item[i].state # "Done",
         ~IsProject(i) /\ item[i].state \in {"Draft", "Shaping"} =>
           Shapes(job[w]) /\ job[w].new = i,
         Grips(q)', Keyed(q)', Shapes(q) => Shapes(job[w]) /\ q.new = job[w].new,
         \A c \in Live : c # i /\ Waits(c) /\ InHand(job[w], c) => InHand(q, c)
  PROVE  WaitInv'
<1> DEFINE own == IF Shapes(job[w]) THEN job[w].new ELSE NoId
<1>1. approved' = approved /\ job' = [job EXCEPT ![w] = q]
  BY DEF Go
<1>2. own = NoId \/ (Shapes(job[w]) /\ job[w].new = own)
  OBVIOUS
<1>3. ~IsProject(i) /\ item[i].state \in {"Draft", "Shaping"} => i = own
  OBVIOUS
<1> HIDE DEF own
<1>4. /\ Steady(own) /\ Flat' /\ Live' = Live
      /\ \A c \in Live' : Waits(c)' => c \in Live /\ Waits(c) /\ c # i
  BY <1>1, <1>3, MoveWaits DEF WaitInv
<1>5. \A c \in Live' : Waits(c)' => InHand(q, c) \/ (c \in Live /\ Waits(c) /\ ~InHand(job[w], c))
  BY <1>4
<1> QED
  BY <1>1, <1>2, <1>4, <1>5, WaitTurn

(* A rewrite that leaves the proposals that are approved. *)
LEMMA WriteSteady ==
  ASSUME TreeInv, TreeInv', Flat, NEW i \in Live, NEW r, Write(i, r), approved' = approved,
         SameOrigin(r, item[i]), r.state = item[i].state,
         IsProject(i) \/ (IsInitial(i) /\ item[i].state = "Done") => r.proposal = item[i].proposal
  PROVE  /\ Steady(NoId) /\ Flat' /\ Live' = Live /\ item'[i] = r
         /\ \A c \in Live : c # i => item'[c] = item[c] /\ (Linked(c)' <=> Linked(c))
<1>1. item' = [item EXCEPT ![i] = r]
  BY DEF Write
<1>2. Live' = Live /\ item'[i] = r /\ \A c \in Live : c # i => item'[c] = item[c]
  BY <1>1 DEF Live
<1>3. \A c \in Live : SameOrigin(item'[c], item[c]) /\ item'[c].state = item[c].state
  BY <1>2 DEF SameOrigin
<1>4. \A c \in Live : approved[c] <= approved'[c]
  BY ApprovedType
<1>5. Steady(NoId)
  BY <1>2, <1>3, <1>4 DEF Steady
<1>6. Flat'
  BY <1>2, <1>3 DEF Flat, IsProject, IsInitial, Container, SameOrigin
<1>7. \A c \in Live : c # i => (Linked(c)' <=> Linked(c))
  BY <1>2 DEF Linked
<1> QED
  BY <1>2, <1>5, <1>6, <1>7

LEMMA BlockSteady ==
  ASSUME TreeInv, TreeInv', Flat, NEW i, NEW needs, Block(i, needs), approved' = approved
  PROVE  /\ Steady(NoId) /\ Flat' /\ Live' = Live
         /\ \A c \in Live' : Waits(c)' => c \in Live /\ Waits(c)
<1>1. CASE i \in Live
  <2> DEFINE r == [item[i] EXCEPT !.blocked = needs]
  <2>1. item[i] \in Item
    BY <1>1 DEF TreeInv, Indexed, TreeOK
  <2>2. /\ SameOrigin(r, item[i]) /\ r.state = item[i].state /\ r.proposal = item[i].proposal
        /\ r.made = item[i].made
    BY <2>1 DEF Item, SameOrigin
  <2>3. Write(i, r)
    BY <1>1 DEF Block
  <2> HIDE DEF r
  <2>4. /\ Steady(NoId) /\ Flat' /\ Live' = Live /\ item'[i] = r
        /\ \A c \in Live : c # i => item'[c] = item[c] /\ (Linked(c)' <=> Linked(c))
    BY <1>1, <2>2, <2>3, WriteSteady
  <2>5. Linked(i)' <=> Linked(i)
    BY <2>2, <2>4 DEF Linked
  <2>6. ASSUME NEW c \in Live, Waits(c)'
        PROVE  Waits(c)
    <3>1. item[c].state = "Done" /\ item[c].proposal # None /\ ~Linked(c)
      BY <2>2, <2>4, <2>5, <2>6 DEF Waits
    <3> QED
      BY <2>4, <2>6, <3>1, WaitsBack
  <2> QED
    BY <2>4, <2>6
<1>2. CASE i \notin Live
  <2>1. item' = item /\ Live' = Live
    BY <1>2 DEF Block, Same, Live
  <2>2. Steady(NoId)
    BY <2>1, ApprovedType DEF Steady, SameOrigin
  <2>3. Flat'
    BY <2>1 DEF Flat, IsProject, IsInitial, Container
  <2>4. \A c \in Live' : Waits(c)' => c \in Live /\ Waits(c)
    BY <2>1 DEF Waits, Linked
  <2> QED
    BY <2>1, <2>2, <2>3, <2>4
<1> QED
  BY <1>1, <1>2

(* A section the machine allows: from where, and that nothing hinders it. *)
LEMMA CanMove ==
  ASSUME NEW i, NEW to, Can(i, to)
  PROVE  /\ i \in Live /\ M!Allowed(item[i].state, to)
         /\ to = "Review" => item[i].state \notin {"Draft", "Shaping", "Backlog"}
         /\ to = "Claimed" => item[i].state = "Backlog"
         /\ to = "Backlog" => item[i].state \notin {"Draft", "Done"}
         /\ to = "Done" => item[i].state # "Draft"
         /\ to = "Shaping" => item[i].state \notin {"Shaping", "Done"}
  BY DEF Can, M!Check, M!Allowed, M!Edges

LEMMA Unhindered ==
  ASSUME NEW i, Card(i)
  PROVE  /\ item[i].state = "Draft" => Can(i, "Shaping")
         /\ item[i].state = "Shaping" => Can(i, "Backlog")
         /\ item[i].state = "Done" => Can(i, "Review")
  BY DEF Card, Can, M!Check, M!Allowed, M!Edges

-------------------------------------------------------------------------------
(* Threads that have nothing in hand, or only the Project they are about. *)
LEMMA LooseGrips ==
  ASSUME NEW q, q.pc \in {"idle", "seed", "check", "commit", "wire"},
         q.pc # "idle" => q.verb \in {"project", "init", "task"}
  PROVE  /\ (Plant(q) => Container(q.id)) => Grips(q)
         /\ (Plant(q) => Container(q.id)') => Grips(q)'
         /\ Keyed(q) /\ Keyed(q)' /\ ~Shapes(q) /\ \A c : ~InHand(q, c)
  BY DEF Grips, Keyed, Shapes, Plant, Forms, InHand

LEMMA IdleTurn ==
  ASSUME TreeInv, TreeInv', WaitInv, NEW w \in Workers, Go(w, Idle), Same,
         \A c \in Live : Waits(c) => ~InHand(job[w], c)
  PROVE  WaitInv'
<1>1. Idle.pc = "idle"
  BY IdleFacts
<1>2. Grips(Idle) /\ Keyed(Idle) /\ ~Shapes(Idle)
  BY <1>1, LooseGrips DEF Plant
<1> QED
  BY <1>2, SameTurn

LEMMA PcFields ==
  ASSUME NEW j \in Job, NEW pc
  PROVE  /\ [j EXCEPT !.pc = pc].pc = pc
         /\ [j EXCEPT !.pc = pc].verb = j.verb /\ [j EXCEPT !.pc = pc].id = j.id
         /\ [j EXCEPT !.pc = pc].proj = j.proj /\ [j EXCEPT !.pc = pc].todo = j.todo
         /\ [j EXCEPT !.pc = pc].new = j.new /\ [j EXCEPT !.pc = pc].keys = j.keys
         /\ [j EXCEPT !.pc = pc].specs = j.specs /\ [j EXCEPT !.pc = pc].stack = j.stack
  BY DEF Job

LEMMA OnwardElse ==
  ASSUME NEW j \in Job, j.verb \in {"project", "init", "task"}, NEW made \in BOOLEAN
  PROVE  /\ Onward(j, made).pc \in {"idle", "commit", "seed", "wire"}
         /\ Onward(j, made).pc # "idle" => /\ Onward(j, made).verb = j.verb
                                           /\ Onward(j, made).id = j.id
<1>1. CASE j.verb = "project" /\ j.again
  <2>1. Onward(j, made) = [j EXCEPT !.pc = "commit"]
    BY <1>1 DEF Onward
  <2> QED
    BY <2>1, PcFields
<1>2. CASE j.verb = "project" /\ ~j.again
  <2>1. Onward(j, made) = [j EXCEPT !.pc = "seed", !.again = TRUE]
    BY <1>2 DEF Onward
  <2> QED
    BY <2>1 DEF Job
<1>3. CASE j.verb # "project" /\ made /\ j.verb = "task" /\ j.needs # {}
  <2>1. Onward(j, made) = [j EXCEPT !.pc = "wire"]
    BY <1>3 DEF Onward
  <2> QED
    BY <2>1, PcFields
<1>4. CASE j.verb # "project" /\ ~(made /\ j.verb = "task" /\ j.needs # {})
  <2>1. Onward(j, made) = Idle
    BY <1>4 DEF Onward
  <2> QED
    BY <2>1, IdleFacts
<1> QED
  BY <1>1, <1>2, <1>3, <1>4

LEMMA OnwardRow ==
  ASSUME NEW j \in Job, j.verb \in {"done", "heal"}, NEW q, q = Onward(j, TRUE)
  PROVE  /\ q.pc = "next" /\ q.verb = j.verb /\ q.id = j.id /\ q.specs = j.specs /\ q.proj = j.proj
         /\ q.todo = Tail(j.todo) /\ q.keys = [j.keys EXCEPT ![Head(j.todo).key] = j.new]
<1>1. q = [j EXCEPT !.pc = "next", !.keys[Head(j.todo).key] = j.new, !.todo = Tail(@)]
  BY DEF Onward
<1> QED
  BY <1>1 DEF Job

(* A row gets its id: the rows that have none yet are the others still to come. *)
LEMMA KeysOn ==
  ASSUME NEW j \in Job, j.todo # None, NEW i, i # NoId,
         \A k \in KeysOf(j.specs) : j.keys[k] # NoId \/ k \in KeysOf(j.todo),
         NEW keys, keys = [j.keys EXCEPT ![Head(j.todo).key] = i]
  PROVE  \A k \in KeysOf(j.specs) : keys[k] # NoId \/ k \in KeysOf(Tail(j.todo))
<1> TAKE k \in KeysOf(j.specs)
<1>1. j.todo \in Seq(Spec_) /\ j.keys \in [Keys -> Ids \cup {NoId}]
  BY DEF Job
<1>2. Head(j.todo) \in Spec_ /\ Head(j.todo) = j.todo[1]
  BY <1>1, TailFacts
<1>3. Head(j.todo).key \in Keys
  BY <1>2 DEF Spec_
<1>4. CASE k = Head(j.todo).key
  BY <1>1, <1>3, <1>4
<1>5. CASE k # Head(j.todo).key /\ j.keys[k] # NoId
  <2>1. \A h : h # Head(j.todo).key => keys[h] = j.keys[h] \/ h \notin Keys
    BY <1>1
  <2>2. k \in Keys
    <3>1. j.specs \in Seq(Spec_)
      BY ProposalFacts DEF Job
    <3>2. PICK n \in DOMAIN j.specs : k = j.specs[n].key
      BY DEF KeysOf
    <3>3. j.specs[n] \in Spec_
      BY <3>1, <3>2
    <3> QED
      BY <3>2, <3>3 DEF Spec_
  <2> QED
    BY <1>5, <2>1, <2>2
<1>6. CASE k # Head(j.todo).key /\ k \in KeysOf(j.todo)
  <2>1. PICK n \in DOMAIN j.todo : k = j.todo[n].key
    BY <1>6 DEF KeysOf
  <2>2. n \in 1 .. Len(j.todo) /\ n # 1 /\ Len(j.todo) \in Nat
    BY <1>1, <1>2, <1>6, <2>1
  <2>3. n - 1 \in DOMAIN Tail(j.todo) /\ Tail(j.todo)[n - 1] = j.todo[n]
    BY <1>1, <2>2
  <2> QED
    BY <2>1, <2>3 DEF KeysOf
<1> QED
  BY <1>4, <1>5, <1>6

-------------------------------------------------------------------------------
(* The verbs start. *)
LEMMA StartTurn ==
  ASSUME TreeInv, TreeInv', WaitInv, NEW w \in Workers, At(w, "idle"), NEW q, Go(w, q), Same,
         Grips(q), Keyed(q), ~Shapes(q)
  PROVE  WaitInv'
<1>1. \A c : ~InHand(job[w], c)
  BY DEF At, InHand
<1> QED
  BY <1>1, SameTurn

LEMMA WaitStarts ==
  ASSUME TreeInv, TreeInv', WaitInv, NothingUndone, NEW w \in Workers, NEW i \in Ids,
         \/ Epics(w) \/ InitPlan(w, i) \/ Heal(w, i) \/ Changes(w, i) \/ Cut(w, i) \/ Unarchive(w, i)
         \/ \E t \in Titles, needs \in {{}} \cup {{k} : k \in Ids} : NewTask(w, i, t, needs)
         \/ \E p \in Plans : Propose(w, i, p)
         \/ \E p \in Splits : Split(w, i, p)
  PROVE  WaitInv'
<1>1. CASE Epics(w)
  <2> DEFINE open == {k \in Live : IsProject(k) /\ item[k].state \notin M!Terminal}
             q == [Start("epics", "judge", NoId) EXCEPT
                     !.stack = open, !.needs = {k \in open : item[k].state = "Draft"}]
  <2>1. Go(w, q) /\ Same /\ At(w, "idle")
    BY <1>1 DEF Epics, Free
  <2>2. q.pc = "judge" /\ q.verb = "epics" /\ q.stack = open
    BY DEF Start, Idle
  <2>3. \A k \in open : Container(k)
    BY DEF Container
  <2> HIDE DEF q, open
  <2>4. Grips(q) /\ Keyed(q) /\ ~Shapes(q)
    BY <2>2, <2>3 DEF Grips, Keyed, Shapes, Plant, Forms
  <2> QED
    BY <2>1, <2>4, StartTurn
<1>2. CASE InitPlan(w, i)
  <2> DEFINE q == [Start("init", "seed", i) EXCEPT !.proj = i]
  <2>1. Go(w, q) /\ Same /\ At(w, "idle") /\ Container(i)
    BY <1>2 DEF InitPlan, Free, Container
  <2>2. q.pc = "seed" /\ q.verb = "init" /\ q.id = i
    BY DEF Start, Idle
  <2> HIDE DEF q
  <2>3. Grips(q) /\ Keyed(q) /\ ~Shapes(q)
    BY <2>1, <2>2, LooseGrips
  <2> QED
    BY <2>1, <2>3, StartTurn
<1>3. CASE Heal(w, i)
  <2> DEFINE q == Start("heal", "load", i)
  <2>1. Go(w, q) /\ Same /\ At(w, "idle") /\ Card(i)
    BY <1>3 DEF Heal, Free, Card
  <2>2. q.pc = "load" /\ q.verb = "heal" /\ q.id = i
    BY DEF Start, Idle
  <2> HIDE DEF q
  <2>3. Grips(q) /\ Keyed(q) /\ ~Shapes(q)
    BY <2>1, <2>2 DEF Grips, Keyed, Shapes, Plant, Forms, RowPcs
  <2> QED
    BY <2>1, <2>3, StartTurn
<1>4. CASE Changes(w, i) \/ Cut(w, i) \/ Unarchive(w, i)
  BY <1>4 DEF Changes, Cut, Unarchive, Happens, NothingUndone
<1>5. CASE \E t \in Titles, needs \in {{}} \cup {{k} : k \in Ids} : NewTask(w, i, t, needs)
  <2>1. PICK t \in Titles, needs \in {{}} \cup {{k} : k \in Ids} : NewTask(w, i, t, needs)
    BY <1>5
  <2> DEFINE q == [Start("task", "check", i) EXCEPT !.proj = i, !.title = t, !.needs = needs]
  <2>2. Go(w, q) /\ Same /\ At(w, "idle")
    BY <2>1 DEF NewTask, Free
  <2>3. q.pc = "check" /\ q.verb = "task"
    BY DEF Start, Idle
  <2> HIDE DEF q
  <2>4. Grips(q) /\ Keyed(q) /\ ~Shapes(q)
    BY <2>3, LooseGrips DEF Plant
  <2> QED
    BY <2>2, <2>4, StartTurn
<1>6. CASE \E p \in Plans : Propose(w, i, p)
  <2>1. PICK p \in Plans : Propose(w, i, p)
    BY <1>6
  <2> DEFINE q == [Start("plan", "set", i) EXCEPT !.specs = p]
  <2>2. Go(w, q) /\ Same /\ At(w, "idle") /\ i \in Live /\ IsInitial(i)
    BY <2>1 DEF Propose, Free
  <2>3. q.pc = "set" /\ q.verb = "plan" /\ q.id = i
    BY DEF Start, Idle
  <2>4. Card(i)
    BY <2>2 DEF Card, WaitInv, Flat
  <2> HIDE DEF q
  <2>5. Grips(q) /\ Keyed(q) /\ ~Shapes(q)
    BY <2>2, <2>3, <2>4 DEF Grips, Keyed, Shapes, Plant, Forms
  <2> QED
    BY <2>2, <2>5, StartTurn
<1>7. CASE \E p \in Splits : Split(w, i, p)
  <2>1. PICK p \in Splits : Split(w, i, p)
    BY <1>7
  <2> DEFINE q == [Start("split", "set", i) EXCEPT !.specs = p]
  <2>2. Go(w, q) /\ Same /\ At(w, "idle") /\ Card(i) /\ ~IsInitial(i)
    BY <2>1 DEF Split, Free, Card
  <2>3. q.pc = "set" /\ q.verb = "split" /\ q.id = i
    BY DEF Start, Idle
  <2> HIDE DEF q
  <2>4. Grips(q) /\ Keyed(q) /\ ~Shapes(q)
    BY <2>2, <2>3 DEF Grips, Keyed, Shapes, Plant, Forms
  <2> QED
    BY <2>2, <2>4, StartTurn
<1> QED
  BY <1>1, <1>2, <1>3, <1>4, <1>5, <1>6, <1>7

(* An approval: the card it moves is in its hand from now on. *)
LEMMA WaitFinish ==
  ASSUME TreeInv, TreeInv', WaitInv, NEW w \in Workers, NEW i \in Ids, Finish(w, i)
  PROVE  WaitInv'
<1> DEFINE q == Start("done", "read", i)
<1>1. /\ At(w, "idle") /\ Card(i) /\ Can(i, "Done") /\ Move(i, "Done")
      /\ job' = [job EXCEPT ![w] = q]
      /\ approved' = [approved EXCEPT ![i] = IF @ = 0 THEN 1 ELSE 2]
  BY DEF Finish, Free, Card
<1>2. q.pc = "read" /\ q.verb = "done" /\ q.id = i
  BY DEF Start, Idle
<1> HIDE DEF q
<1>3. i \in Live /\ "Done" \in M!States /\ M!Allowed(item[i].state, "Done") /\ item[i].state # "Draft"
  BY <1>1, CanMove DEF M!States
<1>4. item[i].state # "Done"
  BY <1>3 DEF M!Allowed, M!Edges
<1>5. Grows /\ approved'[i] > 0
  <2>1. approved \in [Ids -> 0 .. 2]
    BY DEF TreeInv, ThreadsOK
  <2>2. \A c \in Ids : approved[c] \in 0 .. 2 /\ approved'[c] = IF c = i THEN IF approved[i] = 0 THEN 1 ELSE 2
                                                                 ELSE approved[c]
    BY <1>1, <2>1
  <2> QED
    BY <2>2 DEF Grows
<1>6. /\ Steady(NoId) /\ Flat' /\ Live' = Live /\ item'[i].state = "Done"
      /\ \A c \in Live : /\ item'[c].proposal = item[c].proposal /\ (Linked(c)' <=> Linked(c))
                         /\ SameOrigin(item'[c], item[c])
                         /\ c # i => item'[c] = item[c]
  BY <1>1, <1>3, <1>4, <1>5, MoveSteady DEF WaitInv
<1>7. Card(i)'
  BY <1>1, <1>6, SteadyFacts
<1>8. Grips(q)' /\ Keyed(q)' /\ ~Shapes(q)
  BY <1>2, <1>6, <1>7 DEF Grips, Keyed, Shapes, Plant, Forms, RowPcs
<1>9. ASSUME NEW c \in Live, Waits(c)', c # i
      PROVE  Waits(c) /\ ~InHand(job[w], c)
  <2>1. item[c].state = "Done" /\ item[c].proposal # None /\ ~Linked(c)
    BY <1>6, <1>9 DEF Waits
  <2>2. Waits(c)
    BY <1>6, <1>9, <2>1, WaitsBack
  <2> QED
    BY <1>1, <2>2 DEF At, InHand
<1>10. \A c \in Live' : Waits(c)' => InHand(q, c) \/ (c \in Live /\ Waits(c) /\ ~InHand(job[w], c))
  BY <1>2, <1>6, <1>9 DEF InHand
<1> QED
  BY <1>1, <1>6, <1>8, <1>10, WaitTurn

-------------------------------------------------------------------------------
(* Something is created. *)
LEMMA AddSteady ==
  ASSUME TreeInv, TreeInv', Flat, NEW p \in Ids \cup {NoId}, NEW t \in Titles \cup {"plan", "project"},
         NEW f \in Ids \cup {NoId}, Adds(p, t, f), approved' = approved, NEW n, n = nextId,
         IF p = NoId THEN t # "plan" ELSE Container(p)
  PROVE  /\ Steady(NoId) /\ Flat' /\ n \notin Live /\ n \in Live'
         /\ item'[n].state = "Draft" /\ item'[n].from = f
         /\ IF p = NoId THEN Container(n)' ELSE Card(n)'
         /\ \A c \in Live' : Waits(c)' => c \in Live /\ Waits(c)
<1>1. /\ Live' = Live \cup {n} /\ \A i \in Live : item'[i] = item[i]
      /\ SameOrigin(item'[n], [parent |-> p, title |-> t, from |-> f])
      /\ n \notin Live /\ item'[n].state = "Draft"
  BY AddKeeps DEF TreeInv
<1>2. item'[n].parent = p /\ item'[n].title = t /\ item'[n].from = f
  BY <1>1 DEF SameOrigin
<1>3. item'[n].proposal = None
  <2>1. item' = [i \in Live \cup {nextId} |-> IF i = nextId THEN NewItem(p, t, f) ELSE item[i]]
    BY DEF Adds, Insert
  <2> QED
    BY <2>1 DEF NewItem
<1>4. Steady(NoId)
  BY <1>1, ApprovedType DEF Steady, SameOrigin
<1>5. IF p = NoId THEN Container(n)' ELSE Card(n)'
  BY <1>1, <1>2 DEF Container, Card, IsProject
<1>6. Flat'
  <2> SUFFICES ASSUME NEW i \in Live'
               PROVE  (IF IsProject(i) THEN ~IsInitial(i) /\ item[i].proposal = None
                       ELSE Container(item[i].parent))'
    BY DEF Flat
  <2>1. CASE i = n
    <3>1. p # NoId => Container(p)'
      BY <1>4, SteadyFacts
    <3> QED
      BY <1>2, <1>3, <2>1, <3>1 DEF IsProject, IsInitial
  <2>2. CASE i \in Live
    <3>1. item'[i] = item[i]
      BY <1>1, <2>2
    <3>2. ~IsProject(i) => Container(item[i].parent)'
      <4>1. PICK k : k = item[i].parent
        OBVIOUS
      <4>2. ~IsProject(i) => Container(k)'
        BY <1>4, <2>2, <4>1, SteadyFacts DEF Flat
      <4> QED
        BY <3>1, <4>1, <4>2 DEF Container, IsProject
    <3>3. IsProject(i) => ~IsInitial(i) /\ item[i].proposal = None
      BY <2>2 DEF Flat
    <3> QED
      BY <3>1, <3>2, <3>3 DEF IsProject, IsInitial, Container
  <2> QED
    BY <1>1, <2>1, <2>2
<1>7. ASSUME NEW c \in Live', Waits(c)'
      PROVE  c \in Live /\ Waits(c)
  <2>1. c \in Live
    BY <1>1, <1>3, <1>7 DEF Waits
  <2>2. item[c].state = "Done" /\ item[c].proposal # None /\ ~Linked(c)
    BY <1>1, <1>7, <2>1 DEF Waits, Linked
  <2> QED
    BY <1>4, <1>7, <2>1, <2>2, WaitsBack
<1> QED
  BY <1>1, <1>2, <1>4, <1>5, <1>6, <1>7

LEMMA WaitProject ==
  ASSUME TreeInv, TreeInv', WaitInv, NEW w \in Workers, NewProject(w)
  PROVE  WaitInv'
<1>0. PICK n : n = nextId
  OBVIOUS
<1> DEFINE q == [Start("project", "seed", n) EXCEPT !.proj = n]
<1>1. Go(w, q) /\ Adds(NoId, "project", NoId) /\ At(w, "idle")
  BY <1>0 DEF NewProject, Adds, Free
<1>2. q.pc = "seed" /\ q.verb = "project" /\ q.id = n
  BY DEF Start, Idle
<1> HIDE DEF q
<1>3. job' = [job EXCEPT ![w] = q] /\ approved' = approved
  BY <1>1 DEF Go
<1>4. /\ Steady(NoId) /\ Flat' /\ Container(n)'
      /\ \A c \in Live' : Waits(c)' => c \in Live /\ Waits(c)
  BY <1>0, <1>1, <1>3, TitlesAssumption, AddSteady DEF WaitInv
<1>5. Container(q.id)'
  BY <1>2, <1>4
<1>6. Grips(q)' /\ Keyed(q)' /\ ~Shapes(q)
  BY <1>2, <1>5, LooseGrips
<1>7. \A c \in Live' : Waits(c)' => InHand(q, c) \/ (c \in Live /\ Waits(c) /\ ~InHand(job[w], c))
  BY <1>1, <1>4 DEF At, InHand
<1> QED
  BY <1>3, <1>4, <1>6, <1>7, WaitTurn

-------------------------------------------------------------------------------
(* The sections of creating. *)
LEMMA WaitSeed ==
  ASSUME TreeInv, TreeInv', WaitInv, NEW w \in Workers, Seed(w)
  PROVE  WaitInv'
<1>1. PICK j \in Job : j = job[w] /\ Fits(j)
  BY ThreadFacts
<1>2. j.pc = "seed" /\ j.verb \in {"project", "init"} /\ Container(j.id)
  BY <1>1 DEF Seed, At, Fits, Making, WaitInv, Grips, Plant
<1>3. PICK q : Go(w, q) /\ Same /\ (q = [j EXCEPT !.pc = "check", !.title = "plan"] \/ q = Onward(j, TRUE))
  BY <1>1 DEF Seed
<1>4. /\ q.pc \in {"idle", "seed", "check", "commit", "wire"}
      /\ q.pc # "idle" => q.verb = j.verb /\ q.id = j.id
  <2>1. CASE q = [j EXCEPT !.pc = "check", !.title = "plan"]
    BY <2>1 DEF Job
  <2>2. CASE q = Onward(j, TRUE)
    BY <1>2, <2>2, OnwardElse
  <2> QED
    BY <1>3, <2>1, <2>2
<1>5. Grips(q) /\ Keyed(q) /\ ~Shapes(q)
  BY <1>2, <1>4, LooseGrips DEF Plant
<1>6. \A c : ~InHand(job[w], c)
  BY <1>1, <1>2 DEF InHand
<1> QED
  BY <1>3, <1>5, <1>6, SameTurn

LEMMA WaitParent ==
  ASSUME TreeInv, TreeInv', WaitInv, NEW w \in Workers, CheckParent(w)
  PROVE  WaitInv'
<1>1. PICK j \in Job : j = job[w] /\ Fits(j) /\ Grips(j) /\ Keyed(j)
  BY ThreadFacts DEF WaitInv
<1>2. j.pc = "check" /\ j.verb \in {"project", "init", "task", "done", "heal"}
  BY <1>1 DEF CheckParent, At, Fits, Making
<1>3. CASE Container(j.proj)
  <2> DEFINE q == [j EXCEPT !.pc = "insert"]
  <2>1. Go(w, q) /\ Same
    BY <1>1, <1>3 DEF CheckParent, Container
  <2>2. /\ q.pc = "insert" /\ q.verb = j.verb /\ q.id = j.id /\ q.proj = j.proj /\ q.todo = j.todo
        /\ q.keys = j.keys /\ q.specs = j.specs
    BY PcFields
  <2> HIDE DEF q
  <2>3. Grips(q) /\ ~Shapes(q)
    BY <1>1, <1>2, <1>3, <2>2 DEF Grips, Plant, Forms, Shapes, RowPcs
  <2>4. Keyed(q)
    BY <1>1, <1>2, <2>2 DEF Keyed, RowPcs
  <2>5. \A c : InHand(job[w], c) => InHand(q, c)
    BY <1>1, <1>2, <2>2 DEF InHand
  <2> QED
    BY <2>1, <2>3, <2>4, <2>5, SameTurn
<1>4. CASE ~Container(j.proj)
  <2>1. ~Forms(j)
    BY <1>1, <1>2, <1>4 DEF Grips, RowPcs
  <2>2. j.verb \in {"project", "init", "task"}
    BY <1>2, <2>1 DEF Forms
  <2>3. PICK q : q = Onward(j, FALSE)
    OBVIOUS
  <2>4. Go(w, q) /\ Same
    BY <1>1, <1>4, <2>3 DEF CheckParent, Container
  <2>5. /\ q.pc \in {"idle", "commit", "seed", "wire"}
        /\ q.pc # "idle" => q.verb = j.verb /\ q.id = j.id
    BY <2>2, <2>3, OnwardElse
  <2>6. Grips(q) /\ Keyed(q) /\ ~Shapes(q)
    BY <1>1, <1>2, <2>2, <2>5, LooseGrips DEF Grips, Plant
  <2>7. \A c : ~InHand(job[w], c)
    BY <1>1, <2>2 DEF InHand
  <2> QED
    BY <2>4, <2>6, <2>7, SameTurn
<1> QED
  BY <1>3, <1>4

LEMMA WaitCreate ==
  ASSUME TreeInv, TreeInv', WaitInv, NEW w \in Workers, Create(w)
  PROVE  WaitInv'
<1>1. PICK j \in Job : j = job[w] /\ Fits(j) /\ Grips(j) /\ Keyed(j)
  BY ThreadFacts DEF WaitInv
<1>2. PICK n : n = nextId
  OBVIOUS
<1> DEFINE f == IF j.verb \in {"done", "heal"} THEN j.id ELSE NoId
           s == [j EXCEPT !.pc = "shape"]
           q == [j EXCEPT !.pc = "shape", !.new = n]
<1>3. /\ j.pc = "insert" /\ Adds(j.proj, j.title, f) /\ Go(w, q)
      /\ j.verb \in {"project", "init", "task", "done", "heal"}
  BY <1>1, <1>2 DEF Create, At, Adds, Fits, Making
<1>4. job' = [job EXCEPT ![w] = q] /\ approved' = approved
  BY <1>3 DEF Go
<1>5. Container(j.proj) /\ j.proj \in Ids \cup {NoId} /\ j.proj # NoId
  BY <1>1, <1>3, ApprovedType DEF Grips, Container, Job
<1>6. f \in Ids \cup {NoId} /\ j.title \in Titles \cup {"plan", "project"}
  BY DEF Job
<1>7. /\ q.pc = "shape" /\ q.verb = j.verb /\ q.id = j.id /\ q.proj = j.proj /\ q.todo = j.todo
      /\ q.keys = j.keys /\ q.specs = j.specs /\ q.new = n
  <2>1. s.pc = "shape" /\ s.verb = j.verb /\ s.id = j.id /\ s.proj = j.proj /\ s.todo = j.todo
        /\ s.keys = j.keys /\ s.specs = j.specs
    BY PcFields
  <2>2. q = [s EXCEPT !.new = n] /\ DOMAIN s = DOMAIN j /\ "new" \in DOMAIN j
    BY DEF Job
  <2> HIDE DEF q, s
  <2> QED
    BY <2>1, <2>2 DEF Job
<1>8. f = j.id \/ ~Forms(j)
  BY DEF Forms
<1> HIDE DEF f, q, s
<1>9. /\ Steady(NoId) /\ Flat' /\ n \notin Live
      /\ item'[n].state = "Draft" /\ item'[n].from = f /\ Card(n)'
      /\ \A c \in Live' : Waits(c)' => c \in Live /\ Waits(c)
  BY <1>2, <1>3, <1>4, <1>5, <1>6, AddSteady DEF WaitInv
<1>10. Grips(j)' /\ Keyed(j)'
  <2>1. ~Shapes(j)
    BY <1>3 DEF Shapes
  <2> QED
    BY <1>1, <1>9, <2>1, GripStays, KeyedStays
<1>11. Grips(q)'
  BY <1>3, <1>7, <1>8, <1>9, <1>10 DEF Grips, Plant, Forms, Shapes, RowPcs
<1>12. Keyed(q)'
  BY <1>3, <1>7, <1>10 DEF Keyed, RowPcs
<1>13. \A c : InHand(job[w], c) => InHand(q, c)
  BY <1>1, <1>3, <1>7 DEF InHand
<1>14. \A c \in Live' : Waits(c)' => InHand(q, c) \/ (c \in Live /\ Waits(c) /\ ~InHand(job[w], c))
  BY <1>9, <1>13
<1> QED
  BY <1>4, <1>7, <1>9, <1>11, <1>12, <1>14, WaitTurn

LEMMA WaitShape ==
  ASSUME TreeInv, TreeInv', WaitInv, NEW w \in Workers, Shape(w)
  PROVE  WaitInv'
<1>1. PICK j \in Job : j = job[w] /\ Fits(j) /\ Grips(j) /\ Keyed(j)
  BY ThreadFacts DEF WaitInv
<1> DEFINE q == [j EXCEPT !.pc = "ready"]
<1>2. j.pc = "shape" /\ Card(j.new) /\ item[j.new].state = "Draft"
  BY <1>1 DEF Shape, At, Grips, Shapes
<1>3. j.verb \in {"project", "init", "task", "done", "heal"}
  BY <1>1, <1>2 DEF Fits, Making
<1>4. Go(w, q) /\ Move(j.new, "Shaping") /\ j.new \in Live
  BY <1>1, <1>2, Unhindered DEF Shape, Next_, Card
<1>5. /\ q.pc = "ready" /\ q.verb = j.verb /\ q.id = j.id /\ q.proj = j.proj /\ q.todo = j.todo
      /\ q.keys = j.keys /\ q.specs = j.specs /\ q.new = j.new
  BY PcFields
<1> HIDE DEF q
<1>6. approved' = approved /\ "Shaping" \in M!States /\ Shapes(q) /\ Shapes(j)
  BY <1>2, <1>4, <1>5 DEF Go, M!States, Shapes
<1>7. Steady(j.new) /\ item'[j.new].state = "Shaping" /\ item'[j.new].from = item[j.new].from
  BY <1>2, <1>4, <1>6, MoveWaits DEF WaitInv
<1>8. Keyed(q)'
  <2>1. Keyed(j)'
    BY <1>1, <1>7, KeyedStays
  <2> QED
    BY <1>2, <1>5, <2>1 DEF Keyed, RowPcs
<1>9. Grips(q)'
  <2>1. /\ Card(j.new)' /\ (Plant(j) => Container(j.id)') /\ (Forms(j) => Card(j.id)')
        /\ Forms(j) => (Container(j.proj)' /\ item[j.new].from = j.id)
    BY <1>1, <1>2, <1>7, SteadyFacts DEF Grips, RowPcs, Shapes
  <2> QED
    BY <1>2, <1>5, <1>7, <2>1 DEF Grips, Plant, Forms, Shapes
<1>10. \A c : InHand(job[w], c) => InHand(q, c)
  BY <1>1, <1>2, <1>5 DEF InHand
<1> QED
  BY <1>1, <1>2, <1>4, <1>5, <1>6, <1>8, <1>9, <1>10, MoveTurn

LEMMA WaitReady ==
  ASSUME TreeInv, TreeInv', WaitInv, NEW w \in Workers, Ready(w)
  PROVE  WaitInv'
<1>1. PICK j \in Job : j = job[w] /\ Fits(j) /\ Grips(j) /\ Keyed(j)
  BY ThreadFacts DEF WaitInv
<1>2. /\ j.pc = "ready" /\ Card(j.new) /\ j.new \in Live /\ j.new # NoId
      /\ item[j.new].state = "Shaping" \/ approved[j.new] > 0
  BY <1>1, ApprovedType DEF Ready, At, Grips, Shapes, Card
<1>3. j.verb \in {"project", "init", "task", "done", "heal"} /\ (Forms(j) => j.todo # None)
  BY <1>1, <1>2 DEF Fits, Making, Forms
<1>4. CASE Can(j.new, "Backlog")
  <2>1. PICK q : q = Onward(j, TRUE)
    OBVIOUS
  <2>2. Go(w, q) /\ Move(j.new, "Backlog") /\ "Backlog" \in M!States /\ Shapes(j)
    BY <1>1, <1>2, <1>4, <2>1 DEF Ready, M!States, Shapes
  <2>3. item[j.new].state # "Done"
    BY <1>4, CanMove
  <2>4. Steady(j.new) /\ approved' = approved
    BY <1>2, <2>2, <2>3, MoveWaits DEF WaitInv, Go
  <2>5. Grips(q)' /\ Keyed(q)' /\ ~Shapes(q) /\ \A c : InHand(j, c) => InHand(q, c)
    <3>1. CASE Forms(j)
      <4>1. /\ q.pc = "next" /\ q.verb = j.verb /\ q.id = j.id /\ q.specs = j.specs /\ q.proj = j.proj
            /\ q.todo = Tail(j.todo) /\ q.keys = [j.keys EXCEPT ![Head(j.todo).key] = j.new]
        BY <2>1, <3>1, OnwardRow DEF Forms
      <4>2. Card(j.id)' /\ Container(j.proj)'
        BY <1>1, <1>2, <2>4, <3>1, SteadyFacts DEF Grips, RowPcs
      <4>3. Grips(q)' /\ ~Shapes(q)
        BY <3>1, <4>1, <4>2 DEF Grips, Plant, Forms, Shapes
      <4>4. Keyed(j)'
        BY <1>1, <2>4, KeyedStays
      <4>5. Keyed(q)'
        <5>1. CASE j.verb = "done" /\ IsInitial(j.id)'
          <6>1. /\ item'[j.id].state = "Done" /\ j.specs = item'[j.id].proposal
                /\ \A k \in KeysOf(j.specs) : j.keys[k] # NoId \/ k \in KeysOf(j.todo)
            BY <1>2, <4>4, <5>1 DEF Keyed, RowPcs
          <6>2. PICK keys : keys = [j.keys EXCEPT ![Head(j.todo).key] = j.new]
            OBVIOUS
          <6>3. \A k \in KeysOf(j.specs) : keys[k] # NoId \/ k \in KeysOf(Tail(j.todo))
            BY <1>2, <1>3, <3>1, <6>1, <6>2, KeysOn
          <6> QED
            BY <4>1, <6>1, <6>2, <6>3 DEF Keyed
        <5>2. CASE ~(j.verb = "done" /\ IsInitial(j.id)')
          BY <4>1, <5>2 DEF Keyed, IsInitial
        <5> QED
          BY <5>1, <5>2
      <4>6. \A c : InHand(j, c) => InHand(q, c)
        BY <1>2, <4>1 DEF InHand
      <4> QED
        BY <4>3, <4>5, <4>6
    <3>2. CASE ~Forms(j)
      <4>1. j.verb \in {"project", "init", "task"}
        BY <1>2, <1>3, <3>2 DEF Forms
      <4>2. /\ q.pc \in {"idle", "commit", "seed", "wire"}
            /\ q.pc # "idle" => q.verb = j.verb /\ q.id = j.id
        BY <2>1, <4>1, OnwardElse
      <4>3. Plant(q) => Container(q.id)'
        BY <1>1, <1>2, <2>4, <4>1, <4>2, SteadyFacts DEF Grips, Plant
      <4>4. Grips(q)' /\ Keyed(q)' /\ ~Shapes(q)
        BY <4>1, <4>2, <4>3, LooseGrips
      <4>5. \A c : ~InHand(j, c)
        BY <4>1 DEF InHand
      <4> QED
        BY <4>4, <4>5
    <3> QED
      BY <3>1, <3>2
  <2> QED
    BY <1>1, <1>2, <2>2, <2>3, <2>5, MoveTurn
<1>5. CASE ~Can(j.new, "Backlog")
  <2>1. PICK q : q = Onward(j, FALSE)
    OBVIOUS
  <2>2. Go(w, q) /\ Same
    BY <1>1, <1>5, <2>1 DEF Ready
  <2>3. approved[j.new] > 0
    BY <1>2, <1>5, Unhindered
  <2>4. Forms(j) => item[j.new].from = j.id
    BY <1>1, <1>2 DEF Grips, Shapes
  <2>5. \A c \in Live : Waits(c) => ~InHand(j, c)
    BY <1>2, <2>3, <2>4 DEF InHand, Waits, Forms
  <2>6. CASE Forms(j)
    <3>1. q = Idle
      BY <2>1, <2>6 DEF Onward, Forms
    <3> QED
      BY <1>1, <2>2, <2>5, <3>1, IdleTurn
  <2>7. CASE ~Forms(j)
    <3>1. j.verb \in {"project", "init", "task"}
      BY <1>2, <1>3, <2>7 DEF Forms
    <3>2. /\ q.pc \in {"idle", "commit", "seed", "wire"}
          /\ q.pc # "idle" => q.verb = j.verb /\ q.id = j.id
      BY <2>1, <3>1, OnwardElse
    <3>3. Grips(q) /\ Keyed(q) /\ ~Shapes(q)
      BY <1>1, <1>2, <3>1, <3>2, LooseGrips DEF Grips, Plant
    <3> QED
      BY <1>1, <2>2, <2>5, <3>3, SameTurn
  <2> QED
    BY <2>6, <2>7
<1> QED
  BY <1>4, <1>5

LEMMA IdleTree ==
  ASSUME TreeInv, TreeInv', WaitInv, NEW w \in Workers, End(w), Steady(NoId), Flat',
         \A c \in Live' : Waits(c)' => c \in Live /\ Waits(c) /\ ~InHand(job[w], c)
  PROVE  WaitInv'
<1>1. job' = [job EXCEPT ![w] = Idle] /\ Idle.pc = "idle"
  BY IdleFacts DEF End, Go
<1>2. Grips(Idle)' /\ Keyed(Idle)' /\ ~Shapes(Idle)
  BY <1>1, LooseGrips DEF Plant
<1> QED
  BY <1>1, <1>2, WaitTurn

LEMMA WaitCommit ==
  ASSUME TreeInv, TreeInv', WaitInv, NEW w \in Workers, Commit(w)
  PROVE  WaitInv'
<1>1. PICK j \in Job : j = job[w] /\ Fits(j) /\ Grips(j)
  BY ThreadFacts DEF WaitInv
<1>2. j.pc = "commit" /\ End(w) /\ j.verb \in {"project", "init"} /\ Container(j.id)
  BY <1>1 DEF Commit, At, Fits, Making, Grips, Plant
<1>3. \A c : ~InHand(job[w], c)
  BY <1>1, <1>2 DEF InHand
<1>4. CASE Can(j.id, "Shaping")
  <2>1. Move(j.id, "Shaping") /\ j.id \in Live /\ IsProject(j.id) /\ item[j.id].state # "Done"
    BY <1>1, <1>2, <1>4, CanMove DEF Commit, Container
  <2>2. approved' = approved /\ "Shaping" \in M!States
    BY <1>2 DEF End, Go, M!States
  <2>3. /\ Steady(NoId) /\ Flat' /\ \A c \in Live' : Waits(c)' => c \in Live /\ Waits(c)
    BY <2>1, <2>2, MoveWaits DEF WaitInv
  <2> QED
    BY <1>2, <1>3, <2>3, IdleTree
<1>5. CASE ~Can(j.id, "Shaping")
  <2>1. Same /\ Go(w, Idle)
    BY <1>1, <1>2, <1>5 DEF Commit, End
  <2> QED
    BY <1>3, <2>1, IdleTurn
<1> QED
  BY <1>4, <1>5

LEMMA WaitWire ==
  ASSUME TreeInv, TreeInv', WaitInv, NEW w \in Workers, WireTask(w)
  PROVE  WaitInv'
<1>1. /\ Block(job[w].new, job[w].needs) /\ End(w) /\ approved' = approved
      /\ job[w].verb = "task"
  BY DEF WireTask, End, Go
<1>2. /\ Steady(NoId) /\ Flat' /\ \A c \in Live' : Waits(c)' => c \in Live /\ Waits(c)
  BY <1>1, BlockSteady DEF WaitInv
<1>3. \A c : ~InHand(job[w], c)
  BY <1>1 DEF InHand
<1> QED
  BY <1>1, <1>2, <1>3, IdleTree

-------------------------------------------------------------------------------
(* A proposal is set, and a split card goes to review. *)
LEMMA WaitSet ==
  ASSUME TreeInv, TreeInv', WaitInv, NEW w \in Workers, SetProposal(w)
  PROVE  WaitInv'
<1>1. PICK j \in Job : j = job[w] /\ Grips(j)
  BY ThreadFacts DEF WaitInv
<1>2. /\ j.pc = "set" /\ Card(j.id) /\ j.id \in Live
      /\ (j.verb = "plan" <=> IsInitial(j.id)) /\ (j.verb = "plan" <=> j.verb # "split")
  BY <1>1 DEF SetProposal, At, Grips, Card
<1>3. \A c : ~InHand(job[w], c)
  BY <1>1, <1>2 DEF InHand
<1>4. CASE ~Frozen(j.id)
  <2> DEFINE r == [item[j.id] EXCEPT !.proposal = j.specs, !.made = Unmade]
             q == IF j.verb = "split" THEN [j EXCEPT !.pc = "review"] ELSE Idle
  <2>1. Write(j.id, r) /\ Go(w, q)
    BY <1>1, <1>2, <1>4 DEF SetProposal, Next_, End
  <2>2. job' = [job EXCEPT ![w] = q] /\ approved' = approved
    BY <2>1 DEF Go
  <2>3. item[j.id] \in Item
    BY <1>2 DEF TreeInv, Indexed, TreeOK
  <2>4. SameOrigin(r, item[j.id]) /\ r.state = item[j.id].state
    BY <2>3 DEF Item, SameOrigin
  <2>5. ~IsProject(j.id) /\ (IsInitial(j.id) => item[j.id].state # "Done")
    BY <1>2, <1>4 DEF Frozen, M!Terminal, Card
  <2> HIDE DEF r
  <2>6. /\ Steady(NoId) /\ Flat' /\ Live' = Live /\ item'[j.id] = r
        /\ \A c \in Live : c # j.id => item'[c] = item[c] /\ (Linked(c)' <=> Linked(c))
    BY <1>2, <2>1, <2>2, <2>4, <2>5, WriteSteady DEF WaitInv
  <2>7. Card(j.id)' /\ (IsInitial(j.id)' <=> IsInitial(j.id))
    BY <1>2, <2>6, SteadyFacts
  <2>8. Grips(q)' /\ Keyed(q)' /\ ~Shapes(q)
    <3>1. CASE j.verb = "split"
      <4>1. q.pc = "review" /\ q.verb = "split" /\ q.id = j.id
        BY <3>1, PcFields
      <4> HIDE DEF q
      <4>2. ~IsInitial(j.id)'
        BY <1>2, <2>7, <3>1
      <4>3. ~IsInitial(q.id)' /\ Card(q.id)'
        BY <2>7, <4>1, <4>2 DEF IsInitial, Card, IsProject
      <4> QED
        BY <4>1, <4>3 DEF Grips, Keyed, Shapes, Plant, Forms
    <3>2. CASE j.verb # "split"
      BY <3>2, IdleFacts, LooseGrips DEF Plant
    <3> QED
      BY <3>1, <3>2
  <2>9. ASSUME NEW c \in Live', Waits(c)'
        PROVE  InHand(q, c) \/ (c \in Live /\ Waits(c) /\ ~InHand(job[w], c))
    <3>1. CASE c = j.id
      <4>1. item[c].state = "Done"
        BY <2>4, <2>6, <2>9, <3>1 DEF Waits
      <4>2. j.verb = "split"
        BY <1>2, <2>5, <3>1, <4>1
      <4> QED
        BY <3>1, <4>2, PcFields DEF InHand
    <3>2. CASE c # j.id
      <4>1. c \in Live /\ item[c].state = "Done" /\ item[c].proposal # None /\ ~Linked(c)
        BY <2>6, <2>9, <3>2 DEF Waits
      <4> QED
        BY <1>3, <2>6, <2>9, <4>1, WaitsBack
    <3> QED
      BY <3>1, <3>2
  <2> HIDE DEF q
  <2> QED
    BY <2>2, <2>6, <2>8, <2>9, WaitTurn
<1>5. CASE Frozen(j.id)
  <2>1. Same /\ Go(w, Idle)
    BY <1>1, <1>5 DEF SetProposal, End
  <2> QED
    BY <1>3, <2>1, IdleTurn
<1> QED
  BY <1>4, <1>5

LEMMA WaitReview ==
  ASSUME TreeInv, TreeInv', WaitInv, NEW w \in Workers, Review(w)
  PROVE  WaitInv'
<1>1. PICK j \in Job : j = job[w] /\ Grips(j)
  BY ThreadFacts DEF WaitInv
<1>2. /\ j.pc = "review" /\ Card(j.id) /\ j.id \in Live /\ End(w)
      /\ j.verb = "split" /\ ~IsInitial(j.id)
  BY <1>1 DEF Review, At, Grips, Card
<1>3. approved' = approved /\ "Review" \in M!States
  BY <1>2 DEF End, Go, M!States
<1>4. \A c : InHand(job[w], c) => c = j.id
  BY <1>1 DEF InHand
<1>5. CASE Can(j.id, "Review")
  <2>1. Move(j.id, "Review") /\ item[j.id].state \notin {"Draft", "Shaping"}
    BY <1>1, <1>5, CanMove DEF Review
  <2>2. /\ Steady(NoId) /\ Flat' /\ \A c \in Live' : Waits(c)' => c \in Live /\ Waits(c) /\ c # j.id
    BY <1>2, <1>3, <2>1, MoveWaits DEF WaitInv
  <2> QED
    BY <1>2, <1>4, <2>2, IdleTree
<1>6. CASE ~Can(j.id, "Review")
  <2>1. Same /\ Go(w, Idle)
    BY <1>1, <1>2, <1>6 DEF Review, End
  <2>2. ~Waits(j.id)
    BY <1>2, <1>6, Unhindered DEF Waits
  <2> QED
    BY <1>4, <2>1, <2>2, IdleTurn
<1> QED
  BY <1>5, <1>6

-------------------------------------------------------------------------------
(* The rows of an approved proposal. *)
LEMMA RowTurn ==
  ASSUME TreeInv, TreeInv', WaitInv, NEW w \in Workers, NEW q, Go(w, q), Same, Forms(job[w]),
         q.verb = job[w].verb, q.id = job[w].id,
         q.pc \in {"load", "match", "next", "check", "wire", "stamp"},
         q.pc \in RowPcs => Container(q.proj), Keyed(q)
  PROVE  WaitInv'
<1>1. Card(q.id)
  BY DEF WaitInv, Grips
<1>2. Grips(q) /\ ~Shapes(q)
  BY <1>1 DEF Grips, Shapes, Plant, Forms
<1>3. \A c : InHand(job[w], c) => InHand(q, c)
  BY DEF InHand, Forms
<1> QED
  BY <1>2, <1>3, SameTurn

LEMMA WaitRead ==
  ASSUME TreeInv, TreeInv', WaitInv, NEW w \in Workers, ReadProposal(w) \/ Load(w)
  PROVE  WaitInv'
<1>1. PICK j \in Job : j = job[w] /\ Fits(j) /\ Grips(j) /\ Keyed(j)
  BY ThreadFacts DEF WaitInv
<1>2. j.pc \in {"read", "load"} /\ j.verb \in {"done", "heal"} /\ Forms(j)
  BY <1>1 DEF ReadProposal, Load, At, Fits, Making, Forms
<1>3. Card(j.id) /\ j.id \in Live
  BY <1>1, <1>2 DEF Grips, Card
<1>4. CASE ReadProposal(w) /\ item[j.id].proposal # None /\ ~Linked(j.id)
  <2> DEFINE q == [j EXCEPT !.pc = "load"]
  <2>1. Go(w, q) /\ Same
    BY <1>1, <1>3, <1>4 DEF ReadProposal
  <2>2. q.pc = "load" /\ q.verb = j.verb /\ q.id = j.id
    BY PcFields
  <2> HIDE DEF q
  <2>3. Keyed(q)
    BY <1>1, <1>2, <2>2 DEF Keyed, RowPcs
  <2> QED
    BY <1>1, <1>2, <2>1, <2>2, <2>3, RowTurn DEF RowPcs
<1>5. CASE Load(w) /\ item[j.id].proposal # None
  <2> DEFINE q == [j EXCEPT !.pc = "match", !.specs = item[j.id].proposal, !.proj = item[j.id].parent]
  <2>1. Go(w, q) /\ Same
    BY <1>1, <1>3, <1>5 DEF Load
  <2>2. /\ q.pc = "match" /\ q.verb = j.verb /\ q.id = j.id
        /\ q.specs = item[j.id].proposal /\ q.proj = item[j.id].parent
    BY DEF Job
  <2> HIDE DEF q
  <2>3. Container(q.proj)
    BY <1>3, <2>2 DEF WaitInv, Flat, Card
  <2>4. Keyed(q)
    BY <1>1, <1>2, <2>2 DEF Keyed, RowPcs
  <2> QED
    BY <1>1, <1>2, <2>1, <2>2, <2>3, <2>4, RowTurn
<1>6. CASE item[j.id].proposal = None \/ (ReadProposal(w) /\ Linked(j.id))
  <2>1. Go(w, Idle) /\ Same
    BY <1>1, <1>6 DEF ReadProposal, Load, At
  <2>2. \A c \in Live : Waits(c) => ~InHand(job[w], c)
    BY <1>1, <1>6 DEF InHand, Waits
  <2> QED
    BY <2>1, <2>2, IdleTurn
<1> QED
  BY <1>4, <1>5, <1>6

LEMMA WaitRows ==
  ASSUME TreeInv, TreeInv', WaitInv, NEW w \in Workers, Match(w) \/ NextRow(w)
  PROVE  WaitInv'
<1>1. PICK j \in Job : j = job[w] /\ Fits(j) /\ Grips(j) /\ Keyed(j)
  BY ThreadFacts DEF WaitInv
<1>2. j.pc \in {"match", "next"} /\ j.verb \in {"done", "heal"} /\ Forms(j) /\ Container(j.proj)
  BY <1>1 DEF Match, NextRow, At, Fits, Making, Forms, Grips, RowPcs
<1>3. CASE Match(w)
  <2>1. PICK known : Go(w, [j EXCEPT !.pc = "next", !.known = known, !.todo = j.specs]) /\ Same
    BY <1>1, <1>3 DEF Match
  <2> DEFINE q == [j EXCEPT !.pc = "next", !.known = known, !.todo = j.specs]
  <2>2. /\ q.pc = "next" /\ q.verb = j.verb /\ q.id = j.id /\ q.proj = j.proj /\ q.specs = j.specs
        /\ q.todo = j.specs
    BY DEF Job
  <2>3. Go(w, q)
    BY <2>1
  <2> HIDE DEF q
  <2>4. j.pc = "match"
    BY <1>1, <1>3 DEF Match, At
  <2>5. Keyed(q)
    BY <1>1, <2>2, <2>4 DEF Keyed, RowPcs
  <2> QED
    BY <1>1, <1>2, <2>1, <2>2, <2>3, <2>5, RowTurn
<1>4. CASE NextRow(w) /\ j.todo = None
  <2> DEFINE q == [j EXCEPT !.pc = "wire", !.todo = j.specs]
  <2>1. Go(w, q) /\ Same /\ j.pc = "next"
    BY <1>1, <1>4 DEF NextRow, At
  <2>2. /\ q.pc = "wire" /\ q.verb = j.verb /\ q.id = j.id /\ q.specs = j.specs
        /\ q.keys = j.keys
    BY DEF Job
  <2> HIDE DEF q
  <2>3. KeysOf(j.todo) = {}
    BY <1>4 DEF KeysOf, None
  <2>4. Keyed(q)
    BY <1>1, <2>1, <2>2, <2>3 DEF Keyed, RowPcs
  <2> QED
    BY <1>1, <1>2, <2>1, <2>2, <2>4, RowTurn DEF RowPcs
<1>5. CASE NextRow(w) /\ j.todo # None /\ j.known[Head(j.todo).title] # NoId
  <2>1. PICK i : i = j.known[Head(j.todo).title]
    OBVIOUS
  <2> DEFINE q == [j EXCEPT !.keys[Head(j.todo).key] = i, !.todo = Tail(@)]
  <2>2. Go(w, q) /\ Same /\ j.pc = "next"
    BY <1>1, <1>5, <2>1 DEF NextRow, At
  <2>3. PICK keys : keys = [j.keys EXCEPT ![Head(j.todo).key] = i]
    OBVIOUS
  <2>4. /\ q.pc = j.pc /\ q.verb = j.verb /\ q.id = j.id /\ q.proj = j.proj /\ q.specs = j.specs
        /\ q.todo = Tail(j.todo) /\ q.keys = keys
    BY <2>3 DEF Job
  <2> HIDE DEF q
  <2>5. (\A k \in KeysOf(j.specs) : j.keys[k] # NoId \/ k \in KeysOf(j.todo)) =>
          (\A k \in KeysOf(j.specs) : keys[k] # NoId \/ k \in KeysOf(Tail(j.todo)))
    BY <1>5, <2>1, <2>3, KeysOn
  <2>6. Keyed(q)
    BY <1>1, <2>2, <2>4, <2>5 DEF Keyed, RowPcs
  <2> QED
    BY <1>1, <1>2, <2>2, <2>4, <2>6, RowTurn
<1>6. CASE NextRow(w) /\ j.todo # None /\ j.known[Head(j.todo).title] = NoId
  <2> DEFINE q == [j EXCEPT !.pc = "check", !.title = Head(j.todo).title]
  <2>1. Go(w, q) /\ Same /\ j.pc = "next"
    BY <1>1, <1>6 DEF NextRow, At
  <2>2. /\ q.pc = "check" /\ q.verb = j.verb /\ q.id = j.id /\ q.proj = j.proj /\ q.specs = j.specs
        /\ q.todo = j.todo /\ q.keys = j.keys
    BY DEF Job
  <2> HIDE DEF q
  <2>3. Keyed(q)
    BY <1>1, <2>1, <2>2 DEF Keyed, RowPcs
  <2> QED
    BY <1>1, <1>2, <2>1, <2>2, <2>3, RowTurn
<1> QED
  BY <1>3, <1>4, <1>5, <1>6

LEMMA WaitEdges ==
  ASSUME TreeInv, TreeInv', WaitInv, NEW w \in Workers, WireRow(w)
  PROVE  WaitInv'
<1>1. PICK j \in Job : j = job[w] /\ Grips(j) /\ Keyed(j)
  BY ThreadFacts DEF WaitInv
<1>2. j.pc = "wire" /\ j.verb \in {"done", "heal"} /\ Forms(j)
  BY <1>1 DEF WireRow, At, Forms
<1>3. CASE j.todo = None
  <2> DEFINE q == [j EXCEPT !.pc = "stamp"]
  <2>1. Go(w, q) /\ Same
    BY <1>1, <1>3 DEF WireRow, Next_
  <2>2. q.pc = "stamp" /\ q.verb = j.verb /\ q.id = j.id /\ q.keys = j.keys /\ q.specs = j.specs
    BY PcFields
  <2> HIDE DEF q
  <2>3. Keyed(q)
    BY <1>1, <1>2, <2>2 DEF Keyed, RowPcs
  <2> QED
    BY <1>1, <1>2, <2>1, <2>2, <2>3, RowTurn DEF RowPcs
<1>4. CASE j.todo # None
  <2> DEFINE q == [j EXCEPT !.todo = Tail(@)]
  <2>1. /\ Go(w, q)
        /\ Same \/ \E needs : Block(j.keys[Head(j.todo).key], needs)
    BY <1>1, <1>4 DEF WireRow
  <2>2. q.pc = "wire" /\ q.verb = j.verb /\ q.id = j.id /\ q.keys = j.keys /\ q.specs = j.specs
    BY <1>2 DEF Job
  <2> HIDE DEF q
  <2>3. Keyed(q)
    BY <1>1, <1>2, <2>2 DEF Keyed, RowPcs
  <2>4. CASE Same
    BY <1>1, <1>2, <2>1, <2>2, <2>3, <2>4, RowTurn DEF RowPcs
  <2>5. CASE \E needs : Block(j.keys[Head(j.todo).key], needs)
    <3>1. job' = [job EXCEPT ![w] = q] /\ approved' = approved
      BY <2>1 DEF Go
    <3>2. PICK needs, i : Block(i, needs)
      BY <2>5
    <3>3. /\ Steady(NoId) /\ Flat' /\ Live' = Live
          /\ \A c \in Live' : Waits(c)' => c \in Live /\ Waits(c)
      BY <3>1, <3>2, BlockSteady DEF WaitInv
    <3>4. Grips(q) /\ ~Shapes(q)
      <4>1. Card(q.id)
        BY <1>1, <1>2, <2>2 DEF Grips
      <4> QED
        BY <1>2, <2>2, <4>1 DEF Grips, Shapes, Plant, Forms, RowPcs
    <3>5. Grips(q)' /\ Keyed(q)'
      BY <2>3, <3>3, <3>4, GripStays, KeyedStays
    <3>6. \A c : InHand(job[w], c) => InHand(q, c)
      BY <1>1, <1>2, <2>2 DEF InHand
    <3>7. \A c \in Live' : Waits(c)' => InHand(q, c) \/ (c \in Live /\ Waits(c) /\ ~InHand(job[w], c))
      BY <3>3, <3>6
    <3> QED
      BY <3>1, <3>3, <3>4, <3>5, <3>7, WaitTurn
  <2> QED
    BY <2>1, <2>4, <2>5
<1> QED
  BY <1>3, <1>4

LEMMA ProposalKeys ==
  ASSUME TreeInv, NEW c \in Live
  PROVE  KeysOf(item[c].proposal) \subseteq Keys
<1>1. item[c].proposal \in Seq(Spec_)
  BY ProposalFacts DEF TreeInv, Indexed, TreeOK, Item
<1>2. ASSUME NEW k \in KeysOf(item[c].proposal)
      PROVE  k \in Keys
  <2>1. PICK n \in DOMAIN item[c].proposal : k = item[c].proposal[n].key
    BY DEF KeysOf
  <2>2. item[c].proposal[n] \in Spec_
    BY <1>1, <2>1
  <2> QED
    BY <2>1, <2>2 DEF Spec_
<1> QED
  BY <1>2

LEMMA WaitStamp ==
  ASSUME TreeInv, TreeInv', WaitInv, NEW w \in Workers, Stamp(w)
  PROVE  WaitInv'
<1>1. PICK j \in Job : j = job[w] /\ Fits(j) /\ Grips(j) /\ Keyed(j)
  BY ThreadFacts DEF WaitInv
<1>2. PICK c : c = j.id
  OBVIOUS
<1>3. /\ j.pc = "stamp" /\ j.verb \in {"done", "heal"} /\ Forms(j) /\ End(w)
      /\ c \in Live /\ ~IsProject(c) /\ approved' = approved
  BY <1>1, <1>2 DEF Stamp, At, Fits, Making, Forms, Grips, Card, End, Go
<1>4. item[c] \in Item
  BY <1>3 DEF TreeInv, Indexed, TreeOK
<1>5. \A d : InHand(job[w], d) => d = c
  BY <1>1, <1>2 DEF InHand
<1>6. CASE IsInitial(c)
  <2> DEFINE hit == [k \in Keys |-> IF k \in KeysOf(item[c].proposal) /\ j.keys[k] # NoId
                                    THEN j.keys[k] ELSE item[c].made[k]]
             r == [item[c] EXCEPT !.made = hit]
  <2>1. Write(c, r)
    BY <1>1, <1>2, <1>3, <1>6 DEF Stamp
  <2>2. /\ SameOrigin(r, item[c]) /\ r.state = item[c].state /\ r.proposal = item[c].proposal
        /\ r.made = hit
    BY <1>4 DEF Item, SameOrigin
  <2>3. \A k \in KeysOf(item[c].proposal) :
          hit[k] = NoId => j.keys[k] = NoId /\ item[c].made[k] = NoId
    BY <1>3, ProposalKeys
  <2> HIDE DEF r, hit
  <2>4. /\ Steady(NoId) /\ Flat' /\ Live' = Live /\ item'[c] = r
        /\ \A d \in Live : d # c => item'[d] = item[d] /\ (Linked(d)' <=> Linked(d))
    BY <1>3, <2>1, <2>2, WriteSteady DEF WaitInv
  <2>5. ASSUME NEW d \in Live, Waits(d)'
        PROVE  Waits(d) /\ ~InHand(job[w], d)
    <3>1. CASE d # c
      <4>1. item[d].state = "Done" /\ item[d].proposal # None /\ ~Linked(d)
        BY <2>4, <2>5, <3>1 DEF Waits
      <4> QED
        BY <1>5, <2>4, <2>5, <3>1, <4>1, WaitsBack
    <3>2. CASE d = c
      <4>1. item[c].state = "Done" /\ item[c].proposal # None /\ ~Linked(c)'
        BY <2>2, <2>4, <2>5, <3>2 DEF Waits
      <4>2. PICK k \in KeysOf(item[c].proposal) : hit[k] = NoId
        BY <2>2, <2>4, <4>1 DEF Linked
      <4>3. j.keys[k] = NoId /\ ~Linked(c)
        BY <2>3, <4>2 DEF Linked
      <4>4. j.verb # "done"
        BY <1>1, <1>2, <1>3, <1>6, <4>2, <4>3 DEF Keyed
      <4>5. Waits(d)
        BY <2>4, <2>5, <3>2, <4>1, <4>3, WaitsBack
      <4> QED
        BY <1>1, <1>3, <4>4, <4>5 DEF InHand
    <3> QED
      BY <3>1, <3>2
  <2> QED
    BY <1>3, <2>4, <2>5, IdleTree
<1>7. CASE ~IsInitial(c)
  <2> DEFINE r == [item[c] EXCEPT !.proposal = None, !.made = Unmade]
  <2>1. Write(c, r)
    BY <1>1, <1>2, <1>3, <1>7 DEF Stamp
  <2>2. SameOrigin(r, item[c]) /\ r.state = item[c].state /\ r.proposal = None
    BY <1>4 DEF Item, SameOrigin
  <2> HIDE DEF r
  <2>3. /\ Steady(NoId) /\ Flat' /\ Live' = Live /\ item'[c] = r
        /\ \A d \in Live : d # c => item'[d] = item[d] /\ (Linked(d)' <=> Linked(d))
    BY <1>3, <1>7, <2>1, <2>2, WriteSteady DEF WaitInv
  <2>4. ASSUME NEW d \in Live, Waits(d)'
        PROVE  Waits(d) /\ ~InHand(job[w], d)
    <3>1. d # c
      BY <2>2, <2>3, <2>4 DEF Waits
    <3>2. item[d].state = "Done" /\ item[d].proposal # None /\ ~Linked(d)
      BY <2>3, <2>4, <3>1 DEF Waits
    <3> QED
      BY <1>5, <2>3, <2>4, <3>1, <3>2, WaitsBack
  <2> QED
    BY <1>3, <2>3, <2>4, IdleTree
<1> QED
  BY <1>6, <1>7

-------------------------------------------------------------------------------
(* Projects are closed, cards are claimed and reported on. *)
LEMMA WaitEpics ==
  ASSUME TreeInv, TreeInv', WaitInv, NEW w \in Workers, Judge(w) \/ Open(w) \/ Close(w)
  PROVE  WaitInv'
<1>1. PICK j \in Job : j = job[w] /\ Fits(j) /\ Grips(j)
  BY ThreadFacts DEF WaitInv
<1>2. j.pc \in {"judge", "open", "close"} /\ j.verb = "epics" /\ \A i \in j.stack : Container(i)
  BY <1>1 DEF Judge, Open, Close, At, Fits, Making, Grips
<1>3. \A c : ~InHand(job[w], c)
  BY <1>1, <1>2 DEF InHand
<1>4. ASSUME NEW q, q.verb = "epics", q.pc \in {"judge", "open", "close"},
             \A i \in q.stack : Container(i), q.pc \in {"open", "close"} => Container(q.new)
      PROVE  Grips(q) /\ Keyed(q) /\ ~Shapes(q)
  BY <1>4 DEF Grips, Keyed, Shapes, Plant, Forms
<1>5. CASE Judge(w)
  <2> DEFINE i == CHOOSE k \in j.stack : \A h \in j.stack : k <= h
  <2>1. /\ Same
        /\ \/ j.stack = {} /\ Go(w, Idle)
           \/ j.stack # {} /\ Go(w, [j EXCEPT !.pc = "open", !.new = i, !.stack = @ \ {i}])
           \/ Go(w, [j EXCEPT !.stack = @ \ {i}])
    BY <1>1, <1>5 DEF Judge
  <2>2. j.stack # {} => i \in j.stack
    <3>1. j.stack \in SUBSET Nat
      BY DEF Job, Ids
    <3>2. j.stack # {} => \E k \in j.stack : \A h \in j.stack : k <= h
      BY <3>1, LowestOf
    <3> QED
      BY <3>2
  <2> HIDE DEF i
  <2>3. CASE Go(w, Idle)
    BY <1>3, <2>1, <2>3, IdleTurn
  <2>4. CASE j.stack # {} /\ Go(w, [j EXCEPT !.pc = "open", !.new = i, !.stack = @ \ {i}])
    <3> DEFINE q == [j EXCEPT !.pc = "open", !.new = i, !.stack = @ \ {i}]
    <3>1. q.pc = "open" /\ q.verb = "epics" /\ q.new = i /\ q.stack = j.stack \ {i}
      BY <1>2 DEF Job
    <3>2. Go(w, q)
      BY <2>4
    <3> HIDE DEF q
    <3>3. Grips(q) /\ Keyed(q) /\ ~Shapes(q)
      BY <1>2, <1>4, <2>2, <2>4, <3>1
    <3> QED
      BY <1>3, <2>1, <3>2, <3>3, SameTurn
  <2>5. CASE Go(w, [j EXCEPT !.stack = @ \ {i}])
    <3> DEFINE q == [j EXCEPT !.stack = @ \ {i}]
    <3>1. q.pc = "judge" /\ q.verb = "epics" /\ q.stack = j.stack \ {i}
      BY <1>1, <1>2, <1>5 DEF Job, Judge, At
    <3>2. Go(w, q)
      BY <2>5
    <3> HIDE DEF q
    <3>3. Grips(q) /\ Keyed(q) /\ ~Shapes(q)
      BY <1>2, <1>4, <3>1
    <3> QED
      BY <1>3, <2>1, <3>2, <3>3, SameTurn
  <2> QED
    BY <2>1, <2>3, <2>4, <2>5
<1>6. CASE Open(w) \/ Close(w)
  <2>1. PICK pc \in {"close", "judge"}, to \in {"Shaping", "Done"} :
          /\ Go(w, [j EXCEPT !.pc = pc])
          /\ (Can(j.new, to) /\ Move(j.new, to)) \/ Same
    BY <1>1, <1>6 DEF Open, Close, Next_
  <2> DEFINE q == [j EXCEPT !.pc = pc]
  <2>2. Go(w, q)
    BY <2>1
  <2>3. q.pc = pc /\ q.verb = "epics" /\ q.new = j.new /\ q.stack = j.stack
    BY <1>2, PcFields
  <2> HIDE DEF q
  <2>4. Container(j.new)
    BY <1>1, <1>6 DEF Open, Close, At, Grips
  <2>5. Grips(q) /\ Keyed(q) /\ ~Shapes(q)
    BY <1>2, <1>4, <2>3, <2>4
  <2>6. CASE Same
    BY <1>3, <2>2, <2>5, <2>6, SameTurn
  <2>7. CASE Can(j.new, to) /\ Move(j.new, to)
    <3>1. to \in M!States /\ approved' = approved /\ j.new \in Live /\ IsProject(j.new) /\ ~IsInitial(j.new)
      BY <2>2, <2>4 DEF M!States, Go, Container, WaitInv, Flat
    <3>2. Steady(NoId)
      BY <2>7, <3>1, MoveWaits DEF WaitInv
    <3>3. Grips(q)' /\ Keyed(q)'
      BY <2>5, <3>2, GripStays, KeyedStays
    <3> QED
      BY <1>3, <2>2, <2>5, <2>7, <3>1, <3>3, MoveTurn
  <2> QED
    BY <2>1, <2>6, <2>7
<1> QED
  BY <1>5, <1>6

LEMMA WaitAtOnce ==
  ASSUME TreeInv, TreeInv', WaitInv, NothingUndone, NEW i \in Ids, Claim(i) \/ Report(i) \/ Delete(i)
  PROVE  WaitInv'
<1>1. ~Delete(i)
  BY DEF Delete, Happens, NothingUndone
<1>2. PICK to \in {"Claimed", "Review"} :
        Move(i, to) /\ i \in Live /\ item[i].state \in {"Backlog", "Claimed"}
  BY <1>1, CanMove DEF Claim, Report
<1>3. job' = job /\ approved' = approved /\ to \in M!States
  BY <1>1, <1>2 DEF Claim, Report, AtOnce, M!States
<1>4. /\ Steady(NoId) /\ Flat' /\ \A c \in Live' : Waits(c)' => c \in Live /\ Waits(c)
  BY <1>2, <1>3, MoveWaits DEF WaitInv
<1> QED
  BY <1>3, <1>4, WaitRests

LEMMA WaitInit ==
  ASSUME Init
  PROVE  WaitInv
<1>1. Live = {} /\ \A w \in Workers : job[w] = Idle
  BY DEF Init, Live
<1>2. Grips(Idle) /\ Keyed(Idle) /\ ~Shapes(Idle)
  BY IdleFacts, LooseGrips DEF Plant
<1> QED
  BY <1>1, <1>2 DEF WaitInv, Flat

LEMMA WaitStep ==
  ASSUME TreeInv, WaitInv, NothingUndone, [Next]_vars
  PROVE  WaitInv'
<1>0. TreeInv'
  BY TreeStep
<1>1. CASE UNCHANGED vars
  <2>1. UNCHANGED <<item, job, approved>> /\ Live' = Live
    BY <1>1 DEF vars, Live
  <2> QED
    BY <2>1 DEF WaitInv, Flat, Grips, Keyed, Shapes, Plant, Forms, InHand, Waits, Linked, Container,
                Card, IsProject, IsInitial
<1>2. ASSUME NEW w \in Workers, Starts(w)
      PROVE  WaitInv'
  <2>1. PICK i \in Ids : i = 1
    BY BoundsAssumption DEF Ids
  <2>2. CASE NewProject(w)
    BY <1>0, <2>2, WaitProject
  <2>3. CASE \E k \in Ids : Finish(w, k)
    BY <1>0, <2>3, WaitFinish
  <2>4. CASE ~NewProject(w) /\ ~\E k \in Ids : Finish(w, k)
    BY <1>0, <1>2, <2>1, <2>4, WaitStarts DEF Starts
  <2> QED
    BY <2>2, <2>3, <2>4
<1>3. ASSUME NEW w \in Workers, Goes(w)
      PROVE  WaitInv'
  <2>1. ~(DropProposal(w) \/ Bounce(w))
    BY DEF DropProposal, Bounce, At, WaitInv, Grips
  <2>2. ~(Walk(w) \/ Retire(w) \/ Look(w) \/ Restore(w))
    <3>1. PICK j \in Job : j = job[w] /\ Fits(j) /\ (j.pc = "idle" \/ j.verb = "project" \/ Happens(j.verb))
      BY ThreadFacts DEF TreeInv, ThreadsOK, At
    <3>2. j.pc \notin {"walk", "retire", "look", "restore"}
      BY <3>1 DEF Fits, Making, Happens, NothingUndone
    <3> QED
      BY <3>1, <3>2 DEF Walk, Retire, Look, Restore, At
  <2> QED
    BY <1>0, <1>3, <2>1, <2>2, WaitSeed, WaitParent, WaitCreate, WaitShape, WaitReady, WaitCommit,
       WaitWire, WaitSet, WaitReview, WaitRead, WaitRows, WaitEdges, WaitStamp, WaitEpics DEF Goes
<1>4. CASE \E i \in Ids : Claim(i) \/ Report(i) \/ Delete(i)
  BY <1>0, <1>4, WaitAtOnce
<1>5. ~Crash
  BY DEF Crash, NothingUndone, TreeInv, ThreadsOK
<1> QED
  BY <1>1, <1>2, <1>3, <1>4, <1>5 DEF Next

(* When all verbs have come to their end, no card that was approved waits for  *)
(* its Tasks: where no thread dies and no card is archived, deleted or sent    *)
(* back beside the approvals, whatever else is created, claimed, split, healed *)
(* and closed meanwhile, by however many threads.                              *)
THEOREM ApprovalsTurnIntoTasks == Spec => [](NothingUndone => ApprovedBecomesTasks)
<1> DEFINE Inv == TreeInv /\ (NothingUndone => WaitInv)
<1>1. Init => Inv
  BY TreeInit, WaitInit
<1>2. Inv /\ [Next]_vars => Inv'
  <2> SUFFICES ASSUME Inv, [Next]_vars PROVE Inv'
    OBVIOUS
  <2>1. TreeInv' /\ mix' = mix
    BY TreeStep, MixStays
  <2>2. NothingUndone' <=> NothingUndone
    BY <2>1 DEF NothingUndone
  <2> QED
    BY <2>1, <2>2, WaitStep
<1>3. Inv => (NothingUndone => ApprovedBecomesTasks)
  <2>1. \A w \in Workers : At(w, "idle") => \A c : ~InHand(job[w], c)
    BY DEF At, InHand
  <2> QED
    BY <2>1 DEF WaitInv, ApprovedBecomesTasks
<1> QED
  BY <1>1, <1>2, <1>3, PTL DEF Spec
================================================================================
