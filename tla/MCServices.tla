------------------------------ MODULE MCServices ------------------------------
(* Three services that do not meet, in one instance for TLC: each behaviour is *)
(* of one of them, and the others stay as they began.                          *)
EXTENDS BoardSync, Cockpit, PullRequests

VARIABLE part
vars == <<part, syncVars, cockpitVars, pullVars>>

-------------------------------------------------------------------------------
(* BoardSync: two Tasks of which one is under the other. *)
MCUnder == [i \in Items |-> IF i = "p" THEN {"p", "t"} ELSE {i}]

Still == [deletes |-> FALSE, fails |-> FALSE, drops |-> FALSE, client |-> FALSE, socket |-> TRUE,
          saves |-> FALSE, alone |-> TRUE, exits |-> FALSE, items |-> {"t"}, changes |-> 2,
          writers |-> {CHOOSE w \in Writers : TRUE}, crashes |-> 0]
Watched == [Still EXCEPT !.client = TRUE]
Saved == [Still EXCEPT !.fails = TRUE, !.saves = TRUE, !.exits = TRUE]
MCSyncMixes ==
  {[Saved EXCEPT !.deletes = TRUE],
   [Saved EXCEPT !.writers = Writers],
   [Still EXCEPT !.exits = TRUE, !.deletes = TRUE, !.writers = Writers, !.changes = 1],
   [Watched EXCEPT !.drops = TRUE, !.changes = 3],
   [Watched EXCEPT !.drops = TRUE, !.socket = FALSE],
   [Watched EXCEPT !.saves = TRUE, !.crashes = 1],
   [Watched EXCEPT !.writers = Writers]}

(* Cockpit *)
Cockpits(starts, crashes, faults, parks, attach) ==
  [starts |-> starts, crashes |-> crashes, faults |-> faults, parks |-> parks, attach |-> attach]
Unused == Cockpits(1, 0, 0, 0, FALSE)
MCCockpitMixes ==
  {Cockpits(3, 0, 0, 0, FALSE), Cockpits(2, 1, 0, 0, FALSE), Cockpits(2, 0, 1, 0, FALSE),
   Cockpits(1, 0, 2, 0, FALSE), Cockpits(1, 0, 1, 1, TRUE)}

(* PullRequests *)
Deaf == [hooks |-> FALSE, lossy |-> FALSE, polling |-> FALSE, seeded |-> TRUE, clashes |-> FALSE,
         prompt |-> TRUE, prs |-> {1}, reviews |-> 0, advances |-> 1, runs |-> 2]
Polled == [Deaf EXCEPT !.polling = TRUE]
Hooked == [Deaf EXCEPT !.hooks = TRUE]
MCPullMixes ==
  {[Polled EXCEPT !.prs = {1, 2}, !.seeded = FALSE, !.advances = 2],
   [Polled EXCEPT !.prs = {1, 2}, !.hooks = TRUE, !.prompt = FALSE],
   [Polled EXCEPT !.prs = {1, 2}, !.clashes = TRUE, !.advances = 2],
   [Polled EXCEPT !.reviews = 2],
   [Polled EXCEPT !.reviews = 1, !.hooks = TRUE, !.lossy = TRUE, !.runs = 1],
   [Hooked EXCEPT !.reviews = 2],
   [Hooked EXCEPT !.clashes = TRUE, !.advances = 2, !.prompt = FALSE],
   [Hooked EXCEPT !.clashes = TRUE, !.advances = 2]}

(* What a service is that does not move is a mix of it too. *)
ASSUME IdleAssumption == Still \in SyncMix /\ Unused \in CockpitMix /\ Deaf \in PullMix

-------------------------------------------------------------------------------
Init ==
  /\ part \in {"sync", "cockpit", "pulls"}
  /\ SyncInit(IF part = "sync" THEN SyncMixes ELSE {Still})
  /\ CockpitInit(IF part = "cockpit" THEN CockpitMixes ELSE {Unused})
  /\ PullInit(IF part = "pulls" THEN PullMixes ELSE {Deaf})

OfSync == part = "sync" /\ UNCHANGED <<part, cockpitVars, pullVars>>
OfCockpit == part = "cockpit" /\ UNCHANGED <<part, syncVars, pullVars>>
OfPulls == part = "pulls" /\ UNCHANGED <<part, syncVars, cockpitVars>>

SyncSteps ==
  \/ \E w \in Writers, i \in Items : OfSync /\ Set(w, i)
  \/ \E w \in Writers, i \in Items : OfSync /\ Delete(w, i)
  \/ \E w \in Writers : OfSync /\ Number(w)
  \/ \E w \in Writers : OfSync /\ Push(w)
  \/ \E w \in Writers : OfSync /\ Send(w)
  \/ \E w \in Writers : OfSync /\ Mark(w)
  \/ \E t \in Threads : OfSync /\ Swap(t)
  \/ \E t \in Threads : OfSync /\ Clone(t)
  \/ \E t \in Threads : OfSync /\ Save(t)
  \/ \E t \in Threads : OfSync /\ SaveFails(t)
  \/ (OfSync /\ Tick) \/ (OfSync /\ Interrupt) \/ (OfSync /\ LastFlush)
  \/ (OfSync /\ Exit) \/ (OfSync /\ Crash) \/ (OfSync /\ Restart)
  \/ (OfSync /\ Open) \/ (OfSync /\ Subscribe) \/ (OfSync /\ Drop)
  \/ (OfSync /\ HearMissed) \/ (OfSync /\ HearLag) \/ (OfSync /\ HearLive)
  \/ (OfSync /\ Poll) \/ (OfSync /\ LoadRead)
  \/ \E l \in loads : OfSync /\ LoadNumber(l)
  \/ \E l \in loads : OfSync /\ LoadLands(l)

CockpitSteps ==
  \/ (OfCockpit /\ Start) \/ (OfCockpit /\ Stop) \/ (OfCockpit /\ Park)
  \/ (OfCockpit /\ Resume) \/ (OfCockpit /\ ReapLooks) \/ (OfCockpit /\ ReapDeletes)
  \/ (OfCockpit /\ TickReaps) \/ (OfCockpit /\ TickSeats) \/ (OfCockpit /\ SeatStarts)
  \/ (OfCockpit /\ SeatCancelled) \/ (OfCockpit /\ SeatLooks) \/ (OfCockpit /\ SeatProbes)
  \/ (OfCockpit /\ SeatFindsFree) \/ (OfCockpit /\ SeatKicks) \/ (OfCockpit /\ SeatGivesUp)
  \/ (OfCockpit /\ SeatCreates) \/ (OfCockpit /\ SeatMade) \/ (OfCockpit /\ SeatPublishes)
  \/ (OfCockpit /\ SeatReady) \/ (OfCockpit /\ SeatRelays) \/ (OfCockpit /\ SeatArms)
  \/ (OfCockpit /\ SeatLoses) \/ (OfCockpit /\ FinChecks) \/ (OfCockpit /\ FinCuts)
  \/ (OfCockpit /\ FinReaps) \/ (OfCockpit /\ TermGate) \/ (OfCockpit /\ TermOn)
  \/ (OfCockpit /\ TermEnds) \/ (OfCockpit /\ BoxUp) \/ (OfCockpit /\ BoxGone)
  \/ (OfCockpit /\ BoxDies) \/ (OfCockpit /\ DeleteRefused) \/ (OfCockpit /\ RelayEnds)
  \/ OfCockpit /\ Crashes

PullSteps ==
  \/ \E a \in Actors : OfPulls /\ Find(a)
  \/ \E a \in Actors : OfPulls /\ MarkMerged(a)
  \/ \E a \in Actors : OfPulls /\ Complete(a)
  \/ \E a \in Actors : OfPulls /\ Match(a)
  \/ \E a \in Actors : OfPulls /\ Back(a)
  \/ \E a \in Actors : OfPulls /\ Steer(a)
  \/ \E a \in Actors : OfPulls /\ ParkLive(a)
  \/ \E a \in Actors : OfPulls /\ CatchesUp(a)
  \/ \E a \in Actors : OfPulls /\ Fetch(a)
  \/ \E a \in Actors : OfPulls /\ Outcome(a)
  \/ \E h \in hooks : OfPulls /\ Receive(h)
  \/ \E h \in hooks : OfPulls /\ Lose(h)
  \/ \E p \in PRs : OfPulls /\ Merge(p)
  \/ \E p \in PRs : OfPulls /\ Post(p)
  \/ \E p \in PRs : OfPulls /\ OpenPR(p)
  \/ (OfPulls /\ PollTick) \/ (OfPulls /\ Pull) \/ (OfPulls /\ Reviews)
  \/ (OfPulls /\ Cursor) \/ (OfPulls /\ Tip) \/ (OfPulls /\ SetTip)
  \/ (OfPulls /\ Sweep) \/ (OfPulls /\ PushMain) \/ (OfPulls /\ Knows)
  \/ (OfPulls /\ Rebase) \/ (OfPulls /\ Report) \/ (OfPulls /\ FinishLooks)
  \/ OfPulls /\ Dispatch

Next == SyncSteps \/ CockpitSteps \/ PullSteps

Spec == Init /\ [][Next]_vars /\ SyncFairness /\ CockpitFairness /\ PullFairness

-------------------------------------------------------------------------------
(* Every service keeps its variables in their types, and what they bound. *)
TypeOK == SyncTypeOK /\ CockpitTypeOK /\ PullTypeOK
===============================================================================
