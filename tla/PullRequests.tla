----------------------------- MODULE PullRequests -----------------------------
(***************************************************************************)
(* What GitHub says about a card's pull requests, and what the Board makes *)
(* of it (src/store.rs, src/github_poll.rs, src/api.rs, src/supervisor.rs).*)
(* A webhook may be lost or late; the poll asks for itself and knows what  *)
(* is new by its cursors; a sweep asks again where GitHub had no answer.   *)
(* Each reads the card, waits for GitHub, and writes the card later.       *)
(*                                                                         *)
(* One card: cards meet only through their siblings' catch-up, which is    *)
(* this card's own with another cause.  "Review" stands for the review     *)
(* lane (NeedsHuman with it), "Running" for Claimed too.  Every review     *)
(* asks for something: Board drops the others first of all.                *)
(***************************************************************************)
EXTENDS Integers, FiniteSets, FiniteSetsExt

CONSTANTS
  PRs,           \* pull requests, numbered: the card lists them in this order
  MaxReviews,    \* bound: reviews of a pull request
  PullMixes      \* what happens: each behaviour is one of these

(* hooks, lossy  GitHub sends webhooks; some are lost                          *)
(* polling, seeded  the poll is enabled; its cursors were set before           *)
(* clashes   an advance of main may make a pull request conflict; prompt, main *)
(*           does not move while a "clean" is on its way from GitHub to the card *)
(* bounds: pull requests, reviews of each, advances of main (merges with them), *)
(* runs of the card                                                            *)
PullMix == [hooks: BOOLEAN, lossy: BOOLEAN, polling: BOOLEAN, seeded: BOOLEAN, clashes: BOOLEAN,
            prompt: BOOLEAN, prs: SUBSET PRs, reviews: 0 .. MaxReviews, advances: Nat, runs: Nat]

(* Pull requests are numbered, there is one, and the mixes are mixes. *)
ASSUME PullAssumption ==
  /\ PRs \subseteq Nat /\ PRs # {} /\ MaxReviews \in Nat /\ PullMixes \subseteq PullMix

VARIABLES
  pcard,      \* the card: state, listed and merged PRs, rebase_requested, its run
  gh,         \* GitHub: merged and conflicting PRs, mergeable known, tip of main, reviews
  hooks,      \* webhooks on their way
  act,        \* [Actors -> Act]: the webhook handler, the poll, the sweep; looked is
              \* what was listed when it decided to complete the card, kept for DoneIsMerged
  cursor,     \* webhook_poll_pr_reviews
  tip,        \* webhook_poll_tips
  unread,     \* reviews posted since the card came to Review, while it is there
  pmix        \* the mix of this behaviour

pullVars == <<pcard, gh, hooks, act, cursor, tip, unread, pmix>>

Actors == {"hook", "poll", "sweep"}
Unseeded == -1
Cards == [state: {"Backlog", "Running", "Review", "Done"}, prs: SUBSET PRs, merged: SUBSET PRs,
          retry: BOOLEAN, run: {"none", "work", "rebased", "looked"}, runs: Nat]
Act == [pc: {"idle", "find", "mark", "done", "match", "back", "steer", "park", "catch", "fetch",
             "outcome", "pull", "revs", "cursor", "tip", "settip"},
        pr: PRs, left: SUBSET PRs, looked: SUBSET PRs, news: SUBSET (1 .. MaxReviews), retry: BOOLEAN,
        saw: Nat, answer: {"clean", "conflict", "unknown"}]
Hook == [type: {"merge", "push", "review"}, pr: PRs]
Hub == [merged: SUBSET PRs, clash: SUBSET PRs, known: BOOLEAN, main: Nat,
        posted: [PRs -> 0 .. MaxReviews]]
NoPR == Min(PRs)
Quiet == [pc |-> "idle", pr |-> NoPR, left |-> {}, looked |-> {}, news |-> {}, retry |-> FALSE, saw |-> 0,
          answer |-> "clean"]

PullInit(mixes) ==
  /\ pmix \in mixes
  /\ pcard = [state |-> "Running", prs |-> {}, merged |-> {}, retry |-> FALSE,
              run |-> "work", runs |-> 1]
  /\ gh = [merged |-> {}, clash |-> {}, known |-> TRUE, main |-> 0, posted |-> [p \in PRs |-> 0]]
  /\ hooks = {} /\ act = [a \in Actors |-> Quiet] /\ unread = {}
  /\ cursor = [p \in PRs |-> IF pmix.seeded THEN 0 ELSE Unseeded]
  /\ tip = IF pmix.seeded THEN 0 ELSE Unseeded

At(a, pc) == act[a].pc = pc
Alone(pc) == [Quiet EXCEPT !.pc = pc]
Onto(a, pc) == act' = [act EXCEPT ![a] = IF pc \in {"steer", "park", "catch"} THEN Alone(pc)
                                       ELSE [@ EXCEPT !.pc = pc]]
InLane == pcard.state = "Review"
Lists(p) == p \in pcard.prs
(* pr_url: the first listed one that is not merged, or the first. *)
PrUrl == LET open == pcard.prs \ pcard.merged IN Min(IF open = {} THEN pcard.prs ELSE open)

(* The card moves; what was posted while it waited in Review is over with it. *)
Card(c) ==
  /\ pcard' = c
  /\ unread' = IF c.state = "Review" THEN unread ELSE {}

Backlog(c) == [c EXCEPT !.state = "Backlog", !.retry = FALSE, !.run = "none"]
Bounced == Card(Backlog(pcard))

-------------------------------------------------------------------------------
(* complete_for_merged_pr_by: find the card, mark, and look at what it marked;  *)
(* the webhook goes on to the advance of main, the poll to the reviews.         *)

After(a) == IF a = "hook" THEN "steer" ELSE "revs"

CandidateOnce(p) == pcard.state # "Done" /\ p \in pcard.prs \ pcard.merged     \* mutant
Candidate(p) == pcard.state # "Done" /\ Lists(p)
Find(a) ==
  /\ At(a, "find")
  /\ Onto(a, IF Candidate(act[a].pr) THEN "mark" ELSE After(a))
  /\ UNCHANGED <<pcard, gh, hooks, cursor, tip, unread, pmix>>

SomeMerged(c) == c.merged # {}                                      \* mutant
AllMerged(c) == c.prs # {} /\ c.prs \subseteq c.merged
MarkMerged(a) ==
  /\ At(a, "mark")
  /\ LET c == [pcard EXCEPT !.merged = @ \cup {act[a].pr}] IN
       /\ Card(c)
       /\ IF AllMerged(c) /\ InLane THEN act' = [act EXCEPT ![a].pc = "done", ![a].looked = c.prs]
          ELSE Onto(a, After(a))
  /\ UNCHANGED <<gh, hooks, cursor, tip, pmix>>

Complete(a) ==
  /\ At(a, "done") /\ act' = [act EXCEPT ![a] = IF a = "hook" THEN Alone("steer")
                                               ELSE [@ EXCEPT !.pc = "revs", !.looked = {}]]
  /\ IF pcard.state = "Done" THEN UNCHANGED <<pcard, unread>>
     ELSE Card([pcard EXCEPT !.state = "Done", !.retry = FALSE, !.run = "none"])
  /\ UNCHANGED <<gh, hooks, cursor, tip, pmix>>

-------------------------------------------------------------------------------
(* The poll's walk over its targets, and apply_pr_review_feedback_by.           *)

NextTarget(a, left) ==
  act' = [act EXCEPT ![a] = IF left = {} THEN Alone("tip")
                            ELSE [Quiet EXCEPT !.pc = "pull", !.pr = Min(left), !.left = left]]
NextNews(a, news) ==
  IF news # {} THEN act' = [act EXCEPT ![a].pc = "match", ![a].news = news]
  ELSE IF a = "poll" THEN NextTarget(a, act[a].left \ {act[a].pr})
  ELSE act' = [act EXCEPT ![a] = Quiet]

Match(a) ==
  /\ At(a, "match")
  /\ IF pcard.state \in {"Review", "Running"} /\ Lists(act[a].pr) THEN Onto(a, "back")
     ELSE NextNews(a, act[a].news \ {Min(act[a].news)})
  /\ UNCHANGED <<pcard, gh, hooks, cursor, tip, unread, pmix>>

Back(a) ==
  /\ At(a, "back") /\ NextNews(a, act[a].news \ {Min(act[a].news)})
  /\ IF pcard.state \in {"Review", "Running"} THEN Bounced ELSE UNCHANGED <<pcard, unread>>
  /\ UNCHANGED <<gh, hooks, cursor, tip, pmix>>

(* collect_targets: the pull requests of cards in Review or at work. *)
PollTick ==
  /\ pmix.polling /\ At("poll", "idle") /\ pcard.state \in {"Review", "Running"}
  /\ pcard.prs # {} /\ NextTarget("poll", pcard.prs)
  /\ UNCHANGED <<pcard, gh, hooks, cursor, tip, unread, pmix>>

Pull ==
  /\ At("poll", "pull") /\ Onto("poll", IF act["poll"].pr \in gh.merged THEN "find" ELSE "revs")
  /\ UNCHANGED <<pcard, gh, hooks, cursor, tip, unread, pmix>>

Reviews ==
  /\ At("poll", "revs")
  /\ act' = [act EXCEPT !["poll"].pc = "cursor", !["poll"].saw = gh.posted[act["poll"].pr]]
  /\ UNCHANGED <<pcard, gh, hooks, cursor, tip, unread, pmix>>

FromNext(prev) == prev + 2                                          \* mutant
FirstNew(prev) == prev + 1
Cursor ==
  /\ At("poll", "cursor")
  /\ LET p == act["poll"].pr  prev == cursor[p]  max == act["poll"].saw IN
       /\ cursor' = [cursor EXCEPT ![p] = max]
       /\ NextNews("poll", IF prev = Unseeded THEN {} ELSE FirstNew(prev) .. max)
  /\ UNCHANGED <<pcard, gh, hooks, tip, unread, pmix>>

Tip ==
  /\ At("poll", "tip")
  /\ act' = [act EXCEPT !["poll"].pc = "settip", !["poll"].saw = gh.main]
  /\ UNCHANGED <<pcard, gh, hooks, cursor, tip, unread, pmix>>

SetTip ==
  /\ At("poll", "settip") /\ tip' = act["poll"].saw
  /\ IF tip \in {Unseeded, act["poll"].saw} THEN act' = [act EXCEPT !["poll"] = Quiet]
     ELSE Onto("poll", "steer")
  /\ UNCHANGED <<pcard, gh, hooks, cursor, unread, pmix>>

-------------------------------------------------------------------------------
(* notify_main_advanced: a card seen live is parked and queued again, whatever  *)
(* it has become (park does not ask).  Then what waits in Review is checked:    *)
(* the PR is asked for and the answer recorded later.                           *)

Steer(a) ==
  /\ At(a, "steer") /\ Onto(a, IF pcard.state = "Running" THEN "park" ELSE "catch")
  /\ UNCHANGED <<pcard, gh, hooks, cursor, tip, unread, pmix>>

ParkLive(a) ==
  /\ At(a, "park") /\ Onto(a, "catch")
  /\ IF pcard.state \in {"Running", "Review"} THEN Bounced ELSE UNCHANGED <<pcard, unread>>
  /\ UNCHANGED <<gh, hooks, cursor, tip, pmix>>

Asks(a) == act' = [act EXCEPT ![a] = [Quiet EXCEPT !.pc = "fetch", !.pr = PrUrl,
                                                   !.retry = pcard.retry]]
CatchesUp(a) ==
  /\ At(a, "catch")
  /\ IF InLane /\ pcard.prs # {} THEN Asks(a) ELSE act' = [act EXCEPT ![a] = Quiet]
  /\ UNCHANGED <<pcard, gh, hooks, cursor, tip, unread, pmix>>

(* list_awaiting_rebase *)
Sweep ==
  /\ At("sweep", "idle") /\ InLane /\ pcard.retry /\ Asks("sweep")
  /\ UNCHANGED <<pcard, gh, hooks, cursor, tip, unread, pmix>>

(* mergeable is null while GitHub computes it, and for a merged PR. *)
Mergeable(p) == IF ~gh.known \/ p \in gh.merged THEN "unknown"
                ELSE IF p \in gh.clash THEN "conflict" ELSE "clean"
Fetch(a) ==
  /\ At(a, "fetch")
  /\ act' = [act EXCEPT ![a].pc = "outcome", ![a].answer = Mergeable(act[a].pr)]
  /\ UNCHANGED <<pcard, gh, hooks, cursor, tip, unread, pmix>>

RetriesNot(asked) == FALSE                                          \* mutant
Retries(asked) == ~asked
Outcome(a) ==
  /\ At(a, "outcome") /\ act' = [act EXCEPT ![a] = Quiet]
  /\ LET did == act[a] IN
     IF InLane /\ did.answer = "conflict" THEN Bounced
     ELSE /\ UNCHANGED unread
          /\ IF InLane /\ did.answer = "clean" /\ did.retry THEN pcard' = [pcard EXCEPT !.retry = FALSE]
             ELSE IF InLane /\ did.answer = "unknown" /\ Retries(did.retry)
             THEN pcard' = [pcard EXCEPT !.retry = TRUE] ELSE UNCHANGED pcard
  /\ UNCHANGED <<gh, hooks, cursor, tip, pmix>>

-------------------------------------------------------------------------------
(* The webhook handler takes one request at a time here.                        *)

Receive(h) ==
  /\ At("hook", "idle") /\ h \in hooks /\ hooks' = hooks \ {h}
  /\ act' = [act EXCEPT !["hook"] =
       [Quiet EXCEPT !.pr = h.pr, !.news = IF h.type = "review" THEN {1} ELSE {},
                     !.pc = CASE h.type = "merge" -> "find" [] h.type = "push" -> "steer"
                              [] h.type = "review" -> "match"]]
  /\ UNCHANGED <<pcard, gh, cursor, tip, unread, pmix>>

Lose(h) ==
  /\ pmix.lossy /\ h \in hooks /\ hooks' = hooks \ {h}
  /\ UNCHANGED <<pcard, gh, act, cursor, tip, unread, pmix>>

Sends(hs) == hooks' = IF pmix.hooks THEN hooks \cup hs ELSE hooks
News(type, p) == [type |-> type, pr |-> p]
Advance == News("push", NoPR)

-------------------------------------------------------------------------------
(* GitHub.  Main moves when a pull request is merged and when someone pushes;   *)
(* then others may conflict, and mergeable is not known for a while.            *)

OnItsWay == {a \in Actors : At(a, "outcome") /\ act[a].answer = "clean"}
Moved(p, merged) ==
  /\ pmix.prompt => OnItsWay = {}
  /\ \E more \in SUBSET (IF pmix.clashes THEN pcard.prs \ merged ELSE {}) :
       gh' = [gh EXCEPT !.merged = merged, !.main = @ + 1, !.known = ~pmix.clashes,
                        !.clash = (@ \cup more) \ merged]

Merge(p) ==
  /\ gh.main < pmix.advances /\ Lists(p) /\ p \notin gh.merged \cup gh.clash
  /\ Moved(p, gh.merged \cup {p})
  /\ Sends({News("merge", p), Advance}) /\ UNCHANGED <<pcard, act, cursor, tip, unread, pmix>>

PushMain ==
  /\ gh.main < pmix.advances /\ Moved(NoPR, gh.merged) /\ Sends({Advance})
  /\ UNCHANGED <<pcard, act, cursor, tip, unread, pmix>>

Knows ==
  /\ ~gh.known /\ gh' = [gh EXCEPT !.known = TRUE]
  /\ UNCHANGED <<pcard, hooks, act, cursor, tip, unread, pmix>>

Post(p) ==
  /\ Lists(p) /\ gh.posted[p] < pmix.reviews /\ gh' = [gh EXCEPT !.posted[p] = @ + 1]
  /\ unread' = IF InLane THEN unread \cup {<<p, gh.posted[p] + 1>>} ELSE unread
  /\ Sends({News("review", p)}) /\ UNCHANGED <<pcard, act, cursor, tip, pmix>>

-------------------------------------------------------------------------------
(* The run of the card: the agent opens pull requests (report_pull_request) and *)
(* rebases; the finish asks GitHub and refuses a known conflict, then reports.  *)

OpenPR(p) ==
  /\ pcard.run = "work" /\ p \in pmix.prs \ pcard.prs /\ \A q \in pmix.prs : q < p => Lists(q)
  /\ pcard' = [pcard EXCEPT !.prs = @ \cup {p}]
  /\ UNCHANGED <<gh, hooks, act, cursor, tip, unread, pmix>>

Rebase ==
  /\ pcard.run = "work" /\ pcard.prs # {} /\ pcard' = [pcard EXCEPT !.run = "rebased"]
  /\ gh' = [gh EXCEPT !.clash = {}]
  /\ UNCHANGED <<hooks, act, cursor, tip, unread, pmix>>

FinishLooks ==
  /\ pcard.run = "rebased"
  /\ IF Mergeable(PrUrl) = "conflict" THEN Bounced
     ELSE pcard' = [pcard EXCEPT !.run = "looked"] /\ UNCHANGED unread
  /\ UNCHANGED <<gh, hooks, act, cursor, tip, pmix>>

Report ==
  /\ pcard.run = "looked" /\ Card([pcard EXCEPT !.state = "Review", !.run = "none"])
  /\ UNCHANGED <<gh, hooks, act, cursor, tip, pmix>>

Dispatch ==
  /\ pcard.state = "Backlog" /\ pcard.runs < pmix.runs
  /\ pcard' = [pcard EXCEPT !.state = "Running", !.run = "work", !.runs = @ + 1]
  /\ UNCHANGED <<gh, hooks, act, cursor, tip, unread, pmix>>

Handles(a) == \/ Find(a) \/ MarkMerged(a) \/ Complete(a) \/ Match(a) \/ Back(a) \/ Steer(a) \/ ParkLive(a)
              \/ CatchesUp(a) \/ Fetch(a) \/ Outcome(a)
Polls == PollTick \/ Pull \/ Reviews \/ Cursor \/ Tip \/ SetTip
GitHub == Knows \/ PushMain \/ \E p \in PRs : Merge(p) \/ Post(p)
Run == Rebase \/ FinishLooks \/ Report \/ Dispatch \/ \E p \in PRs : OpenPR(p)

PullNext ==
  \/ \E a \in Actors : Handles(a)
  \/ Polls \/ Sweep \/ GitHub \/ Run \/ \E h \in hooks : Receive(h) \/ Lose(h)

(* The loops turn and requests are answered; GitHub computes what it is asked.  *)
(* Nobody has to merge, review or dispatch.                                     *)
PullFairness ==
  /\ \A a \in Actors : WF_pullVars(Handles(a))
  /\ WF_pullVars(Polls) /\ WF_pullVars(Sweep) /\ WF_pullVars(Knows)
  /\ WF_pullVars(\E h \in hooks : Receive(h))

PullSpec == PullInit(PullMixes) /\ [][PullNext]_pullVars /\ PullFairness

-------------------------------------------------------------------------------
(* Types; a retry is asked for a card in Review, a run belongs to a card at work. *)
PullTypeOK ==
  /\ pcard \in Cards /\ act \in [Actors -> Act] /\ hooks \subseteq Hook /\ gh \in Hub
  /\ cursor \in [PRs -> Unseeded .. MaxReviews] /\ tip \in Int
  /\ unread \subseteq PRs \X (1 .. MaxReviews)
  /\ (pcard.retry => InLane) /\ (pcard.run # "none" <=> pcard.state = "Running")
  /\ pmix \in PullMix

(* "Done only when every listed PR is merged", whoever saw the merges (the hook *)
(* and the poll may see one each): of the pull requests that were listed when   *)
(* it was decided.  What the card was given between the mark and the transition *)
(* is not looked at again, and it is closed all the same.                       *)
DoneIsMerged ==
  [][\A a \in Actors : Complete(a) /\ pcard' # pcard => act[a].looked \subseteq gh.merged]_pullVars

(* A card in Review whose pull requests are all merged does not stay there when *)
(* the poll is on, though every webhook is lost.                                *)
MergedIsDone ==
  []<>~(pmix.polling /\ InLane /\ pcard.prs # {} /\ pcard.prs \subseteq gh.merged)

(* The card is sure to be told: the poll knows what came before, or no webhook   *)
(* is lost.                                                                      *)
Told == (pmix.seeded /\ pmix.polling) \/ (pmix.hooks /\ ~pmix.lossy)

(* Feedback on a card in Review sends it back, by webhook or poll; the cursor   *)
(* that goes up first, and a card that moves meanwhile, lose none of it.        *)
FeedbackIsHeard == []<>(Told => unread = {})

(* A card in Review whose pull request came to conflict leaves it (or the       *)
(* conflict goes): the advance is seen, and what GitHub did not know then is    *)
(* asked again.  Not so when a "clean" outlives its truth: recorded late, it    *)
(* clears the retry that a catch-up, told "unknown" since, took to be queued.   *)
Conflicted == InLane /\ PrUrl \in gh.clash
ConflictComesBack == []<>(Told /\ pmix.prompt => ~Conflicted)

(* In no run, for the code does not keep it: an advance seen by a live card      *)
(* parks whatever the card has become by then, a card in Review too.            *)
ParksOnlyLive == [][(\E a \in Actors : ParkLive(a)) => pcard.state # "Review"]_pullVars
===============================================================================
