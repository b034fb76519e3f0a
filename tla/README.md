# Sandboard in TLA+

Sandboard is a board of agent work. A Project holds flat Tasks (cards); a
supervisor claims a queued card, sets up an OpenShell sandbox for it, starts a
coding agent in that sandbox, watches it, and moves the card by the file the
agent leaves behind. Around that core the Board keeps a tree of work items and
proposals, sends its changes to browsers and to a database, runs one cockpit
session, follows pull requests on GitHub, and holds the credentials and the
catalog that sandboxes are made of. This project models those parts in TLA+,
checks them with TLC and proves their main safety properties with TLAPS.

Source paths below are relative to the repository's `src/` directory;
`PROJECT.json` maps every definition to its lines.

## 1. Inventory

| Component | State it keeps | Operations | What makes it correct | Modules |
|---|---|---|---|---|
| Card state machine (`machine.rs`, `model.rs`) | `WorkItem.state` and the fields of a run: lease and deadline, parked, awaiting_dispatch, escalation, run_failures, conversation_id, environment | `allowed`, `check`, `unarchive_target` | legal edges only; leaving a held state drops the lease | `CardMachine` |
| Board: verbs on one card (`store.rs`, `api.rs`) | `BoardState` behind one `RwLock` | ~60 verbs; each takes the lock one or several times | a verb of several sections leaves no card half-way when others run in between | `CardMachine`, `CardRuns` |
| Supervisor (`supervisor.rs`) | `Fleet`: `in_flight`, `active`, `cooldown`; one tokio task per run | dispatch_loop, run_card, adopt_card, watch_agent, finish, finalize, sweeper_loop, reconcile | one run per card, never two agents; slots are freed; a restart loses no run | `CardRuns`, `Leases`, `LeasedRuns` |
| OpenShell gateway (`openshell.rs`; external) | sandboxes by name with what is in them, providers, types | create, delete, exec, list, upsert; each may fail, hang or be lost | — | in `CardRuns`, `Cockpit`, `Providers`, `Logins` |
| Board tree (`store.rs`, `model.rs`) | items, two hand-kept indexes, proposals, blockers | create, init_plan, propose, materialize, heal, cut, unarchive, delete | indexes say what the items say; a proposal becomes its Tasks, each once | `BoardTree` |
| Events and fan-out (`events.rs`, `sse.rs`, `ws.rs`, `web/src/useBoard.ts`) | sequence number, bounded buffer, broadcast queues, the browser's copy | emit, catch_up, subscribe, snapshot, reduce | no gap without a reset; a client comes to show the board | `BoardSync` |
| Persistence (`db/*`, `store.rs`) | rows, the dirty mark, the import stamp, legacy formats | flush, exit, import, load, upgrade | what changed is saved; an interrupted start is as good as a whole one | `BoardSync`, `Startup` |
| Cockpit (`cockpit_*.rs`, `supervisor.rs`, `store.rs`) | one session, its seat, cleanup, reap, relay, terminals | start, stop, park, resume, seat loop, reap | one sandbox follows one session | `Cockpit` |
| Pull requests (`github_poll.rs`, `store.rs`, `supervisor.rs`) | listed and merged PRs, cursor, tip, rebase and retry marks | webhooks, poll, sweep, review catch-up, finish | each merge, review and conflict takes effect | `PullRequests` |
| GitHub App (`github_app.rs`, `supervisor.rs`, `api.rs`) | sealed token, its cache, the gateway's copies, the access cache | mint, seal, push, route, walk | no sandbox is made with a token that is over | `GithubTokens` |
| Gateway login and MCP OAuth (`openshell_oauth.rs`, `mcp_client_oauth.rs`, `openshell.rs`) | the sealed OIDC bundle, its copies, servers, their providers and types | login, renew, connect, disconnect | what is sealed can be renewed; no half of a pair | `Logins` |
| Web login and the Board's OAuth server (`auth.rs`, `mcp_oauth.rs`) | signing key, password, allowlists, codes, clients | bootstrap, login, callback, authorize, token | what was signed is honoured until it expires | `Access` |
| Catalog (`store.rs`, `api.rs`, `seed_policies.rs`, `cockpit_mcp.rs`) | policies, MCP servers, sandbox specs, preferences, overrides | save, delete, prefer, resolve, inject | every name stands for something that is there | `Specs` |
| Providers and types (`store.rs`, `api.rs`, `provider_types.rs`) | the Board's rows, tombstones, the gateway's copies | save, rename, delete, import, sync, apply | a run's sandbox has no older credentials than the Board had | `Providers` |
| Process entry (`main.rs`) | — | start, flush interval, signal, last flush | order of start and exit | `BoardSync`, `Startup` |
| REST and MCP transports (`api.rs`, `mcp.rs`, `mcp_policy.rs`) | — | one Board verb per handler | they own no rule | the verbs |
| Sandbox images, helm chart | — | — | — | none |

How they interact: transports and supervisor call Board verbs; the Board emits
events to its subscribers and marks itself dirty for the flusher; the
supervisor talks to the gateway and, across every `await`, learns of changes
only by reading the card again. Nothing holds the lock over an `await`. That is
where most of what can go wrong comes from: a verb of several lock sections, a
value read before an `await` and used after it, and a call whose answer is late
or lost.

What is hard to test is listed with its line under `hazards` in `PROJECT.json`,
each with the properties that would catch it; three have none, and say why.

## 2. Modules

| Module | What it is |
|---|---|
| `CardMachine` | One card: the edges and `check` of `machine.rs`, and the effect of every Board lock section on a card, each an operator from card to card. No variables. |
| `CardRuns` | The interleaving of those sections: dispatcher, runs, sweeper, start-up, crash, operator, webhooks, world. |
| `Leases`, `LeasedRuns` | What handing out work promises, without saying how; and that `CardRuns` implements it (`Leases` instantiated with `HeldCards` and `WorksOn`). |
| `BoardTree` | The tree, its verbs section by section, proposals, indexes. |
| `BoardSync` | A change on its way to the database and to a browser. |
| `Cockpit` | The session, its seat, cleanup, reap, relay and terminal. |
| `PullRequests` | A card and its pull requests, by webhook, poll and sweep. |
| `Specs` | Policies, MCP servers, specs and preferences, and a run that resolves them. |
| `Providers` | Credential providers on the Board and at the gateway. |
| `GithubTokens` | Installation tokens: minted, sealed, pushed, cached, routed. |
| `Logins` | The OIDC bundle and its copies; OAuth with remote MCP servers. |
| `Startup` | Import, load and the chain of upgrades, interrupted anywhere. |
| `Access` | Cookies, sign-ins, codes and tokens against the signing key. |
| `MCCardRuns` | `CardRuns` with the symmetry of runs. |
| `MCServices` | `BoardSync`, `Cockpit` and `PullRequests` in one instance, each behaviour of one of them. |
| `MCBoard` | `BoardTree`, `Specs`, `Providers`, `GithubTokens`, `Logins`, `Startup` and `Access` in one instance, likewise. |
| `CardRunsProofs` | Lemmas on `CardMachine`, the type invariant, the invariant on runs, their theorems, the refinement of `Leases`; where a run works, what it resumes, who watches an agent. |
| `BoardTreeProofs`, `BoardSyncProofs`, `StartupProofs` | The theorems about those modules. |
| `ServicesProofs` | The theorems about `Cockpit` and `PullRequests`, and about `MCServices`. |
| `ProvisionProofs` | The theorems about `Specs`, `GithubTokens` and `Providers`. |
| `AuthProofs` | The theorems about `Access` and `Logins`. |
| `BoardProofs` | That a behaviour of `MCBoard` is one of the part it moves, so that what is proved of the parts holds of it. |

The parts that `MCServices` and `MCBoard` put together share nothing but the
Board's lock, so their interleavings are not explored: `part` chooses one, and
the others stay as they began. Within a part, a *mix* (`mix`, `smix`, `cmix`,
...) chosen at the start says which verbs, failures and restarts a behaviour
may have. It changes no action; it divides one state space that is too large
into several that are not, and lets a property say under which circumstances it
is meant.

## 3. State and actions

### CardRuns

| Variable | Code |
|---|---|
| `card` | the fields of `WorkItem` that concern a run. `deadline` is `lease` with `run_deadline_at`; `conv` is `conversation_id`, told apart by whether its sandbox still exists; `env` is `environment`, by attempt number (`card_sandbox_name(id, run_failures + 1)`) |
| `older` | the order of `entered_state_at` among cards of one state |
| `box` | the gateway's sandboxes: pid, status and verdict files, agents the pid file no longer names |
| `task` | the tokio tasks of `Fleet::supervise`; `Active` and `InFlight` are `Fleet.active` and `in_flight`, which change with the task in one synchronous stretch |
| `calls` | verbs between two of their lock sections: park before the hold, halt before the move, unarchive before the lease is re-cleared, ... |
| `deletes` | spawned `os.delete` tasks that have not reached the gateway |
| `auto`, `cooldown` | a Project's auto_dispatch; `Fleet.cooldown` |
| `disp`, `sweep`, `up` | where the dispatcher and the sweeper stand between two sections; start-up reconciliation is over |

A run is one step per lock section or gateway effect, in the code's order:
`RunStart` (ensure_board_owns_run) → `RunRouted`/`RunUncovered`
(ensure_push_token) → `RunReuse` or `RunCold` → `RunBind`
(set_conversation_id) → `RunName` (set_environment) → `RunMake` → `RunBeat`
(heartbeat) → `RunArm` (start_script) → `RunHear` (a line of the stream) →
`RunStreamEnds`/`RunStreamBreaks` → `RunVerdict` (process_verdict, finish) →
`RunAsk`+`RunPlead` (escalate), `RunDeliver` (report, split, release),
`RunRefused`, `RunNoVerdict` → `RunStop` (finalize) → `RunSettle`, or
`RunCount`, `RunPromote`, `RunRequeue` (record_run_failure). `RunCancelled` is
the poll that notices a lost card, `RunBroken` any set-up error and `RunUnmade`
a create that fails once the old sandbox is deleted. Adopted runs enter at
`adopted` (adopt_card).

The dispatcher is `DispTick` (limits, auto mode), `DispPick` (oldest queued card
outside `active`), `DispClaim`, `DispSpawn`. The sweeper is `SweepCollect` and
`SweepRequeue` (sweep_leases), then reconcile: `SweepList`, `SweepLook`,
`SweepReap`, `SweepCheck`, `SweepReopen`, `SweepProbe`, `SweepBounce`. Start-up
runs the same reconcile with `up = FALSE`, then `BootAdopt`, `BootDone` (or
`BootBlind`, when the gateway never answered). Operator verbs are single steps
that may leave the rest of themselves in `calls`; `CarryOn` does that rest.

Abstractions: cards are leaf Tasks with a definition of done and no blockers,
created in Backlog (creation and the tree are `BoardTree`'s). `run_failures`
saturates at `max_attempts`: the code only compares it with that limit and
numbers sandboxes with it, so all later names are one. A verdict is a question
(`ask`) or anything else (`work`); whether a report leads to Review or to
Backlog is a free choice, as are a missing PR and a refused split. Time is the
step `Expire`: the deadline of a held card passes. The follower's own timeout
is two minutes longer than that deadline and the sweep comes every few seconds,
so the sweep is what ends a hung run; the timeout is left out. Set-up steps
without an effect on card or sandbox are part of `RunBeat`, their failure is
`RunBroken`. A lost exec (fault `drop`) is lost on probes, deletes and stops. A
crash keeps the board as it is: what it does to unflushed changes is
`BoardSync`'s. Raw transitions to Claimed, Running and NeedsHuman by hand are
left out (`PatchAssumption`).

### Leases

`held` are the cards the board says an agent holds, `at` the card each task
works on, `up` whether start-up is over. A card is granted when nobody holds it
and its last run is over; a run begins on a granted card, within
`MaxConcurrent` once start-up is over; start-up adopts one run per card beyond
it. `LeasedRuns` reads the three off the board and the tasks of
`Fleet::supervise`; every other variable of `CardRuns` is hidden.

### BoardTree

`item`, `nextId`, `kids` and `byState` are `BoardState.items`, `next_id`,
`children_by_parent` and `ids_by_state`; `job` says of each thread at which
section of which verb it stands and what it remembers. Creating is
`NewProject`, `InitPlan` (both end in `Seed`, the Initial plan) and `NewTask`,
`CheckParent`, `Create`, `Shape`, `Ready`, `Commit`, `WireTask`. A proposal
comes by `Propose` or, from a late verdict, `Split`, and is stored by
`SetProposal`; approval is `Review` and `Finish` (transition to Done), and
materialize_proposal is one section per row: `ReadProposal`, `Load`, `Match`,
`NextRow`, `WireRow`, `Stamp`; `Heal` begins the same for a Done card with an
unstamped proposal. `Changes` is `DropProposal` and `Bounce`; `Cut` walks and
retires child by child (`Walk`, `Retire`), `Unarchive` restores so (`Look`,
`Restore`); `Epics` reads every Project's state before it closes the first
(`Judge`, `Open`, `Close`); `Delete` takes a subtree in one section. `Claim` and
`Report` stand for a run. `Crash` ends the verbs; what they did stays.
`approved` counts how often a card was approved: the code has no such counter,
the properties need it. A Task's title is a member of a small set, compared as
normalize_title does; Tasks that answer to no proposal row keep `from` empty.

### BoardSync

An item is the stamp of its last change, so of two versions the greater is the
newer; `Gone` is the newest. A verb's thread goes through `Set`/`Delete` (the
change under the write lock), `Number` (`seq`), `Push` (`event_buffer`), `Send`
(the broadcast) and `Mark` (`dirty`), each under a lock of its own; a flush
through `Swap` (takes the mark), `Clone` (copies the board) and `Save` or
`SaveFails` (marks again). `Tick` is the interval's. `Interrupt` is the signal
with main's first flush; once that is over main drains, but no longer than
`SHUTDOWN_DRAIN` or a second interrupt, so `LastFlush` may begin whatever is
still under way. Verbs and other flushes go on beside it and after it until
`Exit`, where the threads stop wherever they are, and it may fail as any flush
may. `due` is history: what the last flush answers for, that is the board when it
began but for items a verb had changed and not yet marked (`Finished`), and
nothing if it fails. The client is `conn`, `opened`, `seen`
(lastSeenSeq), `view`, the receiver `queue` with its bound (`lagged`), what the
handler sent on subscribing (`wire`, `minLive`), and the snapshots under way
(`loads`: items and number are read apart). `smix.socket` chooses the WebSocket
or the EventSource handler. Left out: stories and `main_advanced`, which change
no item; `emit`'s look at blockers; catch_up reads number and buffer in one step;
a delete's event names the root only.

### Cockpit

`cs` is the session on the Board (`at` is its created_at), `seat` the
run_cockpit_seat with the `supervising` flag, `fin` the cleanup of a seat that
released it, `reap` the holder of `cockpit_delete_inflight`, `box` the sandbox
under its one name, `relay` the MCP relay, `term` a terminal. `Start`, `Stop`,
`Park`, `Resume` are the verbs; `TickSeats` and `TickReaps` the sweeper's part;
`Seat*` the loop's awaits in order (look, probe, wait for the name, create,
publish, ready, relay, arm); `Fin*` the cleanup; `ReapLooks`/`ReapDeletes` a
reap; `Box*`, `DeleteRefused` the gateway's; `Crashes` a restart. Left out: MCP
credentials in the box, the gateway's health probe, PATCH, stop_agent; there is
one cleanup at a time, and the create deadline ends only a wait in vain.

### PullRequests

`pcard` is one card (state, listed and merged PRs, rebase_requested, retry,
run), `gh` what GitHub knows, `hooks` webhooks on their way, `cursor` and `tip`
the poll's, `act` the three actors that see news (webhook handler, poll,
sweep). News reach an actor by `Receive` (or are `Lose`d), by the poll
(`PollTick`, `Pull`, `Reviews`, `Cursor`, `Tip`, `SetTip`) or by `Sweep`. A merge is then
`Find`, `MarkMerged`, `Complete`; a review `Match`, `Back`; an advance of main
`Steer`, `ParkLive`, `CatchesUp`, `Fetch`, `Outcome`. The run is `Dispatch`, `Rebase`,
`FinishLooks`, `Report`; GitHub's side `OpenPR`, `PushMain`, `Post`, `Merge`,
`Knows` (mergeability computed). `unread` is what a card in Review has not been
told; the code has no such set, the property needs it. NeedsHuman counts with
Review, Claimed with Running.

### Specs, Providers, GithubTokens, Logins

`Specs`: `policies`, `servers`, `specs`, `default`, `cockpit`, `override` are
the Board's tables; `verb` a handler between two sections. A preference moves in one
section (`SetDefault`, `SetCockpit`, `ClearCockpit`), is looked at in the next
(`Inherits`) and `sandboard` is attached in a third (`AttachSandboard`). `run` is a
run that looks, resolves, makes its sandbox, looks and resolves again, reads the
servers once more (`RunReads`, where audiences are judged for the last time) and
uploads what it read, await by await (`RunPlaces`), while Settings goes on editing.
`SpecRestart` puts shipped rows back (ensure_shipped_*). A mix says which `edits`
there are and which handlers (`hands`) make those of several sections.

`Providers`: `provs`, `types`, `tombs`, `wanted` are the Board's, `gate` and
`gtypes` the gateway's; a handler or run first reads or writes the Board, then
imports types and applies providers one call at a time (`pjob.todo`,
`pjob.seen`). Credentials are a version.

`GithubTokens`: `row` is the sealed `github-app` row, `cache` its expiry in
memory, `tgate` and `routed` the gateway's tokens, `access` the answer on which
installation covers the repository, `covers` the truth, `tjob` what each actor is at. The actors are the
sweeper, a run, a Settings request, the loop over repositories and the host's
own calls (host_installation_token).

`Logins`: `sealed` is the OIDC bundle on the Board, `live` the refresh tokens
the IdP honours, `client` the gateway clients with their copies, `attempt` the
pending logins; `server`, `lprovs`, `ltypes`, `gprovs`, `lgtypes` what connecting
a remote MCP server writes in five places, `flow` the requests.

### Startup, Access

`Startup`: `file` is `sandboard.json`, `tables` the database with the import's
stamp, `board` what is in memory, `pc` the stage of `load_with_store` that is
next (`ImportSaves`, `Stamps`, `Loads`, then `Upgrades` through the stages
load, minimal, shipped, rename, unseal, prune, forge, runtime, types). Each
stage is a function from Board to Board, flushed if it changed something;
`Dies` may strike between any two. Once the board is up the operator edits
(`NewCard`, `DeleteProject`, `StoreProvider`, `DropProvider`, `AttachProvider`,
`DeleteBox`). What an older version may have left (`Pasts`) is any Board whose
rows name what is there (`PastsAssumption`); an imported file may break the
foreign keys and is then refused. allocate_unique_openshell_policy_id counts on
until an id is free; `IdsFor` gives each spec the ids it would try, enough of them
and none of another spec's (`Named`, `NamesAssumption`): two specs whose names
differ by such a number are left out.

`Access`: `auth` is the sealed bundle in memory (key, password), `kept` the
database's copy, `cookies`, `states`, `codes`, `tokens`, `clients` what is out
in the world, `ajob` the requests with an await inside: `BootstrapLooks`,
`BootstrapSets`; `SettingsReads`, `SettingsLists`, `NewPassword`
(put_auth_settings); `GithubStart`, `GithubComesBack`, `GithubAnswers`,
`GithubTeams` (the callback). `Login`, `LogsOut`, `Register`, `Approve`,
`Redeem`, `Refresh` and `CockpitMints` are one step each; `AccessFlush` and
`AccessRestart` are the flusher and a crash, `Passes` time.

## 4. Runs

| Run | Instance | Properties | Distinct states |
|---|---|---|---|
| `retry` | 1 card, 2 runs, 2 attempts; dispatch, park, answer, changes, steer; set-up faults; a verdict that asks | `TypeOK`, `NoUnwatchedAgent` | 1,295,534 |
| `halt` | 1 card, 2 runs; auto mode and halts | `RunIsWhereTheCardSays` | 3,180,928 |
| `review` | 1 card, 2 runs; dispatch, cut, unarchive, approve, merge, feedback, a move to Backlog by hand; a verdict that reports | `ReclaimAfterWindDown` | 2,735,772 |
| `restart` | 1 card, 2 runs, one crash; lost execs, uncovered repositories, dying sandboxes | `OneRunPerCard`, `HeldHasDeadline`, `ResumesWhereItLived`, `ImplementsLeases` | 2,032,453 |
| `live` | 1 card, 1 run, cut, infrastructure faults; `FairSpec` | `SlotIsFreed`, `HeldEnds`, `TerminalIsReaped` | 395,809 |
| `queue` | 2 cards, 1 run, `MaxConcurrent` 1; `FairSpec` | `QueueIsServed` | 877,939 |
| `board` | `MCBoard`, a part and a mix at a time | see below | 457,851 |
| `services` | `MCServices`, likewise | see below | 488,468 |
| `cut_during_run`, `stale_verdict`, `reopened`, `halt_costs` | 1 card | one each, violated (section 7) | — |

Deadlock is not checked: an idle board may stop.

### Why the bounds are enough

`CardRuns`:

* **One card** where the question is about one card's run: runs of different
  cards share only the slots and the queue, which is `queue`'s question with two
  cards. The proofs cover every number.
* **Two runs** (`Tasks`) for one card, so that a second run of that card could
  exist if the code let it.
* **Attempts**: two in `retry`, so that a second sandbox name, a retry and the
  final escalation occur; one elsewhere, where the second name still occurs
  (`Names` has `MaxAttempts + 1` members).
* **MaxCalls** bounds the verbs half-way and the deletes under way at once: one,
  so that any section of any process falls between the two sections of a verb.
  `restart` has none: its verb has one section.
* **MaxRestarts**: one crash, at any step; what start-up can find does not depend
  on how many there were before.

`MCBoard`: two threads in the tree (`Workers`), six ids, titles `a`, `b`, `c`,
one plan of two rows and one split: enough for twins, for a row that meets a
Task of its title, and for a blocker. Tokens live three ticks with a skew of two
(a job takes at most one tick, so the skew exceeds what a job takes, as 300 s do
in the code); four refresh tokens, one server with OAuth, two requests, two
logins and two clients; one edit (two were tried: 185,811 states of `Startup`)
and two deaths of a start; two keys and one code in `Access`, where a third key
or code adds no new comparison. Two handlers of preferences at once in `Specs`, one
where servers or runs are in question. `MCServices`: buffer and broadcast queue of one,
so that both overflow; three changes; three starts of the cockpit; two pull
requests and two reviews.

### What the properties say

`CardRuns`:

* `OneRunPerCard`, `ReclaimAfterWindDown`: the check against `active`, the claim
  and the spawn are three steps, and cards come back to the queue at any moment;
  still a card never has two runs, and one taken from its run is not handed out
  before that run is over.
* `HeldHasDeadline`: whatever made a card Claimed or Running gave it the deadline
  that bounds it.
* `RunIsWhereTheCardSays`: while it is held and not being halted, a card names
  the sandbox its run works in: what the sweeper spares and a restart adopts. No
  run combines a halt with a restart: it fails there (section 6).
* `ResumesWhereItLived`: `conversation_id` and `environment` are set in different
  sections; a session is only resumed in the sandbox that has it.
* `NoUnwatchedAgent`: without lost execs, every way out of a run stops its agent,
  and no sandbox ever has two.
* `ImplementsLeases`: all of it hands out work as `Leases` promises.
* `SlotIsFreed`, `HeldEnds`, `TerminalIsReaped`, `QueueIsServed`: liveness, with
  agents that may stay silent for ever.

`board`: `AllTypeOK` is the type invariant of its seven parts.

* Tree: `IndexesAgree`; `OneInitialPlan` though both creating verbs seed one;
  `OncePerProposal`, a Task of each row at most once, and `ApprovedBecomesTasks`,
  each at least once when the verbs are over; `ScopeMovesWhole` and
  `ClosedWhenOver` for verbs that walk a subtree, when they do not overlap.
* Catalog: `NamesStand` (no dangling policy, server, spec or preference),
  `CockpitKeepsSandboard`: preferences move in one section and attach the board's own
  server in another, to whatever is the cockpit's by then, beside saves, deletes and
  restarts; still the cockpit's spec never loses it, but by the delete of the spec the
  cockpit preferred (section 7). Providers: `CreatedIsCurrent`. Tokens: `TokenLives`.
* Logins: `SealedIsLive`, `OAuthStands`. Access: `SignedStands`.
* Start: `BootConverges` (interrupted anywhere, repeated: the same Board),
  `UpgradeKeeps` (nothing the operator had is lost).

`services`: `TypeOK` of its three parts.

* Persistence: `ExitSavesFinished`: when the process is over, the database has all
  that finished verbs had changed when main began its last flush, as it was or newer,
  with verbs and flushes still at work beside that flush and after it, and saves that
  failed before; flushes do not overlap, and the last one does not fail.
  `DiskCatchesUp`. Events: `NoSilentGap`,
  `ClientCatchesUp`.
* Cockpit: `CreateIsAlone`, `StopReclaims`, `RunningComesUp`.
* Pull requests: `DoneIsMerged`, `MergedIsDone`, `FeedbackIsHeard`,
  `ConflictComesBack`.

Conditions inside a property (`mix.overlap`, `smix.alone`, `lmix.rotates`, ...)
say under which circumstances the code keeps it; where it does not, sections 7
and 8 say what goes wrong. Every property has a mutant in `PROJECT.json`: a
plausible slip in one definition under which its run reports it violated.

## 5. Fairness

* `CardRuns`: weak fairness of `Dispatcher`, `Sweeper` and `Boot` (loops on a
  timer that never return), of each `Run(t)` (a tokio task that is polled, every
  exec of which has a timeout), of `Unfinished` and `DeleteLands` (the rest of a
  synchronous verb, a spawned task), of `Expire` and `CoolDown` (time). Of
  nothing else: no agent must write a line or finish, no stream must break, no
  operator or webhook must act, no fault must strike; `RunHear` and
  `RunStreamBreaks` are not part of `Run`. Safety runs use `Spec`.
* `BoardSync`: weak fairness of a verb's later sections, of the flusher, of the
  process manager's restart and of the client's own loop; strong fairness of
  `Save`, a write that is tried again and again succeeds once.
* `Cockpit`: weak fairness of the sweeper's ticks, seat, cleanup and reap, of the
  gateway's answers (a box comes up or is gone) and of a relay that has no seat.
* `PullRequests`: weak fairness of the three actors' handlers, the poll, the
  sweep, GitHub's computing of mergeability and the delivery of webhooks not
  lost.
* The parts of `MCBoard` have safety properties only and no fairness.

## 6. Proofs

| Theorem | Module | Says |
|---|---|---|
| `TypeCorrect` | `CardRunsProofs` | `Spec => []TypeOK` |
| `OneRun` | `CardRunsProofs` | `Spec => []OneRunPerCard` |
| `ReclaimSafe` | `CardRunsProofs` | `Spec => ReclaimAfterWindDown` |
| `LeaseHolds` | `CardRunsProofs` | `Spec => []HeldHasDeadline`, if `"unarchive" \notin Verbs` |
| `Refinement` | `CardRunsProofs` | `Spec => ImplementsLeases` |
| `ResumesSafe` | `CardRunsProofs` | `Spec => []ResumesWhereItLived` |
| `RunsWhereTheCardSays` | `CardRunsProofs` | `Spec /\ [][ReopensTheNamed]_vars => []RunIsWhereTheCardSays` |
| `EveryAgentIsWatched` | `CardRunsProofs` | `Spec => []NoUnwatchedAgent`, if no exec is lost and there is no restart |
| `ExitSaves` | `BoardSyncProofs` | `SyncSpec => []ExitSavesFinished` |
| `SyncTypesHold` | `BoardSyncProofs` | `SyncSpec => []SyncTypeOK` |
| `NothingSkipped` | `BoardSyncProofs` | `SyncSpec /\ [][~FarBehind]_syncVars => NoSilentGap` |
| `CockpitTypes`, `CreatesAlone` | `ServicesProofs` | `CockpitSpec => []CockpitTypeOK`, `CockpitSpec => CreateIsAlone` |
| `SpecsTypes`, `CatalogStands`, `CockpitServedOn` | `ProvisionProofs` | types, `NamesStand`, `SpecsSpec => CockpitKeepsSandboard` |
| `TokenTypes`, `TokensLive` | `ProvisionProofs` | types; `TokenSpec => TokenLives`, if where actors overlap without the host's calls the gateway loses no provider |
| `ProviderTypesHold`, `SandboxesAreCurrent` | `ProvisionProofs` | types; `OneEach => (ProviderSpec => CreatedIsCurrent)` |
| `TreeTypes`, `IndexesStand` | `BoardTreeProofs` | `Spec => []TypeOK`, `Spec => []IndexesAgree` |
| `OnePlanStands` | `BoardTreeProofs` | `Spec => [](SeedsApart => OneInitialPlan)` |
| `OnePerApproval` | `BoardTreeProofs` | `Spec => [](HealsAlone => OncePerProposal)`, if a proposal's rows have different titles |
| `ScopesMove`, `EpicsClose` | `BoardTreeProofs` | `Spec => ScopeMovesWhole`, `Spec => ClosedWhenOver` |
| `ApprovalsTurnIntoTasks` | `BoardTreeProofs` | `Spec => [](NothingUndone => ApprovedBecomesTasks)` |
| `PullTypes`, `DoneMerged` | `ServicesProofs` | `PullSpec => []PullTypeOK`, `PullSpec => DoneIsMerged` |
| `AccessTypes`, `SignedHonoured` | `AuthProofs` | types, `SignedStands`, if bootstraps do not overlap |
| `LoginsTypes`, `SealedStaysLive`, `OAuthPairsStand` | `AuthProofs` | types, `SealedIsLive`, `OAuthStands` |
| `StartTypes` | `StartupProofs` | `StartSpec => []StartTypeOK` |
| `StartsConverge`, `UpgradesKeep` | `StartupProofs` | `StartSpec => []BootConverges`, `StartSpec => []UpgradeKeeps` |
| `ServiceTypes`, `ServicesKeep` | `ServicesProofs` | of `MCServices`: `Spec => []TypeOK`, and the safety properties of all three |
| `PartTypes`, `PartsKeep` | `BoardProofs` | of `MCBoard`: `BoardSpec => []AllTypeOK`, if bootstraps do not overlap; and each part's properties, if it is the part that moves, under the conditions above |

They hold for every set of cards, tasks, threads, clients, names and so on, of any
size, and every value of the limits, under the named assumptions of the modules:
limits are naturals, `NoCard` is not a card, the raw endpoint hands no card to an
agent (`PatchAssumption`), tasks are finitely many (`TasksAssumption`, for the
counting in `Leases`), what older versions left is a Board (`PastsAssumption`), and
each component's sets and numbers are what their names say (`SyncAssumption`,
`CockpitAssumption`, `PullAssumption`, `SpecsAssumption`, `TokenAssumption`,
`AccessAssumption`, `LoginAssumption`, ...). Every one stands in the module that
declares the constants, TLC evaluates them on every run, and it checked each
inductive invariant below on small instances before it was proved. Beyond them a
theorem assumes only what its row says.

### Card runs

**Types.** `TypeOK` is not inductive: `DispClaim` writes the card the dispatcher
holds, so that must be one. `TypeInv` adds `Wired`: a process that stands where it
uses a card, a name or a sandbox holds one.

**One run.** `RunInv` strengthens `OneRunPerCard` by what the code relies on:
between check, claim and spawn the dispatcher's card gains no run
(`PickedIsFree`), because only the dispatcher and start-up begin runs and the
dispatcher waits until start-up is over (`BootComesFirst`); while start-up scans,
a card's sandbox name can only be taken away, so at most one sandbox of a card is
worth adopting, and each is adopted once (`BootScan`, `BootAdoptions`); only
start-up reopens Backlog cards (`ReopensAtBoot`); a run between the two sections of
record_run_failure has a card that is not in Needs You, the lane from which its
move to Running would hand a card out again (`PromotesNoQuestion`). The lemmas on
`CardMachine`'s sections (`TameMoves`, `TameTouches`) say which can make a card
held; `OperatorTame`, `WorldTame`, `SweeperTame` and `RunHolds` lift that to
actions, and `NextInv` puts them together, action by action.

**Hand-outs.** `ReclaimStep` reads off `RunInv` that only `DispClaim`,
`SweepReopen` and a heartbeat or promotion of a card already held make a card
held, and that the first two act on cards without a run.

**Deadlines.** With unarchive `HeldHasDeadline` is false: it moves the card to
Backlog in one section and clears lease and deadline in the next, so a card that
auto mode queues and the dispatcher claims in between runs without a deadline.

**Leases.** `LeasedInv` adds `DispRoom`: from the check of max_concurrent to the
spawn there is room, since runs only end meanwhile. Every action then maps to
`Hand`, `Take`, `Begin`, `Finish`, `Started`, `Crash` or a stutter of `Leases`.

**Sandboxes.** `ResumesSafe` needs nothing but the assumptions: by `SessionInv` a
run works where its name says, a sandbox that is lost keeps no session, no two
cards share a name, and a card's conversation is known to the sandbox it names. The
hypothesis of `RunsWhereTheCardSays` is a race the proof found: at start-up
reconcile looks at a card, a halt takes its environment away, and reopening the
card leaves it held without a name. `ReopensTheNamed` says that step does not
happen; without restarts it cannot. `EveryAgentIsWatched` assumes what its property
means: an exec lost on the way (the stop that never arrives) or a dead process
leaves an agent nobody watches, by design of the code until start-up finds it.

### The other components

**Exit.** `SaveInv` says of every item where its last change is (`Accounted`): it is
owed, since the mark is set, a verb is about to set it or a flush took the mark and
has yet to read the board; or the flush that writes holds a copy that has it; or it is
in the database. Flushes are one at a time (`OneFlush`), and since stamps only grow
(`Stamped`) a copy read later is no older. What main's last flush answers for is
owed by no verb, so (`LastCovers`) that flush finds the mark, or a flush that has yet
to read the board and that it waits for, or nothing to do because the change is
written or about to be. From there on nothing older is written, whoever flushes again,
and when main returns the database has it (`MainTurns`). Without `alone` this fails: a
flush that took the mark earlier may write its older copy last.

**Stream.** Types come in two halves, the server's with its saves (`SaveTypes`) and
the stream with the browser (`StreamTypes`). What the buffer still has for a client
(`Newer`) is a function on the lengths of the buffer's prefixes, so that what it
keeps can be proved, a length at a time by the least counterexample (`NewerIs`): the
end of the buffer. `NoSilentGap` is about one step; `GapInv` says why that step finds
the next number. With one writer the buffer,
the receiver's queue and what was sent on subscribing are each a run of numbers
without a gap (`InOrder`), and one begins where another ends: what the client has not
heard begins right behind what it has seen, or with a reset, or the receiver lags and
a reset is due (`Joined`). `Known` bounds every number by the server's. The proof
needs `~FarBehind`: a snapshot more than `STALE_SNAPSHOT_RACE_MAX_GAP` behind what the
stream has shown is taken for a new server's and sets `seen` back, after which the
next event is not the next number: the client sees the gap and loads again. The
run's numbers stay below that limit, so it does not meet this.

**Cockpit.** `CreateInv`: sessions are numbered upwards, a seat knows no younger one
(`NamesGrow`), and while its seat may create, no reap asked for by a Stop is under
way (`NoneUnasked`).

**Catalog.** `NamesStand` is inductive but for the shipped rows, which no verb
deletes (`ShippedStays`). `CockpitKeepsSandboard` is about one step, so
`PreferredServed` says why it holds: the spec the cockpit prefers has `sandboard`, or a
request is about to attach it to whatever is the cockpit's by then. A step that moves
the preference leaves such a request behind, a save keeps the server in the cockpit's
target, and of several requests the one that attaches first serves what the last one
moved to. A delete that is not of the preferred spec leaves the target alone.

**Tokens.** `TokenInv` says who may be where with what in hand, and that nothing in
row, cache or gateway outlives a token minted now. For actors that overlap,
`SharedInv`: what any copy of the cache says is fresh is on the gateway, or was a tick
ago. One at a time, `AloneInv`: row, cache and gateway are of one installation, but
for an edit that has not reset the cache yet (`Midway`), and whoever is about to write
holds what the row has. The skew must be two ticks at least, since a job is overtaken
by one. That no provider is lost under actors that overlap (the host's calls apart,
beside which `TokenLives` promises nothing) cannot be left out of `SharedInv`: a token
that a read-modify-write put back into the row is what the next repair pushes.

**Providers.** `CurrentInv` follows the versions: the Board's row, the copy a run
applies and, once applied, the gateway's instance are each no older than what the run
saw. A handler writes what the Board has (`BringsBoards`), a run what the Board had
when it began or later (`BringsSeen`). That needs `OneEach`, one handler and one run:
of two handlers, or two runs, the one with the older copy may write last.

**Tree.** Indexes: each way to write an item (`Add`, `Move`, `Rewrite`, `Remove`)
keeps both, so each action does. One plan: two init_plans of one Project that
overlap both find none (`SeedsApart` excludes it; concurrent `init_plan` calls make
two plans). Once per proposal: the thread that moved the card to Done is the only
one that makes its Tasks, it makes row after row, and before a row it looks for a
Task of that title. `HealsAlone` says of a mix that it heals nothing while another
verb runs, and cuts and deletes nothing; `DistinctRows` that rows have different
titles, since rows of one title are one Task. The lemmas take the least
counterexample (`LowestOf`) where one would use induction.

**Approvals.** That no approved proposal is forgotten says nothing about any one
step; `WaitInv` says who will see to it: a card that is Done and still waits for its
Tasks is in the hand of a thread, the one that moved it to Done or the one that brings
it a split and takes it out of Done next (`InHand`). The rest is why that thread cannot
give up on the way: the card, its Project and the Task it has just made stay as it
found them, whatever the others create, claim, heal or close meanwhile (`Steady`).
`NothingUndone` says of a mix that no process dies and nothing is archived, deleted or
sent back, each of which ends the thread; a crash's orphans are what healing is for.
The proof found a third: a Task that is approved while it is in Shaping is Done before
the thread moves it to Backlog, which fails, so proposals with such a Task do not count
(`Waits`, section 7).

**Scopes.** Both properties speak of a walk's last step, so `ScopeInv` says what the
walk has done so far: of a cut, that whoever is not retired is in hand or below
somebody on the stack (`CutOK`); of an unarchive, that whoever still is retired is in
hand or on the stack, the root at its bottom (`RestoreOK`); of a healing, that the
Project about to be closed is open and its Tasks are over (`EpicsOK`). Each holds only
while no other verb moves between the sections, which is what `~mix.overlap` says and
`TurnsApart` uses. A pop that pushes a card's children keeps `CutOK` since a subtree is
its root and its children's subtrees.

**Pull requests.** `DoneIsMerged` compares a card with GitHub, of which the Board
learns late. `PullInv`: whatever a poll, a webhook or the sweep has put aside as merged
is merged (`JobOK`, `HookOK`), and so is what the card is marked with (`CardOK`);
merges are never undone, so late news is right news.

**Access.** What is signed is signed with the one key in memory, and that key is the
database's once it is there (`OneKey`); a request holds no other bundle than the
present one with another password (`JobsHold`). Two bootstraps at once make two
keys, of which the second one stays: `BootstrapsAlone` excludes that.

**Logins.** With a rotating IdP every refresh token is used up once. `OnlyMine` and
`OnlyLogins`: what a client or a login is about to seal nobody else holds;
`Replaced`: whoever used the sealed one up is about to seal the next. Pairs: one
request at a time writes provider and type before the server's flag and takes them
away after it (`Paired`, `NoTakers`, `NoLeftovers`).

**Starts.** `BootConverges` says nothing of a start that is still under way, or that
died; `StartInv` says of each of those what it will come to. Every upgrade has a
predicate that says it is done (`InCatalog`, `HasMinimal`, `IsRenamed`,
...), and three facts: it makes its predicate true (`LoadFinishes`,
`RenameFinishes`, ...), it makes none of the earlier ones false (`Kept`), and where
its predicate holds it is the identity (`CatalogedStays`, ...). So what is left of a
start from a stage on (`Rest`) and a whole start make the same of a Board at that
stage, and a start that is repeated may begin at the first stage again. The tables
read back as the Board they were written from, once its links are listed
(`SavedStands`, `LoadedStands`). Together, in every state: what a process that is
down will make of the tables, or one that is starting of its board, is what the
start that began would have made (`FileIs`, `TablesAre`, `DownIs`, `ImportIs`,
`StartsIs`, `UpIs`). `UpgradesKeep` then needs only look at one whole start
(`WholeKeeps`).

**Together.** `MCServices` and `MCBoard` are what TLC runs, so the theorems are
carried to them. In `MCServices` a step is of one service and leaves the other two,
and a service that does not move has a mix that does nothing, which is a mix of it
too (`IdleAssumption`); so a behaviour is one of each service with its safety
specification (`EachIsSafe`), and all they promise holds at once. In `MCBoard` the
part that moves is chosen at the start and stays (`PartStays`); so a behaviour is one
of that part (`SpecsPart`, `ProvidersPart`, ...). The tree starts the same in all of
them and its part needs no condition (`TreePart`).

### Only model-checked

Liveness: the prover has no fairness and no ENABLED. Every invariant and every
action property of the passing runs is proved.

## 7. Where the code does not keep what the repository says

1. **A cut card comes back** (`cut_during_run`, `RetiredStaysCut`). sweep_leases
   requeues the cards it listed under an earlier lock; Retired → Backlog is a
   legal edge, so a card cut in between is un-archived. The end of a run does the
   same: the cut deletes the sandbox, the stream fails, supervise releases the
   card. The docs and `cut_scope` say a cut card stays retired.
2. **An old question is asked again** (`stale_verdict`, `VerdictSettlesOneRun`).
   start_script keeps the verdict files; a reused sandbox still has the answered
   `escalate.json`, which is probed first.
3. **A restart dispatches** (`reopened`, `InertUntilDispatched`). Start-up claims
   Backlog cards whose kept sandbox shows an agent or its exit, though "a Backlog
   card is inert until someone calls dispatch" (`docs/workflow.md:114`).
4. **A released run costs an attempt** (`halt_costs`, `ReleasedRunCostsNothing`).
   record_run_failure counts before it looks at the card.

### Also met

Told as hazards or left out of a property's condition; lines are those of `src/`.

*Cards.* Park sets its hold after the move, so a card may run while parked. A halt
during start-up can be followed by the re-adoption of the halted card. Steer clears
the question of a card that stays in Needs You. An agent that exits 130 or 143 by
itself is taken for a detach. The periodic reconcile discards its adoptions. An
adopted run whose repository is uncovered returns without stopping its agent. The
comment at `store.rs:1790` calls Claimed → NeedsHuman illegal, `machine.rs` allows
it.

*Tree.* approve_review asks for no state, and Shaping → Done is legal: a Task approved
while a thread is still making it stops that thread at its move to Backlog, and the
rest of the proposal waits for the next heal (5645, 4998). A split that comes late takes a card from Done to Review again
(`store.rs:4889`); a second approval then materializes it again while the first
does: twins, against the comment at 5040. The same from an approval of a card
archived meanwhile, and from a heal beside an unarchive. Concurrent `init_plan` and
`create_project` calls both seed (1476). A Task is created under a Project that a
delete takes away between its sections: a row without a parent, which the foreign
keys refuse at every flush; so do unknown ids in `blocked_by` (`api.rs:293`,
`sqlite.rs:161`). Tasks stand in Backlog before their blockers are set (1466,
5004). `heal_completed_epics` works on states read before, so it may reopen an
archived Project as Done (1736). Nothing forbids cycles of blockers (1149). A
materialization that fails half-way leaves the proposal unstamped and its Tasks
unwired. A Project that request_changes took back to Backlog, whose Task is deleted and
that is cut cannot be unarchived: its target is Backlog, which asks for a definition of
done it has not (5556, `machine.rs:91`); `ScopeMovesWhole` exempts it (`Hollow`).

*Persistence and events.* Two flushes at once (the interval's and one that is slow)
may write the older copy last, with the mark off (`main.rs:126`, 228). Handlers that the
drain drops, the supervisor and its tasks go on changing the board beside the last
flush and after it; what they change once it has read the board, and everything unsaved
if it fails, is lost, though the comment at `main.rs:227` counts the force-drop path as
covered. An EventSource that reconnects after a restart with numbers less
than 32 apart shows the old board until something changes.

*Cockpit.* A seat's cleanup runs after the `supervising` flag is released
(`supervisor.rs:3881`): it may reap the next seat's box, and stop its relay. Writes
of seat and cleanup are not checked against `created_at`. An unforced reap may
delete under a session started after its check (3331). A parked session's terminal
agent runs on.

*Pull requests.* A "clean" recorded late clears the retry of a later "unknown", and a
conflicting card in Review is never asked about again (`store.rs:6124`). `complete`
does not look again between mark and transition (6361). Merged by webhook only
while the card runs, a PR is marked but the card never completed. Cursor and tip
advance before what they stand for is applied (`github_poll.rs:145`). The same
review by webhook and poll bounces twice. `set_pr_url` may lose a merged mark
(2041). A card that is deleted meanwhile panics the steering (5902).

*Catalog and providers.* Resolve reads override and spec in two sections and may
fall to the default between them (4049). An audience changed after the rows are read for
the last time (3544) is still injected as it was, and servers attached between the two
resolutions are not in the sandbox's policy. Deleting the spec the cockpit prefers
(3880) leaves a default that may lack `sandboard` until the next preference or start,
while 3334 wants it attached; the cockpit's own resolve and inject add it again, so the
operator sees it in Settings only. Shipped rows have no tombstones and come
back at a restart. Of two writers the older copy may be applied last at the gateway
(`api.rs:1395`); an apply recreates what was deleted meanwhile; types deleted on the
Board never leave the gateway.

*Tokens.* `host_installation_token` mints and seals and marks the cache fresh
without pushing, so the gateway's token is over under running sandboxes
(`github_app.rs:846`). A read-modify-write of the row puts an older token back under
a fresh cache, and if the gateway then loses its provider the repair pushes that one,
over or not. A slow walk of installations overwrites a newer answer.

*Logins.* The clients of `openshell_client_local` (`store.rs:2997`) renew without
sealing: with a rotating IdP the sealed token is then dead. So it is after an answer
that is lost or a death before the seal. A connect that overlaps a disconnect or
delete leaves a server that names a missing provider.

*Start.* A card imported from JSON loses the link in its legacy field
(`codec.rs:212`). A provider an operator named `github` is renamed to `github-app`,
or dropped where that exists (`store.rs:2145`). A policy whose host file is gone
becomes the YAML of its catalog entry (3243). An import interrupted before its stamp
is repeated once all items are deleted, over later settings.

*Access.* Sessions and tokens are self-contained: what was issued outlives a removal
from the allowlist or a new password until it expires. `put_auth_settings` writes
back what it read, so of two at once one is lost.

Some of these are stated as properties that no run checks, beside the model that
shows them: `FrozenOnceDone`, `HealsOnlyUnmade`, `Savable` (tree),
`LiveIsNotOverwritten` (events), `ParksOnlyLive` (pull requests).

## 8. Not modelled, and the plan

`PROJECT.json` says of each component what is left out. Left out altogether: SQL
text and the single-row verbs only tests call; the transports' parsing and
authentication of requests; `openshell.rs`' gRPC; views, prompts and formatting; the
UI but for its copy of the board; images and the Helm chart. They keep no rule of
the Board.

Corners of modelled code that are simplified; no property here tells them apart, but
for the last, which `OAuthStands` names as outside:

* `CardRuns`: the cards are no Initial plans, one of which that ends without a verdict
  escalates whatever its exit code (`supervisor.rs:1878`). `DispTick` queues all that
  auto mode may in one step, the code card by card (`store.rs:4348`).
* `PullRequests`: `Outcome` checks and writes at once, record_rebase_outcome in two
  sections (`store.rs:6109`). `Reviews` sees all reviews, the poll the first thirty
  (`github_poll.rs:320`).
* `Providers`: a call that timed out does not land later. `ImportTypes` imports a job's
  types at once, the code one by one. `Rename` seals or does nothing; the code may fail
  to seal once the old row is deleted (`api.rs:1500`).
* `Access`: Settings asks for a live cookie; the API takes HTTP Basic as well
  (`auth.rs:263`).
* `Logins`: a server saved by hand has no OAuth, and nobody deletes a provider or type
  that belongs to a server by hand (`store.rs:3470`, `api.rs:1549`, 1659), each of
  which would part the pair `OAuthStands` is about.

Next:

1. `Rows`: save_board_state statement by statement, with the foreign keys that
   `Savable` is about.
2. `GatewayCalls`: an exec with its stream, timeout and late answer.
3. What a run tells a card's page: `views` read under several locks.
