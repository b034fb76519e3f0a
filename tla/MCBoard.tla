-------------------------------- MODULE MCBoard --------------------------------
(* The tree, the parts of the Board that Settings edits, how all of it comes up  *)
(* and who may talk to it, in one instance for TLC.  They share nothing but the  *)
(* Board's lock, so each behaviour is of one, and the others stay as they began. *)
EXTENDS BoardTree, Specs, Providers, GithubTokens, Logins, Access, Startup, TLC

VARIABLE part

allVars ==
  <<part, vars, specVars, providerVars, tokenVars, loginVars, startVars, accessVars>>

-------------------------------------------------------------------------------
(* BoardTree *)
PlanRow(k, t, needs) == [key |-> k, title |-> t, needs |-> needs]

(* The first row waits for the second: an edge to a Task created after it. *)
MCPlans == {<<PlanRow("k1", "a", {"k2"}), PlanRow("k2", "b", {})>>}

(* A split that names a Task of the plan again. *)
MCSplits == {<<PlanRow("k1", "b", {}), PlanRow("k2", "c", {"k1"})>>}

Overlapping(verbs, titles, ids) ==
  [verbs |-> verbs, overlap |-> TRUE, titles |-> titles, ids |-> ids, crashes |-> 0]
Alone(verbs, ids) ==
  [verbs |-> verbs, overlap |-> FALSE, titles |-> Titles, ids |-> ids, crashes |-> 1]

MCMixes ==
  {Overlapping({"plan", "done"}, {}, 6),             \* approvals at once
   Overlapping({"task", "split", "done"}, {"b"}, 5), \* a late split
   Overlapping({"task", "done"}, {"a", "b"}, 5),
   Alone({"init", "plan", "done", "heal"}, 6),     \* a plan approved before a restart
   Alone({"done", "cut", "unarchive", "epics"}, 3),
   [Alone({"task", "done", "epics"}, 5) EXCEPT !.crashes = 0],   \* two Tasks to close
   Alone({"changes", "delete", "cut", "unarchive"}, 2),
   Alone({"task", "delete", "changes", "done"}, 4)}

(* Specs: one spec is shipped, one is the operator's. *)
MCShippedSpecs == "cursor" :> "ship"
Catalog(edits, restarts) ==
  [edits |-> edits, hands |-> {CHOOSE v \in Verbs : TRUE}, restarts |-> restarts]
MCSpecMixes ==
  {[Catalog({"policy", "spec", "prefs"}, 1) EXCEPT !.hands = Verbs],   \* two preferences at once
   Catalog({"policy", "server", "spec"}, 1),
   Catalog({"server", "spec", "run"}, 0), Catalog({"spec", "prefs", "run"}, 0)}

(* Providers *)
Asked(verbs, alone, fails, restarts) ==
  [verbs |-> verbs, wanted |-> ProviderNames, alone |-> alone, fails |-> fails, restarts |-> restarts]
MCProviderMixes ==
  {Asked({"save", "sync"}, FALSE, 1, 0), Asked({"save", "rename", "delete"}, FALSE, 0, 1),
   Asked({"save", "sync", "delete", "rename"}, TRUE, 0, 0), Asked({"type"}, FALSE, 0, 2)}

(* GithubTokens *)
Together(actors, edits) ==
  [actors |-> actors, edits |-> edits, alone |-> FALSE, set |-> {1}, covered |-> {NoInst},
   moves |-> 0, fails |-> 0, restarts |-> 0, loses |-> 0]
OneByOne(actors, edits) == [Together(actors, edits) EXCEPT !.alone = TRUE]
MCTokenMixes ==
  {Together({"sweeper", "run"}, {}),
   [Together({"run", "request"}, {"sync"}) EXCEPT !.set = {NoInst, 1}],
   [OneByOne({"sweeper", "run"}, {}) EXCEPT !.loses = 1, !.fails = 1],
   [OneByOne({"run", "request"}, {"inst", "clear"}) EXCEPT !.set = {NoInst}, !.covered = Insts],
   [OneByOne({"run"}, {"inst", "app"}) EXCEPT !.set = {NoInst}, !.covered = Insts],
   [OneByOne({"run", "loop"}, {}) EXCEPT !.covered = {NoInst, 2}, !.moves = 1, !.fails = 1],
   [OneByOne({"host", "sweeper"}, {"inst"}) EXCEPT !.fails = 1, !.restarts = 1],
   [OneByOne({"host", "request"}, {"inst"}) EXCEPT !.fails = 1]}

(* Logins *)
Of(verbs, alone, saves, rotates, fails, restarts) ==
  [verbs |-> verbs, alone |-> alone, saves |-> saves, rotates |-> rotates,
   fails |-> fails, restarts |-> restarts]
MCLoginMixes ==
  {Of({"login", "logout", "client"}, FALSE, TRUE, TRUE, 1, 1),
   Of({"login", "client"}, FALSE, FALSE, FALSE, 1, 0),
   Of({"connect", "disconnect", "delete"}, TRUE, TRUE, FALSE, 1, 1),
   Of({"connect", "edit"}, FALSE, TRUE, FALSE, 1, 1)}

(* Startup: what older versions left.  A file with cards, one with settings   *)
(* only, tables of an older version, and both a file and tables.               *)
OldItem(p, t, st, needs, pr) == [parent |-> p, title |-> t, state |-> st, needs |-> needs, pr |-> pr]
Box(p, inline, wants) == [policy |-> p, inline |-> inline, wants |-> wants]
Provider(t) == [type |-> t, creds |-> {"key"}]
Past(f, b, stamped) == [file |-> f, tables |-> [board |-> b, stamped |-> stamped]]
Bare == [items |-> <<>>, lines |-> {}, policies |-> <<>>, specs |-> <<>>, provs |-> <<>>,
         app |-> {}, seeds |-> {}]
MCHost == "/p" :> "y"
MCShippedBoxes == "cursor" :> "ship"
MCIdsFor == [s \in Boxes |-> IF s = "own" THEN <<"own-policy", "own-policy-2">> ELSE <<"c1", "c2">>]
OldCards == (1 :> OldItem(NoCard, "project", "backlog", {}, "none")) @@
            (2 :> OldItem(1, "legacy", "shaping", {}, "none")) @@
            (3 :> OldItem(1, "task", "done", {2}, "legacy"))
WithCards ==
  [Bare EXCEPT !.items = OldCards, !.lines = {1, 4},
                  !.specs = "own" :> Box(NoPolicy, "/p", {"github", "gen"}),
                  !.provs = ("github" :> Provider("github")) @@ ("gen" :> Provider("generic"))]
SettingsOnly ==
  [Bare EXCEPT !.policies = "own-policy" :> "x",
                  !.specs = "own" :> Box(NoPolicy, "y", {"github"}),
                  !.app = {"key", "install"}, !.seeds = {"forge"}]
OldTables ==
  [Bare EXCEPT !.items = OldCards, !.lines = {1}, !.policies = "min" :> "x",
                  !.specs = "own" :> Box("min", NoText, {"github", "github-app"}),
                  !.provs = ("github" :> Provider("github")) @@ ("github-app" :> Provider("github")),
                  !.app = {"install"}, !.seeds = {"runtime"}]
MCPasts ==
  {Past(NoFile, Bare, FALSE), Past(WithCards, Bare, FALSE), Past(SettingsOnly, Bare, FALSE),
   Past(NoFile, OldTables, TRUE), Past(WithCards, OldTables, FALSE)}

(* Access *)
MCTtl ==
  ("session" :> 1) @@ ("state" :> 0) @@ ("code" :> 0) @@ ("access" :> 0) @@ ("refresh" :> 1)
MCMember == "t" :> {"u"}
New(verbs, ticks, restarts) ==
  [verbs |-> verbs, admin |-> FALSE, alone |-> TRUE, ticks |-> ticks, restarts |-> restarts]
Had(verbs, alone, ticks, restarts) ==
  [verbs |-> verbs, admin |-> TRUE, alone |-> alone, ticks |-> ticks, restarts |-> restarts]
MCAccessMixes ==
  {New({"bootstrap", "login"}, 2, 2), New({"bootstrap", "login", "cockpit"}, 1, 1),
   Had({"password", "login"}, FALSE, 0, 1), Had({"github", "lists"}, FALSE, 0, 0),
   Had({"github"}, FALSE, 1, 0), Had({"mcp"}, TRUE, 2, 1), Had({"password", "mcp"}, TRUE, 1, 1)}

-------------------------------------------------------------------------------
(* The tree treats its threads alike. *)
AnyWorker == Permutations(Workers)

AllInit ==
  /\ part \in {"tree", "specs", "providers", "tokens", "logins", "start", "access"}
  /\ Init /\ (part # "tree" => mix = CHOOSE m \in Mixes : TRUE)
  /\ SpecInit(IF part = "specs" THEN SpecMixes ELSE {Catalog({}, 0)})
  /\ ProviderInit(IF part = "providers" THEN ProviderMixes ELSE {Asked({}, TRUE, 0, 0)})
  /\ TokenInit(IF part = "tokens" THEN TokenMixes ELSE {Together({}, {})})
  /\ LoginInit(IF part = "logins" THEN LoginMixes ELSE {Of({}, TRUE, TRUE, TRUE, 0, 0)})
  /\ StartInit(IF part = "start" THEN Pasts ELSE {Past(NoFile, Bare, TRUE)})
  /\ AccessInit(IF part = "access" THEN AccessMixes ELSE {New({}, 0, 0)})

OfTree ==
  /\ part = "tree"
  /\ UNCHANGED <<part, specVars, providerVars, tokenVars, loginVars, startVars, accessVars>>
OfSpecs ==
  /\ part = "specs"
  /\ UNCHANGED <<part, vars, providerVars, tokenVars, loginVars, startVars, accessVars>>
OfProviders ==
  /\ part = "providers"
  /\ UNCHANGED <<part, vars, specVars, tokenVars, loginVars, startVars, accessVars>>
OfTokens ==
  /\ part = "tokens"
  /\ UNCHANGED <<part, vars, specVars, providerVars, loginVars, startVars, accessVars>>
OfLogins ==
  /\ part = "logins"
  /\ UNCHANGED <<part, vars, specVars, providerVars, tokenVars, startVars, accessVars>>
OfStart ==
  /\ part = "start"
  /\ UNCHANGED <<part, vars, specVars, providerVars, tokenVars, loginVars, accessVars>>
OfAccess ==
  /\ part = "access"
  /\ UNCHANGED <<part, vars, specVars, providerVars, tokenVars, loginVars, startVars>>

TreeNext ==
  \/ \E w \in Workers : OfTree /\ NewProject(w)
  \/ \E w \in Workers : OfTree /\ Epics(w)
  \/ \E w \in Workers, i \in Ids : OfTree /\ InitPlan(w, i)
  \/ \E w \in Workers, i \in Ids : OfTree /\ Finish(w, i)
  \/ \E w \in Workers, i \in Ids : OfTree /\ Heal(w, i)
  \/ \E w \in Workers, i \in Ids : OfTree /\ Changes(w, i)
  \/ \E w \in Workers, i \in Ids : OfTree /\ Cut(w, i)
  \/ \E w \in Workers, i \in Ids : OfTree /\ Unarchive(w, i)
  \/ \E w \in Workers, i \in Ids, t \in Titles, needs \in {{}} \cup {{k} : k \in Ids} :
       OfTree /\ NewTask(w, i, t, needs)
  \/ \E w \in Workers, i \in Ids, p \in Plans : OfTree /\ Propose(w, i, p)
  \/ \E w \in Workers, i \in Ids, p \in Splits : OfTree /\ Split(w, i, p)
  \/ \E w \in Workers : OfTree /\ Goes(w)
  \/ \E i \in Ids : OfTree /\ Claim(i)
  \/ \E i \in Ids : OfTree /\ Report(i)
  \/ \E i \in Ids : OfTree /\ Delete(i)
  \/ OfTree /\ Crash

SpecsNext ==
  \/ OfSpecs /\ SpecRestart
  \/ \E p \in PolicyIds : OfSpecs /\ SavePolicy(p)
  \/ \E p \in PolicyIds : OfSpecs /\ DeletePolicy(p)
  \/ \E v \in Verbs, m \in ServerIds, a \in {"cockpit", "both"} : OfSpecs /\ ServerLooks(v, m, a)
  \/ \E v \in Verbs : OfSpecs /\ SaveServer(v)
  \/ \E m \in ServerIds : OfSpecs /\ DeleteServer(m)
  \/ \E s \in SpecIds, p \in PolicyIds, ms \in SUBSET ServerIds : OfSpecs /\ SaveSpec(s, p, ms)
  \/ \E s \in SpecIds : OfSpecs /\ DeleteSpec(s)
  \/ \E v \in Verbs, s \in SpecIds : OfSpecs /\ SetDefault(v, s)
  \/ \E v \in Verbs : OfSpecs /\ Inherits(v)
  \/ \E v \in Verbs, s \in SpecIds : OfSpecs /\ SetCockpit(v, s)
  \/ \E v \in Verbs : OfSpecs /\ ClearCockpit(v)
  \/ \E v \in Verbs : OfSpecs /\ AttachSandboard(v)
  \/ \E p \in Projects, s \in Pref : OfSpecs /\ SetOverride(p, s)
  \/ (OfSpecs /\ RunLooks) \/ (OfSpecs /\ RunResolves) \/ (OfSpecs /\ RunMakesBox)
  \/ (OfSpecs /\ RunResolvesAgain) \/ (OfSpecs /\ RunReads) \/ (OfSpecs /\ RunPlaces)
  \/ OfSpecs /\ RunEnds

ProvidersNext ==
  \/ OfProviders /\ ProviderRestart
  \/ \E h \in Handlers, n \in ProviderNames, t \in Types : OfProviders /\ SaveProvider(h, n, t)
  \/ \E h \in Handlers, n, m \in ProviderNames : OfProviders /\ Rename(h, n, m)
  \/ \E h \in Handlers, n \in ProviderNames : OfProviders /\ DeleteProvider(h, n)
  \/ \E h \in Handlers : OfProviders /\ Upsert(h)
  \/ \E h \in Handlers : OfProviders /\ Forget(h)
  \/ \E h \in Handlers : OfProviders /\ Sync(h)
  \/ \E t \in Types : OfProviders /\ SaveType(t)
  \/ \E t \in Types : OfProviders /\ DeleteType(t)
  \/ \E a \in Appliers : OfProviders /\ ImportTypes(a)
  \/ \E a \in Appliers : OfProviders /\ ReadDesired(a)
  \/ \E a \in Appliers, n \in ProviderNames : OfProviders /\ Looks(a, n)
  \/ \E a \in Appliers : OfProviders /\ Makes(a)
  \/ \E a \in Appliers : OfProviders /\ Updates(a)
  \/ \E a \in Appliers : OfProviders /\ Unmakes(a)
  \/ \E r \in Runs : OfProviders /\ RunAttaches(r)
  \/ \E r \in Runs : OfProviders /\ RunCreates(r)
  \/ \E r \in Runs : OfProviders /\ RunRefused(r)

TokensNext ==
  \/ (OfTokens /\ Sweeps) \/ (OfTokens /\ RunBegins) \/ (OfTokens /\ LoopBegins)
  \/ (OfTokens /\ HostBegins) \/ (OfTokens /\ HostUses)
  \/ \E e \in Edits, i \in SomeInst : OfTokens /\ Request(e, i)
  \/ \E a \in Actors : OfTokens /\ Ensure(a)
  \/ \E a \in Actors : OfTokens /\ RowRead(a)
  \/ \E a \in Actors : OfTokens /\ RowWrite(a)
  \/ \E a \in Actors : OfTokens /\ Lists(a)
  \/ \E a \in Actors : OfTokens /\ Mint(a)
  \/ \E a \in Actors : OfTokens /\ PushLooks(a)
  \/ \E a \in Actors : OfTokens /\ Puts(a)
  \/ \E a \in Actors : OfTokens /\ Remembers(a)
  \/ \E a \in Actors : OfTokens /\ WalkInstallations(a)
  \/ \E a \in Actors : OfTokens /\ Land(a)
  \/ \E a \in Actors : OfTokens /\ Spoil(a)
  \/ (OfTokens /\ Reset) \/ (OfTokens /\ RouteLooks) \/ (OfTokens /\ RouteAgain)
  \/ (OfTokens /\ RunParks) \/ (OfTokens /\ AppliesRouted) \/ (OfTokens /\ CreateSandbox)
  \/ (OfTokens /\ CreateRefused) \/ (OfTokens /\ CoverageMoves) \/ (OfTokens /\ GatewayLoses)
  \/ (OfTokens /\ TokenRestart) \/ (OfTokens /\ Tick)

LoginsNext ==
  \/ \E l \in Attempts : OfLogins /\ LogsIn(l)
  \/ \E l \in Attempts : OfLogins /\ Expires(l)
  \/ \E l \in Attempts : OfLogins /\ Answers(l)
  \/ \E l \in Attempts : OfLogins /\ AnswersLate(l)
  \/ \E l \in Attempts : OfLogins /\ SealsLogin(l)
  \/ \E c \in Clients : OfLogins /\ Opens(c)
  \/ \E c \in Clients : OfLogins /\ Renews(c)
  \/ \E c \in Clients : OfLogins /\ Saves(c)
  \/ \E c \in Clients : OfLogins /\ Closes(c)
  \/ (OfLogins /\ Logout) \/ (OfLogins /\ Ages) \/ (OfLogins /\ LoginRestart)
  \/ \E h \in Flows, s \in Servers : OfLogins /\ Connects(h, s)
  \/ \E h \in Flows, s \in Servers : OfLogins /\ Disconnects(h, s)
  \/ \E h \in Flows, s \in Servers : OfLogins /\ DeletesServer(h, s)
  \/ \E h \in Flows : OfLogins /\ ComesBack(h)
  \/ \E h \in Flows : OfLogins /\ PutsType(h)
  \/ \E h \in Flows : OfLogins /\ ImportsType(h)
  \/ \E h \in Flows : OfLogins /\ PutsProvider(h)
  \/ \E h \in Flows : OfLogins /\ AppliesProvider(h)
  \/ \E h \in Flows : OfLogins /\ PutsServer(h)
  \/ \E h \in Flows : OfLogins /\ ClearsAuth(h)
  \/ \E h \in Flows : OfLogins /\ DropsProvider(h)
  \/ \E h \in Flows : OfLogins /\ DropsType(h)
  \/ \E h \in Flows : OfLogins /\ GateDropsProvider(h)
  \/ \E h \in Flows : OfLogins /\ GateDropsType(h)
  \/ \E s \in Servers : OfLogins /\ EditsServer(s)

StartsNext ==
  \/ (OfStart /\ ImportSaves) \/ (OfStart /\ Stamps)
  \/ (OfStart /\ Loads) \/ (OfStart /\ Upgrades)
  \/ \E flushed \in BOOLEAN : OfStart /\ Dies(flushed)
  \/ \E i, p \in Cards : OfStart /\ NewCard(i, p)
  \/ \E i \in Cards : OfStart /\ DeleteProject(i)
  \/ \E n \in ProviderKeys, t \in Kinds : OfStart /\ StoreProvider(n, t)
  \/ \E n \in ProviderKeys : OfStart /\ DropProvider(n)
  \/ \E s \in Boxes, n \in ProviderKeys : OfStart /\ AttachProvider(s, n)
  \/ \E s \in Boxes : OfStart /\ DeleteBox(s)

RequestsNext ==
  \/ \E h \in Requests, p \in Passwords : OfAccess /\ BootstrapLooks(h, p)
  \/ \E h \in Requests : OfAccess /\ BootstrapSets(h)
  \/ \E p \in Passwords : OfAccess /\ Login(p)
  \/ \E s \in cookies : OfAccess /\ LogsOut(s)
  \/ \E h \in Requests, us \in {NotGiven} \cup SUBSET Users,
        ts \in {NotGiven} \cup SUBSET Teams, p \in {NoAuth} \cup Passwords :
       OfAccess /\ SettingsLooks(h, us, ts, p)
  \/ \E h \in Requests : OfAccess /\ SettingsReads(h)
  \/ \E h \in Requests : OfAccess /\ SettingsLists(h)
  \/ \E h \in Requests : OfAccess /\ NewPassword(h)
  \/ OfAccess /\ GithubStart
  \/ \E h \in Requests, st \in states : OfAccess /\ GithubComesBack(h, st)
  \/ \E h \in Requests, u \in Users : OfAccess /\ GithubAnswers(h, u)
  \/ \E h \in Requests : OfAccess /\ GithubTeams(h)
  \/ \E cl \in McpClients : OfAccess /\ Register(cl)
  \/ \E s \in cookies, cl \in McpClients : OfAccess /\ Approve(s, cl)
  \/ \E c \in Codes, cl \in McpClients : OfAccess /\ Redeem(c, cl)
  \/ \E t \in tokens : OfAccess /\ Refresh(t)
  \/ \E who \in Principals, cl \in McpClients : OfAccess /\ CockpitMints(who, cl)
  \/ (OfAccess /\ AccessFlush) \/ (OfAccess /\ AccessRestart) \/ (OfAccess /\ Passes)

AllNext ==
  \/ TreeNext \/ SpecsNext \/ ProvidersNext \/ TokensNext \/ LoginsNext \/ StartsNext
  \/ RequestsNext

BoardSpec == AllInit /\ [][AllNext]_allVars

-------------------------------------------------------------------------------
(* The part that moves keeps its variables in their types, and what they bound: *)
(* the others are as they began.                                                 *)
AllTypeOK ==
  /\ part = "tree" => TypeOK
  /\ part = "specs" => SpecTypeOK
  /\ part = "providers" => ProviderTypeOK
  /\ part = "tokens" => TokenTypeOK
  /\ part = "logins" => LoginTypeOK
  /\ part = "start" => StartTypeOK
  /\ part = "access" => AccessTypeOK
===============================================================================
