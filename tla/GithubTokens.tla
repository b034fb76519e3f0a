------------------------------ MODULE GithubTokens ------------------------------
(***************************************************************************)
(* GitHub App installation tokens (src/github_app.rs, src/store.rs,        *)
(* src/api.rs, src/supervisor.rs).  One token is minted for the configured *)
(* installation; the Board seals it in its `github-app` row, remembers in  *)
(* memory when it expires, and keeps a copy on the gateway for sandboxes.  *)
(* The sweeper, Settings, the host's own calls and every run that sets a   *)
(* sandbox up do this at once, over calls that may fail.  A run whose      *)
(* repository is covered by another installation gets a provider of its    *)
(* own, by the cache of which installation covers what.                    *)
(*                                                                         *)
(* One repository.  The two adjacent reads of App and installation are one *)
(* here, a walk sees all installations at one moment, and replacing one    *)
(* App by another is left out; so are the legacy GITHUB_TOKEN key and the  *)
(* second ensure of a run, which follows the first at once.                *)
(***************************************************************************)
EXTENDS Naturals

CONSTANTS
  Insts,          \* installations of the App
  NoInst,         \* none
  Life, Skew,     \* a token's life, and how long before its end it is minted anew: 0 < Skew < Life
  MaxTime,        \* bound: ticks of the clock
  TokenMixes      \* what happens: each behaviour is one of these

SomeInst == Insts \cup {NoInst}
Actors == {"sweeper", "host", "request", "run", "loop"}

(* alone: one of the actors at a time; set, covered: the installation configured at first, *)
(* the one that covers the repository; the numbers bound changes of it, failures, restarts *)
(* and how often the gateway loses its provider.                                           *)
TokenMix == [actors: SUBSET Actors, edits: SUBSET {"inst", "app", "clear", "sync"},
             alone: BOOLEAN,
             set: SUBSET SomeInst, covered: SUBSET SomeInst, moves: Nat, fails: Nat, restarts: Nat, loses: Nat]

(* A token lives longer than it is thought fresh, and is thought stale at least two ticks *)
(* before it is over: a job may be overtaken by one.                                      *)
ASSUME TokenAssumption ==
  /\ Skew \in Nat /\ Skew > 1 /\ Life \in Nat /\ Life > Skew /\ MaxTime \in Nat
  /\ NoInst \notin Insts /\ TokenMixes \subseteq TokenMix

VARIABLES
  row,       \* the `github-app` row: [app, inst, tok]
  cache,     \* github_app_token_cache.expires_at; 0: none
  tgate,     \* the gateway's token of `github-app`
  routed,    \* [Insts -> the gateway's token of `github-app-install-<id>`]
  access,    \* github_repo_access: the repository's installation
  covers,    \* the installation that covers it at GitHub
  tjob,      \* [Actors -> what each is at]
  now, mishaps, tmix

tokenVars == <<row, cache, tgate, routed, access, covers, tjob, now, mishaps, tmix>>

Tokens == [inst: Insts, exp: 1 .. MaxTime + Life]
NoTok == [inst |-> NoInst, exp |-> 0]
AnyTok == Tokens \cup {NoTok}
TokenRows == [app: BOOLEAN, inst: SomeInst, tok: AnyTok]
NoRow == [app |-> FALSE, inst |-> NoInst, tok |-> NoTok]

JobPc == {"idle", "ensure", "read", "write", "lists", "mint", "push", "put", "cache", "reset", "use",
          "route", "walk", "land", "spoil", "again", "apply", "create"}
Edits == {"tok", "inst", "app", "clear", "sync"}
Jobs == [pc: JobPc, old: BOOLEAN, ok: BOOLEAN, then: JobPc, edit: Edits, inst: SomeInst,
         copy: 0 .. MaxTime + Life, tok: AnyTok, row: TokenRows, exists: BOOLEAN, repair: BOOLEAN,
         to: SomeInst, own: BOOLEAN, sees: SomeInst]
NoErrand == [pc |-> "idle", old |-> FALSE, ok |-> FALSE, then |-> "idle", edit |-> "tok", inst |-> NoInst,
          copy |-> 0, tok |-> NoTok, row |-> NoRow, exists |-> FALSE, repair |-> FALSE,
          to |-> NoInst, own |-> FALSE, sees |-> NoInst]

TokenInit(mixes) ==
  /\ tmix \in mixes /\ now = 0 /\ mishaps = [moves |-> 0, fails |-> 0, restarts |-> 0, loses |-> 0]
  /\ \E i \in tmix.set : row = [app |-> i # NoInst, inst |-> i, tok |-> NoTok]
  /\ cache = 0 /\ tgate = NoTok /\ routed = [i \in Insts |-> NoTok]
  /\ access = NoInst /\ covers \in tmix.covered
  /\ tjob = [a \in Actors |-> NoErrand]

Busy(a) == tjob[a].pc # "idle"
Stands(a, pc) == tjob[a].pc = pc
Set(a, j) == tjob' = [tjob EXCEPT ![a] = j]
Turns(a, pc) == Set(a, [tjob[a] EXCEPT !.pc = pc])
Leaves(a) == Set(a, NoErrand)
Enters(a, pc) ==
  /\ a \in tmix.actors /\ ~Busy(a) /\ (tmix.alone => \A b \in Actors : ~Busy(b))
  /\ Set(a, [NoErrand EXCEPT !.pc = pc])
Befalls(what) == mishaps[what] < tmix[what] /\ mishaps' = [mishaps EXCEPT ![what] = @ + 1]
GoesWell == UNCHANGED mishaps
GoesWrong(a) == Befalls("fails") /\ Leaves(a)

Configured == row.app /\ row.inst # NoInst
NeedsMintLate(exp) == exp = 0 \/ now >= exp                                    \* mutant
NeedsMint(exp) == exp = 0 \/ now + Skew >= exp

-------------------------------------------------------------------------------
(* Who begins what. *)

Sweeps == Enters("sweeper", "ensure")
          /\ UNCHANGED <<row, cache, tgate, routed, access, covers, now, mishaps, tmix>>
(* A run whose card names no repository yet is not routed. *)
RunBegins == (Enters("run", "route") \/ Enters("run", "ensure"))
             /\ UNCHANGED <<row, cache, tgate, routed, access, covers, now, mishaps, tmix>>
LoopBegins == Enters("loop", "walk")
              /\ UNCHANGED <<row, cache, tgate, routed, access, covers, now, mishaps, tmix>>

(* put_github_app, the install callback, and Mint / sync, which only resets the cache *)
Request(e, i) ==
  /\ e \in tmix.edits /\ (e # "inst" => i = NoInst)
  /\ "request" \in tmix.actors /\ ~Busy("request")
  /\ tmix.alone => \A b \in Actors : ~Busy(b)
  /\ Set("request", [NoErrand EXCEPT !.pc = IF e = "sync" THEN "reset" ELSE "read",
                                  !.then = "reset", !.edit = e, !.inst = i])
  /\ UNCHANGED <<row, cache, tgate, routed, access, covers, now, mishaps, tmix>>

(* host_installation_token: what is sealed, while it is fresh; else it mints *)
HostBegins ==
  /\ "host" \in tmix.actors /\ ~Busy("host") /\ (tmix.alone => \A b \in Actors : ~Busy(b))
  /\ Configured
  /\ Set("host", [NoErrand EXCEPT !.copy = cache, !.inst = row.inst,
                    !.pc = IF ~NeedsMint(cache) /\ row.tok # NoTok THEN "use" ELSE "mint",
                    !.tok = IF ~NeedsMint(cache) THEN row.tok ELSE NoTok])
  /\ UNCHANGED <<row, cache, tgate, routed, access, covers, now, mishaps, tmix>>

HostUses ==
  /\ Stands("host", "use") /\ Leaves("host")
  /\ UNCHANGED <<row, cache, tgate, routed, access, covers, now, mishaps, tmix>>

-------------------------------------------------------------------------------
(* ensure_github_provider *)

Settled(a, ok) ==
  IF a = "run" THEN Set(a, [tjob[a] EXCEPT !.pc = "create", !.ok = ok]) ELSE Leaves(a)

Ensure(a) ==
  /\ Stands(a, "ensure")
  /\ IF ~Configured THEN Settled(a, FALSE)
     ELSE Set(a, [tjob[a] EXCEPT !.copy = cache, !.inst = row.inst, !.edit = "tok", !.tok = NoTok,
                    !.pc = "read", !.then = IF NeedsMint(cache) THEN "mint" ELSE "lists"])
  /\ UNCHANGED <<row, cache, tgate, routed, access, covers, now, mishaps, tmix>>

(* Every writer of the row reads it in one section and puts it back in another. *)
RowRead(a) ==
  /\ Stands(a, "read") /\ Set(a, [tjob[a] EXCEPT !.row = row, !.pc = "write"])
  /\ UNCHANGED <<row, cache, tgate, routed, access, covers, now, mishaps, tmix>>

EditedRow(j) ==
  CASE j.edit = "tok" -> IF j.tok = NoTok THEN j.row ELSE [j.row EXCEPT !.tok = j.tok]
    [] j.edit = "inst" -> [j.row EXCEPT !.inst = j.inst]
    [] j.edit = "app" -> [j.row EXCEPT !.app = TRUE]
    [] OTHER -> NoRow
RowWrite(a) ==
  /\ Stands(a, "write") /\ row' = EditedRow(tjob[a])
  /\ Set(a, [tjob[a] EXCEPT !.pc = tjob[a].then, !.then = "idle", !.row = NoRow])
  /\ UNCHANGED <<cache, tgate, routed, access, covers, now, mishaps, tmix>>

(* The cache is fresh: look whether the gateway has a token at all. *)
Lists(a) ==
  /\ Stands(a, "lists")
  /\ \/ /\ GoesWell
        /\ IF tgate # NoTok THEN Settled(a, TRUE)
           ELSE IF row.tok = NoTok THEN Turns(a, "mint")
           ELSE Set(a, [tjob[a] EXCEPT !.tok = row.tok, !.repair = TRUE, !.pc = "read", !.then = "push"])
     \/ GoesWrong(a)
  /\ UNCHANGED <<row, cache, tgate, routed, access, covers, now, tmix>>

(* A failure puts back the expiry that was copied. *)
Mint(a) ==
  /\ Stands(a, "mint")
  /\ \/ /\ GoesWell /\ UNCHANGED cache
        /\ Set(a, [tjob[a] EXCEPT !.tok = [inst |-> tjob[a].inst, exp |-> now + Life], !.copy = 0,
                     !.pc = "read", !.then = IF a = "host" THEN "cache" ELSE "push"])
     \/ GoesWrong(a) /\ cache' = tjob[a].copy
  /\ UNCHANGED <<row, tgate, routed, access, covers, now, tmix>>

PushLooks(a) ==
  /\ Stands(a, "push")
  /\ \/ GoesWell /\ Set(a, [tjob[a] EXCEPT !.exists = (tgate # NoTok), !.pc = "put"])
     \/ GoesWrong(a)
  /\ UNCHANGED <<row, cache, tgate, routed, access, covers, now, tmix>>

(* Update or create; a call that fails may have been carried out.  Only what was *)
(* minted is remembered, and only once it is on the gateway.                     *)
AfterPush(a, ok) ==
  IF ~ok THEN Leaves(a) ELSE IF tjob[a].repair THEN Settled(a, TRUE) ELSE Turns(a, "cache")
Puts(a) ==
  /\ Stands(a, "put")
  /\ \/ tjob[a].exists = (tgate # NoTok) /\ tgate' = tjob[a].tok /\ GoesWell /\ AfterPush(a, TRUE)
     \/ tjob[a].exists # (tgate # NoTok) /\ UNCHANGED tgate /\ GoesWell /\ AfterPush(a, FALSE)
     \/ tjob[a].exists = (tgate # NoTok) /\ tgate' \in {tgate, tjob[a].tok} /\ Befalls("fails")
        /\ AfterPush(a, FALSE)
  /\ UNCHANGED <<row, cache, routed, access, covers, now, tmix>>

Remembers(a) ==
  /\ Stands(a, "cache") /\ cache' = tjob[a].tok.exp
  /\ IF a = "host" THEN Turns(a, "use") ELSE Settled(a, TRUE)
  /\ UNCHANGED <<row, tgate, routed, access, covers, now, mishaps, tmix>>

(* After an edit, before the ensure it is followed by. *)
Reset ==
  /\ Stands("request", "reset")
  /\ cache' = IF tjob["request"].edit = "app" /\ ~Configured THEN cache ELSE 0
  /\ IF tjob["request"].edit = "clear" THEN Leaves("request") ELSE Turns("request", "ensure")
  /\ UNCHANGED <<row, tgate, routed, access, covers, now, mishaps, tmix>>

-------------------------------------------------------------------------------
(* ensure_push_token of a run, and the walks that fill the cache of what is covered *)

Routes(j, i) ==
  IF i = row.inst THEN [j EXCEPT !.pc = "ensure", !.to = i]
  ELSE [j EXCEPT !.pc = "apply", !.to = i, !.own = TRUE]
RouteLooks ==
  /\ Stands("run", "route")
  /\ IF access # NoInst THEN Set("run", Routes(tjob["run"], access))
     ELSE Set("run", [tjob["run"] EXCEPT !.pc = "walk"])
  /\ UNCHANGED <<row, cache, tgate, routed, access, covers, now, mishaps, tmix>>

(* Without an App the walk leaves everything as it is. *)
WalkInstallations(a) ==
  /\ Stands(a, "walk")
  /\ \/ ~row.app /\ GoesWell /\ IF a = "run" THEN Turns(a, "again") ELSE Leaves(a)
     \/ row.app /\ GoesWell /\ Set(a, [tjob[a] EXCEPT !.sees = covers, !.pc = "land"])
     \/ row.app /\ Befalls("fails") /\ Set(a, [tjob[a] EXCEPT !.sees = access, !.pc = "spoil"])
  /\ UNCHANGED <<row, cache, tgate, routed, access, covers, now, tmix>>

Land(a) ==
  /\ Stands(a, "land") /\ access' = tjob[a].sees
  /\ IF a = "run" THEN Turns(a, "again") ELSE Leaves(a)
  /\ UNCHANGED <<row, cache, tgate, routed, covers, now, mishaps, tmix>>

(* A failed walk puts the cache it read back, with the error; a run takes its first *)
(* look for the answer, which was that nothing covers the repository: it parks.     *)
Spoil(a) ==
  /\ Stands(a, "spoil") /\ access' = tjob[a].sees /\ Leaves(a)
  /\ UNCHANGED <<row, cache, tgate, routed, covers, now, mishaps, tmix>>

RouteAgain ==
  /\ Stands("run", "again") /\ access # NoInst
  /\ Set("run", Routes(tjob["run"], access))
  /\ UNCHANGED <<row, cache, tgate, routed, access, covers, now, mishaps, tmix>>

Uncovered(j) == j.pc = "again" /\ access = NoInst
RunParks ==
  /\ Uncovered(tjob["run"]) /\ Leaves("run")
  /\ UNCHANGED <<row, cache, tgate, routed, access, covers, now, mishaps, tmix>>

(* apply_routed_installation_token: a new token each time, which no cache remembers *)
AppliesRouted ==
  /\ Stands("run", "apply")
  /\ \/ /\ row.app /\ GoesWell
        /\ routed' = [routed EXCEPT ![tjob["run"].to] = [inst |-> tjob["run"].to, exp |-> now + Life]]
        /\ Turns("run", "ensure")
     \/ row.app /\ GoesWrong("run") /\ UNCHANGED routed
     \/ ~row.app /\ GoesWell /\ Leaves("run") /\ UNCHANGED routed
  /\ UNCHANGED <<row, cache, tgate, access, covers, now, tmix>>

(* CreateSandbox with the routed provider in the place of `github-app`; the gateway *)
(* refuses a provider it does not have.                                             *)
Held(r) == IF r.own THEN routed[r.to] ELSE tgate
CreateSandbox ==
  /\ Stands("run", "create") /\ Held(tjob["run"]) # NoTok /\ Leaves("run")
  /\ UNCHANGED <<row, cache, tgate, routed, access, covers, now, mishaps, tmix>>
CreateRefused ==
  /\ Stands("run", "create") /\ Held(tjob["run"]) = NoTok /\ Leaves("run")
  /\ UNCHANGED <<row, cache, tgate, routed, access, covers, now, mishaps, tmix>>

-------------------------------------------------------------------------------
(* GitHub, the gateway, the process and the clock *)

CoverageMoves ==
  /\ Befalls("moves") /\ covers' \in SomeInst \ {covers}
  /\ UNCHANGED <<row, cache, tgate, routed, access, tjob, now, tmix>>

GatewayLoses ==
  /\ Befalls("loses") /\ tgate # NoTok /\ tgate' = NoTok
  /\ UNCHANGED <<row, cache, routed, access, covers, tjob, now, tmix>>

TokenRestart ==
  /\ Befalls("restarts") /\ cache' = 0 /\ tjob' = [a \in Actors |-> NoErrand]
  /\ UNCHANGED <<row, tgate, routed, access, covers, now, tmix>>

(* A job takes less than a tick: the clock advances at most once while it lasts. *)
Tick ==
  /\ now < MaxTime /\ \A a \in Actors : ~tjob[a].old
  /\ now' = now + 1 /\ tjob' = [a \in Actors |-> [tjob[a] EXCEPT !.old = Busy(a)]]
  /\ UNCHANGED <<row, cache, tgate, routed, access, covers, mishaps, tmix>>

TokenNext ==
  \/ Sweeps \/ RunBegins \/ LoopBegins \/ HostBegins \/ HostUses
  \/ \E e \in Edits, i \in SomeInst : Request(e, i)
  \/ \E a \in Actors : \/ Ensure(a) \/ RowRead(a) \/ RowWrite(a) \/ Lists(a) \/ Mint(a) \/ PushLooks(a)
                       \/ Puts(a) \/ Remembers(a) \/ WalkInstallations(a) \/ Land(a) \/ Spoil(a)
  \/ Reset \/ RouteLooks \/ RouteAgain \/ RunParks \/ AppliesRouted \/ CreateSandbox \/ CreateRefused
  \/ CoverageMoves \/ GatewayLoses \/ TokenRestart \/ Tick

TokenSpec == TokenInit(TokenMixes) /\ [][TokenNext]_tokenVars

-------------------------------------------------------------------------------
TokenTypeOK ==
  /\ row \in TokenRows /\ cache \in 0 .. MaxTime + Life /\ tgate \in AnyTok
  /\ routed \in [Insts -> AnyTok] /\ access \in SomeInst /\ covers \in SomeInst
  /\ tjob \in [Actors -> Jobs] /\ now \in 0 .. MaxTime /\ tmix \in TokenMix

(* A sandbox is created with a token that is not over, whoever else mints, pushes and  *)
(* edits meanwhile, as long as the host's own calls do not share the cache; and without *)
(* overlap it is the token of the installation the run was routed to, or else of the    *)
(* one configured.  Without overlap the host's calls have such a token too.             *)
TokenLives ==
  [][/\ CreateSandbox /\ (tjob["run"].ok \/ tjob["run"].own) /\ "host" \notin tmix.actors
          => LET r == tjob["run"] IN
               /\ Held(r).exp > now
               /\ tmix.alone => Held(r).inst = IF r.to # NoInst THEN r.to ELSE row.inst
     /\ HostUses /\ tmix.alone
          => tjob["host"].tok.exp > now /\ tjob["host"].tok.inst = row.inst]_tokenVars
===============================================================================
