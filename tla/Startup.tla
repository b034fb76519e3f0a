-------------------------------- MODULE Startup --------------------------------
(***************************************************************************)
(* How the Board comes up from what is kept (src/store.rs                  *)
(* load_with_store, src/db/): a one-shot import of sandboard.json into     *)
(* empty tables, the rows read back, and a chain of upgrades of what older *)
(* versions wrote, each flushed when it changed something.  The process    *)
(* may die between any two transactions and start again.                   *)
(*                                                                         *)
(* A flush is one transaction that replaces every row, so the tables hold  *)
(* a whole Board and the stamp of the import.  Of a card its place, title, *)
(* state, blockers and pull request are kept; MCP servers and the cockpit  *)
(* seat are Specs', live flushing is BoardSync's.                          *)
(***************************************************************************)
EXTENDS Naturals, Sequences, FiniteSets, Functions

CONSTANTS
  Cards, NoCard,               \* items; the parent of a Project
  ProviderKeys, Legacy, App,   \* provider names; `github` and `github-app` among them
  Boxes, ShippedBoxes,         \* sandbox specs; [the shipped ones -> their policy]
  Texts, Paths, Host, NoText,  \* policies' YAML; host paths, [readable ones -> YAML]; none
  Minimal, IdsFor, NoPolicy,   \* the policy all may use; [spec -> ids to try for its own]; unset
  ShippedText,                 \* the YAML of what is shipped
  NoFile,                      \* no sandboard.json
  Pasts,                       \* what earlier versions left: [file, tables]
  MaxEdits, MaxDeaths          \* bounds: edits of a running Board; ends of the process

StartPolicies == {Minimal} \cup Range(ShippedBoxes) \cup UNION {Range(IdsFor[s]) : s \in Boxes}
Kinds == {"github", "github-app", "generic"}
Material == {"key", "install"}
Seeds == {"forge", "runtime", "types"}

Items == [parent: Cards \cup {NoCard}, title: {"legacy", "plan", "task", "project"},
          state: {"shaping", "backlog", "done"}, needs: SUBSET Cards,
          pr: {"none", "legacy", "listed"}]
Specs == [policy: StartPolicies \cup {NoPolicy}, inline: Texts \cup Paths \cup {NoText},
          wants: SUBSET ProviderKeys]
Providers == [type: Kinds, creds: SUBSET Material]

PartialOf(f, S, T) == DOMAIN f \subseteq S /\ f \in [DOMAIN f -> T]
IsBoard(b) ==
  /\ b \in [items: {b.items}, lines: SUBSET Cards, policies: {b.policies}, specs: {b.specs},
           provs: {b.provs}, app: SUBSET Material, seeds: SUBSET Seeds]
  /\ PartialOf(b.items, Cards, Items) /\ PartialOf(b.policies, StartPolicies, Texts \cup Paths)
  /\ PartialOf(b.specs, Boxes, Specs) /\ PartialOf(b.provs, ProviderKeys, Providers)

(* A policy a spec names is there, and a spec without one has an id to try that *)
(* is free (the code numbers on until it finds one).                            *)
Named(b) ==
  /\ \A s \in DOMAIN b.specs : b.specs[s].policy \in DOMAIN b.policies \cup {NoPolicy}
  /\ \A s \in DOMAIN b.specs : b.specs[s].policy = NoPolicy /\ b.specs[s].inline # NoText =>
       \E k \in DOMAIN IdsFor[s] : IdsFor[s][k] \notin DOMAIN b.policies

ASSUME NamesAssumption ==
  /\ Legacy \in ProviderKeys /\ App \in ProviderKeys /\ Legacy # App /\ NoCard \notin Cards
  /\ NoPolicy \notin StartPolicies /\ DOMAIN ShippedBoxes \subseteq Boxes
  /\ \A s \in Boxes : IdsFor[s] \in Seq(StartPolicies)
  /\ \A s, z \in Boxes : s # z => Range(IdsFor[s]) \cap Range(IdsFor[z]) = {}
ASSUME TextsAssumption ==
  /\ ShippedText \in Texts /\ NoText \notin Texts \cup Paths /\ Texts \cap Paths = {}
  /\ DOMAIN Host \subseteq Paths /\ Host \in [DOMAIN Host -> Texts]
ASSUME StartsAssumption == MaxEdits \in Nat /\ MaxDeaths \in Nat
ASSUME PastsAssumption ==
  \A past \in Pasts :
    /\ past.file = NoFile \/ (IsBoard(past.file) /\ Named(past.file))
    /\ past.tables \in [board: {past.tables.board}, stamped: BOOLEAN]
    /\ IsBoard(past.tables.board) /\ Named(past.tables.board)
    /\ past.tables.board.lines \subseteq DOMAIN past.tables.board.items

VARIABLES
  tables,    \* the database: [board, stamped]
  board,     \* BoardState in memory, while there is a process
  pc,        \* where a start is
  was,       \* what this start, or those cut short before it, began from (for the properties)
  touched, deaths, file

startVars == <<tables, board, pc, was, touched, deaths, file>>

Empty == [items |-> <<>>, lines |-> {}, policies |-> <<>>, specs |-> <<>>, provs |-> <<>>,
          app |-> {}, seeds |-> {}]

Over(f, g) == [x \in DOMAIN f \cup DOMAIN g |-> IF x \in DOMAIN f THEN f[x] ELSE g[x]]
Entered(f, x, v) == Over([y \in {x} |-> v], f)
Less(f, S) == Restrict(f, DOMAIN f \ S)

-------------------------------------------------------------------------------
(* Rows. *)

(* What a transaction writes: a link in the legacy fields has no column, and   *)
(* stories of a deleted Project are skipped.                                   *)
Saved(b) ==
  [b EXCEPT !.items = [i \in DOMAIN b.items |->
                         [b.items[i] EXCEPT !.pr = IF @ = "legacy" THEN "none" ELSE @]],
            !.lines = @ \cap DOMAIN b.items]

(* What the rows say; a link an older version put in the extras is moved.      *)
Loaded(t) ==
  [t.board EXCEPT !.items = [i \in DOMAIN t.board.items |->
                               [t.board.items[i] EXCEPT !.pr =
                                  IF @ = "legacy" THEN "listed" ELSE @]]]

(* Foreign keys: a board with an edge or a parent that is not there is refused. *)
Storable(b) ==
  \A i \in DOMAIN b.items : /\ b.items[i].needs \subseteq DOMAIN b.items
                            /\ b.items[i].parent \in DOMAIN b.items \cup {NoCard}

ImportDue(t) == ~t.stamped /\ DOMAIN t.board.items = {} /\ file # NoFile

-------------------------------------------------------------------------------
(* The upgrades, in their order. *)

HealedItems(b) ==
  [b EXCEPT !.items = [i \in DOMAIN b.items |->
     LET it == b.items[i]
         title == IF it.title = "legacy" /\ it.parent \in DOMAIN b.items THEN "plan" ELSE it.title
     IN [it EXCEPT !.title = title,
                   !.state = IF title \in {"legacy", "plan"} /\ @ = "shaping"
                             THEN "backlog" ELSE @]]]

Inlined(b) ==
  [b EXCEPT !.specs = [s \in DOMAIN b.specs |->
     [b.specs[s] EXCEPT !.inline = IF @ \in DOMAIN Host THEN Host[@] ELSE @]]]

Pending(b) == {s \in DOMAIN b.specs : b.specs[s].policy = NoPolicy /\ b.specs[s].inline # NoText}
FreeId(b, s) ==
  LET free == {k \in DOMAIN IdsFor[s] : IdsFor[s][k] \notin DOMAIN b.policies}
  IN IdsFor[s][CHOOSE k \in free : \A m \in free : k <= m]
Cataloged(b) ==
  [b EXCEPT !.policies = Over([p \in {FreeId(b, s) : s \in Pending(b)} |->
                                 b.specs[CHOOSE s \in Pending(b) : FreeId(b, s) = p].inline], @),
            !.specs = [s \in DOMAIN b.specs |->
                         IF s \notin Pending(b) THEN @[s]
                         ELSE [b.specs[s] EXCEPT !.policy = FreeId(b, s), !.inline = NoText]]]

WithMinimal(b) == [b EXCEPT !.policies = Over(@, [p \in {Minimal} |-> ShippedText])]

WithShipped(b) ==
  [b EXCEPT !.policies = Over(@, [p \in Range(ShippedBoxes) |-> ShippedText]),
            !.specs = Over(@, [s \in DOMAIN ShippedBoxes |->
                                 [policy |-> ShippedBoxes[s], inline |-> NoText, wants |-> {}]])]

(* github -> github-app: the row, unless the new one is there, and what specs attach. *)
OldRow(b) == Legacy \in DOMAIN b.provs /\ b.provs[Legacy].type # "generic"
RenamedRows(p, old) ==
  LET rows == IF old THEN Entered(Less(p, {Legacy}), App,
                              IF App \in DOMAIN p THEN p[App] ELSE p[Legacy])
              ELSE p
  IN [n \in DOMAIN rows |-> IF n = App /\ (rows[n].type = "github" \/ (old /\ App \notin DOMAIN p))
                            THEN [rows[n] EXCEPT !.type = "github-app"] ELSE rows[n]]
NewName(n) == IF n = Legacy THEN App ELSE n
RenamedRowFirst(b) ==                                                       \* mutant
  [b EXCEPT !.provs = RenamedRows(@, OldRow(b)),
            !.specs = IF OldRow(b) THEN @
                      ELSE [s \in DOMAIN @ |-> [b.specs[s] EXCEPT !.wants = {NewName(n) : n \in @}]]]
Renamed(b) ==
  [b EXCEPT !.provs = RenamedRows(@, OldRow(b)),
            !.specs = [s \in DOMAIN @ |-> [b.specs[s] EXCEPT !.wants = {NewName(n) : n \in @}]]]

(* The App that older versions kept beside the providers moves into its row.   *)
UnsealedNew(b) ==                                                           \* mutant
  IF App \in DOMAIN b.provs THEN [b EXCEPT !.app = {}]
  ELSE [b EXCEPT !.provs = Entered(@, App, [type |-> "github-app", creds |-> b.app]), !.app = {}]
Unsealed(b) ==
  IF b.app = {} THEN b
  ELSE [b EXCEPT !.provs = Entered(@, App, [type |-> "github-app",
                                        creds |-> b.app \cup (IF App \in DOMAIN @ THEN @[App].creds
                                                              ELSE {})]),
                 !.app = {}]

Pruned(b) == [b EXCEPT !.specs = [s \in DOMAIN @ |->
                                    [b.specs[s] EXCEPT !.wants = @ \cap DOMAIN b.provs]]]

Seeded(seed, b) == [b EXCEPT !.seeds = @ \cup {seed}]

NextStage == [load |-> "minimal", minimal |-> "shipped", shipped |-> "rename", rename |-> "unseal",
              unseal |-> "prune", prune |-> "forge", forge |-> "runtime", runtime |-> "types",
              types |-> "up"]
Stages == DOMAIN NextStage
Upgraded(stage, b) ==
  CASE stage = "load"    -> Cataloged(Inlined(HealedItems(b)))
    [] stage = "minimal" -> WithMinimal(b)
    [] stage = "shipped" -> WithShipped(b)
    [] stage = "rename"  -> Renamed(b)
    [] stage = "unseal"  -> Unsealed(b)
    [] stage = "prune"   -> Pruned(b)
    [] OTHER             -> Seeded(stage, b)

-------------------------------------------------------------------------------
(* The process. *)

Began(t) == IF ImportDue(t) THEN [from |-> "file", board |-> file]
            ELSE [from |-> "tables", board |-> t.board]

StartInit(pasts) ==
  /\ \E past \in pasts : file = past.file /\ tables = past.tables
  /\ board = Empty /\ pc = "down" /\ touched = 0 /\ deaths = 0
  /\ was = Began(tables)

(* import_json_if_empty: the rows in one transaction, the stamp in the next.   *)
ImportSaves ==
  /\ pc = "down" /\ ImportDue(tables) /\ Storable(file)
  /\ tables' = [tables EXCEPT !.board = Saved(file)] /\ pc' = "imported"
  /\ UNCHANGED <<board, was, touched, deaths, file>>
Stamps ==
  /\ pc = "imported"
  /\ tables' = [tables EXCEPT !.stamped = TRUE] /\ pc' = "stamped"
  /\ UNCHANGED <<board, was, touched, deaths, file>>

Loads ==
  /\ pc = "stamped" \/ (pc = "down" /\ ~ImportDue(tables))
  /\ board' = Loaded(tables) /\ pc' = "load"
  /\ UNCHANGED <<tables, was, touched, deaths, file>>

(* One upgrade, and a flush if it changed the Board.                           *)
Upgrades ==
  /\ pc \in Stages
  /\ board' = Upgraded(pc, board)
  /\ tables' = IF board' # board THEN [tables EXCEPT !.board = Saved(board')] ELSE tables
  /\ pc' = NextStage[pc]
  /\ UNCHANGED <<was, touched, deaths, file>>

(* The process ends; a running Board has flushed, or loses what it had not.    *)
Dies(flushed) ==
  /\ pc # "down" /\ deaths < MaxDeaths /\ deaths' = deaths + 1
  /\ flushed => pc = "up" /\ Storable(board)
  /\ tables' = IF flushed THEN [tables EXCEPT !.board = Saved(board)] ELSE tables
  /\ was' = IF pc = "up" THEN Began(tables') ELSE was
  /\ board' = Empty /\ pc' = "down" /\ touched' = 0
  /\ UNCHANGED file

-------------------------------------------------------------------------------
(* What a running Board is asked to do between two starts. *)

Edited(b) ==
  /\ pc = "up" /\ touched < MaxEdits /\ deaths < MaxDeaths /\ b # board
  /\ board' = b /\ touched' = touched + 1
  /\ UNCHANGED <<tables, pc, was, deaths, file>>

CardsBelow(i) == {j \in DOMAIN board.items : board.items[j].parent = i}
NewCard(i, p) ==
  /\ i \notin DOMAIN board.items /\ p \in DOMAIN board.items
  /\ Edited([board EXCEPT !.items = Entered(@, i, [parent |-> p, title |-> "task",
                                               state |-> "backlog", needs |-> CardsBelow(p),
                                               pr |-> "none"])])

(* The Project with all its cards; its stories stay, and edges to them go.     *)
DeleteProject(i) ==
  /\ i \in DOMAIN board.items /\ board.items[i].parent = NoCard
  /\ LET gone == {i} \cup CardsBelow(i) IN
       Edited([board EXCEPT !.items = [j \in DOMAIN @ \ gone |->
                                         [board.items[j] EXCEPT !.needs = @ \ gone]]])

StoreProvider(n, t) ==
  Edited([board EXCEPT !.provs = Entered(@, n, [type |-> t, creds |-> {"key"}])])
DropProvider(n) == Edited([board EXCEPT !.provs = Less(@, {n})])
AttachProvider(s, n) ==
  /\ s \in DOMAIN board.specs /\ n \in DOMAIN board.provs
  /\ Edited([board EXCEPT !.specs[s].wants = @ \cup {n}])
DeleteBox(s) == Edited([board EXCEPT !.specs = Less(@, {s})])

StartNext ==
  \/ ImportSaves \/ Stamps \/ Loads \/ Upgrades \/ Dies(FALSE) \/ Dies(TRUE)
  \/ \E i, p \in Cards : NewCard(i, p)
  \/ \E i \in Cards : DeleteProject(i)
  \/ \E n \in ProviderKeys, t \in Kinds : StoreProvider(n, t)
  \/ \E n \in ProviderKeys : DropProvider(n)
  \/ \E s \in Boxes, n \in ProviderKeys : AttachProvider(s, n)
  \/ \E s \in Boxes : DeleteBox(s)

StartSpec == StartInit(Pasts) /\ [][StartNext]_startVars

-------------------------------------------------------------------------------
StartTypeOK ==
  /\ tables \in [board: {tables.board}, stamped: BOOLEAN]
  /\ was \in [from: {"file", "tables"}, board: {was.board}]
  /\ IsBoard(tables.board) /\ IsBoard(board) /\ IsBoard(was.board)
  /\ pc \in {"down", "imported", "stamped", "up"} \cup Stages
  /\ touched \in 0..MaxEdits /\ deaths \in 0..MaxDeaths

(* What a start that nothing interrupts makes of what it finds. *)
Whole(b) ==
  Seeded("types", Seeded("runtime", Seeded("forge",
    Pruned(Unsealed(Renamed(WithShipped(WithMinimal(Cataloged(Inlined(HealedItems(b)))))))))))
BeganWith == IF was.from = "file" THEN Saved(was.board) ELSE was.board
Arrives == Whole(Loaded([board |-> BeganWith]))

(* A start interrupted anywhere, any number of times, and repeated ends with   *)
(* the Board of a start that was not: no upgrade leaves a half another start    *)
(* takes for done (store.rs load_with_store, db/sqlite.rs import_json_if_empty).*)
BootConverges == pc = "up" /\ touched = 0 => board = Arrives

(* No start loses what an operator had: cards, blockers, stories, the text of   *)
(* every policy a spec ran under, the App's credentials, and each attach of a   *)
(* provider that is there.  Left out, and told in the README: a link in an      *)
(* imported file's legacy field, a provider that bears the App's old name       *)
(* beside the App or with another type, and a policy whose host file is gone.   *)
TextOf(b, s) ==
  IF b.specs[s].policy # NoPolicy THEN b.policies[b.specs[s].policy]
  ELSE IF b.specs[s].inline \in DOMAIN Host THEN Host[b.specs[s].inline] ELSE b.specs[s].inline
KeepsCards(a, b) ==
  /\ DOMAIN b.items = DOMAIN a.items /\ b.lines = a.lines \cap DOMAIN a.items
  /\ \A i \in DOMAIN a.items :
       /\ b.items[i].parent = a.items[i].parent /\ b.items[i].needs = a.items[i].needs
       /\ b.items[i].state = a.items[i].state \/ a.items[i].title \in {"legacy", "plan"}
       /\ was.from = "tables" => (a.items[i].pr # "none") = (b.items[i].pr = "listed")
KeepsSettings(a, b) ==
  /\ \A p \in DOMAIN a.policies : b.policies[p] = a.policies[p]
  /\ \A s \in DOMAIN a.specs : TextOf(a, s) # NoText => TextOf(b, s) = TextOf(a, s)
  /\ \A n \in DOMAIN a.provs \ {Legacy} : a.provs[n].creds \subseteq b.provs[n].creds
  /\ OldRow(a) /\ App \notin DOMAIN a.provs =>
       a.provs[Legacy].creds \subseteq b.provs[App].creds
  /\ a.app # {} => a.app \subseteq b.provs[App].creds
  /\ \A s \in DOMAIN a.specs, n \in DOMAIN a.provs :
       n \in a.specs[s].wants /\ (n = Legacy => OldRow(a)) => NewName(n) \in b.specs[s].wants
UpgradeKeeps == pc = "up" /\ touched = 0 => KeepsCards(was.board, board) /\ KeepsSettings(was.board, board)
================================================================================
