------------------------------ MODULE Providers ------------------------------
(***************************************************************************)
(* Credential providers and their types (src/store.rs, src/api.rs,         *)
(* src/provider_types.rs, src/openshell.rs): the Board holds what should   *)
(* be, the gateway what is, and every handler writes the first and then,   *)
(* over calls that may fail, the second.  A run brings the providers its   *)
(* sandbox will attach up to date before it asks for the sandbox.          *)
(*                                                                         *)
(* A provider's credentials are one version, a new one for each save; that *)
(* a blank field keeps the earlier value is left out.  github-app, whose   *)
(* token is minted, is GithubTokens'.                                      *)
(***************************************************************************)
EXTENDS Naturals, FiniteSets, Functions

CONSTANTS
  ProviderNames,             \* of provider instances
  Types,             \* provider types
  ShippedTypes,      \* those the Board seeds; the rest are OpenShell's own
  Handlers,          \* requests that save, rename, delete or synchronise
  Runs,              \* runs that set a sandbox up
  MaxVersion,        \* bound: saves
  ProviderMixes      \* what happens: each behaviour is one of these

(* verbs: the requests; fails, restarts: bounds; alone: no two requests or runs overlap *)
ProviderMix == [verbs: SUBSET {"save", "rename", "delete", "sync", "type"}, wanted: SUBSET ProviderNames,
                fails: Nat, restarts: Nat, alone: BOOLEAN]

ASSUME ActorsAssumption == Handlers \cap Runs = {}
ASSUME TypesAssumption == ShippedTypes \subseteq Types
ASSUME VersionsAssumption == MaxVersion \in Nat
ASSUME ProviderMixesAssumption == ProviderMixes \subseteq ProviderMix

VARIABLES
  provs,     \* openshell_providers: name -> [type, ver]
  types,     \* openshell_provider_types
  tombs,     \* openshell_provider_type_tombstones
  wanted,    \* provider_names of the sandbox spec
  gate,      \* the gateway's instances: name -> [type, ver]
  gtypes,    \* the gateway's types
  pjob,       \* [Handlers \cup Runs -> a handler or a run between two steps]
  version, failed, rebooted, vmix

providerVars ==
  <<provs, types, tombs, wanted, gate, gtypes, pjob, version, failed, rebooted, vmix>>
desired == <<provs, types, tombs, wanted>>
pcounts == <<version, failed, rebooted, vmix>>

Appliers == Handlers \cup Runs
ProviderRows == [type: Types, ver: 1 .. MaxVersion]
ApplyPc == {"idle", "forget", "upsert", "types", "read", "looks", "makes", "updates", "unmakes", "create"}
NoApply == [pc |-> "idle", name |-> "", row |-> <<>>, todo |-> <<>>, seen |-> <<>>]

Just(x, v) == [y \in {x} |-> v]
Stored(f, x, v) == [y \in DOMAIN f \cup {x} |-> IF y = x THEN v ELSE f[y]]
Dropped(f, x) == Restrict(f, DOMAIN f \ {x})
Rests(a) == pjob[a].pc = "idle"
MayStart(a) == Rests(a) /\ (vmix.alone => \A b \in Appliers : Rests(b))

ProviderInit(mixes) ==
  /\ provs = << >> /\ types = ShippedTypes /\ tombs = {}
  /\ gate = << >> /\ gtypes = Types \ ShippedTypes
  /\ pjob = [a \in Appliers |-> NoApply]
  /\ version = 0 /\ failed = 0 /\ rebooted = 0 /\ vmix \in mixes /\ wanted = vmix.wanted

ApplyGoes(a, pc) == pjob' = [pjob EXCEPT ![a].pc = pc]
ApplyEnds(a) == pjob' = [pjob EXCEPT ![a] = NoApply]

(* A call of the gateway comes back with an error, having done nothing. *)
CallFails == failed < vmix.fails /\ failed' = failed + 1
CallWorks == UNCHANGED failed

-------------------------------------------------------------------------------
(* The requests, up to where the gateway comes in. *)

Fresh(a, n, ty) ==
  /\ version < MaxVersion /\ version' = version + 1
  /\ provs' = Stored(provs, n, [type |-> ty, ver |-> version + 1])
  /\ pjob' = [pjob EXCEPT ![a] =
       [NoApply EXCEPT !.pc = "types", !.todo = Just(n, [type |-> ty, ver |-> version + 1])]]

(* create_openshell_provider, and update_openshell_provider of the same name *)
SaveProvider(h, n, ty) ==
  /\ "save" \in vmix.verbs /\ MayStart(h) /\ Fresh(h, n, ty)
  /\ UNCHANGED <<types, tombs, wanted, gate, gtypes, failed, rebooted, vmix>>

(* update_openshell_provider to another name: the old one goes first *)
Rename(h, n, m) ==
  /\ "rename" \in vmix.verbs /\ MayStart(h) /\ n \in DOMAIN provs /\ n # m
  /\ version < MaxVersion
  /\ pjob' = [pjob EXCEPT ![h] = [NoApply EXCEPT !.pc = "forget", !.name = n,
                                             !.todo = Just(m, provs[n])]]
  /\ provs' = Dropped(provs, n)
  /\ UNCHANGED <<types, tombs, wanted, gate, gtypes, pcounts>>

Upsert(h) ==
  /\ pjob[h].pc = "upsert"
  /\ \E m \in DOMAIN pjob[h].todo : Fresh(h, m, pjob[h].todo[m].type)
  /\ UNCHANGED <<types, tombs, wanted, gate, gtypes, failed, rebooted, vmix>>

DeleteProvider(h, n) ==
  /\ "delete" \in vmix.verbs /\ MayStart(h) /\ n \in DOMAIN provs
  /\ provs' = Dropped(provs, n)
  /\ pjob' = [pjob EXCEPT ![h] = [NoApply EXCEPT !.pc = "forget", !.name = n]]
  /\ UNCHANGED <<types, tombs, wanted, gate, gtypes, pcounts>>

(* The gateway's instance of a deleted or renamed provider: the outcome is not looked at. *)
Forget(h) ==
  /\ pjob[h].pc = "forget"
  /\ \/ CallWorks /\ gate' = Dropped(gate, pjob[h].name)
     \/ CallFails /\ UNCHANGED gate
  /\ IF pjob[h].todo = << >> THEN ApplyEnds(h) ELSE ApplyGoes(h, "upsert")
  /\ UNCHANGED <<desired, gtypes, version, rebooted, vmix>>

Sync(h) ==
  /\ "sync" \in vmix.verbs /\ MayStart(h) /\ ApplyGoes(h, "types")
  /\ UNCHANGED <<desired, gate, gtypes, pcounts>>

(* Types live on the Board; only imports reach the gateway, and nothing leaves it. *)
SaveType(t) ==
  /\ "type" \in vmix.verbs /\ t \notin types
  /\ types' = types \cup {t} /\ tombs' = tombs \ {t}
  /\ UNCHANGED <<provs, wanted, gate, gtypes, pjob, pcounts>>

DeleteType(t) ==
  /\ "type" \in vmix.verbs /\ t \in types
  /\ types' = types \ {t} /\ tombs' = tombs \cup {t}
  /\ UNCHANGED <<provs, wanted, gate, gtypes, pjob, pcounts>>

-------------------------------------------------------------------------------
(* A run: the spec's names that the Board knows, their types, then each of them.  *)

Attach == wanted \cap DOMAIN provs
RunAttaches(r) ==
  /\ MayStart(r)
  /\ pjob' = [pjob EXCEPT ![r] = [NoApply EXCEPT
       !.pc = IF Attach = {} THEN "create" ELSE "types",
       !.seen = [n \in Attach |-> provs[n]]]]
  /\ UNCHANGED <<desired, gate, gtypes, pcounts>>

(* What import_board_types or import_attached_provider_types sends to the gateway. *)
Imported(a) ==
  IF a \in Handlers THEN types
  ELSE {provs[n].type : n \in DOMAIN pjob[a].seen \cap DOMAIN provs} \cap types
Missing(a) == a \in Runs /\ ~(DOMAIN pjob[a].seen \subseteq DOMAIN provs)

(* After a failed import a save does not touch its instance, a synchronisation goes *)
(* on all the same, and a run is over.                                              *)
ImportTypes(a) ==
  /\ pjob[a].pc = "types"
  /\ \/ /\ ~Missing(a) /\ CallWorks /\ gtypes' = gtypes \cup Imported(a)
        /\ ApplyGoes(a, IF pjob[a].todo = << >> THEN "read" ELSE "looks")
     \/ /\ CallFails /\ UNCHANGED gtypes
        /\ IF a \in Handlers /\ pjob[a].todo = << >> THEN ApplyGoes(a, "read") ELSE ApplyEnds(a)
     \/ Missing(a) /\ CallWorks /\ ApplyEnds(a) /\ UNCHANGED gtypes
  /\ UNCHANGED <<desired, gate, version, rebooted, vmix>>

(* The desired rows are copied here, and applied as copied. *)
ReadDesired(a) ==
  /\ pjob[a].pc = "read"
  /\ LET todo == IF a \in Handlers THEN provs
                 ELSE Restrict(provs, DOMAIN pjob[a].seen \cap DOMAIN provs)
     IN IF Missing(a) \/ todo = << >> THEN ApplyEnds(a)
        ELSE pjob' = [pjob EXCEPT ![a].pc = "looks", ![a].todo = todo]
  /\ UNCHANGED <<desired, gate, gtypes, pcounts>>

(* apply_provider lists the instances: update, create, or another type: delete and create. *)
Decided(n, row) ==
  IF n \notin DOMAIN gate THEN "makes"
  ELSE IF gate[n].type = row.type THEN "updates" ELSE "unmakes"
Looks(a, n) ==
  /\ pjob[a].pc = "looks" /\ n \in DOMAIN pjob[a].todo
  /\ \/ CallWorks /\ pjob' = [pjob EXCEPT ![a].name = n, ![a].pc = Decided(n, pjob[a].todo[n])]
     \/ CallFails /\ pjob' = [pjob EXCEPT ![a].name = n, ![a].pc = "makes"]   \* unwrap_or_default
  /\ UNCHANGED <<desired, gate, gtypes, version, rebooted, vmix>>

(* One instance is done.  An error ends a run, and is noted by a synchronisation. *)
AppliedAnyhow(a, ok) ==                                                      \* mutant
  LET rest == Dropped(pjob[a].todo, pjob[a].name) IN
    IF rest # << >> THEN pjob' = [pjob EXCEPT ![a].pc = "looks", ![a].todo = rest]
    ELSE IF a \in Runs THEN ApplyGoes(a, "create") ELSE ApplyEnds(a)
Applied(a, ok) ==
  LET rest == Dropped(pjob[a].todo, pjob[a].name) IN
    IF ~ok /\ a \in Runs THEN ApplyEnds(a)
    ELSE IF rest # << >> THEN pjob' = [pjob EXCEPT ![a].pc = "looks", ![a].todo = rest]
    ELSE IF a \in Runs THEN ApplyGoes(a, "create") ELSE ApplyEnds(a)

Row(a) == pjob[a].todo[pjob[a].name]
Taken(a) == gate' = Stored(gate, pjob[a].name, Row(a))
Makes(a) ==
  /\ pjob[a].pc = "makes"
  /\ IF pjob[a].name \notin DOMAIN gate /\ Row(a).type \in gtypes
     THEN \/ CallWorks /\ Taken(a) /\ Applied(a, TRUE)
          \/ CallFails /\ UNCHANGED gate /\ Applied(a, FALSE)
     ELSE CallWorks /\ UNCHANGED gate /\ Applied(a, FALSE)
  /\ UNCHANGED <<desired, gtypes, version, rebooted, vmix>>

Updates(a) ==
  /\ pjob[a].pc = "updates"
  /\ IF pjob[a].name \in DOMAIN gate
     THEN \/ CallWorks /\ Taken(a) /\ Applied(a, TRUE)
          \/ CallFails /\ UNCHANGED gate /\ Applied(a, FALSE)
     ELSE CallWorks /\ UNCHANGED gate /\ Applied(a, FALSE)
  /\ UNCHANGED <<desired, gtypes, version, rebooted, vmix>>

Unmakes(a) ==
  /\ pjob[a].pc = "unmakes"
  /\ \/ CallWorks /\ gate' = Dropped(gate, pjob[a].name) /\ ApplyGoes(a, "makes")
     \/ CallFails /\ UNCHANGED gate /\ Applied(a, FALSE)
  /\ UNCHANGED <<desired, gtypes, version, rebooted, vmix>>

(* CreateSandbox, which the gateway refuses for an instance it does not have. *)
Creates(r) == pjob[r].pc = "create" /\ DOMAIN pjob[r].seen \subseteq DOMAIN gate
RunCreates(r) ==
  /\ Creates(r) /\ ApplyEnds(r)
  /\ UNCHANGED <<desired, gate, gtypes, pcounts>>
RunRefused(r) ==
  /\ pjob[r].pc = "create" /\ ~Creates(r) /\ ApplyEnds(r)
  /\ UNCHANGED <<desired, gate, gtypes, pcounts>>

(* Handlers and runs die with the process; start-up drops the names no provider has   *)
(* from the specs and puts back the shipped types that are missing but not tombstoned. *)
ProviderRestart ==
  /\ rebooted < vmix.restarts /\ rebooted' = rebooted + 1
  /\ pjob' = [a \in Appliers |-> NoApply]
  /\ wanted' = Attach /\ types' = types \cup (ShippedTypes \ tombs)
  /\ UNCHANGED <<provs, tombs, gate, gtypes, version, failed, vmix>>

ProviderNext ==
  \/ ProviderRestart
  \/ \E h \in Handlers : \/ Upsert(h) \/ Forget(h) \/ Sync(h)
                         \/ \E n \in ProviderNames : \/ DeleteProvider(h, n)
                                                     \/ \E t \in Types : SaveProvider(h, n, t)
                                                     \/ \E m \in ProviderNames : Rename(h, n, m)
  \/ \E t \in Types : SaveType(t) \/ DeleteType(t)
  \/ \E a \in Appliers : \/ ImportTypes(a) \/ ReadDesired(a) \/ Makes(a) \/ Updates(a) \/ Unmakes(a)
                         \/ \E n \in ProviderNames : Looks(a, n)
  \/ \E r \in Runs : RunAttaches(r) \/ RunCreates(r) \/ RunRefused(r)

ProviderSpec == ProviderInit(ProviderMixes) /\ [][ProviderNext]_providerVars

-------------------------------------------------------------------------------
PartialRows(f) == DOMAIN f \subseteq ProviderNames /\ Range(f) \subseteq ProviderRows
ProviderTypeOK ==
  /\ PartialRows(provs) /\ PartialRows(gate)
  /\ types \subseteq Types /\ tombs \subseteq Types
  /\ wanted \subseteq ProviderNames /\ gtypes \subseteq Types
  /\ \A a \in Appliers :
       /\ pjob[a].pc \in ApplyPc /\ pjob[a].name \in ProviderNames \cup {""}
       /\ PartialRows(pjob[a].todo) /\ PartialRows(pjob[a].seen)
  /\ version \in 0 .. MaxVersion /\ vmix \in ProviderMix

(* The sandbox of a run has no credentials older than the Board's were when the run   *)
(* began: whatever calls failed, handlers died or were under way, the run has applied *)
(* each provider it attaches, or is over. This is for one handler beside one run: of  *)
(* two that apply at once, the older copy may go last (api.rs:1395).                  *)
CreatedIsCurrent ==
  [][\A r \in Runs : RunCreates(r) =>
       \A n \in DOMAIN pjob[r].seen :
         gate[n].ver >= pjob[r].seen[n].ver]_providerVars
===============================================================================
