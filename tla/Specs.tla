-------------------------------- MODULE Specs --------------------------------
(***************************************************************************)
(* The catalog that decides what a sandbox is made of (src/store.rs):      *)
(* policies, MCP servers and the sandbox specs that name both, the global  *)
(* default, the cockpit's preference, the overrides of Projects, and how a *)
(* run resolves them while Settings goes on changing them.                 *)
(*                                                                         *)
(* The catalog is kept whole by refusals: no verb looks at more than one   *)
(* lock section, and each refuses what would leave a name dangling.  Texts *)
(* are left out, and of a server all but who may have it; the transports'  *)
(* rules (CockpitBearer only on a cockpit-only `sandboard`) follow from    *)
(* that.  What is not yet saved when the process dies is BoardSync's.      *)
(***************************************************************************)
EXTENDS Naturals, FiniteSets, Functions

CONSTANTS
  PolicyIds, ShippedPolicies,    \* ids there may be; those start-up seeds, `minimal` among them
  ServerIds, Sandboard,          \* MCP servers; the shipped one
  SpecIds, ShippedSpecs,         \* sandbox specs; [the shipped ones -> their policy]
  Projects,                      \* Projects that may have an override
  NoSpec,                        \* an unset preference
  Verbs,                         \* request handlers that take several sections
  SpecMixes                      \* what happens: each behaviour is one of these

(* edits: the kinds of request; hands: who makes them; restarts: the bound on them *)
SpecMix == [edits: SUBSET {"policy", "server", "spec", "prefs", "run"}, hands: SUBSET Verbs,
            restarts: Nat]

(* What is shipped is of the kinds there are, and names what is shipped. *)
ASSUME SpecsAssumption ==
  /\ ShippedPolicies \subseteq PolicyIds /\ Sandboard \in ServerIds
  /\ DOMAIN ShippedSpecs \subseteq SpecIds
  /\ \A x \in DOMAIN ShippedSpecs : ShippedSpecs[x] \in ShippedPolicies
  /\ NoSpec \notin SpecIds /\ SpecMixes \subseteq SpecMix

VARIABLES
  policies,   \* openshell_policies: the ids there are
  servers,    \* mcp_servers: id -> [shipped, audience]
  specs,      \* sandbox_profiles: id -> [policy, mcps, shipped]
  default,    \* default_sandbox_profile_id
  cockpit,    \* cockpit_sandbox_profile_id
  override,   \* [Projects -> sandbox_profile_id]
  verb,       \* [Verbs -> a handler between two sections]
  run,        \* a run that makes a worker's sandbox
  restarted, xmix

specVars == <<policies, servers, specs, default, cockpit, override, verb, run, restarted, xmix>>
catalog == <<policies, servers, specs, default, cockpit, override>>

Audiences == {"cockpit", "worker", "both"}
ServerRows == [shipped: BOOLEAN, audience: Audiences]
SpecRows == [policy: PolicyIds, mcps: SUBSET ServerIds, shipped: BOOLEAN]
Pref == SpecIds \cup {NoSpec}
VerbPc == {"idle", "save", "inherits", "attach"}
VerbRows == [pc: VerbPc, id: ServerIds, row: ServerRows]
NoVerb == [pc |-> "idle", id |-> Sandboard, row |-> [shipped |-> TRUE, audience |-> "cockpit"]]
RunPc == {"off", "resolve", "create", "look", "again", "inject", "place", "on"}
RunRows == [pc: RunPc, of: Projects, spec: Pref, mcps: SUBSET ServerIds]
NoRun(p) == [pc |-> "off", of |-> p, spec |-> NoSpec, mcps |-> {}]

Put(f, x, v) == [y \in DOMAIN f \cup {x} |-> IF y = x THEN v ELSE f[y]]
Without(f, x) == Restrict(f, DOMAIN f \ {x})

-------------------------------------------------------------------------------
(* Start-up: what is shipped and missing is put back, edited rows stay as they  *)
(* are, and the cockpit's spec gets `sandboard`.                                *)

ShippedServer == [shipped |-> TRUE, audience |-> "cockpit"]
WithServers(m) == IF Sandboard \in DOMAIN m THEN m ELSE Put(m, Sandboard, ShippedServer)
ShippedSpec(x) == [policy |-> ShippedSpecs[x], mcps |-> {Sandboard}, shipped |-> TRUE]
WithSpecs(s) ==
  [x \in DOMAIN s \cup DOMAIN ShippedSpecs |-> IF x \in DOMAIN s THEN s[x] ELSE ShippedSpec(x)]

Target(c, d) == IF c # NoSpec THEN c ELSE d
Attached(s, c, d) ==
  LET t == Target(c, d) IN
    IF t \notin DOMAIN s THEN s ELSE [s EXCEPT ![t].mcps = @ \cup {Sandboard}]

SpecInit(mixes) ==
  /\ policies = ShippedPolicies
  /\ servers = [m \in {Sandboard} |-> ShippedServer]
  /\ specs = [x \in DOMAIN ShippedSpecs |-> ShippedSpec(x)]
  /\ default = NoSpec /\ cockpit = NoSpec /\ override = [p \in Projects |-> NoSpec]
  /\ verb = [v \in Verbs |-> NoVerb]
  /\ \E p \in Projects : run = NoRun(p)
  /\ restarted = 0 /\ xmix \in mixes

SpecRestart ==
  /\ restarted < xmix.restarts /\ restarted' = restarted + 1
  /\ policies' = policies \cup ShippedPolicies
  /\ servers' = WithServers(servers)
  /\ specs' = Attached(WithSpecs(specs), cockpit, default)
  /\ verb' = [v \in Verbs |-> NoVerb] /\ run' = NoRun(run.of)
  /\ UNCHANGED <<default, cockpit, override, xmix>>

-------------------------------------------------------------------------------
(* Policies and MCP servers. *)

SavePolicy(p) ==
  /\ "policy" \in xmix.edits /\ p \notin policies
  /\ policies' = policies \cup {p}
  /\ UNCHANGED <<servers, specs, default, cockpit, override, verb, run, restarted, xmix>>

UsedPolicies == {specs[s].policy : s \in DOMAIN specs}
DeletePolicy(p) ==
  /\ "policy" \in xmix.edits /\ p \in policies
  /\ p \notin UsedPolicies
  /\ policies' = policies \ {p}
  /\ UNCHANGED <<servers, specs, default, cockpit, override, verb, run, restarted, xmix>>

(* A handler of several sections may begin. *)
Vacant(v) == verb[v].pc = "idle" /\ v \in xmix.hands

(* The API reads whether the row is a shipped one before it writes it. *)
ServerLooks(v, m, a) ==
  /\ "server" \in xmix.edits /\ Vacant(v)
  /\ verb' = [verb EXCEPT ![v] =
       [pc |-> "save", id |-> m,
        row |-> [shipped |-> m \in DOMAIN servers /\ servers[m].shipped, audience |-> a]]]
  /\ UNCHANGED <<catalog, run, restarted, xmix>>

SaveServer(v) ==
  /\ verb[v].pc = "save"
  /\ servers' = Put(servers, verb[v].id, verb[v].row)
  /\ verb' = [verb EXCEPT ![v] = NoVerb]
  /\ UNCHANGED <<policies, specs, default, cockpit, override, run, restarted, xmix>>

AttachedServers == UNION {specs[s].mcps : s \in DOMAIN specs}
DeletableAttached(m) == m \in DOMAIN servers /\ ~servers[m].shipped          \* mutant
Deletable(m) == m \in DOMAIN servers /\ ~servers[m].shipped /\ m \notin AttachedServers
DeleteServer(m) ==
  /\ "server" \in xmix.edits /\ Deletable(m)
  /\ servers' = Without(servers, m)
  /\ UNCHANGED <<policies, specs, default, cockpit, override, verb, run, restarted, xmix>>

-------------------------------------------------------------------------------
(* Sandbox specs, and who uses which. *)

(* The first spec of all becomes the default; the cockpit's keeps `sandboard`. *)
First == DOMAIN specs = {} /\ default = NoSpec
KeepsPreferred(s) == cockpit = s \/ First                                    \* mutant
KeepsSandboard(s) == Target(cockpit, default) = s \/ First
SaveSpec(s, p, ms) ==
  /\ "spec" \in xmix.edits
  /\ p \in policies /\ ms \subseteq DOMAIN servers
  /\ specs' = Put(specs, s, [policy |-> p, shipped |-> FALSE,
                             mcps |-> IF KeepsSandboard(s) /\ Sandboard \in DOMAIN servers
                                      THEN ms \cup {Sandboard} ELSE ms])
  /\ default' = IF First THEN s ELSE default
  /\ UNCHANGED <<policies, servers, cockpit, override, verb, run, restarted, xmix>>

(* Refused while a Project has it; the two preferences are cleared. *)
Assigned == {override[p] : p \in Projects}
Cleared(pref, s) == IF pref = s THEN NoSpec ELSE pref
DeleteSpec(s) ==
  /\ "spec" \in xmix.edits /\ s \in DOMAIN specs \ Assigned
  /\ default' = Cleared(default, s) /\ cockpit' = Cleared(cockpit, s)
  /\ specs' = Without(specs, s)
  /\ UNCHANGED <<policies, servers, override, verb, run, restarted, xmix>>

VerbGoes(v, pc) == verb' = [verb EXCEPT ![v] = [NoVerb EXCEPT !.pc = pc]]

SetDefault(v, s) ==
  /\ "prefs" \in xmix.edits /\ Vacant(v) /\ s \in DOMAIN specs
  /\ default' = s /\ VerbGoes(v, "inherits")
  /\ UNCHANGED <<policies, servers, specs, cockpit, override, run, restarted, xmix>>

(* The cockpit uses the default only while it has no preference of its own. *)
Inherits(v) ==
  /\ verb[v].pc = "inherits"
  /\ VerbGoes(v, IF cockpit = NoSpec THEN "attach" ELSE "idle")
  /\ UNCHANGED <<catalog, run, restarted, xmix>>

SetCockpit(v, s) ==
  /\ "prefs" \in xmix.edits /\ Vacant(v) /\ s \in DOMAIN specs
  /\ cockpit' = s /\ VerbGoes(v, "attach")
  /\ UNCHANGED <<policies, servers, specs, default, override, run, restarted, xmix>>

ClearCockpit(v) ==
  /\ "prefs" \in xmix.edits /\ Vacant(v) /\ cockpit # NoSpec
  /\ cockpit' = NoSpec /\ VerbGoes(v, "attach")
  /\ UNCHANGED <<policies, servers, specs, default, override, run, restarted, xmix>>

(* ensure_cockpit_sandboard_mcp_attach: on whatever is the cockpit's by now. *)
AttachSandboard(v) ==
  /\ verb[v].pc = "attach"
  /\ specs' = Attached(specs, cockpit, default) /\ VerbGoes(v, "idle")
  /\ UNCHANGED <<policies, servers, default, cockpit, override, run, restarted, xmix>>

SetOverride(p, s) ==
  /\ "prefs" \in xmix.edits /\ s \in DOMAIN specs \cup {NoSpec}
  /\ override' = [override EXCEPT ![p] = s]
  /\ UNCHANGED <<policies, servers, specs, default, cockpit, verb, run, restarted, xmix>>

-------------------------------------------------------------------------------
(* A run makes a sandbox for a card of a Project.  It resolves twice, once for   *)
(* what the sandbox is created from and once for the servers put into it, and    *)
(* each time it reads the Project's override before it looks the spec up.        *)

ForWorker(m) == servers[m].audience \in {"worker", "both"}
Resolved(o) ==
  LET s == IF o \in DOMAIN specs THEN o ELSE default IN
    IF s \notin DOMAIN specs THEN {}
    ELSE {m \in specs[s].mcps \cap DOMAIN servers : ForWorker(m)}

Steps(pc) == run' = [run EXCEPT !.pc = pc]
RunLooks ==
  /\ "run" \in xmix.edits /\ run.pc \in {"off", "look"}
  /\ run' = [run EXCEPT !.spec = override[run.of],
                        !.pc = IF @ = "off" THEN "resolve" ELSE "again"]
  /\ UNCHANGED <<catalog, verb, restarted, xmix>>

(* The policy of the sandbox is made of the spec's and of these servers'. *)
RunResolves ==
  /\ run.pc = "resolve"
  /\ run' = [run EXCEPT !.mcps = Resolved(run.spec), !.pc = "create"]
  /\ UNCHANGED <<catalog, verb, restarted, xmix>>

RunMakesBox ==
  /\ run.pc = "create"
  /\ run' \in {[run EXCEPT !.pc = "look"], NoRun(run.of)}      \* or the gateway fails it
  /\ UNCHANGED <<catalog, verb, restarted, xmix>>

RunResolvesAgain ==
  /\ run.pc = "again"
  /\ run' = [run EXCEPT !.mcps = Resolved(run.spec), !.pc = "inject"]
  /\ UNCHANGED <<catalog, verb, restarted, xmix>>

(* attach_mcp_servers_for_resolved reads the rows once more, and judges them again. *)
RunReads ==
  /\ run.pc = "inject"
  /\ run' = [run EXCEPT !.mcps = {m \in @ \cap DOMAIN servers : ForWorker(m)}, !.pc = "place"]
  /\ UNCHANGED <<catalog, verb, restarted, xmix>>

(* What it read is uploaded file by file and put in its place, whatever is edited   *)
(* meanwhile; the run goes on without what did not get there, unless it is halted.  *)
RunPlaces ==
  /\ run.pc = "place"
  /\ run' \in {[run EXCEPT !.pc = "on"], [run EXCEPT !.pc = "on", !.mcps = {}], NoRun(run.of)}
  /\ UNCHANGED <<catalog, verb, restarted, xmix>>

RunEnds ==
  /\ run.pc = "on" /\ run' = NoRun(run.of)
  /\ UNCHANGED <<catalog, verb, restarted, xmix>>

SpecNext ==
  \/ SpecRestart
  \/ \E p \in PolicyIds : SavePolicy(p) \/ DeletePolicy(p)
  \/ \E v \in Verbs, m \in ServerIds, a \in Audiences : ServerLooks(v, m, a)
  \/ \E v \in Verbs : SaveServer(v) \/ Inherits(v) \/ ClearCockpit(v) \/ AttachSandboard(v)
  \/ \E m \in ServerIds : DeleteServer(m)
  \/ \E s \in SpecIds, p \in PolicyIds, ms \in SUBSET ServerIds : SaveSpec(s, p, ms)
  \/ \E s \in SpecIds : DeleteSpec(s)
  \/ \E v \in Verbs, s \in SpecIds : SetDefault(v, s) \/ SetCockpit(v, s)
  \/ \E p \in Projects, s \in Pref : SetOverride(p, s)
  \/ RunLooks \/ RunResolves \/ RunMakesBox \/ RunResolvesAgain
  \/ RunReads \/ RunPlaces \/ RunEnds

SpecsSpec == SpecInit(SpecMixes) /\ [][SpecNext]_specVars

-------------------------------------------------------------------------------
SpecTypeOK ==
  /\ policies \subseteq PolicyIds
  /\ DOMAIN servers \subseteq ServerIds /\ Range(servers) \subseteq ServerRows
  /\ DOMAIN specs \subseteq SpecIds /\ Range(specs) \subseteq SpecRows
  /\ default \in Pref /\ cockpit \in Pref /\ override \in [Projects -> Pref]
  /\ verb \in [Verbs -> VerbRows] /\ run \in RunRows /\ xmix \in SpecMix

(* Whatever is edited beside whatever else, and through restarts that put the shipped  *)
(* rows back: a spec names a policy and servers that exist, the default, the cockpit's *)
(* preference and every override name a spec that exists, and `sandboard` is there.    *)
NamesStand ==
  /\ UsedPolicies \subseteq policies
  /\ AttachedServers \subseteq DOMAIN servers
  /\ {default, cockpit} \cup Assigned \subseteq DOMAIN specs \cup {NoSpec}
  /\ Sandboard \in DOMAIN servers /\ servers[Sandboard].shipped

(* The cockpit's spec has `sandboard`: the one it prefers, or the default while it has *)
(* no preference; or a request that moved either is yet to attach it.                  *)
CockpitServed ==
  \/ \E v \in Verbs : verb[v].pc \in {"inherits", "attach"}
  \/ Target(cockpit, default) \notin DOMAIN specs
  \/ Sandboard \in specs[Target(cockpit, default)].mcps

(* A preference is moved in one lock section and `sandboard` attached in another, to   *)
(* whatever is the cockpit's by then.  However such requests, saves of specs without   *)
(* it, deletes and restarts interleave, the cockpit's spec does not lose it, but by    *)
(* delete_sandbox_profile of the one it preferred: the default it falls back to may    *)
(* have none, and nothing attaches it before the next preference or start.             *)
CockpitKeepsSandboard ==
  [][CockpitServed => CockpitServed' \/ cockpit \in DOMAIN specs \ DOMAIN specs']_specVars
===============================================================================
