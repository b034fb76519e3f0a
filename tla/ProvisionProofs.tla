--------------------------- MODULE ProvisionProofs ---------------------------
(***************************************************************************)
(* What a sandbox is provided with.  The catalog stays whole for any       *)
(* number of policies, servers, specs, Projects and handlers, whatever is  *)
(* edited beside whatever else and however often the process starts again. *)
(* The GitHub token a sandbox is created with is alive, whoever mints,     *)
(* pushes and edits meanwhile, for any life of a token and any             *)
(* installations.  The providers it attaches are as new as they were when  *)
(* its run began, for any number of them, whatever a handler saves,        *)
(* renames, deletes and applies beside it.                                 *)
(***************************************************************************)
EXTENDS Specs, Providers, GithubTokens, TLAPS

-------------------------------------------------------------------------------
(* Specs *)

(* Of the types, what the names hang on. *)
CatalogTypes ==
  /\ policies \subseteq PolicyIds
  /\ DOMAIN servers \subseteq ServerIds /\ \A m \in DOMAIN servers : servers[m] \in ServerRows
  /\ DOMAIN specs \subseteq SpecIds /\ \A s \in DOMAIN specs : specs[s] \in SpecRows
  /\ default \in Pref /\ cockpit \in Pref /\ override \in [Projects -> Pref]
  /\ verb \in [Verbs -> VerbRows] /\ run \in RunRows /\ xmix \in SpecMix

(* What a handler that looked at `sandboard` is about to write of it says that  *)
(* it is shipped: else it could be deleted, and the cockpit's attachments with  *)
(* it would dangle.                                                             *)
ShippedStays ==
  \A v \in Verbs : verb[v].pc = "save" /\ verb[v].id = Sandboard => verb[v].row.shipped

SpecPolicies == \A s \in DOMAIN specs : specs[s].policy \in policies
SpecServers == \A s \in DOMAIN specs : specs[s].mcps \subseteq DOMAIN servers
Names(s) == s \in DOMAIN specs \cup {NoSpec}
PrefsStand == Names(default) /\ Names(cockpit) /\ \A p \in Projects : Names(override[p])
SandboardStands == Sandboard \in DOMAIN servers /\ servers[Sandboard].shipped

Valid == SpecPolicies /\ SpecServers /\ PrefsStand /\ SandboardStands /\ ShippedStays
CatalogInv == CatalogTypes /\ Valid

-------------------------------------------------------------------------------
(* The pieces of a step. *)

LEMMA PutIs ==
  ASSUME NEW f, NEW x, NEW v
  PROVE  /\ DOMAIN Put(f, x, v) = DOMAIN f \cup {x}
         /\ \A y \in DOMAIN f \cup {x} : Put(f, x, v)[y] = IF y = x THEN v ELSE f[y]
  BY DEF Put

LEMMA WithoutIs ==
  ASSUME NEW f, NEW x
  PROVE  /\ DOMAIN Without(f, x) = DOMAIN f \ {x}
         /\ \A y \in DOMAIN f \ {x} : Without(f, x)[y] = f[y]
  BY DEF Without, Restrict

(* A start puts back the shipped specs that are missing, and no other changes. *)
LEMMA WithSpecsIs ==
  ASSUME NEW f
  PROVE  /\ DOMAIN WithSpecs(f) = DOMAIN f \cup DOMAIN ShippedSpecs
         /\ \A y \in DOMAIN f : WithSpecs(f)[y] = f[y]
         /\ \A y \in DOMAIN ShippedSpecs \ DOMAIN f :
              WithSpecs(f)[y] = ShippedSpec(y)
  BY DEF WithSpecs

LEMMA AttachedIs ==
  ASSUME NEW f, NEW c, NEW d, \A s \in DOMAIN f : f[s] \in SpecRows
  PROVE  /\ DOMAIN Attached(f, c, d) = DOMAIN f
         /\ \A s \in DOMAIN f :
              /\ Attached(f, c, d)[s] \in SpecRows
              /\ Attached(f, c, d)[s].policy = f[s].policy
              /\ Attached(f, c, d)[s].mcps \subseteq f[s].mcps \cup {Sandboard}
<1> DEFINE t == Target(c, d)
<1>1. CASE t \notin DOMAIN f
  BY <1>1 DEF Attached, SpecRows
<1>2. CASE t \in DOMAIN f
  <2>1. Attached(f, c, d) = [f EXCEPT ![t].mcps = @ \cup {Sandboard}]
    BY <1>2 DEF Attached
  <2>2. [f[t] EXCEPT !.mcps = @ \cup {Sandboard}] \in SpecRows
    BY <1>2, SpecsAssumption DEF SpecRows
  <2>3. DOMAIN Attached(f, c, d) = DOMAIN f
    BY <2>1
  <2>4. Attached(f, c, d)[t] = [f[t] EXCEPT !.mcps = @ \cup {Sandboard}]
    BY <1>2, <2>1
  <2>5. \A s \in DOMAIN f \ {t} : Attached(f, c, d)[s] = f[s]
    BY <2>1
  <2>6. /\ Attached(f, c, d)[t].policy = f[t].policy
        /\ Attached(f, c, d)[t].mcps = f[t].mcps \cup {Sandboard}
    BY <1>2, <2>4 DEF SpecRows
  <2> QED
    BY <1>2, <2>2, <2>3, <2>4, <2>5, <2>6 DEF SpecRows
<1> QED
  BY <1>1, <1>2

LEMMA IdleIs == NoVerb \in VerbRows /\ NoVerb.pc = "idle"
  BY SpecsAssumption DEF NoVerb, VerbRows, VerbPc, ServerRows, Audiences

LEMMA GoesKeeps ==
  ASSUME verb \in [Verbs -> VerbRows], ShippedStays,
         NEW v \in Verbs, NEW pc \in {"idle", "inherits", "attach"}, VerbGoes(v, pc)
  PROVE  verb' \in [Verbs -> VerbRows] /\ ShippedStays'
<1>1. [NoVerb EXCEPT !.pc = pc] \in VerbRows /\ [NoVerb EXCEPT !.pc = pc].pc = pc
  BY IdleIs DEF VerbRows, VerbPc
<1>2. verb' = [verb EXCEPT ![v] = [NoVerb EXCEPT !.pc = pc]]
  BY DEF VerbGoes
<1>3. verb' \in [Verbs -> VerbRows]
  BY <1>1, <1>2
<1>4. \A u \in Verbs : verb'[u] = verb[u] \/ verb'[u].pc # "save"
  BY <1>1, <1>2
<1> QED
  BY <1>3, <1>4 DEF ShippedStays

(* A run reads the catalog and writes none of it. *)
RunTurns == \/ RunLooks \/ RunResolves \/ RunMakesBox
            \/ RunResolvesAgain \/ RunReads \/ RunPlaces \/ RunEnds

LEMMA RunsKeep ==
  ASSUME CatalogInv, RunTurns
  PROVE  run' \in RunRows /\ UNCHANGED <<catalog, verb, xmix>>
<1>1. run \in RunRows /\ override[run.of] \in Pref
  BY DEF CatalogInv, CatalogTypes, RunRows
<1>2. \A o : Resolved(o) \in SUBSET ServerIds
  BY DEF Resolved, CatalogInv, CatalogTypes, SpecRows
<1>3. \A ms : {m \in ms \cap DOMAIN servers : ForWorker(m)} \in SUBSET ServerIds
  BY DEF CatalogInv, CatalogTypes
<1>4. NoRun(run.of) \in RunRows
  BY <1>1 DEF NoRun, RunRows, RunPc, Pref
<1>5. UNCHANGED <<catalog, verb, xmix>>
  BY DEF RunTurns, RunLooks, RunResolves, RunMakesBox, RunResolvesAgain, RunReads, RunPlaces,
         RunEnds
<1>6. CASE RunLooks
  BY <1>1, <1>5, <1>6 DEF RunLooks, RunRows, RunPc
<1>7. CASE RunResolves \/ RunResolvesAgain
  <2>1. PICK ms \in SUBSET ServerIds, pc \in RunPc : run' = [run EXCEPT !.mcps = ms, !.pc = pc]
    BY <1>2, <1>7 DEF RunResolves, RunResolvesAgain, RunPc
  <2> QED
    BY <1>1, <1>5, <2>1 DEF RunRows
<1>8. CASE RunMakesBox \/ RunEnds \/ RunPlaces
  <2>1. \/ run' = [run EXCEPT !.pc = "look"] \/ run' = [run EXCEPT !.pc = "on"]
        \/ run' = [run EXCEPT !.pc = "on", !.mcps = {}] \/ run' = NoRun(run.of)
    BY <1>8 DEF RunMakesBox, RunEnds, RunPlaces
  <2>2. CASE run' = [run EXCEPT !.pc = "look"] \/ run' = [run EXCEPT !.pc = "on"]
    BY <1>1, <1>5, <2>2 DEF RunRows, RunPc
  <2>3. CASE run' = [run EXCEPT !.pc = "on", !.mcps = {}]
    BY <1>1, <1>5, <2>3 DEF RunRows, RunPc
  <2> QED
    BY <1>4, <1>5, <2>1, <2>2, <2>3
<1>9. CASE RunReads
  <2>1. PICK ms \in SUBSET ServerIds : run' = [run EXCEPT !.mcps = ms, !.pc = "place"]
    BY <1>3, <1>9 DEF RunReads
  <2> QED
    BY <1>1, <1>5, <2>1 DEF RunRows, RunPc
<1> QED
  BY <1>6, <1>7, <1>8, <1>9 DEF RunTurns

-------------------------------------------------------------------------------
LEMMA CatalogInit == SpecInit(SpecMixes) => CatalogInv
<1> SUFFICES ASSUME SpecInit(SpecMixes)
             PROVE  CatalogInv
    OBVIOUS
<1>1. /\ policies = ShippedPolicies /\ servers = [m \in {Sandboard} |-> ShippedServer]
      /\ specs = [x \in DOMAIN ShippedSpecs |-> ShippedSpec(x)]
      /\ default = NoSpec /\ cockpit = NoSpec /\ override = [p \in Projects |-> NoSpec]
      /\ verb = [v \in Verbs |-> NoVerb] /\ (\E p \in Projects : run = NoRun(p)) /\ xmix \in SpecMixes
  BY DEF SpecInit
<1>2. DOMAIN servers = {Sandboard} /\ servers[Sandboard] = ShippedServer
  BY <1>1
<1>3. ShippedServer \in ServerRows /\ ShippedServer.shipped
  BY DEF ShippedServer, ServerRows, Audiences
<1>4. DOMAIN specs = DOMAIN ShippedSpecs /\ \A x \in DOMAIN specs : specs[x] = ShippedSpec(x)
  BY <1>1
<1>5. \A x \in DOMAIN ShippedSpecs :
        /\ ShippedSpec(x) \in SpecRows /\ ShippedSpec(x).policy \in ShippedPolicies
        /\ ShippedSpec(x).mcps = {Sandboard}
  BY SpecsAssumption DEF ShippedSpec, SpecRows
<1>6. run \in RunRows
  BY <1>1 DEF NoRun, RunRows, RunPc, Pref
<1>7. verb \in [Verbs -> VerbRows] /\ \A v \in Verbs : verb[v].pc # "save"
  BY <1>1, IdleIs
<1>8. CatalogTypes
  BY <1>1, <1>2, <1>3, <1>4, <1>5, <1>6, <1>7, SpecsAssumption DEF CatalogTypes, Pref
<1>9. Valid
  BY <1>1, <1>2, <1>3, <1>4, <1>5, <1>7
  DEF Valid, SpecPolicies, SpecServers, PrefsStand, Names, SandboardStands, ShippedStays
<1> QED
  BY <1>8, <1>9 DEF CatalogInv

LEMMA RestartKeeps == ASSUME CatalogInv, SpecRestart PROVE CatalogInv'
<1> USE DEF CatalogInv, CatalogTypes
<1>1. /\ policies' = policies \cup ShippedPolicies /\ servers' = WithServers(servers)
      /\ specs' = Attached(WithSpecs(specs), cockpit, default)
      /\ verb' = [v \in Verbs |-> NoVerb] /\ run' = NoRun(run.of)
      /\ UNCHANGED <<default, cockpit, override, xmix>>
  BY DEF SpecRestart
<1>2. servers' = servers
  BY <1>1 DEF WithServers, Valid, SandboardStands
<1>3. \A x \in DOMAIN ShippedSpecs :
        /\ ShippedSpec(x) \in SpecRows /\ ShippedSpec(x).policy \in ShippedPolicies
        /\ ShippedSpec(x).mcps = {Sandboard}
  BY SpecsAssumption DEF ShippedSpec, SpecRows
<1>4. /\ DOMAIN WithSpecs(specs) = DOMAIN specs \cup DOMAIN ShippedSpecs
      /\ \A y \in DOMAIN WithSpecs(specs) :
           /\ WithSpecs(specs)[y] \in SpecRows
           /\ WithSpecs(specs)[y].policy \in policies'
           /\ WithSpecs(specs)[y].mcps \subseteq DOMAIN servers
  <2>1. \A y \in DOMAIN specs :
          /\ specs[y] \in SpecRows /\ specs[y].policy \in policies
          /\ specs[y].mcps \subseteq DOMAIN servers
    BY DEF Valid, SpecPolicies, SpecServers
  <2>2. {Sandboard} \subseteq DOMAIN servers /\ policies \subseteq policies'
        /\ ShippedPolicies \subseteq policies'
    BY <1>1 DEF Valid, SandboardStands
  <2> HIDE DEF CatalogInv, CatalogTypes
  <2> QED
    <3>1. DOMAIN WithSpecs(specs) = DOMAIN specs \cup DOMAIN ShippedSpecs
      BY WithSpecsIs
    <3>2. ASSUME NEW y \in DOMAIN WithSpecs(specs)
          PROVE  /\ WithSpecs(specs)[y] \in SpecRows
                 /\ WithSpecs(specs)[y].policy \in policies'
                 /\ WithSpecs(specs)[y].mcps \subseteq DOMAIN servers
      <4>1. CASE y \in DOMAIN specs
        <5>1. WithSpecs(specs)[y] = specs[y]
          BY <4>1, WithSpecsIs
        <5> QED
          BY <2>1, <2>2, <4>1, <5>1
      <4>2. CASE y \notin DOMAIN specs
        <5>1. y \in DOMAIN ShippedSpecs /\ WithSpecs(specs)[y] = ShippedSpec(y)
          BY <3>1, <4>2, WithSpecsIs
        <5> QED
          BY <1>3, <2>2, <5>1
      <4> QED
        BY <4>1, <4>2
    <3> QED
      BY <3>1, <3>2
<1>5. /\ DOMAIN specs' = DOMAIN specs \cup DOMAIN ShippedSpecs
      /\ \A y \in DOMAIN specs' : /\ specs'[y] \in SpecRows
                                  /\ specs'[y].policy \in policies'
                                  /\ specs'[y].mcps \subseteq DOMAIN servers
  <2>1. \A y \in DOMAIN WithSpecs(specs) : WithSpecs(specs)[y] \in SpecRows
    BY <1>4
  <2> HIDE DEF CatalogInv, CatalogTypes
  <2>2. /\ DOMAIN specs' = DOMAIN WithSpecs(specs)
        /\ \A s \in DOMAIN WithSpecs(specs) :
              /\ specs'[s] \in SpecRows
              /\ specs'[s].policy = WithSpecs(specs)[s].policy
              /\ specs'[s].mcps \subseteq WithSpecs(specs)[s].mcps \cup {Sandboard}
    BY <1>1, <2>1, AttachedIs
  <2> QED
    BY <1>4, <2>2 DEF CatalogInv, Valid, SandboardStands
<1>6. verb' \in [Verbs -> VerbRows] /\ \A v \in Verbs : verb'[v].pc # "save"
  BY <1>1, IdleIs
<1>7. run' \in RunRows
  BY <1>1 DEF NoRun, RunRows, RunPc, Pref
<1>8. CatalogTypes'
  BY <1>1, <1>2, <1>5, <1>6, <1>7, SpecsAssumption
<1>9. Valid'
  BY <1>1, <1>2, <1>5, <1>6
  DEF Valid, SpecPolicies, SpecServers, PrefsStand, Names, SandboardStands, ShippedStays
<1> QED
  BY <1>8, <1>9

(* What an edit of the specs must leave: they are specs, of policies and servers *)
(* that there are, and the preferences name them.                                *)
LEMMA EditKeeps ==
  ASSUME CatalogInv, UNCHANGED <<run, xmix>>,
         policies' \subseteq PolicyIds, DOMAIN servers' \subseteq ServerIds, DOMAIN specs' \subseteq SpecIds,
         \A m \in DOMAIN servers' : servers'[m] \in ServerRows,
         \A s \in DOMAIN specs' : /\ specs'[s] \in SpecRows /\ specs'[s].policy \in policies'
                                  /\ specs'[s].mcps \subseteq DOMAIN servers',
         default' \in Pref, cockpit' \in Pref, override' \in [Projects -> Pref], PrefsStand',
         SandboardStands', verb' \in [Verbs -> VerbRows], ShippedStays'
  PROVE  CatalogInv'
  BY DEF CatalogInv, CatalogTypes, Valid, SpecPolicies, SpecServers

(* Where they stand. *)
LEMMA InvFacts ==
  ASSUME CatalogInv
  PROVE  /\ policies \subseteq PolicyIds /\ DOMAIN servers \subseteq ServerIds
         /\ DOMAIN specs \subseteq SpecIds /\ \A m \in DOMAIN servers : servers[m] \in ServerRows
         /\ \A s \in DOMAIN specs : /\ specs[s] \in SpecRows /\ specs[s].policy \in policies
                                    /\ specs[s].mcps \subseteq DOMAIN servers
         /\ default \in Pref /\ cockpit \in Pref /\ override \in [Projects -> Pref] /\ PrefsStand
         /\ SandboardStands /\ verb \in [Verbs -> VerbRows] /\ ShippedStays
  BY DEF CatalogInv, CatalogTypes, Valid, SpecPolicies, SpecServers

LEMMA PolicyKeeps ==
  ASSUME CatalogInv, NEW p \in PolicyIds, SavePolicy(p) \/ DeletePolicy(p)
  PROVE  CatalogInv'
<1>1. UNCHANGED <<servers, specs, default, cockpit, override, verb, run, xmix>>
  BY DEF SavePolicy, DeletePolicy
<1>2. policies' \subseteq PolicyIds /\ \A s \in DOMAIN specs : specs[s].policy \in policies'
  BY InvFacts DEF SavePolicy, DeletePolicy, UsedPolicies
<1>3. PrefsStand' /\ SandboardStands' /\ ShippedStays'
  BY <1>1, InvFacts DEF PrefsStand, Names, SandboardStands, ShippedStays
<1> QED
  BY <1>1, <1>2, <1>3, InvFacts, EditKeeps

LEMMA ServerKeeps ==
  ASSUME CatalogInv,
         \/ \E v \in Verbs, m \in ServerIds, a \in Audiences : ServerLooks(v, m, a)
         \/ \E v \in Verbs : SaveServer(v)
         \/ \E m \in ServerIds : DeleteServer(m)
  PROVE  CatalogInv'
<1>1. UNCHANGED <<policies, specs, default, cockpit, override, run, xmix>>
  BY DEF ServerLooks, SaveServer, DeleteServer, catalog
<1>2. PrefsStand'
  BY <1>1, InvFacts DEF PrefsStand, Names
<1>3. ASSUME NEW v \in Verbs, NEW m \in ServerIds, NEW a \in Audiences, ServerLooks(v, m, a)
      PROVE  CatalogInv'
  <2> DEFINE line == [shipped |-> m \in DOMAIN servers /\ servers[m].shipped, audience |-> a]
             new == [pc |-> "save", id |-> m, row |-> line]
  <2>1. verb' = [verb EXCEPT ![v] = new] /\ UNCHANGED servers
    BY <1>3 DEF ServerLooks, catalog
  <2>2. (m \in DOMAIN servers /\ servers[m].shipped) \in BOOLEAN
    BY InvFacts DEF ServerRows
  <2>3. new \in VerbRows
    BY <2>2 DEF VerbRows, VerbPc, ServerRows
  <2>4. m = Sandboard => new.row.shipped
    BY InvFacts DEF SandboardStands
  <2> HIDE DEF new
  <2>5. verb' \in [Verbs -> VerbRows]
    BY <2>1, <2>3, InvFacts
  <2>6. ShippedStays'
    BY <2>1, <2>4, InvFacts DEF ShippedStays, new
  <2>7. SandboardStands'
    BY <2>1, InvFacts DEF SandboardStands
  <2> QED
    BY <1>1, <1>2, <2>1, <2>5, <2>6, <2>7, InvFacts, EditKeeps
<1>4. ASSUME NEW v \in Verbs, SaveServer(v)
      PROVE  CatalogInv'
  <2>1. /\ verb[v].pc = "save" /\ servers' = Put(servers, verb[v].id, verb[v].row)
        /\ verb' = [verb EXCEPT ![v] = NoVerb]
    BY <1>4 DEF SaveServer
  <2>2. verb[v].id \in ServerIds /\ verb[v].row \in ServerRows
        /\ (verb[v].id = Sandboard => verb[v].row.shipped)
    BY <2>1, InvFacts DEF VerbRows, ShippedStays
  <2>3. /\ DOMAIN servers' = DOMAIN servers \cup {verb[v].id}
        /\ \A y \in DOMAIN servers' : servers'[y] = IF y = verb[v].id THEN verb[v].row ELSE servers[y]
    <3> DEFINE next == Put(servers, verb[v].id, verb[v].row)
    <3>1. /\ DOMAIN next = DOMAIN servers \cup {verb[v].id}
          /\ \A y \in DOMAIN next :
               next[y] = IF y = verb[v].id THEN verb[v].row ELSE servers[y]
      BY DEF Put
    <3>2. servers' = next
      BY <2>1
    <3> HIDE DEF next
    <3> QED
      BY <3>1, <3>2
  <2>4. DOMAIN servers' \subseteq ServerIds /\ \A m \in DOMAIN servers' : servers'[m] \in ServerRows
    BY <2>2, <2>3, InvFacts
  <2>5. SandboardStands'
    BY <2>2, <2>3, InvFacts DEF SandboardStands
  <2>6. verb' \in [Verbs -> VerbRows] /\ \A u \in Verbs : verb'[u] = verb[u] \/ verb'[u].pc # "save"
    BY <2>1, IdleIs, InvFacts
  <2>7. ShippedStays'
    BY <2>6, InvFacts DEF ShippedStays
  <2> QED
    BY <1>1, <1>2, <2>3, <2>4, <2>5, <2>6, <2>7, InvFacts, EditKeeps
<1>5. ASSUME NEW m \in ServerIds, DeleteServer(m)
      PROVE  CatalogInv'
  <2>1. servers' = Without(servers, m) /\ ~servers[m].shipped /\ m \notin AttachedServers
        /\ UNCHANGED verb
    BY <1>5 DEF DeleteServer, Deletable
  <2>2. /\ DOMAIN servers' = DOMAIN servers \ {m}
        /\ \A y \in DOMAIN servers' : servers'[y] = servers[y]
    BY <2>1, WithoutIs
  <2>3. m # Sandboard
    BY <2>1, InvFacts DEF SandboardStands
  <2>4. \A s \in DOMAIN specs : m \notin specs[s].mcps
    BY <2>1 DEF AttachedServers
  <2>5. SandboardStands' /\ ShippedStays'
    BY <2>1, <2>2, <2>3, InvFacts DEF SandboardStands, ShippedStays
  <2> QED
    BY <1>1, <1>2, <2>1, <2>2, <2>4, <2>5, InvFacts, EditKeeps
<1> QED
  BY <1>3, <1>4, <1>5

LEMMA SpecKeeps ==
  ASSUME CatalogInv, NEW s \in SpecIds,
         \/ DeleteSpec(s)
         \/ \E p \in PolicyIds, ms \in SUBSET ServerIds : SaveSpec(s, p, ms)
  PROVE  CatalogInv'
<1>1. UNCHANGED <<policies, servers, override, verb, run, xmix>>
  BY DEF DeleteSpec, SaveSpec
<1>2. SandboardStands' /\ ShippedStays'
  BY <1>1, InvFacts DEF SandboardStands, ShippedStays
<1>3. CASE DeleteSpec(s)
  <2>1. /\ s \notin Assigned /\ specs' = Without(specs, s)
        /\ default' = Cleared(default, s) /\ cockpit' = Cleared(cockpit, s)
    BY <1>3 DEF DeleteSpec
  <2>2. DOMAIN specs' = DOMAIN specs \ {s} /\ \A y \in DOMAIN specs' : specs'[y] = specs[y]
    BY <2>1, WithoutIs
  <2>3. default' \in Pref /\ cockpit' \in Pref
    BY <2>1, InvFacts DEF Cleared, Pref
  <2>4. \A p \in Projects : override[p] # s
    BY <2>1 DEF Assigned
  <2>5. PrefsStand'
    BY <1>1, <2>1, <2>2, <2>4, InvFacts DEF PrefsStand, Names, Cleared
  <2> QED
    BY <1>1, <1>2, <2>2, <2>3, <2>5, InvFacts, EditKeeps
<1>4. ASSUME NEW p \in PolicyIds, NEW ms \in SUBSET ServerIds, SaveSpec(s, p, ms)
      PROVE  CatalogInv'
  <2>1. PICK keeps \in SUBSET {Sandboard} :
          /\ specs' = Put(specs, s, [policy |-> p, shipped |-> FALSE, mcps |-> ms \cup keeps])
          /\ keeps \subseteq DOMAIN servers
    <3>1. CASE KeepsSandboard(s) /\ Sandboard \in DOMAIN servers
      BY <1>4, <3>1 DEF SaveSpec
    <3>2. CASE ~(KeepsSandboard(s) /\ Sandboard \in DOMAIN servers)
      <4>1. specs' = Put(specs, s, [policy |-> p, shipped |-> FALSE, mcps |-> ms])
        BY <1>4, <3>2 DEF SaveSpec
      <4>2. ms \cup {} = ms /\ {} \in SUBSET {Sandboard} /\ {} \subseteq DOMAIN servers
        OBVIOUS
      <4>3. specs' = Put(specs, s, [policy |-> p, shipped |-> FALSE, mcps |-> ms \cup {}])
        BY <4>1, <4>2
      <4> WITNESS {} \in SUBSET {Sandboard}
      <4> QED
        BY <4>2, <4>3
    <3> QED
      BY <3>1, <3>2
  <2> DEFINE new == [policy |-> p, shipped |-> FALSE, mcps |-> ms \cup keeps]
  <2>2. p \in policies /\ ms \subseteq DOMAIN servers
    BY <1>4 DEF SaveSpec
  <2>3. new \in SpecRows /\ new.policy = p /\ new.mcps \subseteq DOMAIN servers
    BY <2>1, <2>2, SpecsAssumption DEF SpecRows
  <2>4. default' \in {default, s} /\ UNCHANGED cockpit
    BY <1>4 DEF SaveSpec
  <2>5. specs' = Put(specs, s, new)
    BY <2>1
  <2> HIDE DEF new
  <2>6. /\ DOMAIN specs' = DOMAIN specs \cup {s}
        /\ \A y \in DOMAIN specs' : specs'[y] = IF y = s THEN new ELSE specs[y]
    <3>1. /\ DOMAIN Put(specs, s, new) = DOMAIN specs \cup {s}
          /\ \A y \in DOMAIN Put(specs, s, new) :
               Put(specs, s, new)[y] = IF y = s THEN new ELSE specs[y]
      BY DEF Put
    <3> QED
      BY <2>5, <3>1
  <2>7. \A y \in DOMAIN specs' : /\ specs'[y] \in SpecRows /\ specs'[y].policy \in policies
                                 /\ specs'[y].mcps \subseteq DOMAIN servers
    BY <2>2, <2>3, <2>6, InvFacts
  <2>8. default' \in Pref
    BY <2>4, InvFacts DEF Pref
  <2>9. PrefsStand'
    BY <1>1, <2>4, <2>6, InvFacts DEF PrefsStand, Names
  <2> QED
    BY <1>1, <1>2, <2>4, <2>6, <2>7, <2>8, <2>9, InvFacts, EditKeeps
<1> QED
  BY <1>3, <1>4

Preferring ==
  \/ \E v \in Verbs, s \in SpecIds : SetDefault(v, s) \/ SetCockpit(v, s)
  \/ \E v \in Verbs : Inherits(v) \/ ClearCockpit(v) \/ AttachSandboard(v)
  \/ \E p \in Projects, s \in Pref : SetOverride(p, s)

LEMMA PreferKeeps == ASSUME CatalogInv, Preferring PROVE CatalogInv'
<1>1. UNCHANGED <<policies, servers, run, xmix>>
  BY DEF Preferring, SetDefault, SetCockpit, Inherits, ClearCockpit, AttachSandboard, SetOverride,
     catalog
<1>2. SandboardStands'
  BY <1>1, InvFacts DEF SandboardStands
<1>3. verb' \in [Verbs -> VerbRows] /\ ShippedStays'
  <2>1. CASE \E p \in Projects, s \in Pref : SetOverride(p, s)
    BY <2>1, InvFacts DEF SetOverride, ShippedStays
  <2>2. CASE ~ \E p \in Projects, s \in Pref : SetOverride(p, s)
    <3>1. PICK v \in Verbs, pc \in {"idle", "inherits", "attach"} : VerbGoes(v, pc)
      BY <2>2 DEF Preferring, SetDefault, SetCockpit, Inherits, ClearCockpit, AttachSandboard
    <3> QED
      BY <3>1, GoesKeeps, InvFacts
  <2> QED
    BY <2>1, <2>2
<1>4. /\ DOMAIN specs' = DOMAIN specs
      /\ \A y \in DOMAIN specs : /\ specs'[y] \in SpecRows /\ specs'[y].policy \in policies
                                 /\ specs'[y].mcps \subseteq DOMAIN servers
  <2>1. CASE UNCHANGED specs
    BY <2>1, InvFacts
  <2>2. CASE specs' = Attached(specs, cockpit, default)
    <3>1. \A s \in DOMAIN specs : specs[s] \in SpecRows
      BY InvFacts
    <3>2. /\ DOMAIN specs' = DOMAIN specs
          /\ \A s \in DOMAIN specs : /\ specs'[s] \in SpecRows /\ specs'[s].policy = specs[s].policy
                                     /\ specs'[s].mcps \subseteq specs[s].mcps \cup {Sandboard}
      BY <2>2, <3>1, AttachedIs
    <3> QED
      BY <3>2, InvFacts DEF SandboardStands
  <2> QED
    BY <2>1, <2>2 DEF Preferring, SetDefault, SetCockpit, Inherits, ClearCockpit, AttachSandboard,
                      SetOverride, catalog
<1>5. /\ default' \in Pref /\ cockpit' \in Pref /\ override' \in [Projects -> Pref]
      /\ default' \in DOMAIN specs \cup {default} /\ cockpit' \in DOMAIN specs \cup {cockpit, NoSpec}
      /\ \A p \in Projects : override'[p] \in DOMAIN specs \cup {override[p], NoSpec}
  BY InvFacts DEF Preferring, SetDefault, SetCockpit, Inherits, ClearCockpit, AttachSandboard,
                  SetOverride, catalog, Pref
<1>6. PrefsStand'
  BY <1>4, <1>5, InvFacts DEF PrefsStand, Names
<1> QED
  BY <1>1, <1>2, <1>3, <1>4, <1>5, <1>6, InvFacts, EditKeeps

LEMMA CatalogNext == CatalogInv /\ [SpecNext]_specVars => CatalogInv'
<1> SUFFICES ASSUME CatalogInv, [SpecNext]_specVars
             PROVE  CatalogInv'
    OBVIOUS
<1>1. CASE SpecRestart
  BY <1>1, RestartKeeps
<1>2. CASE Preferring
  BY <1>2, PreferKeeps
<1>3. CASE RunTurns \/ UNCHANGED specVars
  <2>1. run' \in RunRows /\ UNCHANGED <<catalog, verb, xmix>>
    BY <1>3, RunsKeep DEF specVars, catalog, CatalogInv, CatalogTypes
  <2> QED
    BY <2>1 DEF catalog, CatalogInv, CatalogTypes, Valid, SpecPolicies, SpecServers, PrefsStand,
       Names,
                SandboardStands, ShippedStays
<1> QED
  BY <1>1, <1>2, <1>3, PolicyKeeps, ServerKeeps, SpecKeeps DEF SpecNext, Preferring, RunTurns

LEMMA CatalogHolds == SpecsSpec => []CatalogInv
<1>1. SpecInit(SpecMixes) => CatalogInv
  BY CatalogInit
<1>2. CatalogInv /\ [SpecNext]_specVars => CatalogInv'
  BY CatalogNext
<1> QED
  BY <1>1, <1>2, PTL DEF SpecsSpec

(* The rows and preferences of the catalog keep their kinds. *)
THEOREM SpecsTypes == SpecsSpec => []SpecTypeOK
<1>1. CatalogInv => SpecTypeOK
  BY DEF CatalogInv, CatalogTypes, SpecTypeOK, Range
<1> QED
  BY <1>1, CatalogHolds, PTL

(* Every name in the catalog stands for something that is there, `sandboard`    *)
(* among it (the refusals of save_sandbox_profile, delete_sandbox_profile,      *)
(* delete_policy and delete_mcp_server, and what start-up puts back).           *)
THEOREM CatalogStands == SpecsSpec => []NamesStand
<1>1. CatalogInv => NamesStand
  BY DEF CatalogInv, Valid, SpecPolicies, SpecServers, PrefsStand, Names, SandboardStands,
     NamesStand,
         UsedPolicies, AttachedServers, Assigned
<1> QED
  BY <1>1, CatalogHolds, PTL

(* What the cockpit prefers has `sandboard`, or a request is about to attach it. *)
Attaching == \E v \in Verbs : verb[v].pc = "attach"
PreferredServed ==
  cockpit # NoSpec => Attaching \/ (cockpit \in DOMAIN specs /\ Sandboard \in specs[cockpit].mcps)

(* After an attach, wherever it went. *)
LEMMA AttachServes ==
  ASSUME NEW f, NEW c \in Pref, NEW d \in Pref, \A s \in DOMAIN f : f[s] \in SpecRows,
         Target(c, d) \in DOMAIN f
  PROVE  /\ DOMAIN Attached(f, c, d) = DOMAIN f
         /\ Sandboard \in Attached(f, c, d)[Target(c, d)].mcps
<1> DEFINE t == Target(c, d)
<1>1. Attached(f, c, d) = [f EXCEPT ![t].mcps = @ \cup {Sandboard}]
  BY DEF Attached
<1>2. Attached(f, c, d)[t] = [f[t] EXCEPT !.mcps = @ \cup {Sandboard}]
  BY <1>1
<1>3. f[t] \in SpecRows
  OBVIOUS
<1> QED
  BY <1>1, <1>2, <1>3 DEF SpecRows

(* A step that is one of the cockpit's own, a delete or a save aside, leaves it *)
(* alone: who was about to attach still is.                                     *)
LEMMA ServedFrame ==
  ASSUME UNCHANGED <<specs, default, cockpit>>,
         \A v \in Verbs : verb[v].pc \in {"inherits", "attach"} => verb'[v] = verb[v]
  PROVE  (PreferredServed => PreferredServed') /\ (CockpitServed => CockpitServed')
  BY DEF PreferredServed, Attaching, CockpitServed, Target

(* How the cockpit's spec is found, in every step. *)
CockpitStep == PreferredServed' /\
               (CockpitServed => CockpitServed' \/ cockpit \in DOMAIN specs \ DOMAIN specs')

LEMMA SaveServes ==
  ASSUME CatalogInv, PreferredServed, NEW s \in SpecIds, NEW p \in PolicyIds,
         NEW ms \in SUBSET ServerIds, SaveSpec(s, p, ms)
  PROVE  CockpitStep
<1> DEFINE spec == [policy |-> p, shipped |-> FALSE,
                    mcps |-> IF KeepsSandboard(s) /\ Sandboard \in DOMAIN servers
                             THEN ms \cup {Sandboard} ELSE ms]
           next == Put(specs, s, spec)
<1>1. specs' = next /\ default' = (IF First THEN s ELSE default) /\ UNCHANGED <<cockpit, verb>>
  BY DEF SaveSpec
<1>2. spec.mcps = IF KeepsSandboard(s) /\ Sandboard \in DOMAIN servers
                 THEN ms \cup {Sandboard} ELSE ms
  OBVIOUS
<1>3. KeepsSandboard(s) => Sandboard \in spec.mcps
  BY <1>2, InvFacts DEF SandboardStands
<1> HIDE DEF spec
<1>4. /\ DOMAIN next = DOMAIN specs \cup {s}
      /\ \A y \in DOMAIN next : next[y] = IF y = s THEN spec ELSE specs[y]
  BY DEF Put
<1> HIDE DEF next
<1>5. /\ DOMAIN specs' = DOMAIN specs \cup {s}
      /\ \A y \in DOMAIN specs' : specs'[y] = IF y = s THEN spec ELSE specs[y]
  BY <1>1, <1>4
<1>6. Names(cockpit) /\ Names(default) /\ NoSpec \notin SpecIds
  BY InvFacts, SpecsAssumption DEF PrefsStand
<1>7. cockpit = s => KeepsSandboard(s)
  BY <1>6, SpecsAssumption DEF KeepsSandboard, Target
<1>8. PreferredServed'
  BY <1>1, <1>3, <1>5, <1>6, <1>7 DEF PreferredServed, Attaching, Names
<1>9. ASSUME CockpitServed
      PROVE  CockpitServed'
  <2>1. CASE \E v \in Verbs : verb[v].pc \in {"inherits", "attach"}
    BY <1>1, <2>1 DEF CockpitServed
  <2>2. CASE First
    <3>1. cockpit = NoSpec /\ Target(cockpit', default') = s /\ KeepsSandboard(s)
      BY <1>1, <1>6, <2>2 DEF First, Names, Target, KeepsSandboard
    <3> QED
      BY <1>3, <1>5, <3>1 DEF CockpitServed
  <2>3. CASE ~First /\ Target(cockpit, default) = s
    <3>1. Target(cockpit', default') = s /\ KeepsSandboard(s)
      BY <1>1, <2>3 DEF Target, KeepsSandboard
    <3> QED
      BY <1>3, <1>5, <3>1 DEF CockpitServed
  <2>4. CASE ~First /\ Target(cockpit, default) # s
    <3>1. Target(cockpit', default') = Target(cockpit, default)
      BY <1>1, <2>4 DEF Target
    <3> QED
      BY <1>1, <1>5, <1>9, <2>4, <3>1 DEF CockpitServed
  <2> QED
    BY <2>1, <2>2, <2>3, <2>4
<1> QED
  BY <1>8, <1>9 DEF CockpitStep

LEMMA DeleteServes ==
  ASSUME CatalogInv, PreferredServed, NEW s \in SpecIds, DeleteSpec(s)
  PROVE  CockpitStep
<1>1. /\ s \in DOMAIN specs /\ specs' = Without(specs, s) /\ UNCHANGED verb
      /\ default' = Cleared(default, s) /\ cockpit' = Cleared(cockpit, s)
  BY DEF DeleteSpec
<1>2. DOMAIN specs' = DOMAIN specs \ {s} /\ \A y \in DOMAIN specs' : specs'[y] = specs[y]
  BY <1>1, WithoutIs
<1>3. Names(cockpit) /\ Names(default) /\ NoSpec \notin SpecIds /\ DOMAIN specs \subseteq SpecIds
  BY InvFacts, SpecsAssumption DEF PrefsStand
<1>4. PreferredServed'
  BY <1>1, <1>2, <1>3 DEF PreferredServed, Attaching, Cleared, Names
<1>5. ASSUME CockpitServed, cockpit # s
      PROVE  CockpitServed'
  <2>1. cockpit' = cockpit
    BY <1>1, <1>5 DEF Cleared
  <2>2. CASE cockpit = NoSpec /\ default = s
    <3>1. Target(cockpit', default') = NoSpec
      BY <1>1, <2>1, <2>2 DEF Cleared, Target
    <3> QED
      BY <1>2, <1>3, <3>1 DEF CockpitServed
  <2>3. CASE ~(cockpit = NoSpec /\ default = s)
    <3>1. Target(cockpit', default') = Target(cockpit, default) /\ Target(cockpit, default) # s
      BY <1>1, <1>5, <2>1, <2>3 DEF Cleared, Target
    <3> QED
      BY <1>1, <1>2, <1>5, <3>1 DEF CockpitServed
  <2> QED
    BY <2>2, <2>3
<1> QED
  BY <1>1, <1>2, <1>4, <1>5 DEF CockpitStep

LEMMA AttachesServe ==
  ASSUME CatalogInv, PreferredServed, CatalogInv',
         \/ SpecRestart
         \/ \E v \in Verbs : AttachSandboard(v)
  PROVE  CockpitStep
<1>1. PICK f : /\ specs' = Attached(f, cockpit, default) /\ \A s \in DOMAIN f : f[s] \in SpecRows
               /\ DOMAIN specs \subseteq DOMAIN f
  <2>1. CASE SpecRestart
    <3>1. \A x \in DOMAIN ShippedSpecs : ShippedSpec(x) \in SpecRows
      BY SpecsAssumption DEF ShippedSpec, SpecRows
    <3>2. /\ DOMAIN WithSpecs(specs) = DOMAIN specs \cup DOMAIN ShippedSpecs
          /\ \A s \in DOMAIN WithSpecs(specs) : WithSpecs(specs)[s] \in SpecRows
      BY <3>1, WithSpecsIs, InvFacts
    <3>3. specs' = Attached(WithSpecs(specs), cockpit, default)
      BY <2>1 DEF SpecRestart
    <3> QED
      BY <3>2, <3>3
  <2>2. CASE \E v \in Verbs : AttachSandboard(v)
    BY <2>2, InvFacts DEF AttachSandboard
  <2> QED
    BY <2>1, <2>2
<1>2. UNCHANGED <<cockpit, default>> /\ cockpit \in Pref /\ default \in Pref
  BY InvFacts DEF SpecRestart, AttachSandboard
<1>3. Target(cockpit, default) \in DOMAIN f =>
        /\ Target(cockpit, default) \in DOMAIN specs'
        /\ Sandboard \in specs'[Target(cockpit, default)].mcps
  BY <1>1, <1>2, AttachServes
<1>4. Target(cockpit, default) \notin DOMAIN f => specs' = f
  BY <1>1 DEF Attached
<1>5. CockpitServed'
  BY <1>2, <1>3, <1>4 DEF CockpitServed
<1>6. cockpit # NoSpec => Target(cockpit, default) = cockpit /\ cockpit \in DOMAIN f
  BY <1>1, InvFacts DEF Target, PrefsStand, Names
<1>7. PreferredServed'
  BY <1>2, <1>3, <1>6 DEF PreferredServed
<1> QED
  BY <1>5, <1>7 DEF CockpitStep

LEMMA PrefersServe ==
  ASSUME CatalogInv, PreferredServed, NEW v \in Verbs,
         \/ \E s \in SpecIds : SetDefault(v, s) \/ SetCockpit(v, s)
         \/ Inherits(v) \/ ClearCockpit(v)
  PROVE  CockpitStep
<1> DEFINE at(pc) == [NoVerb EXCEPT !.pc = pc]
<1>1. \A pc \in {"idle", "inherits", "attach"} : VerbGoes(v, pc) =>
        /\ verb'[v].pc = pc
        /\ \A u \in Verbs \ {v} : verb'[u] = verb[u]
  BY InvFacts, IdleIs DEF VerbGoes, VerbRows
<1>2. UNCHANGED specs
  BY DEF SetDefault, SetCockpit, Inherits, ClearCockpit, catalog
<1>3. CASE \E s \in SpecIds : SetDefault(v, s)
  <2>1. verb'[v].pc = "inherits" /\ verb[v].pc = "idle" /\ UNCHANGED cockpit
        /\ \A u \in Verbs \ {v} : verb'[u] = verb[u]
    BY <1>1, <1>3 DEF SetDefault, Vacant
  <2> QED
    BY <1>2, <2>1 DEF CockpitStep, PreferredServed, Attaching, CockpitServed
<1>4. CASE (\E s \in SpecIds : SetCockpit(v, s)) \/ ClearCockpit(v)
  <2>1. verb'[v].pc = "attach"
    BY <1>1, <1>4 DEF SetCockpit, ClearCockpit
  <2> QED
    BY <2>1 DEF CockpitStep, PreferredServed, Attaching, CockpitServed
<1>5. CASE Inherits(v)
  <2>1. verb[v].pc = "inherits" /\ UNCHANGED <<cockpit, default>>
        /\ \A u \in Verbs \ {v} : verb'[u] = verb[u]
    BY <1>1, <1>5 DEF Inherits, catalog
  <2>2. CASE cockpit = NoSpec
    <3>1. verb'[v].pc = "attach"
      BY <1>1, <1>5, <2>2 DEF Inherits
    <3> QED
      BY <3>1 DEF CockpitStep, PreferredServed, Attaching, CockpitServed
  <2>3. CASE cockpit # NoSpec
    <3>1. Attaching => Attaching'
      BY <2>1 DEF Attaching
    <3>2. PreferredServed'
      BY <1>2, <2>1, <3>1 DEF PreferredServed
    <3>3. CockpitServed'
      BY <2>1, <2>3, <3>2 DEF PreferredServed, Attaching, CockpitServed, Target
    <3> QED
      BY <3>2, <3>3 DEF CockpitStep
  <2> QED
    BY <2>2, <2>3
<1> QED
  BY <1>3, <1>4, <1>5

LEMMA CockpitNext ==
  CatalogInv /\ PreferredServed /\ [SpecNext]_specVars => CockpitStep
<1> SUFFICES ASSUME CatalogInv, PreferredServed, [SpecNext]_specVars
             PROVE  CockpitStep
    OBVIOUS
<1>1. CASE SpecRestart \/ \E v \in Verbs : AttachSandboard(v)
  BY <1>1, CatalogNext, AttachesServe
<1>2. CASE \E v \in Verbs : \/ \E s \in SpecIds : SetDefault(v, s) \/ SetCockpit(v, s)
                            \/ Inherits(v) \/ ClearCockpit(v)
  BY <1>2, PrefersServe
<1>3. CASE \E s \in SpecIds, p \in PolicyIds, ms \in SUBSET ServerIds : SaveSpec(s, p, ms)
  BY <1>3, SaveServes
<1>4. CASE \E s \in SpecIds : DeleteSpec(s)
  BY <1>4, DeleteServes
<1>5. CASE \/ \E v \in Verbs, m \in ServerIds, a \in Audiences : ServerLooks(v, m, a)
           \/ \E v \in Verbs : SaveServer(v)
  <2>1. UNCHANGED <<specs, default, cockpit>>
    BY <1>5 DEF ServerLooks, SaveServer, catalog
  <2>2. PICK v \in Verbs : verb[v].pc \in {"idle", "save"} /\ \A u \in Verbs \ {v} : verb'[u] = verb[u]
    BY <1>5, InvFacts DEF ServerLooks, SaveServer, Vacant
  <2> QED
    BY <2>1, <2>2, ServedFrame DEF CockpitStep
<1>6. CASE \/ \E p \in PolicyIds : SavePolicy(p) \/ DeletePolicy(p)
           \/ \E m \in ServerIds : DeleteServer(m)
           \/ \E p \in Projects, s \in Pref : SetOverride(p, s)
           \/ RunTurns \/ UNCHANGED specVars
  <2>1. UNCHANGED <<specs, default, cockpit, verb>>
    BY <1>6, RunsKeep DEF SavePolicy, DeletePolicy, DeleteServer, SetOverride, specVars, catalog
  <2> QED
    BY <2>1, ServedFrame DEF CockpitStep
<1> QED
  BY <1>1, <1>2, <1>3, <1>4, <1>5, <1>6 DEF SpecNext, RunTurns

(* However preferences are set and cleared, specs saved and deleted and the      *)
(* process started again, by any number of requests at once, the cockpit's spec  *)
(* does not lose `sandboard` but by the deletion of the spec it preferred        *)
(* (set_default_, set_cockpit_, clear_cockpit_sandbox_profile and                *)
(* ensure_cockpit_sandboard_mcp_attach).                                         *)
THEOREM CockpitServedOn == SpecsSpec => CockpitKeepsSandboard
<1>1. SpecInit(SpecMixes) => PreferredServed
  BY DEF SpecInit, PreferredServed
<1>2. CatalogInv /\ PreferredServed /\ [SpecNext]_specVars => PreferredServed'
  BY CockpitNext DEF CockpitStep
<1>3. CatalogInv /\ PreferredServed /\ [SpecNext]_specVars =>
        [CockpitServed => CockpitServed' \/ cockpit \in DOMAIN specs \ DOMAIN specs']_specVars
  BY CockpitNext DEF CockpitStep
<1> QED
  BY <1>1, <1>2, <1>3, CatalogHolds, PTL DEF SpecsSpec, CockpitKeepsSandboard

-------------------------------------------------------------------------------
(* GithubTokens: the types. *)

Late(j) == IF j.old THEN 1 ELSE 0
Writing == {"read", "write"}
Carries(j) == j.pc \in {"push", "put", "cache"} \/ (j.pc \in Writing /\ j.then \in {"push", "cache"})
ToList(j) == j.pc = "lists" \/ (j.pc \in Writing /\ j.then = "lists")
Mints(j) == j.pc = "mint" \/ (j.pc \in Writing /\ j.then = "mint")
Wants(j) == Carries(j) \/ ToList(j) \/ Mints(j)

(* Who may be where, *)
Places(a) ==
  CASE a = "loop" -> {"idle", "walk", "land", "spoil"}
    [] a = "host" -> {"idle", "read", "write", "mint", "cache", "use"}
    [] a = "sweeper" -> {"idle", "ensure", "read", "write", "lists", "mint", "push", "put", "cache"}
    [] a = "request" ->
         {"idle", "ensure", "read", "write", "lists", "mint", "push", "put", "cache", "reset"}
    [] OTHER -> JobPc \ {"use", "reset"}
Thens(a) ==
  CASE a = "host" -> {"cache"}
    [] a = "request" -> {"mint", "lists", "push", "reset"}
    [] OTHER -> {"mint", "lists", "push"}

(* and with what in hand: *)
Placed(a, j) ==
  /\ j.pc \in Places(a)
  /\ j.pc \in Writing => j.then \in Thens(a)
  /\ Wants(j) => j.inst \in Insts /\ j.edit = "tok"
  /\ Carries(j) => j.tok \in Tokens
  /\ j.pc \in Writing /\ j.then \in {"mint", "lists"} => j.tok = NoTok
  /\ j.pc = "apply" => j.own
  /\ j.pc \in {"route", "walk", "land", "spoil", "again"} => ~j.own
  /\ j.own => j.to \in Insts
  /\ a # "run" => ~j.own /\ j.to = NoInst
  /\ j.pc # "idle" => a \in tmix.actors
  /\ j.pc = "idle" => ~j.own /\ j.to = NoInst /\ j.copy = 0

(* no token outlives one minted now, whoever looks for the gateway's token copied an *)
(* expiry that was not near, and a run with a provider of its own has just made it.  *)
Minted(t) == t.exp <= now + Life
Dated(j) ==
  /\ Minted(j.tok) /\ Minted(j.row.tok) /\ j.copy <= now + Life
  /\ ToList(j) => j.copy + Late(j) > now + Skew
OwnToken(j) ==
  j.own /\ j.pc # "apply" => routed[j.to].exp + Late(j) >= now + Life /\ routed[j.to].inst = j.to

TokenInv ==
  /\ TokenTypeOK
  /\ \A a \in Actors : Placed(a, tjob[a]) /\ Dated(tjob[a]) /\ OwnToken(tjob[a])
  /\ Minted(row.tok) /\ Minted(tgate) /\ cache <= now + Life
  /\ mishaps \in [{"moves", "fails", "restarts", "loses"} -> Nat]

(* The start is of these types. *)
LEMMA TokenStarts ==
  ASSUME TokenInit(TokenMixes)
  PROVE  TokenInv
<1>1. NoErrand \in Jobs /\ NoErrand.pc = "idle" /\ ~NoErrand.own
  BY TokenAssumption DEF NoErrand, Jobs, JobPc, Edits, SomeInst, AnyTok, NoTok, TokenRows, NoRow
<1>2. row \in TokenRows /\ row.tok = NoTok
  BY TokenAssumption DEF TokenInit, TokenMix, TokenRows, AnyTok, SomeInst
<1>3. covers \in SomeInst /\ tmix \in TokenMix
  BY TokenAssumption DEF TokenInit, TokenMix
<1>4. \A a \in Actors : tjob[a] = NoErrand
  BY DEF TokenInit
<1>5. TokenTypeOK
  BY <1>1, <1>2, <1>3, TokenAssumption DEF TokenInit, TokenTypeOK, AnyTok, NoTok, SomeInst
<1>6. \A a \in Actors : Placed(a, NoErrand) /\ Dated(NoErrand) /\ OwnToken(NoErrand)
  BY <1>1, TokenAssumption DEF TokenInit, Placed, Places, Dated, OwnToken, Minted, Wants, Carries,
     ToList, Mints, Writing, JobPc, NoErrand, NoTok, NoRow, Actors
<1> QED
  BY <1>2, <1>4, <1>5, <1>6, TokenAssumption DEF TokenInit, TokenInv, Minted, NoTok

(* One actor goes on. *)
LEMMA Errand ==
  ASSUME TokenInv, NEW a \in Actors, NEW q \in Jobs,
         tjob' = [tjob EXCEPT ![a] = q], Placed(a, q), Dated(q), OwnToken(q)',
         now' = now, tmix' = tmix,
         a = "run" \/ routed' = routed,
         row' \in TokenRows, Minted(row'.tok), cache' \in 0 .. MaxTime + Life, cache' <= now + Life,
         tgate' \in AnyTok, Minted(tgate'), routed' \in [Insts -> AnyTok],
         access' \in SomeInst, covers' \in SomeInst,
         mishaps' = mishaps \/ \E what \in {"moves", "fails", "restarts", "loses"} : Befalls(what)
  PROVE  TokenInv'
<1>1. \A b \in Actors : b # a => tjob'[b] = tjob[b]
  BY DEF TokenInv, TokenTypeOK
<1>2. tjob'[a] = q
  BY DEF TokenInv, TokenTypeOK
<1>3. mishaps' \in [{"moves", "fails", "restarts", "loses"} -> Nat]
  BY DEF TokenInv, Befalls
<1>4. TokenTypeOK'
  BY DEF TokenInv, TokenTypeOK
<1>5. ASSUME NEW b \in Actors PROVE (Placed(b, tjob[b]) /\ Dated(tjob[b]) /\ OwnToken(tjob[b]))'
  <2>1. CASE b = a
    BY <2>1, <1>2 DEF Dated, Minted, Placed
  <2>2. CASE b # a
    <3>1. tjob'[b] = tjob[b] /\ Placed(b, tjob[b]) /\ Dated(tjob[b]) /\ OwnToken(tjob[b])
      BY <1>1, <2>2 DEF TokenInv
    <3>2. tjob[b].own => routed' = routed
      BY <2>2, <3>1 DEF Placed
    <3> QED
      BY <3>1, <3>2 DEF Dated, Minted, Placed, OwnToken
  <2> QED
    BY <2>1, <2>2
<1> QED
  BY <1>3, <1>4, <1>5 DEF TokenInv, Minted

(* What is known of one actor. *)
LEMMA JobFacts ==
  ASSUME TokenInv, NEW a \in Actors
  PROVE  tjob[a] \in Jobs /\ Placed(a, tjob[a]) /\ Dated(tjob[a]) /\ OwnToken(tjob[a])
  BY DEF TokenInv, TokenTypeOK

(* An idle actor claims nothing. *)
LEMMA Blank ==
  ASSUME TokenInv, NEW a \in Actors
  PROVE  NoErrand \in Jobs /\ Placed(a, NoErrand) /\ Dated(NoErrand) /\ OwnToken(NoErrand)
<1>1. now \in Nat
  BY TokenAssumption DEF TokenInv, TokenTypeOK
<1> QED
  BY <1>1, TokenAssumption DEF NoErrand, Jobs, JobPc, Edits, SomeInst, AnyTok, NoTok, TokenRows,
     NoRow, Placed, Places, Dated, OwnToken, Minted, Wants, Carries, ToList, Mints, Writing,
     Actors

(* Nothing but the actor's place changes. *)
LEMMA TokenMoves ==
  ASSUME TokenInv, NEW a \in Actors, NEW q \in Jobs,
         tjob' = [tjob EXCEPT ![a] = q], Placed(a, q), Dated(q), OwnToken(q),
         UNCHANGED <<row, cache, tgate, routed, access, covers, now, tmix>>,
         mishaps' = mishaps \/ \E what \in {"moves", "fails", "restarts", "loses"} : Befalls(what)
  PROVE  TokenInv'
<1>1. OwnToken(q)'
  BY DEF OwnToken
<1>2. TokenTypeOK /\ Minted(row.tok) /\ Minted(tgate) /\ cache <= now + Life
  BY DEF TokenInv
<1>3. /\ row' \in TokenRows /\ cache' \in 0 .. MaxTime + Life /\ tgate' \in AnyTok
      /\ routed' \in [Insts -> AnyTok] /\ access' \in SomeInst /\ covers' \in SomeInst
  BY <1>2 DEF TokenTypeOK
<1>4. Minted(row'.tok) /\ Minted(tgate') /\ cache' <= now + Life
  BY <1>2 DEF Minted
<1> QED
  BY <1>1, <1>3, <1>4, Errand

(* An actor that gives up or is done. *)
LEMMA Leaving ==
  ASSUME TokenInv, NEW a \in Actors, Leaves(a),
         UNCHANGED <<row, cache, tgate, routed, access, covers, now, tmix>>,
         mishaps' = mishaps \/ \E what \in {"moves", "fails", "restarts", "loses"} : Befalls(what)
  PROVE  TokenInv'
  BY Blank, TokenMoves DEF Leaves, Set

(* Each action keeps TokenInv: what begins, *)
LEMMA BeginSteps ==
  ASSUME TokenInv,
         \/ Sweeps \/ RunBegins \/ LoopBegins \/ HostBegins \/ HostUses
         \/ \E e \in Edits, i \in SomeInst : Request(e, i)
  PROVE  TokenInv'
<1>1. /\ now \in Nat /\ cache \in Nat /\ row \in TokenRows /\ Minted(row.tok) /\ cache <= now + Life
      /\ cache \in 0 .. MaxTime + Life
  BY TokenAssumption DEF TokenInv, TokenTypeOK
<1>2. CASE Sweeps \/ RunBegins \/ LoopBegins
  <2>1. PICK a \in {"sweeper", "run", "loop"} :
          \E p \in {"ensure", "route", "walk"} :
            /\ Set(a, [NoErrand EXCEPT !.pc = p]) /\ (a = "loop" <=> p = "walk")
            /\ p = "route" => a = "run"
            /\ a \in tmix.actors
    BY <1>2 DEF Sweeps, RunBegins, LoopBegins, Enters
  <2>2. PICK p \in {"ensure", "route", "walk"} :
          /\ tjob' = [tjob EXCEPT ![a] = [NoErrand EXCEPT !.pc = p]] /\ (a = "loop" <=> p = "walk")
          /\ p = "route" => a = "run"
          /\ a \in tmix.actors
    BY <2>1 DEF Set
  <2>3. a \in Actors
    BY DEF Actors
  <2> DEFINE q == [NoErrand EXCEPT !.pc = p]
  <2>4. q \in Jobs /\ ~q.own /\ q.pc = p /\ q.tok = NoTok /\ q.row = NoRow /\ q.copy = 0 /\ q.to = NoInst
    BY <2>3, Blank DEF Jobs, JobPc, NoErrand
  <2>5. Placed(a, q) /\ Dated(q) /\ OwnToken(q)
    BY <1>1, <2>2, <2>4, TokenAssumption DEF Placed, Places, Dated, OwnToken, Minted, Wants,
       Carries, ToList, Mints, Writing, JobPc, NoTok, NoRow
  <2>6. UNCHANGED <<row, cache, tgate, routed, access, covers, now, mishaps, tmix>>
    BY <1>2 DEF Sweeps, RunBegins, LoopBegins
  <2> QED
    BY <2>2, <2>3, <2>4, <2>5, <2>6, TokenMoves
<1>3. ASSUME NEW e \in Edits, NEW i \in SomeInst, Request(e, i) PROVE TokenInv'
  <2> DEFINE q == [NoErrand EXCEPT !.pc = IF e = "sync" THEN "reset" ELSE "read",
                                  !.then = "reset", !.edit = e, !.inst = i]
  <2>1. "request" \in Actors
    BY DEF Actors
  <2>2. /\ q \in Jobs /\ ~q.own /\ q.pc \in {"reset", "read"} /\ q.then = "reset" /\ q.tok = NoTok
        /\ q.row = NoRow /\ q.copy = 0 /\ q.to = NoInst
    BY <2>1, Blank DEF Jobs, JobPc, NoErrand
  <2>4. "request" \in tmix.actors
    BY <1>3 DEF Request
  <2> HIDE DEF q
  <2>3. Placed("request", q) /\ Dated(q) /\ OwnToken(q)
    BY <1>1, <2>2, <2>4, TokenAssumption DEF Placed, Places, Thens, Dated, OwnToken, Minted,
       Wants, Carries, ToList, Mints, Writing, JobPc, NoTok, NoRow
  <2> QED
    BY <1>3, <2>1, <2>2, <2>3, TokenMoves DEF Request, Set, q
<1>4. CASE HostBegins
  <2> DEFINE q == [NoErrand EXCEPT !.copy = cache, !.inst = row.inst,
                    !.pc = IF ~NeedsMint(cache) /\ row.tok # NoTok THEN "use" ELSE "mint",
                    !.tok = IF ~NeedsMint(cache) THEN row.tok ELSE NoTok]
  <2>1. "host" \in Actors
    BY DEF Actors
  <2>2. row.inst \in SomeInst /\ row.tok \in AnyTok /\ NoTok \in AnyTok
    BY <1>1 DEF TokenRows, AnyTok
  <2>3. /\ q \in Jobs /\ ~q.own /\ q.pc \in {"use", "mint"} /\ q.tok \in {NoTok, row.tok}
        /\ q.row = NoRow /\ q.copy = cache /\ q.inst = row.inst /\ q.edit = "tok"
        /\ q.to = NoInst
    BY <1>1, <2>1, <2>2, Blank DEF Jobs, JobPc, NoErrand
  <2>4. row.inst \in Insts
    BY <1>4, <2>2 DEF HostBegins, Configured, SomeInst
  <2>5. Placed("host", q) /\ Dated(q) /\ OwnToken(q)
    BY <1>1, <1>4, <2>3, <2>4, TokenAssumption DEF HostBegins, Placed, Places, Thens, Dated,
       OwnToken, Minted, Wants, Carries, ToList, Mints, Writing, JobPc, NoTok, NoRow
  <2> HIDE DEF q
  <2> QED
    BY <1>4, <2>1, <2>3, <2>5, TokenMoves DEF HostBegins, Set, q
<1>5. CASE HostUses
  <2>1. "host" \in Actors
    BY DEF Actors
  <2> QED
    BY <1>5, <2>1, Leaving DEF HostUses
<1> QED
  BY <1>2, <1>3, <1>4, <1>5

(* What of TokenInv the arithmetic needs. *)
LEMMA TokenNumbers ==
  ASSUME TokenInv
  PROVE  /\ now \in Nat /\ now <= MaxTime /\ cache \in 0 .. MaxTime + Life /\ cache <= now + Life
         /\ row \in TokenRows /\ row.inst \in SomeInst /\ row.tok \in AnyTok /\ row.tok.exp \in Nat
         /\ Minted(row.tok) /\ Minted(tgate) /\ tgate \in AnyTok /\ tgate.exp \in Nat
         /\ routed \in [Insts -> AnyTok] /\ access \in SomeInst /\ covers \in SomeInst /\ NoTok \in AnyTok
         /\ \A t \in AnyTok : t.exp \in Nat /\ (t # NoTok => t.exp > 0)
<1>1. \A t \in AnyTok : t.exp \in Nat /\ (t # NoTok => t.exp > 0)
  BY TokenAssumption DEF AnyTok, Tokens, NoTok
<1> QED
  BY <1>1, TokenAssumption DEF TokenInv, TokenTypeOK, TokenRows, AnyTok

(* What an actor asks for, it asks for with the installation the row named. *)
LEMMA Settling ==
  ASSUME TokenInv, NEW a \in Actors, NEW ok \in BOOLEAN, Settled(a, ok),
         ~(tjob[a].own /\ tjob[a].pc = "apply"), tjob[a].pc # "idle",
         UNCHANGED <<row, tgate, routed, access, covers, now, tmix>>,
         cache' \in 0 .. MaxTime + Life, cache' <= now + Life,
         mishaps' = mishaps \/ \E what \in {"moves", "fails", "restarts", "loses"} : Befalls(what)
  PROVE  TokenInv'
<1>1. PICK j \in Jobs : j = tjob[a] /\ Placed(a, j) /\ Dated(j) /\ OwnToken(j)
  BY JobFacts
<1> DEFINE q == IF a = "run" THEN [j EXCEPT !.pc = "create", !.ok = ok] ELSE NoErrand
<1>2. tjob' = [tjob EXCEPT ![a] = q]
  BY <1>1 DEF Settled, Leaves, Set
<1>3. q \in Jobs /\ Placed(a, q) /\ Dated(q) /\ OwnToken(q)
  <2>1. CASE a = "run"
    <3>1. q \in Jobs /\ q = [j EXCEPT !.pc = "create", !.ok = ok]
      BY <2>1 DEF Jobs, JobPc
    <3>2. /\ q.pc = "create" /\ q.own = j.own /\ q.to = j.to /\ q.tok = j.tok /\ q.row = j.row
          /\ q.copy = j.copy /\ q.old = j.old
      BY <3>1 DEF Jobs
    <3> QED
      BY <1>1, <2>1, <3>1, <3>2, TokenAssumption DEF Placed, Places, Dated, OwnToken, Minted,
         Wants, Carries, ToList, Mints, Writing, JobPc, Late
  <2>2. CASE a # "run"
    BY <2>2, Blank
  <2> QED
    BY <2>1, <2>2
<1>4. OwnToken(q)'
  BY <1>3 DEF OwnToken
<1>5. Minted(row.tok)' /\ Minted(tgate)'
  BY TokenNumbers DEF Minted
<1> HIDE DEF q
<1> QED
  BY <1>2, <1>3, <1>4, <1>5, TokenNumbers, Errand

(* ensure_github_provider up to the write of the row, *)
LEMMA EnsureSteps ==
  ASSUME TokenInv, NEW a \in Actors, Ensure(a) \/ RowRead(a)
  PROVE  TokenInv'
<1>1. PICK j \in Jobs : j = tjob[a] /\ Placed(a, j) /\ Dated(j) /\ OwnToken(j)
  BY JobFacts
<1>2. CASE Ensure(a) /\ ~Configured
  BY <1>2, TokenNumbers, Settling DEF Ensure, Stands
<1>3. CASE Ensure(a) /\ Configured
  <2> DEFINE q == [j EXCEPT !.copy = cache, !.inst = row.inst, !.edit = "tok", !.tok = NoTok,
                    !.pc = "read", !.then = IF NeedsMint(cache) THEN "mint" ELSE "lists"]
  <2>1. j.pc = "ensure" /\ tjob' = [tjob EXCEPT ![a] = q]
    BY <1>1, <1>3 DEF Ensure, Stands, Set
  <2>2. q \in Jobs
    BY TokenNumbers DEF Jobs, JobPc, Edits
  <2>3. /\ q.pc = "read" /\ q.then \in {"mint", "lists"}
        /\ q.then = "lists" => cache > now + Skew
        /\ q.copy = cache /\ q.inst = row.inst
        /\ q.edit = "tok" /\ q.tok = NoTok /\ q.own = j.own /\ q.to = j.to /\ q.row = j.row
        /\ q.old = j.old
    BY TokenNumbers, TokenAssumption DEF Jobs, NeedsMint
  <2>4. q.inst \in Insts
    BY <1>3, <2>3, TokenNumbers DEF Configured, SomeInst
  <2>5. Late(j) \in Nat /\ NoTok.exp = 0
    BY DEF Late, NoTok
  <2>6. Placed(a, q) /\ Dated(q) /\ OwnToken(q)
    BY <1>1, <2>1, <2>3, <2>4, <2>5, TokenNumbers, TokenAssumption DEF Placed, Places, Thens, Dated,
       OwnToken, Minted, Wants, Carries, ToList, Mints, Writing, JobPc, Late, Actors
  <2>7. UNCHANGED <<row, cache, tgate, routed, access, covers, now, mishaps, tmix>>
    BY <1>3 DEF Ensure
  <2> HIDE DEF q
  <2> QED
    BY <2>1, <2>2, <2>6, <2>7, TokenMoves
<1>4. CASE RowRead(a)
  <2> DEFINE q == [j EXCEPT !.row = row, !.pc = "write"]
  <2>1. j.pc = "read" /\ tjob' = [tjob EXCEPT ![a] = q]
    BY <1>1, <1>4 DEF RowRead, Stands, Set
  <2>2. q \in Jobs
    BY TokenNumbers DEF Jobs, JobPc
  <2>3. /\ q.pc = "write" /\ q.then = j.then /\ q.copy = j.copy /\ q.inst = j.inst
        /\ q.edit = j.edit /\ q.tok = j.tok /\ q.own = j.own /\ q.to = j.to /\ q.row = row
        /\ q.old = j.old
    BY DEF Jobs
  <2>4. Placed(a, q) /\ Dated(q) /\ OwnToken(q)
    BY <1>1, <2>1, <2>3, TokenNumbers, TokenAssumption DEF Placed, Places, Thens, Dated, OwnToken,
       Minted, Wants, Carries, ToList, Mints, Writing, JobPc, Late, Actors
  <2>5. UNCHANGED <<row, cache, tgate, routed, access, covers, now, mishaps, tmix>>
    BY <1>4 DEF RowRead
  <2> HIDE DEF q
  <2> QED
    BY <2>1, <2>2, <2>4, <2>5, TokenMoves
<1> QED
  BY <1>2, <1>3, <1>4

(* the write, *)
LEMMA WriteSteps ==
  ASSUME TokenInv, NEW a \in Actors, RowWrite(a)
  PROVE  TokenInv'
<1>1. PICK j \in Jobs : j = tjob[a] /\ Placed(a, j) /\ Dated(j) /\ OwnToken(j)
  BY JobFacts
<1> DEFINE q == [j EXCEPT !.pc = j.then, !.then = "idle", !.row = NoRow]
<1>2. j.pc = "write" /\ tjob' = [tjob EXCEPT ![a] = q] /\ row' = EditedRow(j)
  BY <1>1 DEF RowWrite, Stands, Set
<1>3. NoRow \in TokenRows /\ NoRow.tok.exp = 0 /\ j.row \in TokenRows /\ j.tok \in AnyTok /\ j.inst \in SomeInst
  BY TokenNumbers DEF NoRow, TokenRows, SomeInst, Jobs, NoTok
<1>4. q \in Jobs
  BY <1>3 DEF Jobs, JobPc
<1>5. /\ q.pc = j.then /\ q.copy = j.copy /\ q.inst = j.inst
      /\ q.edit = j.edit /\ q.tok = j.tok /\ q.own = j.own /\ q.to = j.to /\ q.row = NoRow
      /\ q.old = j.old
  BY DEF Jobs
<1>6. Placed(a, q) /\ Dated(q) /\ OwnToken(q)
  BY <1>1, <1>2, <1>3, <1>5, TokenNumbers, TokenAssumption DEF Placed, Places, Thens, Dated, OwnToken,
     Minted, Wants, Carries, ToList, Mints, Writing, JobPc, Late, Actors
<1>7. row' \in TokenRows /\ Minted(row'.tok)
  <2>1. CASE j.edit = "tok" /\ j.tok # NoTok
    <3>1. row' = [j.row EXCEPT !.tok = j.tok]
      BY <1>2, <2>1 DEF EditedRow
    <3> QED
      BY <1>1, <1>3, <3>1 DEF TokenRows, Dated
  <2>2. CASE j.edit = "inst"
    <3>1. row' = [j.row EXCEPT !.inst = j.inst]
      BY <1>2, <2>2 DEF EditedRow
    <3>2. row'.tok = j.row.tok
      BY <1>3, <3>1 DEF TokenRows
    <3> QED
      BY <1>1, <1>3, <3>1, <3>2 DEF TokenRows, Dated
  <2>3. CASE j.edit = "app"
    <3>1. row' = [j.row EXCEPT !.app = TRUE]
      BY <1>2, <2>3 DEF EditedRow
    <3>2. row'.tok = j.row.tok
      BY <1>3, <3>1 DEF TokenRows
    <3> QED
      BY <1>1, <1>3, <3>1, <3>2 DEF TokenRows, Dated
  <2>4. CASE row' \in {j.row, NoRow}
    BY <1>1, <1>3, <2>4, TokenNumbers, TokenAssumption DEF Dated, Minted
  <2> QED
    BY <1>2, <2>1, <2>2, <2>3, <2>4 DEF EditedRow
<1>8. OwnToken(q)' /\ Minted(tgate)'
  BY <1>6, TokenNumbers DEF RowWrite, OwnToken, Minted
<1>9. UNCHANGED <<cache, tgate, routed, access, covers, now, mishaps, tmix>>
  BY DEF RowWrite
<1> HIDE DEF q
<1> QED
  BY <1>2, <1>4, <1>6, <1>7, <1>8, <1>9, TokenNumbers, Errand

(* the look at the gateway, *)
LEMMA ListSteps ==
  ASSUME TokenInv, NEW a \in Actors, Lists(a)
  PROVE  TokenInv'
<1>1. PICK j \in Jobs : j = tjob[a] /\ Placed(a, j) /\ Dated(j) /\ OwnToken(j)
  BY JobFacts
<1>2. j.pc = "lists" /\ UNCHANGED <<row, cache, tgate, routed, access, covers, now, tmix>>
  BY <1>1 DEF Lists, Stands
<1>3. CASE GoesWrong(a)
  BY <1>2, <1>3, Leaving DEF GoesWrong
<1>4. CASE GoesWell /\ Settled(a, TRUE)
  BY <1>1, <1>2, <1>4, TokenNumbers, Settling DEF GoesWell
<1>5. CASE GoesWell /\ Turns(a, "mint")
  <2> DEFINE q == [j EXCEPT !.pc = "mint"]
  <2>1. tjob' = [tjob EXCEPT ![a] = q] /\ mishaps' = mishaps
    BY <1>1, <1>5 DEF Turns, Set, GoesWell
  <2>2. /\ q \in Jobs /\ q.pc = "mint" /\ q.copy = j.copy /\ q.inst = j.inst /\ q.edit = j.edit
        /\ q.tok = j.tok
        /\ q.own = j.own /\ q.to = j.to /\ q.row = j.row /\ q.old = j.old
    BY DEF Jobs, JobPc
  <2>3. Placed(a, q) /\ Dated(q) /\ OwnToken(q)
    BY <1>1, <1>2, <2>2, TokenNumbers, TokenAssumption DEF Placed, Places, Thens, Dated, OwnToken,
       Minted, Wants, Carries, ToList, Mints, Writing, JobPc, Late, Actors
  <2> HIDE DEF q
  <2> QED
    BY <1>2, <2>1, <2>2, <2>3, TokenMoves
<1>6. CASE /\ GoesWell /\ row.tok # NoTok
           /\ Set(a, [tjob[a] EXCEPT !.tok = row.tok, !.repair = TRUE, !.pc = "read", !.then = "push"])
  <2> DEFINE q == [j EXCEPT !.tok = row.tok, !.repair = TRUE, !.pc = "read", !.then = "push"]
  <2>1. tjob' = [tjob EXCEPT ![a] = q] /\ mishaps' = mishaps
    BY <1>1, <1>6 DEF Set, GoesWell
  <2>2. /\ q \in Jobs /\ q.pc = "read" /\ q.then = "push" /\ q.copy = j.copy /\ q.inst = j.inst
        /\ q.tok = row.tok
        /\ q.own = j.own /\ q.to = j.to /\ q.row = j.row /\ q.old = j.old /\ q.edit = j.edit
    BY TokenNumbers DEF Jobs, JobPc
  <2>3. row.tok \in Tokens
    BY <1>6, TokenNumbers DEF AnyTok
  <2>4. j.edit = "tok"
    BY <1>1, <1>2 DEF Placed, Wants, ToList
  <2>5. Placed(a, q) /\ Dated(q) /\ OwnToken(q)
    BY <1>1, <1>2, <2>2, <2>3, <2>4, TokenNumbers, TokenAssumption DEF Placed, Places, Thens, Dated,
       OwnToken, Minted, Wants, Carries, ToList, Mints, Writing, JobPc, Late, Actors
  <2> HIDE DEF q
  <2> QED
    BY <1>2, <2>1, <2>2, <2>5, TokenMoves
<1> QED
  BY <1>3, <1>4, <1>5, <1>6 DEF Lists

(* the mint, *)
LEMMA MintSteps ==
  ASSUME TokenInv, NEW a \in Actors, Mint(a)
  PROVE  TokenInv'
<1>1. PICK j \in Jobs : j = tjob[a] /\ Placed(a, j) /\ Dated(j) /\ OwnToken(j)
  BY JobFacts
<1>2. j.pc = "mint" /\ UNCHANGED <<row, tgate, routed, access, covers, now, tmix>>
  BY <1>1 DEF Mint, Stands
<1>3. Minted(row'.tok) /\ Minted(tgate')
  BY <1>2, TokenNumbers
<1>4. CASE GoesWrong(a) /\ cache' = tjob[a].copy
  <2>1. tjob' = [tjob EXCEPT ![a] = NoErrand] /\ Befalls("fails")
    BY <1>4 DEF GoesWrong, Leaves, Set
  <2>2. cache' \in 0 .. MaxTime + Life /\ cache' <= now + Life
    BY <1>1, <1>4 DEF Jobs, Dated
  <2>3. OwnToken(NoErrand)'
    BY DEF OwnToken, NoErrand
  <2> QED
    BY <1>2, <1>3, <2>1, <2>2, <2>3, Blank, TokenNumbers, Errand
<1>5. CASE ~(GoesWrong(a) /\ cache' = tjob[a].copy)
  <2> DEFINE q == [j EXCEPT !.tok = [inst |-> j.inst, exp |-> now + Life], !.copy = 0,
                     !.pc = "read", !.then = IF a = "host" THEN "cache" ELSE "push"]
  <2>1. tjob' = [tjob EXCEPT ![a] = q] /\ mishaps' = mishaps /\ cache' = cache
    BY <1>1, <1>5 DEF Mint, Set, GoesWell
  <2>2. j.inst \in Insts /\ j.edit = "tok"
    BY <1>1, <1>2 DEF Placed, Wants, Mints
  <2> DEFINE t == [inst |-> j.inst, exp |-> now + Life]
  <2>3. t \in Tokens /\ t.exp = now + Life
    BY <2>2, TokenNumbers, TokenAssumption DEF Tokens
  <2>6. q = [j EXCEPT !.tok = t, !.copy = 0, !.pc = "read", !.then = IF a = "host" THEN "cache" ELSE "push"]
    OBVIOUS
  <2>7. t \in AnyTok /\ 0 \in 0 .. MaxTime + Life
    BY <2>3, TokenAssumption DEF AnyTok
  <2> HIDE DEF t, q
  <2>4. /\ q \in Jobs /\ q.pc = "read" /\ q.then = (IF a = "host" THEN "cache" ELSE "push") /\ q.copy = 0
        /\ q.inst = j.inst /\ q.tok = t /\ q.edit = j.edit
        /\ q.own = j.own /\ q.to = j.to /\ q.row = j.row /\ q.old = j.old
    BY <2>6, <2>7 DEF Jobs, JobPc
  <2>5. Placed(a, q) /\ Dated(q) /\ OwnToken(q)
    BY <1>1, <1>2, <2>2, <2>3, <2>4, TokenNumbers, TokenAssumption DEF Placed, Places, Thens, Dated,
       OwnToken, Minted, Wants, Carries, ToList, Mints, Writing, JobPc, Late, Actors
  <2> QED
    BY <1>2, <2>1, <2>4, <2>5, TokenMoves
<1> QED
  BY <1>4, <1>5

(* the push, *)
LEMMA PushSteps ==
  ASSUME TokenInv, NEW a \in Actors, PushLooks(a) \/ Puts(a)
  PROVE  TokenInv'
<1>1. PICK j \in Jobs : j = tjob[a] /\ Placed(a, j) /\ Dated(j) /\ OwnToken(j)
  BY JobFacts
<1>2. j.pc \in {"push", "put"} /\ UNCHANGED <<row, cache, routed, access, covers, now, tmix>>
  BY <1>1 DEF PushLooks, Puts, Stands
<1>3. j.tok \in AnyTok /\ Minted(j.tok)
  BY <1>1, <1>2 DEF Placed, Carries, AnyTok, Dated
<1>4. CASE PushLooks(a)
  <2>1. CASE GoesWrong(a)
    BY <1>2, <1>4, <2>1, Leaving DEF GoesWrong, PushLooks
  <2>2. CASE GoesWell
    <3> DEFINE q == [j EXCEPT !.exists = (tgate # NoTok), !.pc = "put"]
    <3>1. tjob' = [tjob EXCEPT ![a] = q] /\ mishaps' = mishaps /\ tgate' = tgate /\ j.pc = "push"
      BY <1>1, <1>4, <2>2 DEF PushLooks, Set, GoesWell, GoesWrong, Befalls, Leaves, TokenInv, Stands
    <3>2. /\ q \in Jobs /\ q.pc = "put" /\ q.copy = j.copy /\ q.inst = j.inst /\ q.tok = j.tok
          /\ q.edit = j.edit
          /\ q.own = j.own /\ q.to = j.to /\ q.row = j.row /\ q.old = j.old
      BY DEF Jobs, JobPc
    <3>3. Placed(a, q) /\ Dated(q) /\ OwnToken(q)
      BY <1>1, <3>1, <3>2, TokenNumbers, TokenAssumption DEF Placed, Places, Thens, Dated, OwnToken,
         Minted, Wants, Carries, ToList, Mints, Writing, JobPc, Late, Actors
    <3> HIDE DEF q
    <3> QED
      BY <1>2, <3>1, <3>2, <3>3, TokenMoves
  <2> QED
    BY <1>4, <2>1, <2>2 DEF PushLooks
<1>5. CASE Puts(a)
  <2>1. /\ tgate' \in {tgate, j.tok}
        /\ mishaps' = mishaps \/ \E what \in {"moves", "fails", "restarts", "loses"} : Befalls(what)
    BY <1>1, <1>5 DEF Puts, GoesWell
  <2>2. tgate' \in AnyTok /\ Minted(tgate') /\ Minted(row'.tok)
    BY <1>2, <1>3, <2>1, TokenNumbers
  <2>3. \E q \in Jobs : tjob' = [tjob EXCEPT ![a] = q] /\ Placed(a, q) /\ Dated(q) /\ OwnToken(q)
    <3>1. CASE Leaves(a)
      BY <3>1, Blank DEF Leaves, Set
    <3>2. CASE Turns(a, "cache")
      <4> DEFINE q == [j EXCEPT !.pc = "cache"]
      <4>1. tjob' = [tjob EXCEPT ![a] = q]
        BY <1>1, <3>2 DEF Turns, Set
      <4>2. /\ q \in Jobs /\ q.pc = "cache" /\ q.copy = j.copy /\ q.inst = j.inst /\ q.tok = j.tok
            /\ q.edit = j.edit
            /\ q.own = j.own /\ q.to = j.to /\ q.row = j.row /\ q.old = j.old
        BY DEF Jobs, JobPc
      <4>3. Placed(a, q) /\ Dated(q) /\ OwnToken(q)
        BY <1>1, <1>2, <4>2, TokenNumbers, TokenAssumption DEF Placed, Places, Thens, Dated, OwnToken,
           Minted, Wants, Carries, ToList, Mints, Writing, JobPc, Late, Actors
      <4> HIDE DEF q
      <4> QED
        BY <4>1, <4>2, <4>3
    <3>3. CASE Settled(a, TRUE) /\ a = "run"
      <4> DEFINE q == [j EXCEPT !.pc = "create", !.ok = TRUE]
      <4>1. tjob' = [tjob EXCEPT ![a] = q]
        BY <1>1, <3>3 DEF Settled, Set
      <4>2. /\ q \in Jobs /\ q.pc = "create" /\ q.copy = j.copy /\ q.inst = j.inst /\ q.tok = j.tok
            /\ q.edit = j.edit
            /\ q.own = j.own /\ q.to = j.to /\ q.row = j.row /\ q.old = j.old
        BY DEF Jobs, JobPc
      <4>3. Placed(a, q) /\ Dated(q) /\ OwnToken(q)
        BY <1>1, <1>2, <3>3, <4>2, TokenNumbers, TokenAssumption DEF Placed, Places, Thens, Dated,
           OwnToken, Minted, Wants, Carries, ToList, Mints, Writing, JobPc, Late, Actors
      <4> HIDE DEF q
      <4> QED
        BY <4>1, <4>2, <4>3
    <3>4. CASE Settled(a, TRUE) /\ a # "run"
      BY <3>4, Blank DEF Settled, Leaves, Set
    <3> QED
      BY <1>5, <3>1, <3>2, <3>3, <3>4 DEF Puts, AfterPush
  <2>4. PICK q \in Jobs : tjob' = [tjob EXCEPT ![a] = q] /\ Placed(a, q) /\ Dated(q) /\ OwnToken(q)
    BY <2>3
  <2>5. OwnToken(q)'
    BY <1>2, <2>4 DEF OwnToken
  <2> QED
    BY <1>2, <2>1, <2>2, <2>4, <2>5, TokenNumbers, Errand
<1> QED
  BY <1>4, <1>5

(* A step that only goes on to a place where nothing is asked of the actor. *)
LEMMA Going ==
  ASSUME TokenInv, NEW a \in Actors, NEW p \in {"ensure", "again", "walk", "use"},
         Turns(a, p),
         p \in Places(a), tjob[a].pc \notin {"apply", "idle"}, p \in {"again", "walk"} => ~tjob[a].own
  PROVE  \E q \in Jobs : tjob' = [tjob EXCEPT ![a] = q] /\ Placed(a, q) /\ Dated(q) /\ OwnToken(q)
<1>1. PICK j \in Jobs : j = tjob[a] /\ Placed(a, j) /\ Dated(j) /\ OwnToken(j)
  BY JobFacts
<1> DEFINE q == [j EXCEPT !.pc = p]
<1>2. tjob' = [tjob EXCEPT ![a] = q]
  BY <1>1 DEF Turns, Set
<1>3. /\ q \in Jobs /\ q.pc = p /\ q.copy = j.copy /\ q.inst = j.inst /\ q.tok = j.tok
      /\ q.own = j.own /\ q.to = j.to /\ q.row = j.row /\ q.old = j.old
  BY DEF Jobs, JobPc
<1>4. Placed(a, q) /\ Dated(q) /\ OwnToken(q)
  BY <1>1, <1>3, TokenNumbers, TokenAssumption DEF Placed, Dated, OwnToken, Minted, Wants, Carries,
     ToList, Mints, Writing, Late
<1> HIDE DEF q
<1> QED
  BY <1>2, <1>3, <1>4

(* the cache, and its reset, *)
LEMMA CacheSteps ==
  ASSUME TokenInv, (\E a \in Actors : Remembers(a)) \/ Reset
  PROVE  TokenInv'
<1>1. UNCHANGED <<row, tgate, routed, access, covers, now, mishaps, tmix>>
  BY DEF Remembers, Reset
<1>2. Minted(row'.tok) /\ Minted(tgate')
  BY <1>1, TokenNumbers
<1>3. ASSUME NEW a \in Actors, Remembers(a) PROVE TokenInv'
  <2>1. PICK j \in Jobs : j = tjob[a] /\ Placed(a, j) /\ Dated(j) /\ OwnToken(j)
    BY JobFacts
  <2>2. j.pc = "cache" /\ cache' = j.tok.exp
    BY <1>3, <2>1 DEF Remembers, Stands
  <2>3. cache' \in 0 .. MaxTime + Life /\ cache' <= now + Life
    BY <2>1, <2>2, TokenAssumption DEF Placed, Carries, Tokens, Dated, Minted
  <2>4. CASE a = "host"
    <3>1. PICK q \in Jobs : tjob' = [tjob EXCEPT ![a] = q] /\ Placed(a, q) /\ Dated(q) /\ OwnToken(q)
      BY <1>3, <2>1, <2>2, <2>4, Going DEF Remembers, Places
    <3>2. OwnToken(q)'
      BY <1>1, <3>1 DEF OwnToken
    <3> QED
      BY <1>1, <1>2, <2>3, <3>1, <3>2, TokenNumbers, Errand
  <2>5. CASE a # "host"
    BY <1>1, <1>3, <2>1, <2>2, <2>3, <2>5, Settling DEF Remembers
  <2> QED
    BY <2>4, <2>5
<1>4. CASE Reset
  <2>1. "request" \in Actors
    BY DEF Actors
  <2>2. cache' \in 0 .. MaxTime + Life /\ cache' <= now + Life
    BY <1>4, TokenNumbers, TokenAssumption DEF Reset
  <2>3. PICK q \in Jobs : /\ tjob' = [tjob EXCEPT !["request"] = q] /\ Placed("request", q)
                          /\ Dated(q) /\ OwnToken(q)
    <3>1. CASE Leaves("request")
      BY <2>1, <3>1, Blank DEF Leaves, Set
    <3>2. CASE Turns("request", "ensure")
      BY <1>4, <2>1, <3>2, Going DEF Places, Reset, Stands
    <3> QED
      BY <1>4, <3>1, <3>2 DEF Reset
  <2>4. OwnToken(q)'
    BY <1>1, <2>3 DEF OwnToken
  <2> QED
    BY <1>1, <1>2, <2>1, <2>2, <2>3, <2>4, TokenNumbers, Errand
<1> QED
  BY <1>3, <1>4

(* the walks over the installations, *)
LEMMA SpecWalkSteps ==
  ASSUME TokenInv, NEW a \in Actors, WalkInstallations(a) \/ Land(a) \/ Spoil(a)
  PROVE  TokenInv'
<1>1. PICK j \in Jobs : j = tjob[a] /\ Placed(a, j) /\ Dated(j) /\ OwnToken(j)
  BY JobFacts
<1>2. j.pc \in {"walk", "land", "spoil"} /\ UNCHANGED <<row, cache, tgate, routed, covers, now, tmix>>
  BY <1>1 DEF WalkInstallations, Land, Spoil, Stands
<1>3. /\ access' \in {access, j.sees}
      /\ mishaps' = mishaps \/ \E what \in {"moves", "fails", "restarts", "loses"} : Befalls(what)
  BY <1>1 DEF WalkInstallations, Land, Spoil, GoesWell
<1>4. PICK q \in Jobs : tjob' = [tjob EXCEPT ![a] = q] /\ Placed(a, q) /\ Dated(q) /\ OwnToken(q)
  <2>1. CASE Leaves(a)
    BY <2>1, Blank DEF Leaves, Set
  <2>2. CASE a = "run" /\ Turns(a, "again")
    BY <1>1, <1>2, <2>2, Going DEF Places, Placed, JobPc
  <2>3. CASE /\ WalkInstallations(a)
             /\ \E p \in {"land", "spoil"}, i \in {covers, access} :
                  Set(a, [tjob[a] EXCEPT !.sees = i, !.pc = p])
    <3>1. PICK p \in {"land", "spoil"} : \E i \in {covers, access} :
            tjob' = [tjob EXCEPT ![a] = [j EXCEPT !.sees = i, !.pc = p]]
      BY <1>1, <2>3 DEF Set
    <3>2. PICK i \in {covers, access} : tjob' = [tjob EXCEPT ![a] = [j EXCEPT !.sees = i, !.pc = p]]
      BY <3>1
    <3> DEFINE q == [j EXCEPT !.sees = i, !.pc = p]
    <3>3. /\ q \in Jobs /\ q.pc = p /\ q.copy = j.copy /\ q.inst = j.inst /\ q.tok = j.tok
          /\ q.own = j.own /\ q.to = j.to /\ q.row = j.row /\ q.old = j.old
      BY TokenNumbers DEF Jobs, JobPc
    <3>4. j.pc = "walk"
      BY <1>1, <2>3 DEF WalkInstallations, Stands
    <3>5. Placed(a, q) /\ Dated(q) /\ OwnToken(q)
      BY <1>1, <3>3, <3>4, TokenNumbers, TokenAssumption DEF Placed, Places, Thens, Dated, OwnToken,
         Minted, Wants, Carries, ToList, Mints, Writing, JobPc, Late, Actors
    <3> HIDE DEF q
    <3> QED
      BY <3>2, <3>3, <3>5 DEF q
  <2> QED
    BY <2>1, <2>2, <2>3 DEF WalkInstallations, Land, Spoil
<1>5. OwnToken(q)'
  BY <1>2, <1>4 DEF OwnToken
<1>6. access' \in SomeInst /\ Minted(row'.tok) /\ Minted(tgate')
  BY <1>2, <1>3, TokenNumbers DEF Jobs
<1> QED
  BY <1>2, <1>3, <1>4, <1>5, <1>6, TokenNumbers, Errand

(* the routing and the sandbox, *)
LEMMA RouteSteps ==
  ASSUME TokenInv, RouteLooks \/ RouteAgain \/ RunParks \/ CreateSandbox \/ CreateRefused
  PROVE  TokenInv'
<1>0. "run" \in Actors
  BY DEF Actors
<1>1. PICK j \in Jobs : j = tjob["run"] /\ Placed("run", j) /\ Dated(j) /\ OwnToken(j)
  BY <1>0, JobFacts
<1>2. UNCHANGED <<row, cache, tgate, routed, access, covers, now, mishaps, tmix>>
  BY DEF RouteLooks, RouteAgain, RunParks, CreateSandbox, CreateRefused
<1>3. CASE Leaves("run")
  BY <1>0, <1>2, <1>3, Leaving
<1>4. CASE RouteLooks /\ access = NoInst
  <2>1. Turns("run", "walk") /\ j.pc = "route"
    BY <1>1, <1>4 DEF RouteLooks, Turns, Stands
  <2>2. PICK q \in Jobs : /\ tjob' = [tjob EXCEPT !["run"] = q] /\ Placed("run", q)
                          /\ Dated(q) /\ OwnToken(q)
    BY <1>0, <1>1, <2>1, Going DEF Places, Placed, JobPc
  <2> QED
    BY <1>0, <1>2, <2>2, TokenMoves
<1>5. CASE (RouteLooks \/ RouteAgain) /\ access # NoInst
  <2>1. /\ Set("run", Routes(j, access)) /\ j.pc \in {"route", "again"}
        /\ access \in Insts
    BY <1>1, <1>5, TokenNumbers DEF RouteLooks, RouteAgain, SomeInst, Stands
  <2>2. CASE access = row.inst
    <3> DEFINE q == [j EXCEPT !.pc = "ensure", !.to = access]
    <3>1. tjob' = [tjob EXCEPT !["run"] = q]
      BY <2>1, <2>2 DEF Routes, Set
    <3>2. /\ q \in Jobs /\ q.pc = "ensure" /\ q.copy = j.copy /\ q.inst = j.inst /\ q.tok = j.tok
          /\ q.own = j.own /\ q.to = access /\ q.row = j.row /\ q.old = j.old
      BY TokenNumbers DEF Jobs, JobPc
    <3>3. ~j.own
      BY <1>1, <2>1 DEF Placed
    <3>4. Placed("run", q) /\ Dated(q) /\ OwnToken(q)
      BY <1>1, <2>1, <3>2, <3>3, TokenNumbers, TokenAssumption DEF Placed, Places, Thens, Dated,
         OwnToken, Minted, Wants, Carries, ToList, Mints, Writing, JobPc, Late, Actors
    <3> HIDE DEF q
    <3> QED
      BY <1>0, <1>2, <3>1, <3>2, <3>4, TokenMoves
  <2>3. CASE access # row.inst
    <3> DEFINE q == [j EXCEPT !.pc = "apply", !.to = access, !.own = TRUE]
    <3>1. tjob' = [tjob EXCEPT !["run"] = q]
      BY <2>1, <2>3 DEF Routes, Set
    <3>2. /\ q \in Jobs /\ q.pc = "apply" /\ q.copy = j.copy /\ q.inst = j.inst /\ q.tok = j.tok
          /\ q.own = TRUE /\ q.to = access /\ q.row = j.row /\ q.old = j.old
      BY TokenNumbers DEF Jobs, JobPc
    <3>4. Placed("run", q) /\ Dated(q) /\ OwnToken(q)
      BY <1>1, <2>1, <3>2, TokenNumbers, TokenAssumption DEF Placed, Places, Thens, Dated, OwnToken,
         Minted, Wants, Carries, ToList, Mints, Writing, JobPc, Late, Actors
    <3> HIDE DEF q
    <3> QED
      BY <1>0, <1>2, <3>1, <3>2, <3>4, TokenMoves
  <2> QED
    BY <2>2, <2>3
<1> QED
  BY <1>3, <1>4, <1>5 DEF RouteLooks, RouteAgain, RunParks, CreateSandbox, CreateRefused

(* the routed token, *)
LEMMA ApplySteps ==
  ASSUME TokenInv, AppliesRouted
  PROVE  TokenInv'
<1>0. "run" \in Actors
  BY DEF Actors
<1>1. PICK j \in Jobs : j = tjob["run"] /\ Placed("run", j) /\ Dated(j) /\ OwnToken(j)
  BY <1>0, JobFacts
<1>2. j.pc = "apply" /\ j.own /\ j.to \in Insts /\ UNCHANGED <<row, cache, tgate, access, covers, now, tmix>>
  BY <1>1 DEF AppliesRouted, Stands, Placed
<1>3. CASE Leaves("run") /\ routed' = routed
  BY <1>0, <1>2, <1>3, Leaving DEF AppliesRouted, GoesWrong, GoesWell
<1>4. CASE ~(Leaves("run") /\ routed' = routed)
  <2> DEFINE t == [inst |-> j.to, exp |-> now + Life]
             q == [j EXCEPT !.pc = "ensure"]
  <2>1. /\ tjob' = [tjob EXCEPT !["run"] = q] /\ mishaps' = mishaps
        /\ routed' = [routed EXCEPT ![j.to] = t]
    BY <1>1, <1>4 DEF AppliesRouted, Turns, Set, GoesWell, GoesWrong
  <2>2. t \in AnyTok /\ t.exp = now + Life /\ t.inst = j.to
    BY <1>2, TokenNumbers, TokenAssumption DEF Tokens, AnyTok
  <2>3. /\ q \in Jobs /\ q.pc = "ensure" /\ q.copy = j.copy /\ q.inst = j.inst /\ q.tok = j.tok
        /\ q.own /\ q.to = j.to /\ q.row = j.row /\ q.old = j.old
    BY <1>2 DEF Jobs, JobPc
  <2> HIDE DEF t, q
  <2>4. Placed("run", q) /\ Dated(q)
    BY <1>1, <1>2, <2>3, TokenNumbers, TokenAssumption DEF Placed, Places, Thens, Dated, OwnToken,
       Minted, Wants, Carries, ToList, Mints, Writing, JobPc, Late, Actors
  <2>5. routed' \in [Insts -> AnyTok] /\ routed'[j.to] = t
    BY <1>2, <2>1, <2>2, TokenNumbers
  <2>6. OwnToken(q)'
    BY <1>2, <2>2, <2>3, <2>5, TokenNumbers, TokenAssumption DEF OwnToken, Late
  <2>7. Minted(row'.tok) /\ Minted(tgate')
    BY <1>2, TokenNumbers
  <2> QED
    BY <1>0, <1>2, <2>1, <2>3, <2>4, <2>5, <2>6, <2>7, TokenNumbers, Errand
<1> QED
  BY <1>3, <1>4

(* and GitHub, the gateway, the process and the clock. *)
LEMMA TokenWorldSteps ==
  ASSUME TokenInv, CoverageMoves \/ GatewayLoses \/ TokenRestart \/ Tick
  PROVE  TokenInv'
<1>1. UNCHANGED <<row, routed, access, tmix>>
  BY DEF CoverageMoves, GatewayLoses, TokenRestart, Tick
<1>2. mishaps' \in [{"moves", "fails", "restarts", "loses"} -> Nat]
  BY DEF TokenInv, Befalls, CoverageMoves, GatewayLoses, TokenRestart, Tick
<1>3. CASE CoverageMoves \/ GatewayLoses
  <2>1. /\ tjob' = tjob /\ now' = now /\ cache' = cache /\ tgate' \in {tgate, NoTok}
        /\ covers' \in SomeInst
    BY <1>3, TokenNumbers DEF CoverageMoves, GatewayLoses
  <2>2. Minted(NoTok)
    BY TokenNumbers, TokenAssumption DEF Minted, NoTok
  <2> QED
    BY <1>1, <1>2, <2>1, <2>2, TokenNumbers DEF TokenInv, TokenTypeOK, Placed, Dated, Minted, OwnToken
<1>4. CASE TokenRestart
  <2>1. /\ tjob' = [a \in Actors |-> NoErrand] /\ now' = now /\ cache' = 0 /\ tgate' = tgate
        /\ covers' = covers
    BY <1>4 DEF TokenRestart
  <2>2. \A a \in Actors : tjob'[a] = NoErrand /\ (Placed(a, NoErrand) /\ Dated(NoErrand) /\ OwnToken(NoErrand))'
    BY <1>1, <2>1, Blank DEF Dated, Minted, OwnToken, Placed
  <2>3. tjob' \in [Actors -> Jobs]
    BY <2>1, Blank DEF Actors
  <2>4. 0 \in 0 .. MaxTime + Life /\ 0 <= now + Life
    BY TokenNumbers, TokenAssumption
  <2> QED
    BY <1>1, <1>2, <2>1, <2>2, <2>3, <2>4, TokenNumbers DEF TokenInv, TokenTypeOK, Minted
<1>5. CASE Tick
  <2>1. /\ now' = now + 1 /\ now < MaxTime /\ UNCHANGED <<cache, tgate, covers>>
        /\ tjob' = [a \in Actors |-> [tjob[a] EXCEPT !.old = Busy(a)]] /\ \A a \in Actors : ~tjob[a].old
    BY <1>5 DEF Tick
  <2>2. ASSUME NEW a \in Actors
        PROVE  tjob'[a] \in Jobs /\ (Placed(a, tjob[a]) /\ Dated(tjob[a]) /\ OwnToken(tjob[a]))'
    <3>1. PICK j \in Jobs : j = tjob[a] /\ Placed(a, j) /\ Dated(j) /\ OwnToken(j)
      BY JobFacts
    <3> DEFINE q == [j EXCEPT !.old = (j.pc # "idle")]
    <3>2. tjob'[a] = q /\ ~j.old
      BY <2>1, <3>1 DEF Busy
    <3>3. /\ q \in Jobs /\ q.pc = j.pc /\ q.copy = j.copy /\ q.inst = j.inst /\ q.tok = j.tok
          /\ q.then = j.then
          /\ q.own = j.own /\ q.to = j.to /\ q.row = j.row /\ q.old = (j.pc # "idle") /\ q.edit = j.edit
      BY DEF Jobs
    <3> HIDE DEF q
    <3>5. Placed(a, q)
      BY <3>1, <3>3 DEF Placed, Wants, Carries, ToList, Mints
    <3>6. /\ j.tok.exp \in Nat /\ j.row.tok.exp \in Nat /\ j.copy \in Nat /\ Late(j) = 0
          /\ (j.pc # "idle" => Late(q) = 1)
      BY <3>2, <3>3, TokenNumbers, TokenAssumption DEF Jobs, TokenRows, Late
    <3>7. j.to \in Insts => routed[j.to].exp \in Nat
      BY TokenNumbers
    <3>9. Dated(q)'
      <4>1. ToList(q) => ToList(j) /\ j.pc # "idle"
        BY <3>3 DEF ToList, Writing
      <4>2. j.copy <= now' + Life /\ Minted(j.tok)' /\ Minted(j.row.tok)'
        BY <2>1, <3>1, <3>6, TokenNumbers, TokenAssumption DEF Dated, Minted
      <4>3. ToList(q) => q.copy + Late(q) > now' + Skew
        BY <2>1, <3>1, <3>3, <3>6, <4>1, TokenNumbers, TokenAssumption DEF Dated
      <4> QED
        BY <3>3, <4>2, <4>3 DEF Dated, Minted
    <3>8. Dated(q)' /\ OwnToken(q)'
      BY <1>1, <2>1, <3>1, <3>3, <3>6, <3>7, <3>9, TokenNumbers, TokenAssumption DEF OwnToken, Placed
    <3> QED
      BY <1>1, <3>2, <3>3, <3>5, <3>8 DEF Placed
  <2>3. tjob' \in [Actors -> Jobs]
    BY <2>1, <2>2
  <2>4. now' \in 0 .. MaxTime
    BY <2>1, TokenNumbers, TokenAssumption
  <2>5. Minted(row.tok)' /\ Minted(tgate)' /\ cache' <= now' + Life
    BY <1>1, <2>1, TokenNumbers, TokenAssumption DEF Minted
  <2> QED
    BY <1>1, <1>2, <2>1, <2>2, <2>3, <2>4, <2>5, TokenNumbers DEF TokenInv, TokenTypeOK
<1> QED
  BY <1>3, <1>4, <1>5

(* TokenInv is inductive. *)
LEMMA TokenKeeps ==
  ASSUME TokenInv, [TokenNext]_tokenVars
  PROVE  TokenInv'
<1>1. CASE UNCHANGED tokenVars
  BY <1>1 DEF tokenVars, TokenInv, TokenTypeOK, Placed, Dated, Minted, OwnToken
<1> QED
  BY <1>1, BeginSteps, EnsureSteps, WriteSteps, ListSteps, MintSteps, PushSteps, CacheSteps,
     SpecWalkSteps, RouteSteps, ApplySteps, TokenWorldSteps DEF TokenNext

(* Row, cache, tokens of the gateway, access cache, actors and clock stay in their types. *)
THEOREM TokenTypes == TokenSpec => []TokenTypeOK
<1>1. TokenInit(TokenMixes) => TokenInv
  BY TokenStarts
<1>2. TokenInv /\ [TokenNext]_tokenVars => TokenInv'
  BY TokenKeeps
<1>3. TokenInv => TokenTypeOK
  BY DEF TokenInv
<1> QED
  BY <1>1, <1>2, <1>3, PTL DEF TokenSpec

-------------------------------------------------------------------------------
(* Whoever overlaps: as long as the host's own calls keep out of the cache and the *)
(* gateway loses nothing, what the cache says is fresh is on the gateway, or newer *)
(* than that by the tick a job may be overtaken by.                                *)
NeverLost == "host" \notin tmix.actors /\ tmix["loses"] = 0
OnGate(c) == c # 0 => tgate # NoTok /\ c <= tgate.exp + 1
Shared(j) ==
  /\ OnGate(j.copy)
  /\ ~j.repair
  /\ Carries(j) => j.tok.exp + Late(j) >= now + Life
  /\ j.pc = "cache" => tgate # NoTok /\ tgate.exp + 1 >= j.tok.exp
  /\ j.pc = "create" /\ j.ok /\ ~j.own => tgate # NoTok /\ tgate.exp + Late(j) >= now + Skew
SharedInv == OnGate(cache) /\ \A a \in Actors : Shared(tjob[a])

(* What happens was settled at the start. *)
LEMMA SpecMixStays ==
  ASSUME [TokenNext]_tokenVars
  PROVE  tmix' = tmix
  BY DEF TokenNext, tokenVars, Sweeps, RunBegins, LoopBegins, HostBegins, HostUses, Request,
     Ensure, RowRead, RowWrite, Lists, Mint, PushLooks, Puts, Remembers, WalkInstallations, Land,
     Spoil, Reset, RouteLooks, RouteAgain, RunParks, AppliesRouted, CreateSandbox, CreateRefused,
     CoverageMoves, GatewayLoses, TokenRestart, Tick

(* One actor goes on; the gateway's token stays or is replaced by one just minted. *)
LEMMA SharedTurn ==
  ASSUME TokenInv, SharedInv, NEW a \in Actors, NEW q \in Jobs,
         tjob' = [tjob EXCEPT ![a] = q], Shared(q)', now' = now, OnGate(cache)',
         tgate' = tgate \/ (tgate' \in Tokens /\ tgate'.exp + 1 >= now + Life)
  PROVE  SharedInv'
<1>1. \A b \in Actors : tjob'[b] = IF b = a THEN q ELSE tjob[b]
  BY DEF TokenInv, TokenTypeOK
<1>2. ASSUME NEW b \in Actors, b # a PROVE Shared(tjob[b])'
  <2>1. PICK j \in Jobs : j = tjob[b] /\ Placed(b, j) /\ Dated(j) /\ Shared(j)
    BY JobFacts DEF SharedInv
  <2>2. j.tok.exp \in Nat /\ j.copy \in Nat /\ Late(j) \in {0, 1} /\ j.tok.exp <= now + Life /\ j.copy <= now + Life
    BY <2>1, TokenNumbers, TokenAssumption DEF Jobs, Late, Dated, Minted
  <2>3. CASE tgate' = tgate
    BY <1>1, <1>2, <2>1, <2>3 DEF Shared, OnGate
  <2>4. CASE tgate' \in Tokens /\ tgate'.exp + 1 >= now + Life
    <3>1. tgate' # NoTok /\ tgate'.exp \in Nat
      BY <2>4, TokenAssumption DEF Tokens, NoTok
    <3>2. tgate'.exp + 1 >= j.copy /\ tgate'.exp + 1 >= j.tok.exp /\ tgate'.exp + Late(j) >= now + Skew
      BY <2>2, <2>4, <3>1, TokenNumbers, TokenAssumption
    <3> QED
      BY <1>1, <1>2, <2>1, <3>1, <3>2 DEF Shared, OnGate
  <2> QED
    BY <2>3, <2>4
<1> QED
  BY <1>1, <1>2 DEF SharedInv, Shared, OnGate

(* As long as the gateway's token is left alone, so is what an actor knows of it. *)
LEMMA SharedGo ==
  ASSUME TokenInv, SharedInv, NEW a \in Actors, NEW q \in Jobs,
         tjob' = [tjob EXCEPT ![a] = q], Shared(q), UNCHANGED <<tgate, now>>, OnGate(cache')
  PROVE  SharedInv'
  BY SharedTurn DEF Shared, OnGate

(* An idle actor counts on nothing. *)
LEMMA SharedBlank == Shared(NoErrand)
  BY DEF Shared, OnGate, NoErrand, Carries, Writing

(* An actor that gives up or is done. *)
LEMMA SharedLeave ==
  ASSUME TokenInv, SharedInv, NEW a \in Actors, Leaves(a), UNCHANGED <<tgate,
         now>>, OnGate(cache')
  PROVE  SharedInv'
  BY Blank, SharedBlank, SharedGo DEF Leaves, Set

(* To a place where the gateway's token is not counted on. *)
Plain(q) == ~Carries(q) /\ q.pc \notin {"cache", "create"}

(* ensure_github_provider is over: a run counts on the gateway's token from here on. *)
LEMMA SharedEnds ==
  ASSUME TokenInv, SharedInv, NEW a \in Actors, NEW ok \in BOOLEAN, Settled(a, ok),
         UNCHANGED <<tgate, now>>, OnGate(cache'),
         ok /\ a = "run" => tgate # NoTok /\ tgate.exp + Late(tjob[a]) >= now + Skew
  PROVE  SharedInv'
<1>1. PICK j \in Jobs : j = tjob[a] /\ Shared(j)
  BY JobFacts DEF SharedInv
<1>2. CASE a = "run"
  <2> DEFINE q == [j EXCEPT !.pc = "create", !.ok = ok]
  <2>1. tjob' = [tjob EXCEPT ![a] = q]
    BY <1>1, <1>2 DEF Settled, Set
  <2>2. q \in Jobs /\ q.pc = "create" /\ q.ok = ok /\ q.copy = j.copy /\ q.repair = j.repair /\ q.old = j.old
    BY DEF Jobs, JobPc
  <2> HIDE DEF q
  <2>3. Shared(q)
    BY <1>1, <1>2, <2>2 DEF Shared, Carries, Writing, Late
  <2> QED
    BY <2>1, <2>2, <2>3, SharedGo
<1>3. CASE a # "run"
  BY <1>3, SharedLeave DEF Settled
<1> QED
  BY <1>2, <1>3

(* Each action keeps SharedInv: what begins, *)
LEMMA SharedBegins ==
  ASSUME TokenInv, SharedInv, NeverLost,
         \/ Sweeps \/ RunBegins \/ LoopBegins \/ HostBegins \/ HostUses
         \/ \E e \in Edits, i \in SomeInst : Request(e, i)
  PROVE  SharedInv'
<1>1. UNCHANGED <<row, cache, tgate, routed, access, covers, now, mishaps, tmix>>
  BY DEF Sweeps, RunBegins, LoopBegins, HostBegins, HostUses, Request
<1>2. CASE Sweeps \/ RunBegins \/ LoopBegins
  <2>1. PICK a \in Actors, p \in {"ensure", "route", "walk"} : tjob' = [tjob EXCEPT ![a] = [NoErrand EXCEPT !.pc = p]]
    BY <1>2 DEF Sweeps, RunBegins, LoopBegins, Enters, Set, Actors
  <2> DEFINE q == [NoErrand EXCEPT !.pc = p]
  <2>2. q \in Jobs /\ q.pc = p /\ q.copy = 0 /\ q.repair = FALSE
    BY Blank DEF Jobs, JobPc, NoErrand
  <2> HIDE DEF q
  <2>3. Shared(q)
    BY <2>2 DEF Shared, OnGate, Carries, Writing
  <2> QED
    BY <1>1, <2>1, <2>2, <2>3, SharedGo DEF q, SharedInv
<1>3. ASSUME NEW e \in Edits, NEW i \in SomeInst, Request(e, i) PROVE SharedInv'
  <2> DEFINE q == [NoErrand EXCEPT !.pc = IF e = "sync" THEN "reset" ELSE "read",
                                  !.then = "reset", !.edit = e, !.inst = i]
  <2>1. "request" \in Actors
    BY DEF Actors
  <2>2. q \in Jobs /\ q.pc \in {"reset", "read"} /\ q.then = "reset" /\ q.copy = 0 /\ q.repair = FALSE
    BY <2>1, Blank DEF Jobs, JobPc, NoErrand
  <2>3. tjob' = [tjob EXCEPT !["request"] = q]
    BY <1>3 DEF Request, Set
  <2> HIDE DEF q
  <2>4. Shared(q)
    BY <2>2 DEF Shared, OnGate, Carries, Writing
  <2> QED
    BY <1>1, <2>1, <2>2, <2>3, <2>4, SharedGo DEF SharedInv
<1>4. ~HostBegins
  BY DEF HostBegins, NeverLost
<1>5. CASE HostUses
  <2>1. "host" \in Actors
    BY DEF Actors
  <2> QED
    BY <1>1, <1>5, <2>1, SharedLeave DEF HostUses, SharedInv
<1> QED
  BY <1>2, <1>3, <1>4, <1>5

(* everything before the push, *)
LEMMA SharedSteps ==
  ASSUME TokenInv, SharedInv, NeverLost, NEW a \in Actors,
         Ensure(a) \/ RowRead(a) \/ RowWrite(a) \/ Lists(a) \/ Mint(a) \/ PushLooks(a)
  PROVE  SharedInv'
<1>0. PICK j \in Jobs : j = tjob[a] /\ Placed(a, j) /\ Dated(j) /\ Shared(j)
  BY JobFacts DEF SharedInv
<1>1. UNCHANGED <<tgate, now>> /\ OnGate(cache) /\ OnGate(j.copy) /\ j.repair = FALSE
  BY <1>0 DEF Ensure, RowRead, RowWrite, Lists, Mint, PushLooks, SharedInv, Shared, Jobs
<1>2. CASE Ensure(a)
  <2>1. CASE ~Configured
    BY <1>1, <1>2, <2>1, SharedEnds DEF Ensure
  <2>2. CASE Configured
    <3> DEFINE q == [j EXCEPT !.copy = cache, !.inst = row.inst, !.edit = "tok", !.tok = NoTok,
                      !.pc = "read", !.then = IF NeedsMint(cache) THEN "mint" ELSE "lists"]
    <3>1. tjob' = [tjob EXCEPT ![a] = q] /\ cache' = cache
      BY <1>0, <1>2, <2>2 DEF Ensure, Set
    <3>2. q \in Jobs /\ q.pc = "read" /\ q.then \in {"mint", "lists"} /\ q.copy = cache /\ q.repair = FALSE
      BY <1>1, TokenNumbers DEF Jobs, JobPc, Edits
    <3> HIDE DEF q
    <3>3. Shared(q)
      BY <1>1, <3>2 DEF Shared, Carries, Writing
    <3> QED
      BY <1>1, <3>1, <3>2, <3>3, SharedGo
  <2> QED
    BY <2>1, <2>2
<1>3. CASE RowRead(a)
  <2> DEFINE q == [j EXCEPT !.row = row, !.pc = "write"]
  <2>1. j.pc = "read" /\ tjob' = [tjob EXCEPT ![a] = q] /\ cache' = cache
    BY <1>0, <1>3 DEF RowRead, Stands, Set
  <2>2. /\ q \in Jobs /\ q.pc = "write" /\ q.then = j.then /\ q.copy = j.copy /\ q.tok = j.tok
        /\ q.old = j.old /\ q.repair = FALSE
    BY <1>1, TokenNumbers DEF Jobs, JobPc
  <2> HIDE DEF q
  <2>3. Shared(q)
    BY <1>0, <1>1, <2>1, <2>2 DEF Shared, Carries, Writing, Late
  <2> QED
    BY <1>1, <2>1, <2>2, <2>3, SharedGo
<1>4. CASE RowWrite(a)
  <2> DEFINE q == [j EXCEPT !.pc = j.then, !.then = "idle", !.row = NoRow]
  <2>1. j.pc = "write" /\ tjob' = [tjob EXCEPT ![a] = q] /\ cache' = cache
    BY <1>0, <1>4 DEF RowWrite, Stands, Set
  <2>2. NoRow \in TokenRows
    BY TokenNumbers DEF NoRow, TokenRows, SomeInst
  <2>3. /\ q \in Jobs /\ q.pc = j.then /\ q.then = "idle" /\ q.copy = j.copy /\ q.tok = j.tok
        /\ q.old = j.old /\ q.repair = FALSE
    BY <1>1, <2>2 DEF Jobs, JobPc
  <2> HIDE DEF q
  <2>4. a # "host"
    BY <1>0, <2>1 DEF Placed, NeverLost
  <2>5. Shared(q)
    BY <1>0, <1>1, <2>1, <2>3, <2>4 DEF Shared, Carries, Writing, Late, Placed, Thens, Actors
  <2> QED
    BY <1>1, <2>1, <2>3, <2>5, SharedGo
<1>5. CASE Lists(a)
  <2>1. j.pc = "lists" /\ cache' = cache
    BY <1>0, <1>5 DEF Lists, Stands
  <2>2. tgate # NoTok /\ tgate.exp + Late(j) >= now + Skew
    <3>1. j.copy + Late(j) > now + Skew /\ Late(j) \in {0, 1} /\ j.copy \in Nat
      BY <1>0, <2>1 DEF Dated, ToList, Late, Jobs
    <3>2. j.copy # 0
      BY <3>1, TokenNumbers, TokenAssumption
    <3> QED
      BY <1>1, <3>1, <3>2, TokenNumbers, TokenAssumption DEF OnGate
  <2>3. CASE GoesWrong(a)
    BY <1>1, <2>1, <2>3, SharedLeave DEF GoesWrong
  <2>4. CASE Settled(a, TRUE)
    BY <1>0, <1>1, <2>1, <2>2, <2>4, SharedEnds
  <2> QED
    BY <1>5, <2>2, <2>3, <2>4 DEF Lists
<1>6. CASE Mint(a)
  <2>1. CASE GoesWrong(a) /\ cache' = tjob[a].copy
    BY <1>0, <1>1, <2>1, SharedLeave DEF GoesWrong
  <2>2. CASE ~(GoesWrong(a) /\ cache' = tjob[a].copy)
    <3> DEFINE t == [inst |-> j.inst, exp |-> now + Life]
    <3>1. j.pc = "mint" /\ j.inst \in Insts
      BY <1>0, <1>6 DEF Placed, Wants, Mints, Mint, Stands
    <3>2. t \in Tokens /\ t.exp = now + Life
      BY <3>1, TokenNumbers, TokenAssumption DEF Tokens
    <3> DEFINE q == [j EXCEPT !.tok = t, !.copy = 0, !.pc = "read", !.then = IF a = "host" THEN "cache" ELSE "push"]
    <3>3. tjob' = [tjob EXCEPT ![a] = q] /\ cache' = cache
      BY <1>0, <1>6, <2>2 DEF Mint, Set
    <3>4. t \in AnyTok /\ 0 \in 0 .. MaxTime + Life
      BY <3>2, TokenAssumption DEF AnyTok
    <3> HIDE DEF t
    <3>5. q \in Jobs /\ q.pc = "read" /\ q.copy = 0 /\ q.tok = t /\ q.old = j.old /\ q.repair = FALSE
      BY <1>1, <3>4 DEF Jobs, JobPc
    <3> HIDE DEF q
    <3>6. Shared(q)
      BY <3>2, <3>5, TokenNumbers, TokenAssumption DEF Shared, OnGate, Late
    <3> QED
      BY <1>1, <3>3, <3>5, <3>6, SharedGo
  <2> QED
    BY <2>1, <2>2
<1>7. CASE PushLooks(a)
  <2>1. cache' = cache
    BY <1>7 DEF PushLooks
  <2>2. CASE GoesWrong(a)
    BY <1>1, <2>1, <2>2, SharedLeave DEF GoesWrong
  <2>3. CASE ~GoesWrong(a)
    <3> DEFINE q == [j EXCEPT !.exists = (tgate # NoTok), !.pc = "put"]
    <3>1. j.pc = "push" /\ tjob' = [tjob EXCEPT ![a] = q]
      BY <1>0, <1>7, <2>3 DEF PushLooks, Set, Stands
    <3>2. q \in Jobs /\ q.pc = "put" /\ q.copy = j.copy /\ q.tok = j.tok /\ q.old = j.old /\ q.repair = FALSE
      BY <1>1 DEF Jobs, JobPc
    <3> HIDE DEF q
    <3>3. Shared(q)
      BY <1>0, <3>1, <3>2 DEF Shared, Carries, Writing, Late
    <3> QED
      BY <1>1, <2>1, <3>1, <3>2, <3>3, SharedGo
  <2> QED
    BY <2>2, <2>3
<1> QED
  BY <1>2, <1>3, <1>4, <1>5, <1>6, <1>7

(* the push, *)
LEMMA SharedPuts ==
  ASSUME TokenInv, SharedInv, NeverLost, NEW a \in Actors, Puts(a)
  PROVE  SharedInv'
<1>0. PICK j \in Jobs : j = tjob[a] /\ Placed(a, j) /\ Dated(j) /\ Shared(j)
  BY JobFacts DEF SharedInv
<1>1. j.pc = "put" /\ j.repair = FALSE /\ cache' = cache /\ now' = now
  BY <1>0 DEF Puts, Stands, Shared, Jobs
<1>2. j.tok \in Tokens /\ j.tok.exp + 1 >= now + Life /\ j.tok # NoTok /\ j.tok.exp \in Nat
  <2>1. j.tok \in Tokens /\ j.tok.exp + Late(j) >= now + Life
    BY <1>0, <1>1 DEF Placed, Carries, Shared
  <2> QED
    BY <2>1, TokenNumbers, TokenAssumption DEF Late, Tokens, NoTok
<1>3. tgate' = tgate \/ (tgate' \in Tokens /\ tgate'.exp + 1 >= now + Life)
  BY <1>0, <1>2 DEF Puts
<1>4. OnGate(cache)'
  <2>1. CASE tgate' = tgate
    BY <1>1, <2>1 DEF OnGate, SharedInv
  <2>2. CASE tgate' \in Tokens /\ tgate'.exp + 1 >= now + Life
    <3>1. tgate' # NoTok /\ tgate'.exp \in Nat
      BY <2>2, TokenAssumption DEF Tokens, NoTok
    <3> QED
      BY <1>1, <2>2, <3>1, TokenNumbers, TokenAssumption DEF OnGate
  <2> QED
    BY <1>3, <2>1, <2>2
<1>5. CASE Leaves(a)
  <2>1. Shared(NoErrand)'
    BY DEF Shared, OnGate, NoErrand, Carries, Writing
  <2> QED
    BY <1>1, <1>3, <1>4, <1>5, <2>1, Blank, SharedTurn DEF Leaves, Set, OnGate
<1>6. CASE ~Leaves(a)
  <2> DEFINE q == [j EXCEPT !.pc = "cache"]
  <2>1. tjob' = [tjob EXCEPT ![a] = q] /\ tgate' = j.tok
    BY <1>0, <1>1, <1>6 DEF Puts, AfterPush, Turns, Set
  <2>2. q \in Jobs /\ q.pc = "cache" /\ q.copy = j.copy /\ q.tok = j.tok /\ q.old = j.old /\ q.repair = FALSE
    BY <1>1 DEF Jobs, JobPc
  <2> HIDE DEF q
  <2>3. j.copy \in Nat /\ j.copy <= now + Life
    BY <1>0 DEF Jobs, Dated
  <2>4. Shared(q)'
    BY <1>0, <1>1, <1>2, <2>1, <2>2, <2>3, TokenNumbers, TokenAssumption DEF Shared, Carries, OnGate,
       Late
  <2> QED
    BY <1>1, <1>3, <1>4, <2>1, <2>2, <2>4, SharedTurn DEF OnGate
<1> QED
  BY <1>5, <1>6

(* To a place where nothing is carried and nothing was promised. *)
LEMMA SharedPlace ==
  ASSUME NEW j \in Jobs, Shared(j), NEW q \in Jobs, q.copy = j.copy, q.repair = j.repair,
         q.pc \notin {"push", "put", "cache", "read", "write", "create"}
  PROVE  Shared(q)
  BY DEF Shared, Carries, Writing

(* cache, walks, routing and sandbox, *)
LEMMA SharedRest ==
  ASSUME TokenInv, SharedInv, NeverLost,
         \/ \E a \in Actors : Remembers(a) \/ WalkInstallations(a) \/ Land(a) \/ Spoil(a)
         \/ Reset \/ RouteLooks \/ RouteAgain \/ RunParks \/ AppliesRouted \/ CreateSandbox \/ CreateRefused
  PROVE  SharedInv'
<1>0. UNCHANGED <<tgate, now>> /\ OnGate(cache) /\ "run" \in Actors /\ "request" \in Actors
  BY DEF Remembers, WalkInstallations, Land, Spoil, Reset, RouteLooks, RouteAgain, RunParks,
     AppliesRouted, CreateSandbox, CreateRefused, SharedInv, Actors
<1>1. ASSUME NEW a \in Actors, Remembers(a) PROVE SharedInv'
  <2>1. PICK j \in Jobs : j = tjob[a] /\ Placed(a, j) /\ Dated(j) /\ Shared(j)
    BY JobFacts DEF SharedInv
  <2>2. j.pc = "cache" /\ cache' = j.tok.exp /\ a # "host"
    BY <1>1, <2>1 DEF Remembers, Stands, Placed, NeverLost
  <2>3. /\ tgate # NoTok /\ tgate.exp + 1 >= j.tok.exp /\ j.tok.exp + Late(j) >= now + Life
        /\ j.tok.exp \in Nat /\ Late(j) \in {0, 1}
    BY <2>1, <2>2, TokenAssumption DEF Shared, Carries, Jobs, Late, Placed, Tokens
  <2>4. OnGate(cache') /\ tgate.exp + Late(j) >= now + Skew
    BY <2>2, <2>3, TokenNumbers, TokenAssumption DEF OnGate
  <2> QED
    BY <1>0, <1>1, <2>1, <2>2, <2>3, <2>4, SharedEnds DEF Remembers
<1>2. ASSUME NEW a \in Actors, NEW p \in {"ensure", "again", "walk"}, Turns(a, p), OnGate(cache')
      PROVE  SharedInv'
  <2>1. PICK j \in Jobs : j = tjob[a] /\ Shared(j)
    BY JobFacts DEF SharedInv
  <2> DEFINE q == [j EXCEPT !.pc = p]
  <2>2. tjob' = [tjob EXCEPT ![a] = q]
    BY <1>2, <2>1 DEF Turns, Set
  <2>3. q \in Jobs /\ q.pc = p /\ q.copy = j.copy /\ q.repair = j.repair
    BY DEF Jobs, JobPc
  <2> HIDE DEF q
  <2> QED
    BY <1>0, <1>2, <2>1, <2>2, <2>3, SharedPlace, SharedGo
<1>3. CASE Reset
  <2>1. OnGate(cache')
    BY <1>0, <1>3 DEF Reset, OnGate
  <2> QED
    BY <1>0, <1>2, <1>3, <2>1, SharedLeave DEF Reset
<1>4. ASSUME NEW a \in Actors, WalkInstallations(a) \/ Land(a) \/ Spoil(a) PROVE SharedInv'
  <2>1. cache' = cache
    BY <1>4 DEF WalkInstallations, Land, Spoil
  <2>2. CASE Leaves(a) \/ Turns(a, "again")
    BY <1>0, <1>2, <2>1, <2>2, SharedLeave
  <2>3. CASE \E p \in {"land", "spoil"}, i \in {covers, access} :
               Set(a, [tjob[a] EXCEPT !.sees = i, !.pc = p])
    <3>1. PICK j \in Jobs : j = tjob[a] /\ Shared(j)
      BY JobFacts DEF SharedInv
    <3>2. PICK p \in {"land", "spoil"}, i \in {covers, access} :
            tjob' = [tjob EXCEPT ![a] = [j EXCEPT !.sees = i, !.pc = p]]
      BY <2>3, <3>1 DEF Set
    <3> DEFINE q == [j EXCEPT !.sees = i, !.pc = p]
    <3>3. q \in Jobs /\ q.pc = p /\ q.copy = j.copy /\ q.repair = j.repair
      BY TokenNumbers DEF Jobs, JobPc
    <3>4. tjob' = [tjob EXCEPT ![a] = q]
      BY <3>2
    <3> HIDE DEF q
    <3> QED
      BY <1>0, <2>1, <3>1, <3>3, <3>4, SharedPlace, SharedGo
  <2> QED
    BY <1>4, <2>2, <2>3 DEF WalkInstallations, Land, Spoil
<1>5. CASE RouteLooks \/ RouteAgain
  <2>1. PICK j \in Jobs : j = tjob["run"] /\ Shared(j)
    BY <1>0, JobFacts DEF SharedInv
  <2>2. cache' = cache /\ (Turns("run", "walk") \/ Set("run", Routes(j, access)))
    BY <1>5, <2>1 DEF RouteLooks, RouteAgain, Turns
  <2>3. CASE Turns("run", "walk")
    BY <1>0, <1>2, <2>2, <2>3
  <2>4. CASE Set("run", Routes(j, access))
    <3>1. Routes(j, access) \in Jobs
      BY TokenNumbers DEF Routes, Jobs, JobPc
    <3>2. /\ Routes(j, access).pc \in {"ensure", "apply"} /\ Routes(j, access).copy = j.copy
          /\ Routes(j, access).repair = j.repair
      BY DEF Routes, Jobs
    <3>3. Shared(Routes(j, access))
      BY <2>1, <3>1, <3>2, SharedPlace
    <3> QED
      BY <1>0, <2>2, <2>4, <3>1, <3>3, SharedGo DEF Set
  <2> QED
    BY <2>2, <2>3, <2>4
<1>6. CASE RunParks \/ CreateSandbox \/ CreateRefused \/ AppliesRouted
  <2>1. cache' = cache /\ (Leaves("run") \/ Turns("run", "ensure"))
    BY <1>6 DEF RunParks, CreateSandbox, CreateRefused, AppliesRouted, GoesWrong
  <2> QED
    BY <1>0, <1>2, <2>1, SharedLeave
<1> QED
  BY <1>1, <1>3, <1>4, <1>5, <1>6

(* and the world. *)
LEMMA SharedWorld ==
  ASSUME TokenInv, SharedInv, NeverLost,
         CoverageMoves \/ GatewayLoses \/ TokenRestart \/ Tick
  PROVE  SharedInv'
<1>1. CASE CoverageMoves
  BY <1>1 DEF CoverageMoves, SharedInv, Shared, OnGate
<1>2. ~GatewayLoses
  BY DEF GatewayLoses, Befalls, NeverLost, TokenInv
<1>3. CASE TokenRestart
  BY <1>3, SharedBlank DEF TokenRestart, SharedInv, Shared, OnGate
<1>4. CASE Tick
  <2>1. /\ now' = now + 1 /\ UNCHANGED <<cache, tgate>>
        /\ tjob' = [a \in Actors |-> [tjob[a] EXCEPT !.old = Busy(a)]] /\ \A a \in Actors : ~tjob[a].old
    BY <1>4 DEF Tick
  <2>2. ASSUME NEW a \in Actors PROVE Shared(tjob[a])'
    <3>1. PICK j \in Jobs : j = tjob[a] /\ Shared(j) /\ Placed(a, j)
      BY JobFacts DEF SharedInv
    <3> DEFINE q == [j EXCEPT !.old = (j.pc # "idle")]
    <3>2. tjob'[a] = q /\ ~j.old
      BY <2>1, <3>1 DEF Busy
    <3>3. /\ q \in Jobs /\ q.pc = j.pc /\ q.copy = j.copy /\ q.inst = j.inst /\ q.tok = j.tok
          /\ q.then = j.then
          /\ q.own = j.own /\ q.ok = j.ok /\ q.repair = j.repair /\ q.old = (j.pc # "idle")
      BY DEF Jobs
    <3> HIDE DEF q
    <3>4. j.tok.exp \in Nat /\ Late(j) = 0 /\ (j.pc # "idle" => Late(q) = 1)
      BY <3>2, <3>3, TokenNumbers DEF Jobs, Late
    <3>5. Carries(j) => j.tok.exp + 1 >= now + 1 + Life
      BY <3>1, <3>4, TokenNumbers, TokenAssumption DEF Shared
    <3>6. j.pc = "create" /\ j.ok /\ ~j.own => tgate.exp + 1 >= now + 1 + Skew
      BY <3>1, <3>4, TokenNumbers, TokenAssumption DEF Shared
    <3>7. Shared(q)'
      BY <2>1, <3>1, <3>3, <3>4, <3>5, <3>6 DEF Shared, OnGate, Carries, Writing, Late
    <3> QED
      BY <3>2, <3>7
  <2> QED
    BY <2>1, <2>2 DEF SharedInv, OnGate
<1> QED
  BY <1>1, <1>2, <1>3, <1>4

(* SharedInv is inductive, where NeverLost. *)
LEMMA SharedKeeps ==
  ASSUME TokenInv, NeverLost => SharedInv, [TokenNext]_tokenVars
  PROVE  (NeverLost => SharedInv)'
<1>1. tmix' = tmix
  BY SpecMixStays
<1> SUFFICES ASSUME NeverLost PROVE SharedInv'
  BY <1>1 DEF NeverLost
<1>2. CASE UNCHANGED tokenVars
  BY <1>2 DEF tokenVars, SharedInv, Shared, OnGate
<1> QED
  BY <1>2, SharedBegins, SharedSteps, SharedPuts, SharedRest, SharedWorld DEF TokenNext

-------------------------------------------------------------------------------
(* One actor at a time: cache, row and gateway are of one installation, and what the *)
(* cache says is fresh is in the row and, unless lost, on the gateway.  An edit that *)
(* has not reset the cache yet is the exception.                                     *)
Midway == tjob["request"].pc = "reset" /\ tjob["request"].edit # "app"
Holds(t, c) == t.inst = row.inst /\ t.exp >= c
NoHost == "host" \notin tmix.actors
Own(j) ==
  /\ j.pc = "write" => j.row = row
  /\ Wants(j) \/ j.pc = "use" => j.inst = row.inst
  /\ ToList(j) \/ Mints(j) => j.copy = cache
  /\ Carries(j) => Holds(j.tok, cache) /\ j.tok.exp + Late(j) > now + Skew
  /\ j.pc \in {"push", "put", "cache"} => row.tok = j.tok
  /\ j.pc = "cache" /\ NoHost => tgate \in {NoTok, j.tok}
  /\ j.pc = "create" /\ j.ok /\ ~j.own /\ NoHost =>
       tgate = NoTok \/ (tgate.inst = row.inst /\ tgate.exp + Late(j) > now + Skew)
  /\ j.pc = "use" => j.tok.inst = row.inst /\ j.tok.exp + Late(j) > now + Skew
  /\ ~j.own /\ j.to # NoInst => j.to = row.inst
InStep ==
  cache # 0 /\ ~Midway =>
    Holds(row.tok, cache) /\ (NoHost => (tgate = NoTok \/ Holds(tgate, cache)))
AloneInv ==
  /\ \A a, b \in Actors : Busy(a) /\ Busy(b) => a = b
  /\ \A a \in Actors : Own(tjob[a])
  /\ InStep

(* One actor goes on, and the others are idle. *)
LEMMA AloneTurn ==
  ASSUME TokenInv, NEW a \in Actors, NEW q \in Jobs,
         tjob' = [tjob EXCEPT ![a] = q], \A b \in Actors : b # a => ~Busy(b),
         Own(q)', InStep'
  PROVE  AloneInv'
<1>1. \A b \in Actors : tjob'[b] = IF b = a THEN q ELSE tjob[b]
  BY DEF TokenInv, TokenTypeOK
<1>2. ASSUME NEW b \in Actors, b # a PROVE Own(tjob[b])'
  <2>1. tjob[b].pc = "idle" /\ tjob[b].to = NoInst
    BY <1>2, JobFacts DEF Busy, Placed
  <2> QED
    BY <1>1, <1>2, <2>1 DEF Own, Wants, Carries, ToList, Mints, Writing
<1> QED
  BY <1>1, <1>2 DEF AloneInv, Own, Busy

(* An idle actor counts on nothing. *)
LEMMA AloneBlank == Own(NoErrand)
  BY DEF Own, NoErrand, Wants, Carries, ToList, Mints, Writing

(* A step that leaves row, cache and gateway alone. *)
LEMMA AloneGo ==
  ASSUME TokenInv, AloneInv, NEW a \in Actors, Busy(a), NEW q \in Jobs,
         tjob' = [tjob EXCEPT ![a] = q], Own(q), UNCHANGED <<row, cache, tgate, now, tmix>>,
         tjob[a].pc # "reset", q.pc # "reset"
  PROVE  AloneInv'
<1>1. \A b \in Actors : b # a => ~Busy(b)
  BY DEF AloneInv
<1>2. Own(q)'
  BY DEF Own, Holds, NoHost
<1>3. "request" \in Actors
  BY DEF Actors
<1>4. ~Midway /\ ~Midway'
  BY <1>1, <1>3 DEF Midway, Busy, TokenInv, TokenTypeOK
<1>5. InStep'
  BY <1>4 DEF AloneInv, InStep, Holds, NoHost
<1> QED
  BY <1>1, <1>2, <1>5, AloneTurn

(* An actor that gives up or is done. *)
LEMMA AloneLeave ==
  ASSUME TokenInv, AloneInv, NEW a \in Actors, Busy(a), Leaves(a),
         UNCHANGED <<row, cache, tgate, now, tmix>>, tjob[a].pc # "reset"
  PROVE  AloneInv'
<1>1. NoErrand.pc = "idle"
  BY DEF NoErrand
<1> QED
  BY <1>1, Blank, AloneBlank, AloneGo DEF Leaves, Set

(* What begins leaves row, cache and gateway alone too. *)
LEMMA AloneBegin ==
  ASSUME TokenInv, AloneInv, NEW a \in Actors, NEW q \in Jobs,
         \A b \in Actors : ~Busy(b),
         tjob' = [tjob EXCEPT ![a] = q], Own(q), UNCHANGED <<row, cache, tgate, now, tmix>>
  PROVE  AloneInv'
<1>1. Own(q)'
  BY DEF Own, Holds, NoHost
<1>2. "request" \in Actors
  BY DEF Actors
<1>3. ~Midway
  BY <1>2 DEF Midway, Busy
<1>4. InStep'
  BY <1>3 DEF AloneInv, InStep, Holds, NoHost
<1> QED
  BY <1>1, <1>4, AloneTurn

(* Each action keeps AloneInv: what begins, *)
LEMMA AloneBegins ==
  ASSUME TokenInv, AloneInv, tmix.alone,
         \/ Sweeps \/ RunBegins \/ LoopBegins \/ HostBegins \/ HostUses
         \/ \E e \in Edits, i \in SomeInst : Request(e, i)
  PROVE  AloneInv'
<1>1. UNCHANGED <<row, cache, tgate, routed, access, covers, now, mishaps, tmix>>
  BY DEF Sweeps, RunBegins, LoopBegins, HostBegins, HostUses, Request
<1>2. CASE Sweeps \/ RunBegins \/ LoopBegins
  <2>1. PICK a \in Actors, p \in {"ensure", "route", "walk"} : tjob' = [tjob EXCEPT ![a] = [NoErrand EXCEPT !.pc = p]]
    BY <1>2 DEF Sweeps, RunBegins, LoopBegins, Enters, Set, Actors
  <2> DEFINE q == [NoErrand EXCEPT !.pc = p]
  <2>2. q \in Jobs /\ q.pc = p /\ q.to = NoInst
    BY Blank DEF Jobs, JobPc, NoErrand
  <2>3. tjob' = [tjob EXCEPT ![a] = q] /\ \A b \in Actors : ~Busy(b)
    BY <1>2, <2>1 DEF Sweeps, RunBegins, LoopBegins, Enters
  <2> HIDE DEF q
  <2>4. Own(q)
    BY <2>2 DEF Own, Wants, Carries, ToList, Mints, Writing
  <2> QED
    BY <1>1, <2>2, <2>3, <2>4, AloneBegin
<1>3. ASSUME NEW e \in Edits, NEW i \in SomeInst, Request(e, i) PROVE AloneInv'
  <2> DEFINE q == [NoErrand EXCEPT !.pc = IF e = "sync" THEN "reset" ELSE "read",
                                  !.then = "reset", !.edit = e, !.inst = i]
  <2>1. "request" \in Actors
    BY DEF Actors
  <2>2. q \in Jobs /\ q.pc \in {"reset", "read"} /\ q.then = "reset" /\ q.to = NoInst
    BY <2>1, Blank DEF Jobs, JobPc, NoErrand
  <2>3. tjob' = [tjob EXCEPT !["request"] = q] /\ \A b \in Actors : ~Busy(b)
    BY <1>3 DEF Request, Set
  <2> HIDE DEF q
  <2>4. Own(q)
    BY <2>2 DEF Own, Wants, Carries, ToList, Mints, Writing
  <2> QED
    BY <1>1, <2>1, <2>2, <2>3, <2>4, AloneBegin
<1>4. CASE HostBegins
  <2> DEFINE q == [NoErrand EXCEPT !.copy = cache, !.inst = row.inst,
                    !.pc = IF ~NeedsMint(cache) /\ row.tok # NoTok THEN "use" ELSE "mint",
                    !.tok = IF ~NeedsMint(cache) THEN row.tok ELSE NoTok]
  <2>1. "host" \in Actors /\ "request" \in Actors
    BY DEF Actors
  <2>2. /\ q \in Jobs /\ q.pc \in {"use", "mint"}
        /\ q.pc = "use" => ~NeedsMint(cache) /\ q.tok = row.tok
        /\ q.copy = cache /\ q.inst = row.inst /\ q.to = NoInst
    BY TokenNumbers, <2>1, Blank DEF Jobs, JobPc, NoErrand
  <2>3. tjob' = [tjob EXCEPT !["host"] = q] /\ \A b \in Actors : ~Busy(b)
    BY <1>4 DEF HostBegins, Set
  <2> HIDE DEF q
  <2>4. q.pc = "use" => q.tok.inst = row.inst /\ q.tok.exp + Late(q) > now + Skew
    <3>1. ~Midway
      BY <2>1, <2>3 DEF Midway, Busy
    <3>2. q.pc = "use" => cache # 0 /\ cache > now + Skew
      BY <2>2, TokenNumbers, TokenAssumption DEF NeedsMint
    <3> QED
      BY <2>2, <3>1, <3>2, TokenNumbers, TokenAssumption DEF AloneInv, InStep, Holds, Late
  <2>5. Own(q)
    BY <2>2, <2>4 DEF Own, Wants, Carries, ToList, Mints, Writing
  <2> QED
    BY <1>1, <2>1, <2>2, <2>3, <2>5, AloneBegin
<1>5. CASE HostUses
  <2>1. "host" \in Actors
    BY DEF Actors
  <2> QED
    BY <1>1, <1>5, <2>1, AloneLeave DEF HostUses, Stands, Busy
<1> QED
  BY <1>2, <1>3, <1>4, <1>5

(* ensure_github_provider is over with nothing written on the gateway. *)
LEMMA AloneEnds ==
  ASSUME TokenInv, AloneInv, NEW a \in Actors, Busy(a), NEW ok \in BOOLEAN,
         Settled(a, ok),
         tjob[a].pc # "reset", UNCHANGED <<row, tgate, now, tmix>>, cache' = cache \/ InStep',
         ok /\ NoHost => tgate = NoTok \/ (tgate.inst = row.inst /\ tgate.exp + Late(tjob[a]) > now + Skew)
  PROVE  AloneInv'
<1>1. PICK j \in Jobs : j = tjob[a] /\ Own(j)
  BY JobFacts DEF AloneInv
<1> DEFINE q == IF a = "run" THEN [j EXCEPT !.pc = "create", !.ok = ok] ELSE NoErrand
<1>2. tjob' = [tjob EXCEPT ![a] = q]
  BY <1>1 DEF Settled, Leaves, Set
<1>3. /\ q \in Jobs /\ q.pc \in {"idle", "create"}
      /\ q.pc = "create" => q.ok = ok /\ Late(q) = Late(j)
      /\ q.to \in {j.to, NoInst}
      /\ ~q.own /\ q.to # NoInst => ~j.own
  BY Blank DEF Jobs, JobPc, NoErrand, Late
<1> HIDE DEF q
<1>4. Own(q) /\ Own(q)'
  BY <1>1, <1>3 DEF Own, Wants, Carries, ToList, Mints, Writing, Holds, NoHost
<1>5. \A b \in Actors : b # a => ~Busy(b)
  BY DEF AloneInv
<1> QED
  BY <1>2, <1>3, <1>4, <1>5, AloneGo, AloneTurn

(* everything before the push but the write of the row, *)
LEMMA AloneSteps ==
  ASSUME TokenInv, AloneInv, tmix.alone, NEW a \in Actors,
         Ensure(a) \/ RowRead(a) \/ Lists(a) \/ Mint(a) \/ PushLooks(a)
  PROVE  AloneInv'
<1>0. PICK j \in Jobs : j = tjob[a] /\ Placed(a, j) /\ Dated(j) /\ Own(j)
  BY JobFacts DEF AloneInv
<1>1. /\ UNCHANGED <<row, tgate, now, tmix>> /\ Busy(a)
      /\ j.pc \in {"ensure", "read", "lists", "mint", "push"}
      /\ \A b \in Actors : b # a => ~Busy(b)
  BY <1>0 DEF Ensure, RowRead, Lists, Mint, PushLooks, Stands, Busy, AloneInv
<1>2. ~Midway
  BY <1>0, <1>1 DEF Midway, Busy, Actors
<1>3. CASE Ensure(a)
  <2>1. cache' = cache /\ j.pc = "ensure"
    BY <1>0, <1>3 DEF Ensure, Stands
  <2>2. CASE ~Configured
    BY <1>0, <1>1, <1>3, <2>1, <2>2, AloneEnds DEF Ensure
  <2>3. CASE Configured
    <3> DEFINE q == [j EXCEPT !.copy = cache, !.inst = row.inst, !.edit = "tok", !.tok = NoTok,
                      !.pc = "read", !.then = IF NeedsMint(cache) THEN "mint" ELSE "lists"]
    <3>1. tjob' = [tjob EXCEPT ![a] = q]
      BY <1>0, <1>3, <2>3 DEF Ensure, Set
    <3>2. /\ q \in Jobs /\ q.pc = "read" /\ q.then \in {"mint", "lists"} /\ q.copy = cache
          /\ q.inst = row.inst
          /\ q.to = j.to /\ q.own = j.own
      BY TokenNumbers DEF Jobs, JobPc, Edits
    <3> HIDE DEF q
    <3>3. Own(q)
      BY <1>0, <3>2 DEF Own, Wants, Carries, ToList, Mints, Writing
    <3> QED
      BY <1>0, <1>1, <2>1, <3>1, <3>2, <3>3, AloneGo
  <2> QED
    BY <2>2, <2>3
<1>4. CASE RowRead(a)
  <2> DEFINE q == [j EXCEPT !.row = row, !.pc = "write"]
  <2>1. j.pc = "read" /\ tjob' = [tjob EXCEPT ![a] = q] /\ cache' = cache
    BY <1>0, <1>4 DEF RowRead, Stands, Set
  <2>2. /\ q \in Jobs /\ q.pc = "write" /\ q.then = j.then /\ q.copy = j.copy /\ q.tok = j.tok
        /\ q.inst = j.inst
        /\ q.old = j.old /\ q.row = row /\ q.to = j.to /\ q.own = j.own
    BY TokenNumbers DEF Jobs, JobPc
  <2> HIDE DEF q
  <2>3. Own(q)
    BY <1>0, <2>1, <2>2 DEF Own, Wants, Carries, ToList, Mints, Writing, Late
  <2> QED
    BY <1>0, <1>1, <2>1, <2>2, <2>3, AloneGo
<1>5. CASE Lists(a)
  <2>1. j.pc = "lists" /\ cache' = cache
    BY <1>0, <1>5 DEF Lists, Stands
  <2>2. j.copy = cache /\ cache + Late(j) > now + Skew /\ cache # 0 /\ Late(j) \in {0, 1} /\ j.inst = row.inst
    <3>1. j.copy = cache /\ j.copy + Late(j) > now + Skew /\ Late(j) \in {0, 1} /\ j.inst = row.inst
      BY <1>0, <2>1 DEF Dated, Own, Wants, ToList, Late
    <3> QED
      BY <3>1, TokenNumbers, TokenAssumption
  <2>3. row.tok.inst = row.inst /\ row.tok.exp >= cache /\ (NoHost => tgate = NoTok \/ Holds(tgate, cache))
    BY <1>2, <2>2 DEF AloneInv, InStep, Holds
  <2>4. NoHost => tgate = NoTok \/ (tgate.inst = row.inst /\ tgate.exp + Late(j) > now + Skew)
    BY <2>2, <2>3, TokenNumbers, TokenAssumption DEF Holds
  <2>5. CASE GoesWrong(a)
    BY <1>0, <1>1, <2>1, <2>5, AloneLeave DEF GoesWrong
  <2>6. CASE Settled(a, TRUE)
    BY <1>0, <1>1, <2>1, <2>4, <2>6, AloneEnds
  <2>7. CASE Turns(a, "mint")
    <3> DEFINE q == [j EXCEPT !.pc = "mint"]
    <3>1. tjob' = [tjob EXCEPT ![a] = q]
      BY <1>0, <2>7 DEF Turns, Set
    <3>2. q \in Jobs /\ q.pc = "mint" /\ q.copy = j.copy /\ q.inst = j.inst /\ q.to = j.to /\ q.own = j.own
      BY DEF Jobs, JobPc
    <3> HIDE DEF q
    <3>3. Own(q)
      BY <1>0, <2>2, <3>2 DEF Own, Wants, Carries, ToList, Mints, Writing
    <3> QED
      BY <1>0, <1>1, <2>1, <3>1, <3>2, <3>3, AloneGo
  <2>8. CASE Set(a, [tjob[a] EXCEPT !.tok = row.tok, !.repair = TRUE, !.pc = "read", !.then = "push"])
    <3> DEFINE q == [j EXCEPT !.tok = row.tok, !.repair = TRUE, !.pc = "read", !.then = "push"]
    <3>1. tjob' = [tjob EXCEPT ![a] = q]
      BY <1>0, <2>8 DEF Set
    <3>2. /\ q \in Jobs /\ q.pc = "read" /\ q.then = "push" /\ q.copy = j.copy /\ q.inst = j.inst
          /\ q.tok = row.tok
          /\ q.to = j.to /\ q.own = j.own /\ q.old = j.old
      BY TokenNumbers DEF Jobs, JobPc
    <3>3. row.tok.exp + Late(j) > now + Skew
      BY <2>2, <2>3, TokenNumbers, TokenAssumption
    <3> HIDE DEF q
    <3>4. Own(q)
      BY <1>0, <2>2, <2>3, <3>2, <3>3 DEF Own, Wants, Carries, ToList, Mints, Writing, Holds, Late
    <3> QED
      BY <1>0, <1>1, <2>1, <3>1, <3>2, <3>4, AloneGo
  <2> QED
    BY <1>5, <2>5, <2>6, <2>7, <2>8 DEF Lists
<1>6. CASE Mint(a)
  <2>1. j.pc = "mint" /\ j.copy = cache /\ j.inst = row.inst
    BY <1>0, <1>6 DEF Mint, Stands, Own, Wants, Mints
  <2>2. cache' = cache
    BY <1>0, <1>6, <2>1 DEF Mint
  <2>3. CASE GoesWrong(a)
    BY <1>0, <1>1, <2>1, <2>2, <2>3, AloneLeave DEF GoesWrong
  <2>4. CASE ~GoesWrong(a)
    <3> DEFINE t == [inst |-> j.inst, exp |-> now + Life]
    <3>1. j.inst \in Insts
      BY <1>0, <2>1 DEF Placed, Wants, Mints
    <3>2. t \in Tokens /\ t.exp = now + Life /\ t.inst = row.inst
      BY <2>1, <3>1, TokenNumbers, TokenAssumption DEF Tokens
    <3> DEFINE q == [j EXCEPT !.tok = t, !.copy = 0, !.pc = "read", !.then = IF a = "host" THEN "cache" ELSE "push"]
    <3>3. tjob' = [tjob EXCEPT ![a] = q]
      BY <1>0, <1>6, <2>4 DEF Mint, Set
    <3>4. t \in AnyTok /\ 0 \in 0 .. MaxTime + Life
      BY <3>2, TokenAssumption DEF AnyTok
    <3> HIDE DEF t
    <3>5. /\ q \in Jobs /\ q.pc = "read" /\ q.then \in {"cache", "push"} /\ q.tok = t /\ q.old = j.old
          /\ q.inst = j.inst /\ q.to = j.to /\ q.own = j.own
      BY <3>4 DEF Jobs, JobPc
    <3> HIDE DEF q
    <3>6. t.exp >= cache /\ t.exp + Late(q) > now + Skew
      BY <3>2, TokenNumbers, TokenAssumption DEF Late
    <3>7. Own(q)
      BY <1>0, <2>1, <3>2, <3>5, <3>6 DEF Own, Wants, Carries, ToList, Mints, Writing, Holds
    <3> QED
      BY <1>0, <1>1, <2>2, <3>3, <3>5, <3>7, AloneGo
  <2> QED
    BY <2>3, <2>4
<1>7. CASE PushLooks(a)
  <2>1. cache' = cache
    BY <1>7 DEF PushLooks
  <2>2. CASE GoesWrong(a)
    BY <1>0, <1>1, <2>1, <2>2, AloneLeave DEF GoesWrong
  <2>3. CASE ~GoesWrong(a)
    <3> DEFINE q == [j EXCEPT !.exists = (tgate # NoTok), !.pc = "put"]
    <3>1. j.pc = "push" /\ tjob' = [tjob EXCEPT ![a] = q]
      BY <1>0, <1>7, <2>3 DEF PushLooks, Set, Stands
    <3>2. /\ q \in Jobs /\ q.pc = "put" /\ q.tok = j.tok /\ q.old = j.old /\ q.inst = j.inst
          /\ q.to = j.to /\ q.own = j.own
      BY DEF Jobs, JobPc
    <3> HIDE DEF q
    <3>3. Own(q)
      BY <1>0, <3>1, <3>2 DEF Own, Wants, Carries, ToList, Mints, Writing, Late
    <3> QED
      BY <1>0, <1>1, <2>1, <3>1, <3>2, <3>3, AloneGo
  <2> QED
    BY <2>2, <2>3
<1> QED
  BY <1>3, <1>4, <1>5, <1>6, <1>7

(* that write, *)
LEMMA AloneWrites ==
  ASSUME TokenInv, AloneInv, tmix.alone, NEW a \in Actors, RowWrite(a)
  PROVE  AloneInv'
<1>0. PICK j \in Jobs : j = tjob[a] /\ Placed(a, j) /\ Dated(j) /\ Own(j)
  BY JobFacts DEF AloneInv
<1> DEFINE q == [j EXCEPT !.pc = j.then, !.then = "idle", !.row = NoRow]
<1>1. /\ j.pc = "write" /\ tjob' = [tjob EXCEPT ![a] = q] /\ row' = EditedRow(j) /\ j.row = row
      /\ UNCHANGED <<cache, tgate, now, tmix>> /\ \A b \in Actors : b # a => ~Busy(b)
  BY <1>0 DEF RowWrite, Stands, Set, Own, AloneInv, Busy
<1>2. NoRow \in TokenRows
  BY TokenNumbers DEF NoRow, TokenRows, SomeInst
<1>3. /\ q \in Jobs /\ q.pc = j.then /\ q.then = "idle" /\ q.copy = j.copy /\ q.tok = j.tok
      /\ q.inst = j.inst
      /\ q.old = j.old /\ q.to = j.to /\ q.own = j.own /\ q.edit = j.edit
  BY <1>2 DEF Jobs, JobPc
<1> HIDE DEF q
<1>4. ~Midway /\ InStep
  <2>1. ~Midway
    BY <1>0, <1>1 DEF Midway, Busy, Actors
  <2> QED
    BY <2>1 DEF AloneInv
<1>5. Midway' <=> (a = "request" /\ j.then = "reset" /\ j.edit # "app")
  <2>1. \A b \in Actors : tjob'[b] = IF b = a THEN q ELSE tjob[b]
    BY <1>1 DEF TokenInv, TokenTypeOK
  <2> QED
    BY <1>1, <1>3, <2>1 DEF Midway, Busy, Actors
<1>6. CASE j.then # "reset"
  <2>1. j.edit = "tok" /\ j.inst = row.inst /\ j.then \in {"mint", "lists", "push", "cache"} /\ (j.then = "cache" => ~NoHost)
    BY <1>0, <1>1, <1>6 DEF Placed, Own, Wants, Carries, ToList, Mints, Writing, Thens, NoHost,
       Actors
  <2>2. CASE j.then \in {"mint", "lists"}
    <3>1. j.tok = NoTok /\ row' = row
      BY <1>0, <1>1, <2>1, <2>2 DEF Placed, Writing, EditedRow
    <3>2. Own(q)'
      BY <1>0, <1>1, <1>3, <2>1, <2>2, <3>1 DEF Own, Wants, Carries, ToList, Mints, Writing
    <3>3. InStep'
      BY <1>1, <1>4, <3>1 DEF InStep, Holds, NoHost
    <3> QED
      BY <1>1, <1>3, <3>2, <3>3, AloneTurn
  <2>3. CASE j.then \in {"push", "cache"}
    <3>1. j.tok \in Tokens /\ Holds(j.tok, cache) /\ j.tok.exp + Late(j) > now + Skew
      BY <1>0, <1>1, <2>3 DEF Placed, Own, Carries, Writing
    <3>2. row' = [row EXCEPT !.tok = j.tok]
      BY <1>1, <2>1, <3>1, TokenNumbers, TokenAssumption DEF EditedRow, Tokens, NoTok
    <3>3. row'.inst = row.inst /\ row'.tok = j.tok
      BY <3>2, TokenNumbers DEF TokenRows
    <3>4. Own(q)'
      BY <1>0, <1>1, <1>3, <2>1, <2>3, <3>1, <3>3 DEF Own, Wants, Carries, ToList, Mints, Writing,
         Late, Holds, NoHost
    <3>5. InStep'
      BY <1>1, <1>4, <3>1, <3>3 DEF InStep, Holds, NoHost
    <3> QED
      BY <1>1, <1>3, <3>4, <3>5, AloneTurn
  <2> QED
    BY <2>1, <2>2, <2>3
<1>7. CASE j.then = "reset"
  <2>1. a = "request" /\ q.to = NoInst
    BY <1>0, <1>1, <1>3, <1>7 DEF Placed, Writing, Thens
  <2>2. Own(q)'
    BY <1>3, <1>7, <2>1 DEF Own, Wants, Carries, ToList, Mints, Writing
  <2>3. InStep'
    <3>1. CASE j.edit # "app"
      BY <1>5, <1>7, <2>1, <3>1 DEF InStep
    <3>2. CASE j.edit = "app"
      <4>1. row' = [row EXCEPT !.app = TRUE]
        BY <1>1, <3>2 DEF EditedRow
      <4>2. row'.inst = row.inst /\ row'.tok = row.tok
        BY <4>1, TokenNumbers DEF TokenRows
      <4> QED
        BY <1>1, <1>4, <4>2 DEF InStep, Holds, NoHost
    <3> QED
      BY <3>1, <3>2
  <2> QED
    BY <1>1, <1>3, <2>2, <2>3, AloneTurn
<1> QED
  BY <1>6, <1>7

(* ensure_github_provider is over, with cache or gateway written. *)
LEMMA AloneSettles ==
  ASSUME TokenInv, AloneInv, NEW a \in Actors, Busy(a), NEW ok \in BOOLEAN,
         Settled(a, ok),
         UNCHANGED <<row, now, tmix>>, InStep',
         ok /\ NoHost => tgate' = NoTok \/ (tgate'.inst = row.inst /\ tgate'.exp + Late(tjob[a]) > now + Skew)
  PROVE  AloneInv'
<1>1. PICK j \in Jobs : j = tjob[a] /\ Own(j)
  BY JobFacts DEF AloneInv
<1> DEFINE q == IF a = "run" THEN [j EXCEPT !.pc = "create", !.ok = ok] ELSE NoErrand
<1>2. tjob' = [tjob EXCEPT ![a] = q]
  BY <1>1 DEF Settled, Leaves, Set
<1>3. /\ q \in Jobs /\ q.pc \in {"idle", "create"}
      /\ q.pc = "create" => q.ok = ok /\ Late(q) = Late(j)
      /\ q.to \in {j.to, NoInst}
      /\ ~q.own /\ q.to # NoInst => ~j.own
  BY Blank DEF Jobs, JobPc, NoErrand, Late
<1> HIDE DEF q
<1>4. Own(q)'
  BY <1>1, <1>3 DEF Own, Wants, Carries, ToList, Mints, Writing, Holds, NoHost
<1>5. \A b \in Actors : b # a => ~Busy(b)
  BY DEF AloneInv
<1> QED
  BY <1>2, <1>3, <1>4, <1>5, AloneTurn

(* the push, *)
LEMMA AlonePuts ==
  ASSUME TokenInv, AloneInv, tmix.alone, NEW a \in Actors, Puts(a)
  PROVE  AloneInv'
<1>0. PICK j \in Jobs : j = tjob[a] /\ Placed(a, j) /\ Dated(j) /\ Own(j)
  BY JobFacts DEF AloneInv
<1>1. /\ j.pc = "put" /\ UNCHANGED <<row, cache, now, tmix>> /\ Busy(a) /\ tgate' \in {tgate, j.tok}
      /\ \A b \in Actors : b # a => ~Busy(b)
  BY <1>0 DEF Puts, Stands, Busy, AloneInv
<1>2. Holds(j.tok, cache) /\ j.tok.exp + Late(j) > now + Skew /\ row.tok = j.tok /\ j.inst = row.inst
  BY <1>0, <1>1 DEF Own, Wants, Carries
<1>3. InStep'
  <2>1. ~Midway
    BY <1>0, <1>1 DEF Midway, Busy, Actors
  <2> QED
    BY <1>1, <1>2, <2>1 DEF AloneInv, InStep, Holds, NoHost
<1>4. \/ AfterPush(a, FALSE)
      \/ tgate' = j.tok /\ AfterPush(a, TRUE)
  BY <1>0 DEF Puts
<1>5. CASE Leaves(a)
  <2>1. Own(NoErrand)'
    BY DEF Own, NoErrand, Wants, Carries, ToList, Mints, Writing
  <2>2. tjob' = [tjob EXCEPT ![a] = NoErrand] /\ NoErrand \in Jobs
    BY <1>5, Blank DEF Leaves, Set
  <2> QED
    BY <1>1, <1>3, <2>1, <2>2, AloneTurn
<1>6. CASE tgate' = j.tok /\ Settled(a, TRUE)
  <2>1. tgate'.inst = row.inst /\ tgate'.exp + Late(tjob[a]) > now + Skew
    BY <1>0, <1>2, <1>6 DEF Holds
  <2> QED
    BY <1>0, <1>1, <1>3, <1>6, <2>1, AloneSettles
<1>7. CASE tgate' = j.tok /\ Turns(a, "cache")
  <2> DEFINE q == [j EXCEPT !.pc = "cache"]
  <2>1. tjob' = [tjob EXCEPT ![a] = q]
    BY <1>0, <1>7 DEF Turns, Set
  <2>2. /\ q \in Jobs /\ q.pc = "cache" /\ q.tok = j.tok /\ q.inst = j.inst /\ q.old = j.old
        /\ q.to = j.to /\ q.own = j.own
    BY DEF Jobs, JobPc
  <2> HIDE DEF q
  <2>3. Own(q)'
    BY <1>0, <1>1, <1>2, <1>7, <2>2 DEF Own, Wants, Carries, ToList, Mints, Writing, Holds, Late,
       NoHost
  <2> QED
    BY <1>1, <1>3, <2>1, <2>2, <2>3, AloneTurn
<1> QED
  BY <1>4, <1>5, <1>6, <1>7 DEF AfterPush

(* the cache, *)
LEMMA AloneRemembers ==
  ASSUME TokenInv, AloneInv, tmix.alone, NEW a \in Actors, Remembers(a)
  PROVE  AloneInv'
<1>0. PICK j \in Jobs : j = tjob[a] /\ Placed(a, j) /\ Dated(j) /\ Own(j)
  BY JobFacts DEF AloneInv
<1>1. /\ j.pc = "cache" /\ UNCHANGED <<row, tgate, now, tmix>> /\ Busy(a) /\ cache' = j.tok.exp
      /\ \A b \in Actors : b # a => ~Busy(b)
  BY <1>0 DEF Remembers, Stands, Busy, AloneInv
<1>2. /\ j.tok.inst = row.inst /\ j.tok.exp + Late(j) > now + Skew /\ row.tok = j.tok
      /\ NoHost => tgate \in {NoTok, j.tok}
  BY <1>0, <1>1 DEF Own, Wants, Carries, Holds
<1>3. j.tok.exp \in Nat
  BY TokenNumbers DEF Jobs
<1>4. InStep'
  BY <1>1, <1>2, <1>3 DEF InStep, Holds, NoHost
<1>5. CASE a = "host"
  <2> DEFINE q == [j EXCEPT !.pc = "use"]
  <2>1. tjob' = [tjob EXCEPT ![a] = q]
    BY <1>0, <1>5 DEF Remembers, Turns, Set
  <2>2. /\ q \in Jobs /\ q.pc = "use" /\ q.tok = j.tok /\ q.inst = j.inst /\ q.old = j.old
        /\ q.to = j.to /\ q.own = j.own
    BY DEF Jobs, JobPc
  <2>3. j.inst = row.inst
    BY <1>0, <1>1 DEF Own, Wants, Carries
  <2> HIDE DEF q
  <2>4. Own(q)'
    BY <1>0, <1>1, <1>2, <2>2, <2>3 DEF Own, Wants, Carries, ToList, Mints, Writing, Late
  <2> QED
    BY <1>1, <1>4, <2>1, <2>2, <2>4, AloneTurn
<1>6. CASE a # "host"
  <2>1. Settled(a, TRUE)
    BY <1>6 DEF Remembers
  <2>2. NoHost => tgate' = NoTok \/ (tgate'.inst = row.inst /\ tgate'.exp + Late(tjob[a]) > now + Skew)
    BY <1>0, <1>1, <1>2
  <2> QED
    BY <1>1, <1>4, <2>1, <2>2, AloneSettles
<1> QED
  BY <1>5, <1>6

(* its reset after an edit, *)
LEMMA AloneResets ==
  ASSUME TokenInv, AloneInv, tmix.alone, Reset
  PROVE  AloneInv'
<1>0. "request" \in Actors /\ Busy("request") /\ NoInst \notin Insts
  BY TokenAssumption DEF Actors, Reset, Stands, Busy
<1>1. PICK j \in Jobs : j = tjob["request"] /\ Placed("request", j) /\ Own(j)
  BY <1>0, JobFacts DEF AloneInv
<1>2. /\ j.pc = "reset" /\ j.to = NoInst /\ UNCHANGED <<row, tgate, now, tmix>>
      /\ cache' = IF j.edit = "app" /\ ~Configured THEN cache ELSE 0
      /\ \A b \in Actors : b # "request" => ~Busy(b)
  BY <1>0, <1>1 DEF Reset, Stands, Placed, AloneInv
<1>3. InStep'
  <2>1. CASE cache' = 0
    BY <2>1 DEF InStep
  <2>2. CASE cache' = cache /\ j.edit = "app"
    <3>1. ~Midway
      BY <1>1, <2>2 DEF Midway
    <3> QED
      BY <1>2, <2>2, <3>1 DEF AloneInv, InStep, Holds, NoHost
  <2> QED
    BY <1>2, <2>1, <2>2
<1> DEFINE q == IF j.edit = "clear" THEN NoErrand ELSE [j EXCEPT !.pc = "ensure"]
<1>4. tjob' = [tjob EXCEPT !["request"] = q]
  BY <1>1 DEF Reset, Leaves, Turns, Set
<1>5. q \in Jobs /\ q.pc \in {"idle", "ensure"} /\ q.to = NoInst
  BY <1>0, <1>2, Blank DEF Jobs, JobPc, NoErrand
<1> HIDE DEF q
<1>6. Own(q)'
  BY <1>5 DEF Own, Wants, Carries, ToList, Mints, Writing
<1> QED
  BY <1>0, <1>2, <1>3, <1>4, <1>5, <1>6, AloneTurn

(* To a place where no token is carried or counted on. *)
LEMMA AlonePlace ==
  ASSUME NEW j \in Jobs, Own(j), NEW q \in Jobs, q.pc \in {"idle", "ensure", "apply", "walk",
         "land", "spoil", "again"},
         (q.to = j.to /\ q.own = j.own) \/ q.own \/ q.to \in {NoInst, row.inst}
  PROVE  Own(q)
  BY DEF Own, Wants, Carries, ToList, Mints, Writing

(* walks, routing and sandbox, *)
LEMMA AloneRoutes ==
  ASSUME TokenInv, AloneInv, tmix.alone,
         \/ \E a \in Actors : WalkInstallations(a) \/ Land(a) \/ Spoil(a)
         \/ RouteLooks \/ RouteAgain \/ RunParks \/ AppliesRouted \/ CreateSandbox \/ CreateRefused
  PROVE  AloneInv'
<1>0. UNCHANGED <<row, cache, tgate, now, tmix>> /\ "run" \in Actors
  BY DEF WalkInstallations, Land, Spoil, RouteLooks, RouteAgain, RunParks, AppliesRouted,
     CreateSandbox, CreateRefused, Actors
<1>1. ASSUME NEW a \in Actors, tjob[a].pc \in {"walk", "land", "spoil", "route", "again", "apply",
             "create"},
             NEW p \in {"again", "walk", "ensure"}, Turns(a, p)
      PROVE  AloneInv'
  <2>1. PICK j \in Jobs : j = tjob[a] /\ Own(j)
    BY JobFacts DEF AloneInv
  <2> DEFINE q == [j EXCEPT !.pc = p]
  <2>2. tjob' = [tjob EXCEPT ![a] = q] /\ Busy(a)
    BY <1>1, <2>1 DEF Turns, Set, Busy
  <2>3. q \in Jobs /\ q.pc = p /\ q.to = j.to /\ q.own = j.own
    BY DEF Jobs, JobPc
  <2> HIDE DEF q
  <2>4. Own(q)
    BY <2>1, <2>3, AlonePlace
  <2> QED
    BY <1>0, <1>1, <2>2, <2>3, <2>4, AloneGo
<1>2. ASSUME NEW a \in Actors, tjob[a].pc \in {"walk", "land", "spoil", "route", "again", "apply",
             "create"}, Leaves(a)
      PROVE  AloneInv'
  BY <1>0, <1>2, AloneLeave DEF Busy
<1>3. ASSUME NEW a \in Actors, WalkInstallations(a) \/ Land(a) \/ Spoil(a) PROVE AloneInv'
  <2>1. PICK j \in Jobs : j = tjob[a] /\ Own(j)
    BY JobFacts DEF AloneInv
  <2>2. j.pc \in {"walk", "land", "spoil"} /\ Busy(a)
    BY <1>3, <2>1 DEF WalkInstallations, Land, Spoil, Stands, Busy
  <2>3. \/ Turns(a, "again") \/ Leaves(a)
        \/ \E s \in SomeInst, p \in {"land", "spoil"} : Set(a, [j EXCEPT !.sees = s, !.pc = p])
    BY <1>3, <2>1, TokenNumbers DEF WalkInstallations, Land, Spoil
  <2>4. ASSUME NEW s \in SomeInst, NEW p \in {"land", "spoil"}, Set(a, [j EXCEPT !.sees = s,
               !.pc = p]) PROVE AloneInv'
    <3> DEFINE q == [j EXCEPT !.sees = s, !.pc = p]
    <3>1. q \in Jobs /\ q.pc = p /\ q.to = j.to /\ q.own = j.own
      BY DEF Jobs, JobPc
    <3>2. tjob' = [tjob EXCEPT ![a] = q]
      BY <2>4 DEF Set
    <3> HIDE DEF q
    <3>3. Own(q)
      BY <2>1, <3>1, AlonePlace
    <3> QED
      BY <1>0, <2>1, <2>2, <3>1, <3>2, <3>3, AloneGo
  <2> QED
    BY <1>1, <1>2, <2>1, <2>2, <2>3, <2>4
<1>4. CASE RouteLooks \/ RouteAgain
  <2>1. PICK j \in Jobs : j = tjob["run"] /\ Own(j)
    BY <1>0, JobFacts DEF AloneInv
  <2>2. j.pc \in {"route", "again"} /\ Busy("run")
    BY <1>4, <2>1 DEF RouteLooks, RouteAgain, Stands, Busy
  <2>3. Turns("run", "walk") \/ Set("run", Routes(j, access))
    BY <1>4, <2>1 DEF RouteLooks, RouteAgain, Turns
  <2>4. CASE Set("run", Routes(j, access))
    <3>1. PICK q \in Jobs : q = Routes(j, access)
      BY TokenNumbers DEF Routes, Jobs, JobPc
    <3>2. q.pc \in {"ensure", "apply"} /\ (q.own \/ q.to = row.inst)
      BY <3>1 DEF Routes, Jobs
    <3>3. Own(q)
      BY <2>1, <3>2, AlonePlace
    <3>4. tjob' = [tjob EXCEPT !["run"] = q]
      BY <2>4, <3>1 DEF Set
    <3> QED
      BY <1>0, <2>1, <2>2, <3>2, <3>3, <3>4, AloneGo
  <2> QED
    BY <1>0, <1>1, <2>1, <2>2, <2>3, <2>4
<1>5. CASE RunParks \/ CreateSandbox \/ CreateRefused \/ AppliesRouted
  <2>1. Leaves("run") \/ Turns("run", "ensure")
    BY <1>5 DEF RunParks, CreateSandbox, CreateRefused, AppliesRouted, GoesWrong
  <2>2. tjob["run"].pc \in {"again", "create", "apply"}
    BY <1>5 DEF RunParks, CreateSandbox, CreateRefused, AppliesRouted, Uncovered, Stands
  <2> QED
    BY <1>0, <1>1, <1>2, <2>1, <2>2
<1> QED
  BY <1>3, <1>4, <1>5

(* and the world. *)
LEMMA AloneWorld ==
  ASSUME TokenInv, AloneInv, tmix.alone,
         CoverageMoves \/ GatewayLoses \/ TokenRestart \/ Tick
  PROVE  AloneInv'
<1>1. CASE CoverageMoves
  BY <1>1 DEF CoverageMoves, AloneInv, Own, InStep, Holds, NoHost, Busy, Midway
<1>2. CASE GatewayLoses
  <2>1. tgate' = NoTok /\ UNCHANGED <<row, cache, tjob, now, tmix>>
    BY <1>2 DEF GatewayLoses
  <2>2. InStep'
    BY <2>1 DEF AloneInv, InStep, Holds, NoHost, Midway
  <2>3. ASSUME NEW a \in Actors PROVE Own(tjob[a])'
    BY <2>1 DEF AloneInv, Own, Holds, NoHost
  <2> QED
    BY <2>1, <2>2, <2>3 DEF AloneInv, Busy
<1>3. CASE TokenRestart
  <2>1. \A a \in Actors : tjob'[a] = NoErrand
    BY <1>3 DEF TokenRestart
  <2>2. Own(NoErrand)'
    BY DEF Own, NoErrand, Wants, Carries, ToList, Mints, Writing
  <2>3. InStep'
    BY <1>3 DEF TokenRestart, InStep
  <2> QED
    BY <2>1, <2>2, <2>3 DEF AloneInv, Busy, NoErrand, Own
<1>4. CASE Tick
  <2>1. /\ now' = now + 1 /\ UNCHANGED <<row, cache, tgate, tmix>>
        /\ tjob' = [a \in Actors |-> [tjob[a] EXCEPT !.old = Busy(a)]] /\ \A a \in Actors : ~tjob[a].old
    BY <1>4 DEF Tick
  <2>2. ASSUME NEW a \in Actors
        PROVE  Own(tjob[a])' /\ (Busy(a)' <=> Busy(a)) /\ tjob'[a].pc = tjob[a].pc /\ tjob'[a].edit = tjob[a].edit
    <3>1. PICK j \in Jobs : j = tjob[a] /\ Own(j)
      BY JobFacts DEF AloneInv
    <3> DEFINE q == [j EXCEPT !.old = (j.pc # "idle")]
    <3>2. tjob'[a] = q /\ ~j.old
      BY <2>1, <3>1 DEF Busy
    <3>3. /\ q \in Jobs /\ q.pc = j.pc /\ q.copy = j.copy /\ q.inst = j.inst /\ q.tok = j.tok
          /\ q.then = j.then
          /\ q.own = j.own /\ q.ok = j.ok /\ q.to = j.to /\ q.row = j.row /\ q.edit = j.edit
          /\ q.old = (j.pc # "idle")
      BY DEF Jobs
    <3> HIDE DEF q
    <3>4. j.tok.exp \in Nat /\ tgate.exp \in Nat /\ Late(j) = 0 /\ (j.pc # "idle" => Late(q) = 1)
      BY <3>2, <3>3, TokenNumbers DEF Jobs, Late
    <3>5. \A e \in Nat : e + Late(j) > now + Skew => e + 1 > now + 1 + Skew
      BY <3>4, TokenNumbers, TokenAssumption
    <3>6. Own(q)'
      BY <2>1, <3>1, <3>3, <3>4, <3>5 DEF Own, Wants, Carries, ToList, Mints, Writing, Holds, NoHost
    <3> QED
      BY <3>1, <3>2, <3>3, <3>6 DEF Busy
  <2>3. InStep'
    <3>1. "request" \in Actors
      BY DEF Actors
    <3> QED
      BY <2>1, <2>2, <3>1 DEF AloneInv, InStep, Holds, NoHost, Midway
  <2> QED
    BY <2>2, <2>3 DEF AloneInv
<1> QED
  BY <1>1, <1>2, <1>3, <1>4

(* AloneInv is inductive, one actor at a time. *)
LEMMA AloneKeeps ==
  ASSUME TokenInv, tmix.alone => AloneInv, [TokenNext]_tokenVars
  PROVE  (tmix.alone => AloneInv)'
<1>1. tmix' = tmix
  BY SpecMixStays
<1> SUFFICES ASSUME tmix.alone PROVE AloneInv'
  BY <1>1
<1>2. CASE UNCHANGED tokenVars
  BY <1>2 DEF tokenVars, AloneInv, Own, InStep, Holds, NoHost, Busy, Midway
<1> QED
  BY <1>2, AloneBegins, AloneSteps, AloneWrites, AlonePuts, AloneRemembers, AloneResets,
     AloneRoutes, AloneWorld DEF TokenNext

(* Both hold at the start. *)
LEMMA OverlapStarts ==
  ASSUME TokenInit(TokenMixes)
  PROVE  (NeverLost => SharedInv) /\ (tmix.alone => AloneInv)
<1>1. cache = 0 /\ tgate = NoTok /\ \A a \in Actors : tjob[a] = NoErrand
  BY DEF TokenInit
<1>2. NoErrand.pc = "idle"
  BY DEF NoErrand
<1> QED
  BY <1>1, <1>2, SharedBlank, AloneBlank DEF SharedInv, OnGate, AloneInv, InStep, Busy

(* What TokenLives says of a step. *)
TokenLivesStep ==
  /\ CreateSandbox /\ (tjob["run"].ok \/ tjob["run"].own) /\ "host" \notin tmix.actors
       => LET r == tjob["run"] IN
            /\ Held(r).exp > now
            /\ tmix.alone => Held(r).inst = IF r.to # NoInst THEN r.to ELSE row.inst
  /\ HostUses /\ tmix.alone
       => tjob["host"].tok.exp > now /\ tjob["host"].tok.inst = row.inst

(* What TokenLives says of a step follows from the invariants. *)
LEMMA LivesByInv ==
  ASSUME TokenInv, NeverLost => SharedInv, tmix.alone => AloneInv,
         tmix.alone \/ "host" \in tmix.actors \/ tmix.loses = 0
  PROVE  TokenLivesStep
<1>0. "run" \in Actors /\ "host" \in Actors
  BY DEF Actors
<1>1. ASSUME CreateSandbox, tjob["run"].ok \/ tjob["run"].own, "host" \notin tmix.actors
      PROVE  /\ Held(tjob["run"]).exp > now
             /\ tmix.alone => Held(tjob["run"]).inst = IF tjob["run"].to # NoInst THEN tjob["run"].to ELSE row.inst
  <2>1. PICK j \in Jobs : /\ j = tjob["run"] /\ Placed("run", j) /\ OwnToken(j)
                          /\ (NeverLost => Shared(j)) /\ (tmix.alone => Own(j))
    BY <1>0, JobFacts DEF SharedInv, AloneInv
  <2>2. j.pc = "create" /\ Held(j) # NoTok /\ (j.ok \/ j.own) /\ Late(j) \in {0, 1}
    BY <1>1, <2>1 DEF CreateSandbox, Stands, Late
  <2>3. CASE j.own
    <3>1. /\ j.to \in Insts /\ routed[j.to] \in AnyTok /\ routed[j.to].exp + Late(j) >= now + Life
          /\ routed[j.to].inst = j.to
      BY <2>1, <2>2, <2>3, TokenNumbers DEF Placed, OwnToken
    <3>2. Held(j) = routed[j.to] /\ j.to # NoInst /\ routed[j.to].exp \in Nat
      BY <2>3, <3>1, TokenNumbers, TokenAssumption DEF Held
    <3>3. routed[j.to].exp > now
      BY <2>2, <3>1, <3>2, TokenNumbers, TokenAssumption
    <3> QED
      BY <2>1, <3>1, <3>2, <3>3
  <2>4. CASE ~j.own
    <3>1. Held(j) = tgate /\ j.ok /\ tgate # NoTok /\ tgate.exp \in Nat
      BY <2>2, <2>4, TokenNumbers DEF Held
    <3>2. NoHost
      BY <1>1 DEF NoHost
    <3>3. CASE tmix.alone
      <4>1. tgate.inst = row.inst /\ tgate.exp + Late(j) > now + Skew
        BY <2>1, <2>2, <2>4, <3>1, <3>2, <3>3 DEF Own
      <4>2. j.to # NoInst => j.to = row.inst
        BY <2>1, <2>4, <3>3 DEF Own
      <4>3. tgate.exp > now
        BY <2>2, <3>1, <4>1, TokenNumbers, TokenAssumption
      <4> QED
        BY <2>1, <3>1, <4>1, <4>2, <4>3
    <3>4. CASE ~tmix.alone
      <4>1. NeverLost
        BY <1>1, <3>4 DEF NeverLost
      <4>2. tgate.exp + Late(j) >= now + Skew
        BY <2>1, <2>2, <2>4, <4>1 DEF Shared
      <4>3. tgate.exp > now
        BY <2>2, <3>1, <4>2, TokenNumbers, TokenAssumption
      <4> QED
        BY <2>1, <3>1, <3>4, <4>3
    <3> QED
      BY <3>3, <3>4
  <2> QED
    BY <2>3, <2>4
<1>2. ASSUME HostUses, tmix.alone PROVE tjob["host"].tok.exp > now /\ tjob["host"].tok.inst = row.inst
  <2>1. PICK j \in Jobs : j = tjob["host"] /\ Own(j)
    BY <1>0, <1>2, JobFacts DEF AloneInv
  <2>2. j.tok.inst = row.inst /\ j.tok.exp + Late(j) > now + Skew /\ Late(j) \in {0, 1} /\ j.tok.exp \in Nat
    BY <1>2, <2>1, TokenNumbers DEF HostUses, Stands, Own, Late, Jobs
  <2>3. j.tok.exp > now
    BY <2>2, TokenNumbers, TokenAssumption
  <2> QED
    BY <2>1, <2>2, <2>3
<1> QED
  BY <1>1, <1>2 DEF TokenLivesStep

(* A sandbox is created with a token that is not over, and without overlap with one of  *)
(* the installation it was routed to, or else of the one configured; so are the host's  *)
(* own calls.  Where actors overlap the gateway loses no provider: a writer that read    *)
(* the row before another wrote it may put an older token back, and the next repair      *)
(* would push that one.                                                                  *)
THEOREM TokensLive ==
  ASSUME \A m \in TokenMixes : m.alone \/ "host" \in m.actors \/ m.loses = 0
  PROVE  TokenSpec => TokenLives
<1> DEFINE Sane == tmix.alone \/ "host" \in tmix.actors \/ tmix.loses = 0
           Inv == TokenInv /\ (NeverLost => SharedInv) /\ (tmix.alone => AloneInv) /\ Sane
<1>1. TokenInit(TokenMixes) => Inv
  BY TokenStarts, OverlapStarts DEF TokenInit
<1>2. Inv /\ [TokenNext]_tokenVars => Inv'
  <2> SUFFICES ASSUME Inv, [TokenNext]_tokenVars PROVE Inv'
    OBVIOUS
  <2>1. tmix' = tmix
    BY SpecMixStays
  <2> QED
    BY <2>1, TokenKeeps, SharedKeeps, AloneKeeps
<1>3. Inv => TokenLivesStep
  BY LivesByInv
<1>4. Inv => [TokenLivesStep]_tokenVars
  BY <1>3
<1> QED
  BY <1>1, <1>2, <1>4, PTL DEF TokenSpec, TokenLives, TokenLivesStep

-------------------------------------------------------------------------------
(* Providers.  What a run attaches is as current as it was when the run began: *)
(* the Board's row, the copy the run applies and, once applied, the gateway's  *)
(* instance are each no older.  A handler that applies beside it writes what   *)
(* the Board has, for it alone changes that; of two handlers, or of two runs,  *)
(* the one with the older copy may write last.                                 *)

OneEach == (\A h, g \in Handlers : h = g) /\ (\A r, s \in Runs : r = s)

AnyRows == UNION {[D -> ProviderRows] : D \in SUBSET ProviderNames}
JobRecords == [pc: ApplyPc, name: ProviderNames \cup {""}, row: {<< >>}, todo: AnyRows, seen: AnyRows]
InCall == {"makes", "updates", "unmakes"}
ApplyJobs == {j \in JobRecords : /\ j.pc \in InCall => j.name \in DOMAIN j.todo
                                 /\ j.pc = "idle" => j = NoApply}

ProviderTypes ==
  /\ provs \in AnyRows /\ gate \in AnyRows
  /\ types \subseteq Types /\ tombs \subseteq Types
  /\ wanted \subseteq ProviderNames /\ gtypes \subseteq Types
  /\ pjob \in [Appliers -> ApplyJobs]
  /\ version \in 0 .. MaxVersion /\ vmix \in ProviderMix

AtGate == {"looks"} \cup InCall

(* A handler applies what the Board has. *)
BringsBoards(j) ==
  j.pc \in {"types"} \cup AtGate => \A n \in DOMAIN j.todo : n \in DOMAIN provs /\ provs[n] = j.todo[n]

(* A run applies nothing older than it saw, and what it has done is not older. *)
BringsSeen(j) ==
  j.pc # "idle" =>
    /\ j.pc \in {"types", "read", "create"} \cup AtGate
    /\ j.pc = "types" => j.todo = << >>
    /\ \A n \in DOMAIN j.seen : /\ j.seen[n].ver <= version
                                /\ n \in DOMAIN provs => provs[n].ver >= j.seen[n].ver
    /\ j.pc \in AtGate =>
         \A n \in DOMAIN j.todo : n \in DOMAIN j.seen /\ j.todo[n].ver >= j.seen[n].ver
    /\ \A n \in DOMAIN j.seen \cap DOMAIN gate :
         j.pc = "create" \/ (j.pc \in AtGate /\ n \notin DOMAIN j.todo) => gate[n].ver >= j.seen[n].ver

CurrentInv ==
  /\ \A n \in DOMAIN provs : provs[n].ver <= version
  /\ \A h \in Handlers : BringsBoards(pjob[h])
  /\ \A r \in Runs : BringsSeen(pjob[r])
-------------------------------------------------------------------------------
LEMMA AnyRowsAre ==
  /\ \A f \in AnyRows : DOMAIN f \subseteq ProviderNames /\ f \in [DOMAIN f -> ProviderRows]
  /\ \A D \in SUBSET ProviderNames : \A f \in [D -> ProviderRows] : f \in AnyRows
  /\ << >> \in AnyRows
  BY DEF AnyRows

LEMMA RowVer ==
  ASSUME NEW f \in AnyRows, NEW n \in DOMAIN f
  PROVE  f[n] \in ProviderRows /\ f[n].ver \in Nat /\ f[n].ver <= MaxVersion /\ f[n].type \in Types
<1>1. f[n] \in ProviderRows
  BY AnyRowsAre
<1> QED
  BY <1>1, VersionsAssumption DEF ProviderRows

LEMMA StoredIs ==
  ASSUME NEW f \in AnyRows, NEW x \in ProviderNames, NEW v \in ProviderRows
  PROVE  /\ Stored(f, x, v) \in AnyRows /\ Just(x, v) \in AnyRows
         /\ DOMAIN Stored(f, x, v) = DOMAIN f \cup {x} /\ DOMAIN Just(x, v) = {x}
         /\ \A y \in DOMAIN f \cup {x} : Stored(f, x, v)[y] = IF y = x THEN v ELSE f[y]
         /\ Just(x, v)[x] = v
<1>1. /\ DOMAIN Stored(f, x, v) = DOMAIN f \cup {x} /\ DOMAIN Just(x, v) = {x}
      /\ \A y \in DOMAIN f \cup {x} : Stored(f, x, v)[y] = IF y = x THEN v ELSE f[y]
      /\ Just(x, v)[x] = v
  BY DEF Stored, Just
<1>2. /\ Stored(f, x, v) \in [DOMAIN f \cup {x} -> ProviderRows]
      /\ Just(x, v) \in [{x} -> ProviderRows]
  BY AnyRowsAre DEF Stored, Just
<1> QED
  BY <1>1, <1>2, AnyRowsAre

LEMMA RestrictIs ==
  ASSUME NEW f \in AnyRows, NEW S, S \subseteq DOMAIN f
  PROVE  Restrict(f, S) \in AnyRows /\ DOMAIN Restrict(f, S) = S /\ \A y \in S : Restrict(f, S)[y] = f[y]
<1>1. Restrict(f, S) \in [S -> ProviderRows] /\ S \in SUBSET ProviderNames
  BY AnyRowsAre DEF Restrict
<1> QED
  BY <1>1, AnyRowsAre DEF Restrict

LEMMA DroppedIs ==
  ASSUME NEW f \in AnyRows, NEW x
  PROVE  /\ Dropped(f, x) \in AnyRows /\ DOMAIN Dropped(f, x) = DOMAIN f \ {x}
         /\ \A y \in DOMAIN f \ {x} : Dropped(f, x)[y] = f[y]
  BY RestrictIs DEF Dropped

LEMMA NoApplyIs ==
  /\ NoApply \in ApplyJobs /\ NoApply.pc = "idle"
  /\ BringsBoards(NoApply) /\ BringsBoards(NoApply)' /\ BringsSeen(NoApply) /\ BringsSeen(NoApply)'
<1>1. NoApply \in ApplyJobs
  BY AnyRowsAre DEF NoApply, ApplyJobs, JobRecords, InCall, ApplyPc
<1> QED
  BY <1>1 DEF NoApply, BringsBoards, BringsSeen, AtGate, InCall

LEMMA JobIs ==
  ASSUME ProviderTypes, NEW a \in Appliers
  PROVE  /\ pjob[a] \in ApplyJobs /\ pjob[a] \in JobRecords
         /\ pjob[a].todo \in AnyRows /\ pjob[a].seen \in AnyRows
         /\ pjob[a].pc \in ApplyPc /\ pjob[a].name \in ProviderNames \cup {""}
         /\ pjob[a].pc = "idle" => pjob[a] = NoApply
         /\ pjob[a].pc \in InCall => pjob[a].name \in DOMAIN pjob[a].todo
<1>1. pjob[a] \in ApplyJobs
  BY DEF ProviderTypes
<1>2. pjob[a] \in JobRecords
  BY <1>1 DEF ApplyJobs
<1> QED
  BY <1>1, <1>2 DEF ApplyJobs, JobRecords

(* One application's record becomes q: its step, its name, what it has left to do. *)
Becomes(a, q, pc, name, todo) ==
  /\ q \in ApplyJobs /\ pjob' = [pjob EXCEPT ![a] = q]
  /\ q.pc = pc /\ q.name = name /\ q.todo = todo /\ q.seen = pjob[a].seen

LEMMA BecomesIs ==
  ASSUME ProviderTypes, NEW a \in Appliers, NEW pc \in ApplyPc \ {"idle"},
         NEW name \in ProviderNames \cup {""}, NEW todo \in AnyRows,
         pc \in InCall => name \in DOMAIN todo,
         pjob' = [pjob EXCEPT ![a] = [pjob[a] EXCEPT !.pc = pc, !.name = name, !.todo = todo]]
  PROVE  \E q : Becomes(a, q, pc, name, todo)
<1> DEFINE r == [pjob[a] EXCEPT !.pc = pc, !.name = name, !.todo = todo]
<1>1. pjob[a] \in JobRecords
  BY JobIs
<1>2. r \in JobRecords /\ r.pc = pc /\ r.name = name /\ r.todo = todo /\ r.seen = pjob[a].seen
  BY <1>1 DEF JobRecords
<1>3. r \in ApplyJobs
  BY <1>2 DEF ApplyJobs
<1> QED
  BY <1>2, <1>3 DEF Becomes

LEMMA GoesIs ==
  ASSUME ProviderTypes, NEW a \in Appliers, NEW pc \in ApplyPc \ {"idle"},
         pc \in InCall => pjob[a].name \in DOMAIN pjob[a].todo, ApplyGoes(a, pc)
  PROVE  \E q : Becomes(a, q, pc, pjob[a].name, pjob[a].todo)
<1>1. /\ pjob \in [Appliers -> ApplyJobs] /\ pjob[a] \in JobRecords
      /\ pjob[a].name \in ProviderNames \cup {""} /\ pjob[a].todo \in AnyRows
  BY JobIs DEF ProviderTypes
<1>2. [pjob[a] EXCEPT !.pc = pc]
        = [pjob[a] EXCEPT !.pc = pc, !.name = pjob[a].name, !.todo = pjob[a].todo]
  BY <1>1 DEF JobRecords
<1>3. pjob' = [pjob EXCEPT ![a] = [pjob[a] EXCEPT !.pc = pc]]
  BY <1>1 DEF ApplyGoes
<1>4. pjob' = [pjob EXCEPT ![a] = [pjob[a] EXCEPT !.pc = pc, !.name = pjob[a].name, !.todo = pjob[a].todo]]
  BY <1>2, <1>3
<1> QED
  BY <1>1, <1>4, BecomesIs

LEMMA TodoIs ==
  ASSUME ProviderTypes, NEW a \in Appliers, NEW todo \in AnyRows,
         pjob' = [pjob EXCEPT ![a].pc = "looks", ![a].todo = todo]
  PROVE  \E q : Becomes(a, q, "looks", pjob[a].name, todo)
<1>1. /\ pjob \in [Appliers -> ApplyJobs] /\ pjob[a] \in JobRecords
      /\ pjob[a].name \in ProviderNames \cup {""}
  BY JobIs DEF ProviderTypes
<1>2. [pjob[a] EXCEPT !.pc = "looks", !.todo = todo]
        = [pjob[a] EXCEPT !.pc = "looks", !.name = pjob[a].name, !.todo = todo]
  BY <1>1 DEF JobRecords
<1>3. pjob' = [pjob EXCEPT ![a] = [pjob[a] EXCEPT !.pc = "looks", !.todo = todo]]
  BY <1>1
<1>4. "looks" \in ApplyPc \ {"idle"} /\ "looks" \notin InCall
  BY DEF ApplyPc, InCall
<1>5. pjob' = [pjob EXCEPT ![a] = [pjob[a] EXCEPT !.pc = "looks", !.name = pjob[a].name, !.todo = todo]]
  BY <1>2, <1>3
<1> QED
  BY <1>1, <1>4, <1>5, BecomesIs

(* What the others of the providers' applications rely on. *)
BoardMoves ==
  \A n \in DOMAIN provs' : (n \in DOMAIN provs /\ provs'[n] = provs[n]) \/ provs'[n].ver >= version
GateMoves ==
  \A n \in DOMAIN gate' : \/ n \in DOMAIN gate /\ gate'[n] = gate[n]
                          \/ n \in DOMAIN provs /\ gate'[n] = provs[n]

LEMMA SeenStays ==
  ASSUME ProviderTypes, ProviderTypes', NEW j \in ApplyJobs, BringsSeen(j),
         BoardMoves, GateMoves, version <= version'
  PROVE  BringsSeen(j)'
<1>1. version \in Nat /\ version' \in Nat
  BY VersionsAssumption DEF ProviderTypes
<1>2. /\ provs \in AnyRows /\ provs' \in AnyRows /\ gate \in AnyRows /\ gate' \in AnyRows
      /\ j.seen \in AnyRows
  BY DEF ProviderTypes, ApplyJobs, JobRecords
<1>3. ASSUME NEW n \in DOMAIN j.seen, j.pc # "idle"
      PROVE  j.seen[n].ver <= version' /\ (n \in DOMAIN provs' => provs'[n].ver >= j.seen[n].ver)
  <2>1. j.seen[n].ver \in Nat /\ j.seen[n].ver <= version
    BY <1>2, <1>3, RowVer DEF BringsSeen
  <2>2. n \in DOMAIN provs => provs[n].ver >= j.seen[n].ver
    BY <1>3 DEF BringsSeen
  <2>3. n \in DOMAIN provs' => provs'[n].ver \in Nat
    BY <1>2, RowVer
  <2> QED
    BY <1>1, <2>1, <2>2, <2>3 DEF BoardMoves
<1>4. ASSUME NEW n \in DOMAIN j.seen \cap DOMAIN gate', j.pc # "idle",
             j.pc = "create" \/ (j.pc \in AtGate /\ n \notin DOMAIN j.todo)
      PROVE  gate'[n].ver >= j.seen[n].ver
  <2>1. n \in DOMAIN gate => gate[n].ver >= j.seen[n].ver
    BY <1>4 DEF BringsSeen
  <2>2. n \in DOMAIN provs => provs[n].ver >= j.seen[n].ver
    BY <1>4 DEF BringsSeen
  <2> QED
    BY <1>4, <2>1, <2>2 DEF GateMoves
<1> QED
  BY <1>3, <1>4 DEF BringsSeen

(* One application takes a step. *)
LEMMA ApplyTurn ==
  ASSUME ProviderTypes, ProviderTypes', CurrentInv, OneEach, NEW a \in Appliers, NEW q \in ApplyJobs,
         pjob' = [pjob EXCEPT ![a] = q],
         BoardMoves, GateMoves \/ a \in Runs, version <= version',
         a \in Handlers \/ provs' = provs,
         \A n \in DOMAIN provs' : provs'[n].ver <= version',
         a \in Handlers => BringsBoards(q)', a \in Runs => BringsSeen(q)'
  PROVE  CurrentInv'
<1>1. \A b \in Appliers : pjob'[b] = IF b = a THEN q ELSE pjob[b]
  BY DEF ProviderTypes
<1>2. ASSUME NEW h \in Handlers
      PROVE  BringsBoards(pjob[h])'
  <2>1. PICK j : j = pjob'[h]
    OBVIOUS
  <2>2. BringsBoards(j)'
    <3>1. CASE h = a
      BY <1>1, <2>1, <3>1 DEF Appliers
    <3>2. CASE h # a
      <4>1. a \notin Handlers /\ j = pjob[h]
        BY <1>1, <2>1, <3>2 DEF OneEach, Appliers
      <4>2. BringsBoards(j) /\ provs' = provs
        BY <4>1 DEF CurrentInv
      <4> QED
        BY <4>2 DEF BringsBoards
    <3> QED
      BY <3>1, <3>2
  <2> QED
    BY <2>1, <2>2 DEF BringsBoards
<1>3. ASSUME NEW r \in Runs
      PROVE  BringsSeen(pjob[r])'
  <2>1. PICK j : j = pjob'[r]
    OBVIOUS
  <2>2. BringsSeen(j)'
    <3>1. CASE r = a
      BY <1>1, <2>1, <3>1 DEF Appliers
    <3>2. CASE r # a
      <4>1. a \notin Runs /\ j = pjob[r] /\ j \in ApplyJobs
        BY <1>1, <2>1, <3>2 DEF OneEach, Appliers, ProviderTypes
      <4>2. BringsSeen(j)
        BY <4>1 DEF CurrentInv
      <4> QED
        BY <4>1, <4>2, SeenStays
    <3> QED
      BY <3>1, <3>2
  <2> QED
    BY <2>1, <2>2 DEF BringsSeen
<1> QED
  BY <1>2, <1>3 DEF CurrentInv

-------------------------------------------------------------------------------
(* One application's records after each kind of step. *)

LEMMA EndsIs ==
  ASSUME ProviderTypes, NEW a \in Appliers, ApplyEnds(a)
  PROVE  NoApply \in ApplyJobs /\ pjob' = [pjob EXCEPT ![a] = NoApply]
  BY NoApplyIs DEF ApplyEnds

FreshRow(ty) == [type |-> ty, ver |-> version + 1]
FreshJob(n, ty) == [NoApply EXCEPT !.pc = "types", !.todo = Just(n, FreshRow(ty))]
ForgetJob(n, todo) == [NoApply EXCEPT !.pc = "forget", !.name = n, !.todo = todo]
SeenJob == [NoApply EXCEPT !.pc = IF Attach = {} THEN "create" ELSE "types",
                           !.seen = [n \in Attach |-> provs[n]]]

LEMMA FreshIs ==
  ASSUME ProviderTypes, NEW a \in Appliers, NEW n \in ProviderNames, NEW ty \in Types, Fresh(a, n, ty)
  PROVE  /\ FreshRow(ty) \in ProviderRows /\ FreshRow(ty).ver = version + 1
         /\ version + 1 \in 0 .. MaxVersion /\ version' = version + 1 /\ version \in Nat
         /\ provs' = Stored(provs, n, FreshRow(ty)) /\ provs' \in AnyRows
         /\ pjob' = [pjob EXCEPT ![a] = FreshJob(n, ty)] /\ FreshJob(n, ty) \in ApplyJobs
         /\ FreshJob(n, ty).pc = "types" /\ FreshJob(n, ty).todo = Just(n, FreshRow(ty))
<1>1. version \in 0 .. MaxVersion /\ version < MaxVersion
  BY DEF ProviderTypes, Fresh
<1>2. /\ version + 1 \in 1 .. MaxVersion /\ version + 1 \in 0 .. MaxVersion /\ version \in Nat
  BY <1>1, VersionsAssumption
<1>3. FreshRow(ty) \in ProviderRows /\ FreshRow(ty).ver = version + 1
  BY <1>2 DEF FreshRow, ProviderRows
<1>4. Just(n, FreshRow(ty)) \in AnyRows
  BY <1>3, StoredIs, AnyRowsAre
<1>5. provs' = Stored(provs, n, FreshRow(ty)) /\ version' = version + 1
  BY DEF Fresh, FreshRow
<1>6. pjob' = [pjob EXCEPT ![a] = FreshJob(n, ty)]
  BY DEF Fresh, FreshRow, FreshJob
<1>7. /\ FreshJob(n, ty) \in JobRecords
      /\ FreshJob(n, ty).pc = "types" /\ FreshJob(n, ty).todo = Just(n, FreshRow(ty))
  BY <1>4, AnyRowsAre DEF FreshJob, NoApply, JobRecords, ApplyPc
<1>8. FreshJob(n, ty) \in ApplyJobs
  BY <1>7 DEF ApplyJobs, InCall
<1>9. provs' \in AnyRows
  BY <1>3, <1>5, StoredIs DEF ProviderTypes
<1> QED
  BY <1>2, <1>3, <1>5, <1>6, <1>7, <1>8, <1>9

LEMMA ForgetJobIs ==
  ASSUME NEW n \in ProviderNames, NEW todo \in AnyRows
  PROVE  ForgetJob(n, todo) \in ApplyJobs /\ ForgetJob(n, todo).pc = "forget"
<1>1. ForgetJob(n, todo) \in JobRecords /\ ForgetJob(n, todo).pc = "forget"
  BY AnyRowsAre DEF ForgetJob, NoApply, JobRecords, ApplyPc
<1> QED
  BY <1>1 DEF ApplyJobs, InCall

LEMMA RenameIs ==
  ASSUME ProviderTypes, NEW h \in Handlers, NEW n \in ProviderNames, NEW m \in ProviderNames, Rename(h, n, m)
  PROVE  /\ Just(m, provs[n]) \in AnyRows /\ provs' = Dropped(provs, n)
         /\ pjob' = [pjob EXCEPT ![h] = ForgetJob(n, Just(m, provs[n]))]
<1>1. provs[n] \in ProviderRows
  BY RowVer DEF Rename, ProviderTypes
<1>2. Just(m, provs[n]) \in AnyRows
  BY <1>1, StoredIs, AnyRowsAre
<1> QED
  BY <1>2 DEF Rename, ForgetJob

LEMMA DeleteProviderIs ==
  ASSUME ProviderTypes, NEW h \in Handlers, NEW n \in ProviderNames, DeleteProvider(h, n)
  PROVE  /\ << >> \in AnyRows /\ provs' = Dropped(provs, n)
         /\ pjob' = [pjob EXCEPT ![h] = ForgetJob(n, << >>)]
<1>1. << >> \in AnyRows
  BY AnyRowsAre
<1>2. /\ NoApply \in JobRecords /\ NoApply.todo = << >>
  BY NoApplyIs DEF ApplyJobs, NoApply
<1>3. [NoApply EXCEPT !.pc = "forget", !.name = n] = ForgetJob(n, << >>)
  BY <1>2 DEF JobRecords, ForgetJob
<1> QED
  BY <1>1, <1>3 DEF DeleteProvider

LEMMA SeenJobIs ==
  ASSUME ProviderTypes
  PROVE  /\ SeenJob \in ApplyJobs /\ SeenJob.pc \in {"create", "types"}
         /\ SeenJob.pc = "create" => SeenJob.seen = << >> \/ DOMAIN SeenJob.seen = {}
         /\ SeenJob.todo = << >> /\ SeenJob.seen = [n \in Attach |-> provs[n]]
         /\ Attach \subseteq DOMAIN provs
<1>1. Attach \subseteq DOMAIN provs /\ Attach \in SUBSET ProviderNames
  BY DEF Attach, ProviderTypes
<1>2. [n \in Attach |-> provs[n]] \in [Attach -> ProviderRows]
  BY <1>1, RowVer DEF ProviderTypes
<1>3. [n \in Attach |-> provs[n]] \in AnyRows
  BY <1>1, <1>2, AnyRowsAre
<1>4. /\ SeenJob \in JobRecords /\ SeenJob.todo = << >> /\ SeenJob.seen = [n \in Attach |-> provs[n]]
      /\ SeenJob.pc = IF Attach = {} THEN "create" ELSE "types"
  BY <1>3, AnyRowsAre DEF SeenJob, NoApply, JobRecords, ApplyPc
<1>5. SeenJob \in ApplyJobs
  BY <1>4 DEF ApplyJobs, InCall
<1> QED
  BY <1>1, <1>4, <1>5

(* After an instance: the next one, the sandbox, or the end. *)
LEMMA AppliedIs ==
  ASSUME ProviderTypes, NEW a \in Appliers, NEW ok \in BOOLEAN, Applied(a, ok)
  PROVE  \/ ApplyEnds(a)
         \/ /\ a \in Runs => ok
            /\ \E q : Becomes(a, q, "looks", pjob[a].name, Dropped(pjob[a].todo, pjob[a].name))
         \/ /\ a \in Runs /\ ok /\ Dropped(pjob[a].todo, pjob[a].name) = << >>
            /\ \E q : Becomes(a, q, "create", pjob[a].name, pjob[a].todo)
<1> DEFINE rest == Dropped(pjob[a].todo, pjob[a].name)
<1>1. rest \in AnyRows
  BY JobIs, DroppedIs
<1>2. CASE ~ok /\ a \in Runs
  BY <1>2 DEF Applied
<1>3. CASE ~(~ok /\ a \in Runs) /\ rest # << >>
  <2>1. pjob' = [pjob EXCEPT ![a].pc = "looks", ![a].todo = rest]
    BY <1>3 DEF Applied
  <2> HIDE DEF rest
  <2>2. \E q : Becomes(a, q, "looks", pjob[a].name, rest)
    BY <1>1, <2>1, TodoIs
  <2> QED
    BY <1>3, <2>2 DEF rest
<1>4. CASE ~(~ok /\ a \in Runs) /\ rest = << >>
  <2>1. a \in Runs => ApplyGoes(a, "create")
    BY <1>4 DEF Applied
  <2>2. a \notin Runs => ApplyEnds(a)
    BY <1>4 DEF Applied
  <2>3. "create" \in ApplyPc \ {"idle"} /\ "create" \notin InCall
    BY DEF ApplyPc, InCall
  <2>4. a \in Runs => \E q : Becomes(a, q, "create", pjob[a].name, pjob[a].todo)
    BY <2>1, <2>3, GoesIs
  <2> QED
    BY <1>4, <2>2, <2>4
<1> QED
  BY <1>2, <1>3, <1>4

-------------------------------------------------------------------------------
(* Types. *)
PjobTypes == pjob \in [Appliers -> ApplyJobs]

LEMMA PutsJob ==
  ASSUME ProviderTypes, NEW a \in Appliers, NEW q \in ApplyJobs, pjob' = [pjob EXCEPT ![a] = q]
  PROVE  PjobTypes'
  BY DEF ProviderTypes, PjobTypes

LEMMA BecomesJob ==
  ASSUME ProviderTypes, NEW a \in Appliers, NEW pc, NEW name, NEW todo,
         \E q : Becomes(a, q, pc, name, todo)
  PROVE  PjobTypes'
  BY PutsJob DEF Becomes

LEMMA AppliedJob ==
  ASSUME ProviderTypes, NEW a \in Appliers, NEW ok \in BOOLEAN, Applied(a, ok)
  PROVE  PjobTypes'
<1>1. CASE ApplyEnds(a)
  BY <1>1, EndsIs, PutsJob
<1>2. CASE \E q : Becomes(a, q, "looks", pjob[a].name, Dropped(pjob[a].todo, pjob[a].name))
  BY <1>2, BecomesJob
<1>3. CASE \E q : Becomes(a, q, "create", pjob[a].name, pjob[a].todo)
  BY <1>3, BecomesJob
<1> QED
  BY <1>1, <1>2, <1>3, AppliedIs

LEMMA TakenIs ==
  ASSUME ProviderTypes, NEW a \in Appliers, pjob[a].pc \in InCall, Taken(a)
  PROVE  /\ gate' \in AnyRows /\ DOMAIN gate' = DOMAIN gate \cup {pjob[a].name}
         /\ pjob[a].name \in DOMAIN pjob[a].todo
         /\ gate'[pjob[a].name] = pjob[a].todo[pjob[a].name]
         /\ \A n \in DOMAIN gate \ {pjob[a].name} : gate'[n] = gate[n]
<1>1. /\ pjob[a].name \in DOMAIN pjob[a].todo /\ pjob[a].todo \in AnyRows
      /\ gate \in AnyRows
  BY JobIs DEF ProviderTypes
<1>2. pjob[a].name \in ProviderNames /\ Row(a) \in ProviderRows
  BY <1>1, AnyRowsAre, RowVer DEF Row
<1>3. PICK x \in ProviderNames, v \in ProviderRows : x = pjob[a].name /\ v = Row(a)
  BY <1>2
<1>4. gate' = Stored(gate, x, v)
  BY <1>3 DEF Taken
<1>5. gate' \in AnyRows
  BY <1>1, <1>4, StoredIs
<1>6. /\ DOMAIN gate' = DOMAIN gate \cup {x}
      /\ \A y \in DOMAIN gate \cup {x} : gate'[y] = IF y = x THEN v ELSE gate[y]
  BY <1>4 DEF Stored
<1> QED
  BY <1>1, <1>3, <1>5, <1>6 DEF Row

LEMMA LooksIs ==
  ASSUME ProviderTypes, NEW a \in Appliers, NEW n \in ProviderNames, Looks(a, n)
  PROVE  \E q, pc : pc \in InCall /\ n \in DOMAIN pjob[a].todo /\ Becomes(a, q, pc, n, pjob[a].todo)
<1>1. PICK pc \in InCall : pjob' = [pjob EXCEPT ![a].name = n, ![a].pc = pc]
  BY DEF Looks, Decided, InCall
<1>2. pjob \in [Appliers -> ApplyJobs] /\ pjob[a] \in JobRecords /\ pjob[a].todo \in AnyRows
  BY JobIs DEF ProviderTypes
<1>3. [pjob[a] EXCEPT !.name = n, !.pc = pc] = [pjob[a] EXCEPT !.pc = pc, !.name = n, !.todo = pjob[a].todo]
  BY <1>2 DEF JobRecords
<1>4. pjob' = [pjob EXCEPT ![a] = [pjob[a] EXCEPT !.name = n, !.pc = pc]]
  BY <1>1, <1>2
<1>5. pjob' = [pjob EXCEPT ![a] = [pjob[a] EXCEPT !.pc = pc, !.name = n, !.todo = pjob[a].todo]]
  BY <1>3, <1>4
<1>6. pc \in ApplyPc \ {"idle"} /\ n \in DOMAIN pjob[a].todo
  BY DEF ApplyPc, InCall, Looks
<1>7. \E q : Becomes(a, q, pc, n, pjob[a].todo)
  BY <1>2, <1>5, <1>6, BecomesIs
<1> QED
  BY <1>6, <1>7

LEMMA ProviderTypesInit == ProviderInit(ProviderMixes) => ProviderTypes
<1> SUFFICES ASSUME ProviderInit(ProviderMixes) PROVE ProviderTypes
  OBVIOUS
<1>1. << >> \in AnyRows /\ NoApply \in ApplyJobs /\ 0 \in 0 .. MaxVersion
  BY AnyRowsAre, NoApplyIs, VersionsAssumption
<1>2. vmix \in ProviderMix /\ vmix.wanted \subseteq ProviderNames
  BY ProviderMixesAssumption DEF ProviderInit, ProviderMix
<1> QED
  BY <1>1, <1>2, TypesAssumption DEF ProviderInit, ProviderTypes

LEMMA ProviderTypesStep ==
  ASSUME ProviderTypes, [ProviderNext]_providerVars
  PROVE  ProviderTypes'
<1> USE DEF ProviderTypes, desired, pcounts, PjobTypes
<1>1. ASSUME NEW h \in Handlers, NEW n \in ProviderNames, NEW ty \in Types, Fresh(h, n, ty),
             UNCHANGED <<types, tombs, wanted, gate, gtypes, failed, rebooted, vmix>>
      PROVE  ProviderTypes'
  <2>1. h \in Appliers
    BY DEF Appliers
  <2>2. provs' \in AnyRows /\ version' \in 0 .. MaxVersion /\ PjobTypes'
    BY <1>1, <2>1, FreshIs, PutsJob
  <2> QED
    BY <1>1, <2>2
<1>2. ASSUME NEW h \in Handlers, Upsert(h) PROVE ProviderTypes'
  <2>1. PICK m \in DOMAIN pjob[h].todo : Fresh(h, m, pjob[h].todo[m].type)
    BY <1>2 DEF Upsert
  <2>2. pjob[h].todo \in AnyRows
    BY JobIs DEF Appliers
  <2>3. m \in ProviderNames /\ pjob[h].todo[m].type \in Types
    BY <2>1, <2>2, AnyRowsAre, RowVer
  <2> QED
    BY <1>1, <1>2, <2>1, <2>3 DEF Upsert
<1>3. ASSUME NEW h \in Handlers, Forget(h) PROVE ProviderTypes'
  <2>1. gate' \in AnyRows
    <3>1. PICK x : x = pjob[h].name
      OBVIOUS
    <3>2. Dropped(gate, x) \in AnyRows
      BY DroppedIs
    <3> QED
      BY <1>3, <3>1, <3>2 DEF Forget
  <2>2. PjobTypes'
    <3>1. h \in Appliers
      BY DEF Appliers
    <3>2. CASE ApplyEnds(h)
      BY <3>1, <3>2, EndsIs, PutsJob
    <3>3. CASE ApplyGoes(h, "upsert")
      <4>1. "upsert" \in ApplyPc \ {"idle"} /\ "upsert" \notin InCall
        BY DEF ApplyPc, InCall
      <4> QED
        BY <3>1, <3>3, <4>1, GoesIs, BecomesJob
    <3> QED
      BY <1>3, <3>2, <3>3 DEF Forget
  <2> QED
    BY <1>3, <2>1, <2>2 DEF Forget
<1>4. ASSUME NEW h \in Handlers, Sync(h) PROVE ProviderTypes'
  <2>1. "types" \in ApplyPc \ {"idle"} /\ "types" \notin InCall /\ h \in Appliers
    BY DEF ApplyPc, InCall, Appliers
  <2>2. PjobTypes'
    BY <1>4, <2>1, GoesIs, BecomesJob DEF Sync
  <2> QED
    BY <1>4, <2>2 DEF Sync
<1>5. ASSUME NEW h \in Handlers, NEW n \in ProviderNames, DeleteProvider(h, n) PROVE ProviderTypes'
  <2>1. << >> \in AnyRows /\ provs' = Dropped(provs, n) /\ pjob' = [pjob EXCEPT ![h] = ForgetJob(n, << >>)]
    BY <1>5, DeleteProviderIs
  <2>2. provs' \in AnyRows /\ PjobTypes'
    BY <2>1, DroppedIs, ForgetJobIs, PutsJob DEF Appliers
  <2> QED
    BY <1>5, <2>2 DEF DeleteProvider
<1>6. ASSUME NEW h \in Handlers, NEW n \in ProviderNames, NEW m \in ProviderNames, Rename(h, n, m)
      PROVE  ProviderTypes'
  <2>1. /\ Just(m, provs[n]) \in AnyRows /\ provs' = Dropped(provs, n)
        /\ pjob' = [pjob EXCEPT ![h] = ForgetJob(n, Just(m, provs[n]))]
    BY <1>6, RenameIs
  <2>2. provs' \in AnyRows /\ PjobTypes'
    BY <2>1, DroppedIs, ForgetJobIs, PutsJob DEF Appliers
  <2> QED
    BY <1>6, <2>2 DEF Rename
<1>7. ASSUME NEW t \in Types, SaveType(t) \/ DeleteType(t) PROVE ProviderTypes'
  BY <1>7 DEF SaveType, DeleteType
<1>8. ASSUME NEW a \in Appliers, ImportTypes(a) PROVE ProviderTypes'
  <2>1. Imported(a) \subseteq Types
    BY DEF Imported
  <2>2. gtypes' \subseteq Types
    BY <1>8, <2>1 DEF ImportTypes
  <2>3. PjobTypes'
    <3>1. ASSUME NEW pc \in {"read", "looks"}, ApplyGoes(a, pc) PROVE PjobTypes'
      <4>1. pc \in ApplyPc \ {"idle"} /\ pc \notin InCall
        BY <3>1 DEF ApplyPc, InCall
      <4> QED
        BY <3>1, <4>1, GoesIs, BecomesJob
    <3>2. CASE ApplyEnds(a)
      BY <3>2, EndsIs, PutsJob
    <3> QED
      BY <1>8, <3>1, <3>2 DEF ImportTypes
  <2> QED
    BY <1>8, <2>2, <2>3 DEF ImportTypes
<1>9. ASSUME NEW a \in Appliers, ReadDesired(a) PROVE ProviderTypes'
  <2> DEFINE todo == IF a \in Handlers THEN provs
                     ELSE Restrict(provs, DOMAIN pjob[a].seen \cap DOMAIN provs)
  <2>1. todo \in AnyRows
    BY RestrictIs
  <2>2. ApplyEnds(a) \/ pjob' = [pjob EXCEPT ![a].pc = "looks", ![a].todo = todo]
    BY <1>9 DEF ReadDesired
  <2> HIDE DEF todo
  <2>3. PjobTypes'
    BY <2>1, <2>2, EndsIs, PutsJob, TodoIs, BecomesJob
  <2> QED
    BY <1>9, <2>3 DEF ReadDesired
<1>10. ASSUME NEW a \in Appliers, Makes(a) \/ Updates(a) PROVE ProviderTypes'
  <2>1. pjob[a].pc \in InCall
    BY <1>10 DEF Makes, Updates, InCall
  <2>2. gate' \in AnyRows
    BY <1>10, <2>1, TakenIs DEF Makes, Updates
  <2>3. PjobTypes'
    <3>1. Applied(a, TRUE) \/ Applied(a, FALSE)
      BY <1>10 DEF Makes, Updates
    <3> QED
      BY <3>1, AppliedJob
  <2> QED
    BY <1>10, <2>2, <2>3 DEF Makes, Updates
<1>11. ASSUME NEW a \in Appliers, Unmakes(a) PROVE ProviderTypes'
  <2>1. gate' \in AnyRows
    <3>1. PICK x : x = pjob[a].name
      OBVIOUS
    <3>2. Dropped(gate, x) \in AnyRows
      BY DroppedIs
    <3> QED
      BY <1>11, <3>1, <3>2 DEF Unmakes
  <2>2. PjobTypes'
    <3>1. CASE Applied(a, FALSE)
      BY <3>1, AppliedJob
    <3>2. CASE ApplyGoes(a, "makes")
      <4>1. "makes" \in ApplyPc \ {"idle"} /\ pjob[a].name \in DOMAIN pjob[a].todo
        BY <1>11, JobIs DEF ApplyPc, InCall, Unmakes
      <4> QED
        BY <3>2, <4>1, GoesIs, BecomesJob
    <3> QED
      BY <1>11, <3>1, <3>2 DEF Unmakes
  <2> QED
    BY <1>11, <2>1, <2>2 DEF Unmakes
<1>12. ASSUME NEW a \in Appliers, NEW n \in ProviderNames, Looks(a, n) PROVE ProviderTypes'
  <2>1. \E q, pc : Becomes(a, q, pc, n, pjob[a].todo)
    BY <1>12, LooksIs
  <2>2. PjobTypes'
    BY <2>1, BecomesJob
  <2> QED
    BY <1>12, <2>2 DEF Looks
<1>13. ASSUME NEW r \in Runs, RunAttaches(r) PROVE ProviderTypes'
  <2>1. pjob' = [pjob EXCEPT ![r] = SeenJob] /\ r \in Appliers
    BY <1>13 DEF RunAttaches, SeenJob, Appliers
  <2>2. PjobTypes'
    BY <2>1, SeenJobIs, PutsJob
  <2> QED
    BY <1>13, <2>2 DEF RunAttaches
<1>14. ASSUME NEW r \in Runs, RunCreates(r) \/ RunRefused(r) PROVE ProviderTypes'
  <2>1. ApplyEnds(r) /\ r \in Appliers
    BY <1>14 DEF RunCreates, RunRefused, Appliers
  <2>2. PjobTypes'
    BY <2>1, EndsIs, PutsJob
  <2> QED
    BY <1>14, <2>2 DEF RunCreates, RunRefused
<1>15. CASE ProviderRestart
  BY <1>15, NoApplyIs, TypesAssumption DEF ProviderRestart, Attach
<1>16. CASE UNCHANGED providerVars
  BY <1>16 DEF providerVars
<1>17. ASSUME NEW h \in Handlers, NEW n \in ProviderNames, NEW t \in Types, SaveProvider(h, n, t)
       PROVE  ProviderTypes'
  BY <1>1, <1>17 DEF SaveProvider
<1> QED
  BY <1>2, <1>3, <1>4, <1>5, <1>6, <1>7, <1>8, <1>9, <1>10, <1>11, <1>12, <1>13, <1>14, <1>15, <1>16,
     <1>17 DEF ProviderNext

-------------------------------------------------------------------------------
(* What is seen stays current. *)

LEMMA BoardKept ==
  ASSUME ProviderTypes, CurrentInv, version' = version, provs' = provs
  PROVE  /\ BoardMoves /\ version <= version'
         /\ \A n \in DOMAIN provs' : provs'[n].ver <= version'
<1>1. version \in Nat
  BY VersionsAssumption DEF ProviderTypes
<1> QED
  BY <1>1 DEF BoardMoves, CurrentInv

LEMMA BoardLess ==
  ASSUME ProviderTypes, CurrentInv, version' = version, NEW x, provs' = Dropped(provs, x)
  PROVE  /\ BoardMoves /\ version <= version'
         /\ \A n \in DOMAIN provs' : provs'[n].ver <= version'
<1>1. version \in Nat
  BY VersionsAssumption DEF ProviderTypes
<1>2. DOMAIN provs' \subseteq DOMAIN provs /\ \A n \in DOMAIN provs' : provs'[n] = provs[n]
  BY DroppedIs DEF ProviderTypes
<1> QED
  BY <1>1, <1>2 DEF BoardMoves, CurrentInv

LEMMA GateKept ==
  ASSUME gate' = gate \/ \E x : gate \in AnyRows /\ gate' = Dropped(gate, x)
  PROVE  GateMoves /\ DOMAIN gate' \subseteq DOMAIN gate /\ \A n \in DOMAIN gate' : gate'[n] = gate[n]
<1>1. CASE gate' = gate
  BY <1>1 DEF GateMoves
<1>2. CASE \E x : gate \in AnyRows /\ gate' = Dropped(gate, x)
  <2>1. PICK x : gate' = Dropped(gate, x) /\ gate \in AnyRows
    BY <1>2
  <2>2. DOMAIN gate' \subseteq DOMAIN gate /\ \A n \in DOMAIN gate' : gate'[n] = gate[n]
    BY <2>1, DroppedIs
  <2> QED
    BY <2>2 DEF GateMoves
<1> QED
  BY <1>1, <1>2

(* A request or a run ends. *)
LEMMA EndsTurn ==
  ASSUME ProviderTypes, ProviderTypes', CurrentInv, OneEach, NEW a \in Appliers, ApplyEnds(a),
         version' = version, provs' = provs, GateMoves \/ a \in Runs
  PROVE  CurrentInv'
<1>1. pjob' = [pjob EXCEPT ![a] = NoApply] /\ NoApply \in ApplyJobs
  BY EndsIs
<1> QED
  BY <1>1, BoardKept, NoApplyIs, ApplyTurn

(* A request that goes on without the Board's rows changing. *)
LEMMA HandlerTurn ==
  ASSUME ProviderTypes, ProviderTypes', CurrentInv, OneEach, NEW h \in Handlers,
         version' = version, provs' = provs, GateMoves,
         NEW q \in ApplyJobs, pjob' = [pjob EXCEPT ![h] = q], BringsBoards(q)'
  PROVE  CurrentInv'
  BY BoardKept, ApplyTurn, ActorsAssumption DEF Appliers

LEMMA RunTurn ==
  ASSUME ProviderTypes, ProviderTypes', CurrentInv, OneEach, NEW r \in Runs,
         version' = version, provs' = provs,
         NEW q \in ApplyJobs, pjob' = [pjob EXCEPT ![r] = q], BringsSeen(q)'
  PROVE  CurrentInv'
  BY BoardKept, ApplyTurn, ActorsAssumption DEF Appliers

(* One that had rows in hand keeps those it does not put away. *)
LEMMA HandlerGoesOn ==
  ASSUME ProviderTypes, ProviderTypes', CurrentInv, OneEach, NEW h \in Handlers,
         version' = version, provs' = provs, GateMoves,
         NEW pc, NEW name, NEW todo, NEW q, Becomes(h, q, pc, name, todo),
         \/ pc \notin {"types"} \cup AtGate
         \/ /\ pjob[h].pc \in {"types"} \cup AtGate
            /\ DOMAIN todo \subseteq DOMAIN pjob[h].todo
            /\ \A n \in DOMAIN todo : todo[n] = pjob[h].todo[n]
         \/ todo = provs
  PROVE  CurrentInv'
<1>1. BringsBoards(pjob[h])
  BY DEF CurrentInv
<1>2. BringsBoards(q)'
  BY <1>1 DEF Becomes, BringsBoards
<1> QED
  BY <1>2, HandlerTurn DEF Becomes

(* So does a run that stays where it was, or takes the next instance in hand. *)
LEMMA RunGoesOn ==
  ASSUME ProviderTypes, ProviderTypes', CurrentInv, OneEach, NEW r \in Runs,
         version' = version, provs' = provs, GateMoves,
         NEW pc \in {"read"} \cup AtGate, NEW name, NEW q, Becomes(r, q, pc, name, pjob[r].todo),
         pc \in AtGate => pjob[r].pc \in AtGate, pjob[r].pc # "idle"
  PROVE  CurrentInv'
<1>1. PICK j : j = pjob[r]
  OBVIOUS
<1>2. j \in ApplyJobs /\ BringsSeen(j)
  BY <1>1, JobIs DEF CurrentInv, Appliers
<1>3. BringsSeen(j)'
  BY <1>2, BoardKept, SeenStays
<1>4. q.pc = pc /\ q.todo = j.todo /\ q.seen = j.seen
  BY <1>1 DEF Becomes
<1>5. BringsSeen(q)'
  BY <1>1, <1>3, <1>4 DEF BringsSeen, AtGate, InCall
<1> QED
  BY <1>5, RunTurn DEF Becomes

(* A save: the Board's row and what is to be applied are the same, and new. *)
LEMMA FreshTurn ==
  ASSUME ProviderTypes, ProviderTypes', CurrentInv, OneEach, NEW h \in Handlers,
         NEW n \in ProviderNames, NEW ty \in Types, Fresh(h, n, ty), gate' = gate
  PROVE  CurrentInv'
<1>1. PICK v : v = FreshRow(ty)
  OBVIOUS
<1>2. PICK q : q = FreshJob(n, ty)
  OBVIOUS
<1>3. /\ v \in ProviderRows /\ v.ver = version + 1 /\ version' = version + 1 /\ version \in Nat
      /\ provs' = Stored(provs, n, v) /\ q \in ApplyJobs
      /\ pjob' = [pjob EXCEPT ![h] = q] /\ q.pc = "types" /\ q.todo = Just(n, v)
  BY <1>1, <1>2, FreshIs DEF Appliers
<1>4. /\ DOMAIN provs' = DOMAIN provs \cup {n}
      /\ \A m \in DOMAIN provs \cup {n} : provs'[m] = IF m = n THEN v ELSE provs[m]
  BY <1>3 DEF Stored
<1>5. BoardMoves
  BY <1>3, <1>4 DEF BoardMoves
<1>6. \A m \in DOMAIN provs' : provs'[m].ver <= version'
  <2> SUFFICES ASSUME NEW m \in DOMAIN provs' PROVE provs'[m].ver <= version'
    OBVIOUS
  <2>1. CASE m = n
    BY <1>3, <1>4, <2>1
  <2>2. CASE m # n
    <3>1. m \in DOMAIN provs /\ provs'[m] = provs[m] /\ provs[m].ver <= version
      BY <1>4, <2>2 DEF CurrentInv
    <3>2. provs[m].ver \in Nat
      BY <3>1, RowVer DEF ProviderTypes
    <3> QED
      BY <1>3, <3>1, <3>2
  <2> QED
    BY <2>1, <2>2
<1>7. BringsBoards(q)'
  BY <1>3, <1>4 DEF BringsBoards, Just
<1>8. GateMoves /\ version <= version' /\ h \in Appliers /\ h \notin Runs
  BY <1>3, GateKept, ActorsAssumption DEF Appliers
<1> QED
  BY <1>3, <1>5, <1>6, <1>7, <1>8, ApplyTurn

(* A rename or a delete. *)
LEMMA LessTurn ==
  ASSUME ProviderTypes, ProviderTypes', CurrentInv, OneEach, NEW h \in Handlers,
         NEW n \in ProviderNames, NEW todo \in AnyRows, provs' = Dropped(provs, n),
         pjob' = [pjob EXCEPT ![h] = ForgetJob(n, todo)], gate' = gate, version' = version
  PROVE  CurrentInv'
<1>1. PICK q : q = ForgetJob(n, todo)
  OBVIOUS
<1>2. q \in ApplyJobs /\ q.pc = "forget" /\ pjob' = [pjob EXCEPT ![h] = q]
  BY <1>1, ForgetJobIs
<1>3. BringsBoards(q)'
  BY <1>2 DEF BringsBoards, AtGate, InCall
<1>4. GateMoves /\ h \in Appliers /\ h \notin Runs
  BY GateKept, ActorsAssumption DEF Appliers
<1> QED
  BY <1>2, <1>3, <1>4, BoardLess, ApplyTurn

(* An instance done, or not: of a handler. *)
LEMMA HandlerApplied ==
  ASSUME ProviderTypes, ProviderTypes', CurrentInv, OneEach, NEW h \in Handlers, NEW ok \in BOOLEAN,
         pjob[h].pc \in InCall, Applied(h, ok), version' = version, provs' = provs,
         gate' = gate \/ Taken(h)
  PROVE  CurrentInv'
<1>1. h \in Appliers /\ h \notin Runs
  BY ActorsAssumption DEF Appliers
<1>2. GateMoves
  <2>1. CASE gate' = gate
    BY <2>1, GateKept
  <2>2. CASE Taken(h)
    <3>1. \A n \in DOMAIN pjob[h].todo : n \in DOMAIN provs /\ provs[n] = pjob[h].todo[n]
      BY DEF CurrentInv, BringsBoards, AtGate
    <3>2. /\ DOMAIN gate' = DOMAIN gate \cup {pjob[h].name}
          /\ pjob[h].name \in DOMAIN pjob[h].todo
          /\ gate'[pjob[h].name] = pjob[h].todo[pjob[h].name]
          /\ \A n \in DOMAIN gate \ {pjob[h].name} : gate'[n] = gate[n]
      BY <1>1, <2>2, TakenIs
    <3> QED
      BY <3>1, <3>2 DEF GateMoves
  <2> QED
    BY <2>1, <2>2
<1>3. CASE ApplyEnds(h)
  BY <1>1, <1>2, <1>3, EndsTurn
<1>4. CASE \E q : Becomes(h, q, "looks", pjob[h].name, Dropped(pjob[h].todo, pjob[h].name))
  <2>1. PICK q : Becomes(h, q, "looks", pjob[h].name, Dropped(pjob[h].todo, pjob[h].name))
    BY <1>4
  <2>2. PICK x : x = pjob[h].name
    OBVIOUS
  <2>3. pjob[h].todo \in AnyRows
    BY <1>1, JobIs
  <2>4. /\ DOMAIN Dropped(pjob[h].todo, x) \subseteq DOMAIN pjob[h].todo
        /\ \A n \in DOMAIN Dropped(pjob[h].todo, x) : Dropped(pjob[h].todo, x)[n] = pjob[h].todo[n]
    BY <2>3, DroppedIs
  <2>5. pjob[h].pc \in {"types"} \cup AtGate
    BY DEF AtGate
  <2> QED
    BY <1>2, <2>1, <2>2, <2>4, <2>5, HandlerGoesOn
<1> QED
  BY <1>1, <1>3, <1>4, AppliedIs

(* And of a run: the gateway has what it applied, which is not older than what it saw. *)
LEMMA RunApplied ==
  ASSUME ProviderTypes, ProviderTypes', CurrentInv, OneEach, NEW r \in Runs, NEW ok \in BOOLEAN,
         pjob[r].pc \in InCall, Applied(r, ok), version' = version, provs' = provs,
         ok => Taken(r)
  PROVE  CurrentInv'
<1>1. r \in Appliers
  BY DEF Appliers
<1>2. PICK j, x : j = pjob[r] /\ x = pjob[r].name
  OBVIOUS
<1>3. /\ j \in ApplyJobs /\ j.todo \in AnyRows /\ j.pc \in InCall /\ j.pc # "idle" /\ j.pc # "create"
      /\ x \in DOMAIN j.todo /\ BringsSeen(j)
  BY <1>1, <1>2, JobIs DEF CurrentInv, InCall
<1>4. /\ DOMAIN Dropped(j.todo, x) = DOMAIN j.todo \ {x}
      /\ \A n \in DOMAIN j.todo \ {x} : Dropped(j.todo, x)[n] = j.todo[n]
  BY <1>3, DroppedIs
<1>5. /\ \A n \in DOMAIN j.seen : /\ j.seen[n].ver <= version
                                  /\ n \in DOMAIN provs => provs[n].ver >= j.seen[n].ver
      /\ \A n \in DOMAIN j.todo : n \in DOMAIN j.seen /\ j.todo[n].ver >= j.seen[n].ver
      /\ \A n \in DOMAIN j.seen \cap DOMAIN gate : n \notin DOMAIN j.todo => gate[n].ver >= j.seen[n].ver
  BY <1>3 DEF BringsSeen, AtGate
<1>6. ASSUME ok, NEW n \in DOMAIN j.seen \cap DOMAIN gate', n \notin DOMAIN j.todo \ {x}
      PROVE  gate'[n].ver >= j.seen[n].ver
  <2>1. /\ DOMAIN gate' = DOMAIN gate \cup {x} /\ gate'[x] = j.todo[x]
        /\ \A m \in DOMAIN gate \ {x} : gate'[m] = gate[m]
    BY <1>1, <1>2, <1>6, TakenIs
  <2> QED
    BY <1>3, <1>5, <1>6, <2>1
<1>7. CASE ApplyEnds(r)
  BY <1>1, <1>7, EndsTurn
<1>8. CASE ok /\ \E q : Becomes(r, q, "looks", x, Dropped(j.todo, x))
  <2>1. PICK q : Becomes(r, q, "looks", x, Dropped(j.todo, x))
    BY <1>8
  <2>2. /\ q \in ApplyJobs /\ pjob' = [pjob EXCEPT ![r] = q]
        /\ q.pc = "looks" /\ q.todo = Dropped(j.todo, x) /\ q.seen = j.seen
    BY <1>2, <2>1 DEF Becomes
  <2>3. BringsSeen(q)'
    BY <1>4, <1>5, <1>6, <1>8, <2>2 DEF BringsSeen, AtGate, InCall
  <2> QED
    BY <2>2, <2>3, RunTurn
<1>9. CASE ok /\ Dropped(j.todo, x) = << >> /\ \E q : Becomes(r, q, "create", x, j.todo)
  <2>1. PICK q : Becomes(r, q, "create", x, j.todo)
    BY <1>9
  <2>2. /\ q \in ApplyJobs /\ pjob' = [pjob EXCEPT ![r] = q]
        /\ q.pc = "create" /\ q.todo = j.todo /\ q.seen = j.seen
    BY <1>2, <2>1 DEF Becomes
  <2>3. DOMAIN j.todo \ {x} = {}
    BY <1>4, <1>9
  <2>4. BringsSeen(q)'
    BY <1>5, <1>6, <1>9, <2>2, <2>3 DEF BringsSeen, AtGate, InCall
  <2> QED
    BY <2>2, <2>4, RunTurn
<1> QED
  BY <1>1, <1>2, <1>7, <1>8, <1>9, AppliedIs

LEMMA AnyApplied ==
  ASSUME ProviderTypes, ProviderTypes', CurrentInv, OneEach, NEW a \in Appliers, NEW ok \in BOOLEAN,
         pjob[a].pc \in InCall, Applied(a, ok), version' = version, provs' = provs,
         IF ok THEN Taken(a) ELSE gate' = gate
  PROVE  CurrentInv'
  BY HandlerApplied, RunApplied DEF Appliers

LEMMA ImportTurn ==
  ASSUME ProviderTypes, ProviderTypes', CurrentInv, OneEach, NEW a \in Appliers, ImportTypes(a)
  PROVE  CurrentInv'
<1>1. /\ version' = version /\ provs' = provs /\ gate' = gate /\ pjob[a].pc = "types"
  BY DEF ImportTypes, desired
<1>2. GateMoves
  BY <1>1, GateKept
<1>3. CASE ApplyEnds(a)
  BY <1>1, <1>2, <1>3, EndsTurn
<1>4. CASE a \in Handlers /\ \E pc \in {"read", "looks"} : ApplyGoes(a, pc)
  <2>1. PICK pc \in {"read", "looks"} : ApplyGoes(a, pc)
    BY <1>4
  <2>2. pc \in ApplyPc \ {"idle"} /\ pc \notin InCall
    BY DEF ApplyPc, InCall
  <2>3. PICK q : Becomes(a, q, pc, pjob[a].name, pjob[a].todo)
    BY <2>1, <2>2, GoesIs
  <2> QED
    BY <1>1, <1>2, <1>4, <2>3, HandlerGoesOn
<1>5. CASE a \in Runs /\ ApplyGoes(a, "read")
  <2>1. "read" \in ApplyPc \ {"idle"} /\ "read" \notin InCall /\ "read" \notin AtGate
    BY DEF ApplyPc, InCall, AtGate
  <2>2. PICK q : Becomes(a, q, "read", pjob[a].name, pjob[a].todo)
    BY <1>5, <2>1, GoesIs
  <2> QED
    BY <1>1, <1>2, <1>5, <2>1, <2>2, RunGoesOn
<1>6. a \in Runs => pjob[a].todo = << >>
  BY <1>1 DEF CurrentInv, BringsSeen
<1> QED
  BY <1>3, <1>4, <1>5, <1>6 DEF ImportTypes, Appliers

LEMMA ReadTurn ==
  ASSUME ProviderTypes, ProviderTypes', CurrentInv, OneEach, NEW a \in Appliers, ReadDesired(a)
  PROVE  CurrentInv'
<1>1. /\ version' = version /\ provs' = provs /\ gate' = gate /\ pjob[a].pc = "read"
  BY DEF ReadDesired, desired, pcounts
<1>2. GateMoves
  BY <1>1, GateKept
<1>3. CASE ApplyEnds(a)
  BY <1>1, <1>2, <1>3, EndsTurn
<1>4. CASE a \in Handlers /\ pjob' = [pjob EXCEPT ![a].pc = "looks", ![a].todo = provs]
  <2>1. PICK q : Becomes(a, q, "looks", pjob[a].name, provs)
    BY <1>4, TodoIs DEF ProviderTypes
  <2> QED
    BY <1>1, <1>2, <1>4, <2>1, HandlerGoesOn
<1>5. CASE /\ a \in Runs /\ ~Missing(a)
           /\ pjob' = [pjob EXCEPT ![a].pc = "looks",
                                   ![a].todo = Restrict(provs, DOMAIN pjob[a].seen \cap DOMAIN provs)]
  <2>1. PICK j, todo : j = pjob[a] /\ todo = Restrict(provs, DOMAIN pjob[a].seen \cap DOMAIN provs)
    OBVIOUS
  <2>2. /\ DOMAIN j.seen \subseteq DOMAIN provs /\ BringsSeen(j) /\ j.pc = "read"
    BY <1>1, <1>5, <2>1 DEF Missing, CurrentInv
  <2>3. /\ todo \in AnyRows /\ DOMAIN todo = DOMAIN j.seen
        /\ \A n \in DOMAIN todo : todo[n] = provs[n]
    <3>1. PICK S : S = DOMAIN pjob[a].seen \cap DOMAIN provs
      OBVIOUS
    <3>2. S = DOMAIN j.seen /\ S \subseteq DOMAIN provs /\ todo = Restrict(provs, S)
      BY <2>1, <2>2, <3>1
    <3> QED
      BY <3>2, RestrictIs DEF ProviderTypes
  <2>4. PICK q : Becomes(a, q, "looks", pjob[a].name, todo)
    BY <1>5, <2>1, <2>3, TodoIs
  <2>5. q \in ApplyJobs /\ pjob' = [pjob EXCEPT ![a] = q] /\ q.pc = "looks" /\ q.todo = todo /\ q.seen = j.seen
    BY <2>1, <2>4 DEF Becomes
  <2>6. BringsSeen(q)'
    BY <1>1, <2>2, <2>3, <2>5 DEF BringsSeen, AtGate, InCall
  <2> QED
    BY <1>1, <1>5, <2>5, <2>6, RunTurn
<1>6. a \in Handlers \/ (a \in Runs /\ a \notin Handlers)
  BY ActorsAssumption DEF Appliers
<1> QED
  BY <1>3, <1>4, <1>5, <1>6 DEF ReadDesired

LEMMA LooksTurn ==
  ASSUME ProviderTypes, ProviderTypes', CurrentInv, OneEach, NEW a \in Appliers, NEW n \in ProviderNames,
         Looks(a, n)
  PROVE  CurrentInv'
<1>1. /\ version' = version /\ provs' = provs /\ gate' = gate /\ pjob[a].pc = "looks"
  BY DEF Looks, desired
<1>2. GateMoves
  BY <1>1, GateKept
<1>3. PICK q, pc : pc \in InCall /\ Becomes(a, q, pc, n, pjob[a].todo)
  BY LooksIs
<1>4. pc \in AtGate /\ pjob[a].pc \in AtGate
  BY <1>1, <1>3 DEF AtGate
<1>5. CASE a \in Handlers
  BY <1>1, <1>2, <1>3, <1>4, <1>5, HandlerGoesOn
<1>6. CASE a \in Runs
  BY <1>1, <1>2, <1>3, <1>4, <1>6, RunGoesOn
<1> QED
  BY <1>5, <1>6 DEF Appliers

LEMMA UnmakesTurn ==
  ASSUME ProviderTypes, ProviderTypes', CurrentInv, OneEach, NEW a \in Appliers, Unmakes(a)
  PROVE  CurrentInv'
<1>1. /\ version' = version /\ provs' = provs /\ pjob[a].pc = "unmakes" /\ pjob[a].pc \in InCall
  BY DEF Unmakes, desired, InCall
<1>2. CASE Applied(a, FALSE) /\ gate' = gate
  BY <1>1, <1>2, AnyApplied
<1>3. CASE ApplyGoes(a, "makes") /\ gate' = Dropped(gate, pjob[a].name)
  <2>1. PICK x : x = pjob[a].name
    OBVIOUS
  <2>2. gate' = Dropped(gate, x) /\ gate \in AnyRows
    BY <1>3, <2>1 DEF ProviderTypes
  <2>3. GateMoves
    BY <2>2, GateKept
  <2>4. "makes" \in ApplyPc \ {"idle"} /\ pjob[a].name \in DOMAIN pjob[a].todo
    BY <1>1, JobIs DEF ApplyPc
  <2>5. PICK q : Becomes(a, q, "makes", pjob[a].name, pjob[a].todo)
    BY <1>3, <2>4, GoesIs
  <2>6. "makes" \in AtGate /\ pjob[a].pc \in AtGate
    BY <1>1 DEF AtGate, InCall
  <2>7. CASE a \in Handlers
    BY <1>1, <2>3, <2>5, <2>6, <2>7, HandlerGoesOn
  <2>8. CASE a \in Runs
    BY <1>1, <2>3, <2>5, <2>6, <2>8, RunGoesOn
  <2> QED
    BY <2>7, <2>8 DEF Appliers
<1> QED
  BY <1>2, <1>3 DEF Unmakes

LEMMA AttachTurn ==
  ASSUME ProviderTypes, ProviderTypes', CurrentInv, OneEach, NEW r \in Runs, RunAttaches(r)
  PROVE  CurrentInv'
<1>1. version' = version /\ provs' = provs /\ gate' = gate /\ pjob' = [pjob EXCEPT ![r] = SeenJob]
  BY DEF RunAttaches, desired, pcounts, SeenJob
<1>2. PICK q, at : q = SeenJob /\ at = Attach
  OBVIOUS
<1>3. /\ q \in ApplyJobs /\ q.pc \in {"create", "types"} /\ (q.pc = "create" => DOMAIN q.seen = {})
      /\ q.todo = << >> /\ q.seen = [n \in at |-> provs[n]] /\ at \subseteq DOMAIN provs
  BY <1>2, SeenJobIs
<1>4. \A n \in DOMAIN provs : provs[n].ver <= version /\ provs[n].ver \in Nat
  BY RowVer DEF CurrentInv, ProviderTypes
<1>5. BringsSeen(q)'
  BY <1>1, <1>3, <1>4 DEF BringsSeen, AtGate, InCall
<1> QED
  BY <1>1, <1>2, <1>3, <1>5, RunTurn

LEMMA CurrentInit == ProviderInit(ProviderMixes) => CurrentInv
<1> SUFFICES ASSUME ProviderInit(ProviderMixes) PROVE CurrentInv
  OBVIOUS
<1>1. DOMAIN provs = {}
  BY DEF ProviderInit
<1>2. \A a \in Appliers : pjob[a] = NoApply
  BY DEF ProviderInit
<1>3. BringsBoards(NoApply) /\ BringsSeen(NoApply)
  BY NoApplyIs
<1> QED
  BY <1>1, <1>2, <1>3 DEF CurrentInv, Appliers

LEMMA CurrentStep ==
  ASSUME ProviderTypes, ProviderTypes', CurrentInv, OneEach, [ProviderNext]_providerVars
  PROVE  CurrentInv'
<1>1. ASSUME NEW h \in Handlers, Upsert(h) PROVE CurrentInv'
  <2>1. PICK m \in DOMAIN pjob[h].todo : Fresh(h, m, pjob[h].todo[m].type)
    BY <1>1 DEF Upsert
  <2>2. pjob[h].todo \in AnyRows
    BY JobIs DEF Appliers
  <2>3. m \in ProviderNames /\ pjob[h].todo[m].type \in Types
    BY <2>1, <2>2, AnyRowsAre, RowVer
  <2> QED
    BY <1>1, <2>1, <2>3, FreshTurn DEF Upsert
<1>2. ASSUME NEW h \in Handlers, Forget(h) PROVE CurrentInv'
  <2>1. /\ version' = version /\ provs' = provs /\ h \in Appliers /\ gate \in AnyRows
    BY <1>2 DEF Forget, desired, Appliers, ProviderTypes
  <2>2. PICK x : x = pjob[h].name
    OBVIOUS
  <2>3. gate' = gate \/ gate' = Dropped(gate, x)
    BY <1>2, <2>2 DEF Forget
  <2>4. GateMoves
    BY <2>1, <2>3, GateKept
  <2>5. CASE ApplyEnds(h)
    BY <2>1, <2>4, <2>5, EndsTurn
  <2>6. CASE ApplyGoes(h, "upsert")
    <3>1. "upsert" \in ApplyPc \ {"idle"} /\ "upsert" \notin InCall /\ "upsert" \notin {"types"} \cup AtGate
      BY DEF ApplyPc, InCall, AtGate
    <3>2. PICK q : Becomes(h, q, "upsert", pjob[h].name, pjob[h].todo)
      BY <2>1, <2>6, <3>1, GoesIs
    <3> QED
      BY <2>1, <2>4, <3>1, <3>2, HandlerGoesOn
  <2> QED
    BY <1>2, <2>5, <2>6 DEF Forget
<1>3. ASSUME NEW h \in Handlers, Sync(h) PROVE CurrentInv'
  <2>1. /\ version' = version /\ provs' = provs /\ gate' = gate /\ h \in Appliers
        /\ ApplyGoes(h, "types") /\ pjob[h].pc = "idle"
    BY <1>3 DEF Sync, desired, pcounts, Appliers, MayStart, Rests
  <2>2. GateMoves
    BY <2>1, GateKept
  <2>3. "types" \in ApplyPc \ {"idle"} /\ "types" \notin InCall
    BY DEF ApplyPc, InCall
  <2>4. PICK q : Becomes(h, q, "types", pjob[h].name, pjob[h].todo)
    BY <2>1, <2>3, GoesIs
  <2>5. q.todo = << >>
    <3>1. pjob[h] = NoApply /\ q.todo = pjob[h].todo
      BY <2>1, <2>4, JobIs DEF Becomes
    <3>2. NoApply.todo = << >>
      BY DEF NoApply
    <3> QED
      BY <3>1, <3>2
  <2>6. BringsBoards(q)'
    BY <2>5 DEF BringsBoards
  <2> QED
    BY <2>1, <2>2, <2>4, <2>6, HandlerTurn DEF Becomes
<1>4. ASSUME NEW h \in Handlers, NEW n \in ProviderNames, DeleteProvider(h, n) PROVE CurrentInv'
  <2>1. << >> \in AnyRows /\ provs' = Dropped(provs, n) /\ pjob' = [pjob EXCEPT ![h] = ForgetJob(n, << >>)]
    BY <1>4, DeleteProviderIs
  <2>2. gate' = gate /\ version' = version
    BY <1>4 DEF DeleteProvider, pcounts
  <2> QED
    BY <2>1, <2>2, LessTurn
<1>5. ASSUME NEW h \in Handlers, NEW n \in ProviderNames, NEW m \in ProviderNames, Rename(h, n, m)
      PROVE  CurrentInv'
  <2>1. PICK todo : todo = Just(m, provs[n])
    OBVIOUS
  <2>2. todo \in AnyRows /\ provs' = Dropped(provs, n) /\ pjob' = [pjob EXCEPT ![h] = ForgetJob(n, todo)]
    BY <1>5, <2>1, RenameIs
  <2>3. gate' = gate /\ version' = version
    BY <1>5 DEF Rename, pcounts
  <2> QED
    BY <2>2, <2>3, LessTurn
<1>6. ASSUME NEW t \in Types, SaveType(t) \/ DeleteType(t) PROVE CurrentInv'
  BY <1>6 DEF SaveType, DeleteType, pcounts, CurrentInv, BringsBoards, BringsSeen
<1>7. ASSUME NEW a \in Appliers, Makes(a) PROVE CurrentInv'
  <2>1. pjob[a].pc \in InCall /\ version' = version /\ provs' = provs
    BY <1>7 DEF Makes, InCall, desired
  <2>2. (Taken(a) /\ Applied(a, TRUE)) \/ (gate' = gate /\ Applied(a, FALSE))
    BY <1>7 DEF Makes
  <2> QED
    BY <2>1, <2>2, AnyApplied
<1>8. ASSUME NEW a \in Appliers, Updates(a) PROVE CurrentInv'
  <2>1. pjob[a].pc \in InCall /\ version' = version /\ provs' = provs
    BY <1>8 DEF Updates, InCall, desired
  <2>2. (Taken(a) /\ Applied(a, TRUE)) \/ (gate' = gate /\ Applied(a, FALSE))
    BY <1>8 DEF Updates
  <2> QED
    BY <2>1, <2>2, AnyApplied
<1>9. ASSUME NEW r \in Runs, RunCreates(r) \/ RunRefused(r) PROVE CurrentInv'
  <2>1. ApplyEnds(r) /\ r \in Appliers /\ version' = version /\ provs' = provs
    BY <1>9 DEF RunCreates, RunRefused, Appliers, desired, pcounts
  <2> QED
    BY <2>1, EndsTurn
<1>10. CASE ProviderRestart
  <2>1. provs' = provs /\ version' = version /\ \A a \in Appliers : pjob'[a] = NoApply
    BY <1>10 DEF ProviderRestart
  <2>2. \A n \in DOMAIN provs' : provs'[n].ver <= version'
    BY <2>1 DEF CurrentInv
  <2>3. ASSUME NEW a \in Appliers PROVE BringsBoards(pjob[a])' /\ BringsSeen(pjob[a])'
    <3>1. PICK q : q = NoApply
      OBVIOUS
    <3>2. pjob'[a] = q /\ q.pc = "idle"
      BY <2>1, <3>1, NoApplyIs
    <3> QED
      BY <3>2 DEF BringsBoards, BringsSeen, AtGate, InCall
  <2> QED
    BY <2>2, <2>3 DEF CurrentInv, Appliers
<1>11. CASE UNCHANGED providerVars
  BY <1>11 DEF providerVars, CurrentInv, BringsBoards, BringsSeen
<1>12. ASSUME NEW h \in Handlers, NEW n \in ProviderNames, NEW t \in Types, SaveProvider(h, n, t)
       PROVE  CurrentInv'
  BY <1>12, FreshTurn DEF SaveProvider
<1> QED
  BY <1>1, <1>2, <1>3, <1>4, <1>5, <1>6, <1>7, <1>8, <1>9, <1>10, <1>11, <1>12, ImportTurn, ReadTurn,
     LooksTurn, UnmakesTurn, AttachTurn DEF ProviderNext

LEMMA CreatesCurrent ==
  ASSUME ProviderTypes, CurrentInv, NEW r \in Runs, RunCreates(r), NEW n \in DOMAIN pjob[r].seen
  PROVE  gate[n].ver >= pjob[r].seen[n].ver
<1>1. n \in DOMAIN gate /\ pjob[r].pc = "create"
  BY DEF RunCreates, Creates
<1>2. BringsSeen(pjob[r])
  BY DEF CurrentInv
<1> QED
  BY <1>1, <1>2 DEF BringsSeen

(* Rows, copies and instances have their types, whatever runs beside what.  For the *)
(* copies this is: a call to the gateway is about a provider still to be done.      *)
THEOREM ProviderTypesHold == ProviderSpec => []ProviderTypeOK
<1>1. ProviderInit(ProviderMixes) => ProviderTypes
  BY ProviderTypesInit
<1>2. ProviderTypes /\ [ProviderNext]_providerVars => ProviderTypes'
  BY ProviderTypesStep
<1>3. ProviderTypes => ProviderTypeOK
  <2> SUFFICES ASSUME ProviderTypes PROVE ProviderTypeOK
    OBVIOUS
  <2>1. \A f \in AnyRows : PartialRows(f)
    BY AnyRowsAre DEF PartialRows, Range
  <2>2. ASSUME NEW a \in Appliers
        PROVE  /\ pjob[a].pc \in ApplyPc /\ pjob[a].name \in ProviderNames \cup {""}
               /\ PartialRows(pjob[a].todo) /\ PartialRows(pjob[a].seen)
    BY <2>1, JobIs
  <2> QED
    BY <2>1, <2>2 DEF ProviderTypes, ProviderTypeOK
<1> QED
  BY <1>1, <1>2, <1>3, PTL DEF ProviderSpec

(* One handler beside one run, any number of providers, types, failures and restarts. *)
THEOREM SandboxesAreCurrent == OneEach => (ProviderSpec => CreatedIsCurrent)
<1> SUFFICES ASSUME OneEach PROVE ProviderSpec => CreatedIsCurrent
  OBVIOUS
<1>1. ProviderInit(ProviderMixes) => ProviderTypes /\ CurrentInv
  BY ProviderTypesInit, CurrentInit
<1>2. ProviderTypes /\ CurrentInv /\ [ProviderNext]_providerVars => (ProviderTypes /\ CurrentInv)'
  BY ProviderTypesStep, CurrentStep
<1>3. ProviderTypes /\ CurrentInv =>
        (\A r \in Runs : RunCreates(r) => \A n \in DOMAIN pjob[r].seen : gate[n].ver >= pjob[r].seen[n].ver)
  BY CreatesCurrent
<1> QED
  BY <1>1, <1>2, <1>3, PTL DEF ProviderSpec, CreatedIsCurrent
===============================================================================
