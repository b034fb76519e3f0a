-------------------------------- MODULE Logins --------------------------------
(***************************************************************************)
(* Two logins that leave credentials on the Board.                         *)
(*                                                                         *)
(* OpenShell's OIDC (src/openshell_oauth.rs, src/openshell.rs,             *)
(* src/store.rs): the Board seals one bundle; every gateway client copies  *)
(* it when it is made, renews its own copy when the access token runs out, *)
(* and a client made from a shared Board seals what it got.  The IdP may   *)
(* give a new refresh token with each renewal and drop the old one.        *)
(*                                                                         *)
(* OAuth with a remote MCP server (src/mcp_client_oauth.rs, src/api.rs):   *)
(* connecting writes a provider type, a provider and last the server that  *)
(* names both, on the Board and at the gateway; disconnecting the server   *)
(* or deleting it takes them away again.                                   *)
(*                                                                         *)
(* Issuers, PKCE and redirects are left out, and so is what a reconnected  *)
(* server keeps of its earlier row.                                        *)
(***************************************************************************)
EXTENDS Naturals, FiniteSets

CONSTANTS
  Attempts,      \* pending OIDC logins
  Clients,       \* gateway clients
  MaxIssued,     \* bound: token pairs the IdP issues
  Servers,       \* ids of remote MCP servers
  Flows,         \* requests about them
  LoginMixes     \* what happens: each behaviour is one of these

(* alone: one request about servers at a time; saves: clients seal what they renew;     *)
(* rotates: the IdP gives new refresh tokens; the numbers bound failed calls, restarts. *)
LoginMix == [verbs: SUBSET {"login", "logout", "client", "connect", "disconnect", "delete", "edit"},
             alone: BOOLEAN, saves: BOOLEAN, rotates: BOOLEAN, fails: Nat, restarts: Nat]

(* There is a server to ask about, and the bounds are numbers. *)
ASSUME LoginAssumption == MaxIssued \in Nat /\ Servers # {} /\ LoginMixes \subseteq LoginMix

VARIABLES
  sealed,      \* openshell_oidc_sealed: [acc, ref], numbers of what the IdP issued
  live,        \* refresh tokens the IdP honours
  issued,      \* how many it has issued
  aged,        \* access tokens that are about to run out
  attempt,     \* [Attempts -> where a login is]
  client,      \* [Clients -> a gateway client and its copy]
  server,      \* mcp_servers: [Servers -> "none", "plain" or "oauth"]
  lprovs,       \* servers whose provider the Board has
  ltypes,       \* servers whose provider type it has
  gprovs,      \* those whose provider the gateway has
  lgtypes,      \* and whose type
  flow,        \* [Flows -> a request between two steps]
  missed, reset, lmix

loginVars == <<sealed, live, issued, aged, attempt, client, server, lprovs, ltypes, gprovs, lgtypes,
               flow, missed, reset, lmix>>
oidc == <<sealed, live, issued, aged, attempt, client>>
oauth == <<server, lprovs, ltypes, gprovs, lgtypes, flow>>

Numbers == 0 .. MaxIssued
Bundles == [acc: Numbers, ref: Numbers]
NoBundle == [acc |-> 0, ref |-> 0]
NoClient == [pc |-> "off", tok |-> NoBundle]
NoAttempt == [pc |-> "none", tok |-> NoBundle]
FlowPc == {"idle", "asked", "type", "import", "prov", "apply", "server",
           "clear", "unprov", "untype", "gateprov", "gatetype"}
NoFlow == [pc |-> "idle", of |-> CHOOSE s \in Servers : TRUE]

LoginInit(mixes) ==
  /\ sealed = NoBundle /\ live = {} /\ issued = 0 /\ aged = {}
  /\ attempt = [l \in Attempts |-> NoAttempt] /\ client = [c \in Clients |-> NoClient]
  /\ server = [s \in Servers |-> "none"]
  /\ lprovs = {} /\ ltypes = {} /\ gprovs = {} /\ lgtypes = {}
  /\ flow = [h \in Flows |-> NoFlow]
  /\ missed = 0 /\ reset = 0 /\ lmix \in mixes

LoginVerb(verb) == verb \in lmix.verbs
Fails == missed < lmix.fails /\ missed' = missed + 1
Works == UNCHANGED missed

-------------------------------------------------------------------------------
(* OIDC *)

Moves(l, pc) == attempt' = [attempt EXCEPT ![l].pc = pc]

(* A new login drops the pending ones that are over. *)
LogsIn(l) ==
  /\ LoginVerb("login") /\ attempt[l].pc = "none"
  /\ attempt' = [k \in Attempts |-> [attempt[k] EXCEPT
       !.pc = IF k = l THEN "pending" ELSE IF @ = "stale" THEN "gone" ELSE @]]
  /\ UNCHANGED <<sealed, live, issued, aged, client, oauth, missed, reset, lmix>>

Expires(l) ==
  /\ attempt[l].pc = "pending" /\ Moves(l, "stale")
  /\ UNCHANGED <<sealed, live, issued, aged, client, oauth, missed, reset, lmix>>

(* finish_login takes the pending row away first, then looks at its age, then exchanges. *)
Answers(l) ==
  /\ attempt[l].pc = "pending"
  /\ \/ /\ issued < MaxIssued /\ issued' = issued + 1 /\ live' = live \cup {issued + 1} /\ Works
        /\ attempt' = [attempt EXCEPT ![l] =
             [pc |-> "seal", tok |-> [acc |-> issued + 1, ref |-> issued + 1]]]
     \/ Moves(l, "gone") /\ Fails /\ UNCHANGED <<live, issued>>
  /\ UNCHANGED <<sealed, aged, client, oauth, reset, lmix>>

AnswersLate(l) ==
  /\ attempt[l].pc = "stale" /\ Moves(l, "gone")
  /\ UNCHANGED <<sealed, live, issued, aged, client, oauth, missed, reset, lmix>>

SealsLogin(l) ==
  /\ attempt[l].pc = "seal" /\ sealed' = attempt[l].tok
  /\ attempt' = [attempt EXCEPT ![l] = [pc |-> "gone", tok |-> NoBundle]]
  /\ UNCHANGED <<live, issued, aged, client, oauth, missed, reset, lmix>>

Logout ==
  /\ LoginVerb("logout") /\ sealed # NoBundle /\ sealed' = NoBundle
  /\ UNCHANGED <<live, issued, aged, attempt, client, oauth, missed, reset, lmix>>

Opens(c) ==
  /\ LoginVerb("client") /\ client[c].pc = "off" /\ sealed # NoBundle
  /\ client' = [client EXCEPT ![c] = [pc |-> "ready", tok |-> sealed]]
  /\ UNCHANGED <<sealed, live, issued, aged, attempt, oauth, missed, reset, lmix>>

(* oidc_access_token of a call, when the access token is about to run out.  The IdP's *)
(* answer may be lost on its way; a refresh token that is over is refused.            *)
RenewedKeeping(tok) == [acc |-> issued + 1, ref |-> tok.ref]                     \* mutant
Renewed(tok) == [acc |-> issued + 1, ref |-> IF lmix.rotates THEN issued + 1 ELSE tok.ref]
Renews(c) ==
  /\ client[c].pc = "ready" /\ client[c].tok.acc \in aged /\ client[c].tok.ref \in live
  /\ issued < MaxIssued /\ issued' = issued + 1
  /\ live' = IF lmix.rotates THEN (live \ {client[c].tok.ref}) \cup {issued + 1} ELSE live
  /\ \/ Works /\ client' = [client EXCEPT ![c] =
            [pc |-> IF lmix.saves THEN "save" ELSE "ready", tok |-> Renewed(client[c].tok)]]
     \/ Fails /\ UNCHANGED client
  /\ UNCHANGED <<sealed, aged, attempt, oauth, reset, lmix>>

Saves(c) ==
  /\ client[c].pc = "save" /\ sealed' = client[c].tok
  /\ client' = [client EXCEPT ![c].pc = "ready"]
  /\ UNCHANGED <<live, issued, aged, attempt, oauth, missed, reset, lmix>>

Closes(c) ==
  /\ client[c].pc = "ready" /\ client' = [client EXCEPT ![c] = NoClient]
  /\ UNCHANGED <<sealed, live, issued, aged, attempt, oauth, missed, reset, lmix>>

Ages ==
  /\ aged # 1 .. issued /\ aged' = 1 .. issued
  /\ UNCHANGED <<sealed, live, issued, attempt, client, oauth, missed, reset, lmix>>

-------------------------------------------------------------------------------
(* Remote MCP servers *)

FlowFree(h) == flow[h].pc = "idle" /\ (lmix.alone => \A k \in Flows : flow[k].pc \in {"idle", "asked"})
FlowBegins(h, s, pc) == flow' = [flow EXCEPT ![h] = [pc |-> pc, of |-> s]]
FlowGoes(h, pc) == flow' = [flow EXCEPT ![h].pc = pc]
FlowEnds(h) == flow' = [flow EXCEPT ![h] = NoFlow]

(* The pending row: the operator is sent away and comes back, once, or never. *)
Connects(h, s) ==
  /\ LoginVerb("connect") /\ flow[h].pc = "idle" /\ FlowBegins(h, s, "asked")
  /\ UNCHANGED <<oidc, server, lprovs, ltypes, gprovs, lgtypes, missed, reset, lmix>>
ComesBack(h) ==
  /\ flow[h].pc = "asked"
  /\ \/ FlowGoes(h, "type") /\ (lmix.alone => \A k \in Flows : flow[k].pc \in {"idle", "asked"})
     \/ FlowEnds(h)                                    \* expired, refused, or without a refresh token
  /\ UNCHANGED <<oidc, server, lprovs, ltypes, gprovs, lgtypes, missed, reset, lmix>>

(* finish_oauth_connect.  An import that fails ends it; the provider's own call is only *)
(* warned of, and cannot work without the type.                                         *)
PutsType(h) ==
  /\ flow[h].pc = "type" /\ ltypes' = ltypes \cup {flow[h].of} /\ FlowGoes(h, "import")
  /\ UNCHANGED <<oidc, server, lprovs, gprovs, lgtypes, missed, reset, lmix>>
ImportsType(h) ==
  /\ flow[h].pc = "import"
  /\ \/ Works /\ lgtypes' = lgtypes \cup {flow[h].of} /\ FlowGoes(h, "prov")
     \/ Fails /\ UNCHANGED lgtypes /\ FlowEnds(h)
  /\ UNCHANGED <<oidc, server, lprovs, ltypes, gprovs, reset, lmix>>
PutsProvider(h) ==
  /\ flow[h].pc = "prov" /\ lprovs' = lprovs \cup {flow[h].of} /\ FlowGoes(h, "apply")
  /\ UNCHANGED <<oidc, server, ltypes, gprovs, lgtypes, missed, reset, lmix>>
AppliesProvider(h) ==
  /\ flow[h].pc = "apply" /\ FlowGoes(h, "server")
  /\ \/ Works /\ gprovs' = gprovs \cup ({flow[h].of} \cap lgtypes)
     \/ Fails /\ UNCHANGED gprovs
  /\ UNCHANGED <<oidc, server, lprovs, ltypes, lgtypes, reset, lmix>>
PutsServer(h) ==
  /\ flow[h].pc = "server" /\ server' = [server EXCEPT ![flow[h].of] = "oauth"] /\ FlowEnds(h)
  /\ UNCHANGED <<oidc, lprovs, ltypes, gprovs, lgtypes, missed, reset, lmix>>

(* disconnect_oauth reads the server, writes it back without auth and takes the rest *)
(* away; cleanup_for_deleted_server begins after the server is gone.                 *)
AfterTheRest(pc) ==                                                              \* mutant
  CASE pc = "look" -> "unprov" [] pc = "unprov" -> "untype" [] pc = "untype" -> "clear"
    [] pc = "clear" -> "gateprov"
After(pc) ==
  CASE pc = "look" -> "clear" [] pc = "clear" -> "unprov" [] pc = "unprov" -> "untype"
    [] pc = "untype" -> "gateprov"

Disconnects(h, s) ==
  /\ LoginVerb("disconnect") /\ FlowFree(h)
  /\ FlowBegins(h, s, IF server[s] = "none" THEN "unprov" ELSE After("look"))
  /\ UNCHANGED <<oidc, server, lprovs, ltypes, gprovs, lgtypes, missed, reset, lmix>>
ClearsAuth(h) ==
  /\ flow[h].pc = "clear" /\ server' = [server EXCEPT ![flow[h].of] = "plain"]
  /\ FlowGoes(h, After("clear"))
  /\ UNCHANGED <<oidc, lprovs, ltypes, gprovs, lgtypes, missed, reset, lmix>>

(* Refused while a sandbox spec has it: that is Specs'. *)
DeletesServer(h, s) ==
  /\ LoginVerb("delete") /\ FlowFree(h) /\ server[s] # "none"
  /\ server' = [server EXCEPT ![s] = "none"] /\ FlowBegins(h, s, "unprov")
  /\ UNCHANGED <<oidc, lprovs, ltypes, gprovs, lgtypes, missed, reset, lmix>>

DropsProvider(h) ==
  /\ flow[h].pc = "unprov" /\ lprovs' = lprovs \ {flow[h].of} /\ FlowGoes(h, After("unprov"))
  /\ UNCHANGED <<oidc, server, ltypes, gprovs, lgtypes, missed, reset, lmix>>
DropsType(h) ==
  /\ flow[h].pc = "untype" /\ ltypes' = ltypes \ {flow[h].of} /\ FlowGoes(h, After("untype"))
  /\ UNCHANGED <<oidc, server, lprovs, gprovs, lgtypes, missed, reset, lmix>>
GateDropsProvider(h) ==
  /\ flow[h].pc = "gateprov" /\ FlowGoes(h, "gatetype")
  /\ \/ Works /\ gprovs' = gprovs \ {flow[h].of}
     \/ Fails /\ UNCHANGED gprovs
  /\ UNCHANGED <<oidc, server, lprovs, ltypes, lgtypes, reset, lmix>>
GateDropsType(h) ==
  /\ flow[h].pc = "gatetype" /\ FlowEnds(h)
  /\ \/ Works /\ lgtypes' = lgtypes \ {flow[h].of}
     \/ Fails /\ UNCHANGED lgtypes
  /\ UNCHANGED <<oidc, server, lprovs, ltypes, gprovs, reset, lmix>>

(* The operator saves a server by hand, with no OAuth. *)
EditsServer(s) ==
  /\ LoginVerb("edit") /\ server[s] # "plain" /\ server' = [server EXCEPT ![s] = "plain"]
  /\ UNCHANGED <<oidc, lprovs, ltypes, gprovs, lgtypes, flow, missed, reset, lmix>>

(* Pending rows, clients and requests are in memory. *)
LoginRestart ==
  /\ reset < lmix.restarts /\ reset' = reset + 1
  /\ attempt' = [l \in Attempts |-> IF attempt[l].pc = "none" THEN NoAttempt
                                    ELSE [pc |-> "gone", tok |-> NoBundle]]
  /\ client' = [c \in Clients |-> NoClient] /\ flow' = [h \in Flows |-> NoFlow]
  /\ UNCHANGED <<sealed, live, issued, aged, server, lprovs, ltypes, gprovs, lgtypes, missed, lmix>>

LoginNext ==
  \/ \E l \in Attempts : LogsIn(l) \/ Expires(l) \/ Answers(l) \/ AnswersLate(l) \/ SealsLogin(l)
  \/ \E c \in Clients : Opens(c) \/ Renews(c) \/ Saves(c) \/ Closes(c)
  \/ Logout \/ Ages \/ LoginRestart
  \/ \E h \in Flows, s \in Servers : Connects(h, s) \/ Disconnects(h, s) \/ DeletesServer(h, s)
  \/ \E h \in Flows : \/ ComesBack(h) \/ PutsType(h) \/ ImportsType(h) \/ PutsProvider(h)
                      \/ AppliesProvider(h) \/ PutsServer(h) \/ ClearsAuth(h)
                      \/ DropsProvider(h) \/ DropsType(h)
                      \/ GateDropsProvider(h) \/ GateDropsType(h)
  \/ \E s \in Servers : EditsServer(s)

LoginSpec == LoginInit(LoginMixes) /\ [][LoginNext]_loginVars

-------------------------------------------------------------------------------
LoginTypeOK ==
  /\ sealed \in Bundles /\ issued \in Numbers /\ live \subseteq 1 .. issued /\ aged \subseteq 1 .. issued
  /\ attempt \in [Attempts -> [pc: {"none", "pending", "stale", "seal", "gone"}, tok: Bundles]]
  /\ client \in [Clients -> [pc: {"off", "ready", "save"}, tok: Bundles]]
  /\ server \in [Servers -> {"none", "plain", "oauth"}]
  /\ UNION {lprovs, ltypes, gprovs, lgtypes} \subseteq Servers
  /\ flow \in [Flows -> [pc: FlowPc, of: Servers]] /\ lmix \in LoginMix

(* What is sealed can be renewed: its refresh token is one the IdP honours, also an IdP  *)
(* that changes it each time, whatever clients, logins and logouts overlap: a client with *)
(* an older token is refused before it could seal it.  It takes clients that seal what    *)
(* they get, no answer lost and no restart between an answer and its seal; with an IdP    *)
(* that keeps the refresh token, none of that.                                            *)
SealedIsLive ==
  (/\ sealed # NoBundle /\ \A c \in Clients : client[c].pc # "save"
   /\ ~lmix.rotates \/ (lmix.saves /\ missed = 0 /\ reset = 0))
    => sealed.ref \in live

(* A server that says it has OAuth has its provider and its provider type on the Board,   *)
(* at every step of connecting and, one request at a time, of disconnecting and deleting, *)
(* whatever calls fail and wherever the process dies.  And when all of them come to their *)
(* end, a server without OAuth leaves no credentials behind, at the gateway neither.      *)
(* Who deletes such a provider or type by hand, or writes OAuth into a server by hand,    *)
(* parts them: that is outside.                                                           *)
OAuthStands ==
  /\ lmix.alone \/ lmix.verbs \cap {"disconnect", "delete"} = {} =>
       \A s \in Servers : server[s] = "oauth" => s \in lprovs \cap ltypes
  /\ lmix.alone /\ "edit" \notin lmix.verbs /\ missed = 0 /\ reset = 0
       /\ (\A h \in Flows : flow[h].pc \in {"idle", "asked"}) =>
       \A s \in Servers : server[s] # "oauth" => s \notin lprovs \cup ltypes \cup gprovs \cup lgtypes
===============================================================================
