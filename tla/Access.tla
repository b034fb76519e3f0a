-------------------------------- MODULE Access --------------------------------
(***************************************************************************)
(* Who may talk to the Board: the local admin and GitHub logins with a     *)
(* session cookie (src/auth.rs), MCP clients with bearer tokens from the   *)
(* Board's own OAuth server (src/mcp_oauth.rs).                            *)
(*                                                                         *)
(* One sealed bundle holds the admin's password and the key everything is  *)
(* signed with.  Cookies, sign-in states and tokens are self-contained: a  *)
(* key, a subject, an expiry; the Board keeps none of them.  Codes and     *)
(* registered clients live in the process only.  Request forms, redirect   *)
(* URIs, PKCE and resources are left out: each is refused or passed on.    *)
(***************************************************************************)
EXTENDS Naturals, FiniteSets

CONSTANTS
  Requests,                    \* requests between two lock sections or an answer
  Admin, Users, Teams, Member, \* the admin; GitHub logins; teams; [team -> its logins]
  SeatName,                        \* whom the cockpit's tokens name when nobody is signed in
  McpClients, Static,             \* MCP clients; those seeded on use
  Passwords,
  Ttl,                         \* [kind of thing signed -> how long it lasts]
  NoAuth,                      \* no admin yet
  MaxKeys, MaxCodes,           \* bounds
  AccessMixes                  \* what happens: each behaviour is one of these

(* verbs: the requests; admin: whether the Board has one already; alone: no    *)
(* two requests overlap; ticks, restarts: bounds.                              *)
AccessMix == [verbs: SUBSET {"bootstrap", "login", "lists", "password", "github", "mcp",
                             "cockpit"},
              admin: BOOLEAN, alone: BOOLEAN, ticks: Nat, restarts: Nat]

VARIABLES
  auth,      \* the sealed bundle in memory: [key, password], or NoAuth
  users,     \* auth_allowed_users
  teams,     \* auth_allowed_teams
  kept,      \* the same three in the database
  cookies,   \* sessions browsers hold
  states,    \* sign-ins under way at GitHub
  codes,     \* authorization codes: code -> what it is for
  clients,   \* registered clients
  tokens,    \* access and refresh tokens clients hold
  ajob,       \* [Requests -> a request under way]
  keys,      \* keys made
  keptKeys,  \* keys of bundles that reached the database (for the properties)
  clock, relaunched, amix

accessVars == <<auth, users, teams, kept, cookies, states, codes, clients, tokens, ajob, keys,
                keptKeys, clock, relaunched, amix>>
settings == <<auth, users, teams>>
signed == <<cookies, states, tokens>>
grants == <<codes, clients>>
world == <<clock, relaunched, amix>>

Codes == 1..MaxCodes
Principals == {Admin, SeatName} \cup Users
AuthBundles == [key: 1..MaxKeys, password: Passwords]

(* Something is signed for a time; no bundle is taken for the lack of one.     *)
ASSUME AccessAssumption ==
  /\ MaxKeys \in Nat \ {0} /\ Passwords # {} /\ NoAuth \notin AuthBundles
  /\ \A k \in {"session", "state", "code", "access", "refresh"} : Ttl[k] \in Nat
  /\ AccessMixes \subseteq AccessMix

Session(who, key) == [who |-> who, key |-> key, exp |-> clock + Ttl["session"]]
Token(kind, who, client, key) ==
  [kind |-> kind, who |-> who, client |-> client, key |-> key, exp |-> clock + Ttl[kind]]
NoJob == [pc |-> "idle"]

(* A signature under the key in force, not expired. *)
Accepts(s) == auth # NoAuth /\ s.key = auth.key /\ s.exp >= clock

AccessInit(mixes) ==
  /\ amix \in mixes /\ clock = 0 /\ relaunched = 0
  /\ IF amix.admin
     THEN /\ auth = [key |-> 1, password |-> CHOOSE p \in Passwords : TRUE]
          /\ cookies = {Session(Admin, 1)} /\ keptKeys = {1}
     ELSE auth = NoAuth /\ cookies = {} /\ keptKeys = {}
  /\ users = {} /\ teams = {} /\ states = {} /\ tokens = {}
  /\ kept = [auth |-> auth, users |-> {}, teams |-> {}]
  /\ codes = [c \in Codes |-> NoAuth] /\ clients = {}
  /\ ajob = [h \in Requests |-> NoJob]
  /\ keys = Cardinality(keptKeys)

May(h, verbs) ==
  /\ verbs # {} /\ verbs \subseteq amix.verbs /\ ajob[h].pc = "idle"
  /\ amix.alone => \A g \in Requests : ajob[g].pc = "idle"
RequestGoes(h, j) == ajob' = [ajob EXCEPT ![h] = j]

-------------------------------------------------------------------------------
(* The admin.  bootstrap looks, hashes the password, and sets the bundle.      *)

BootstrapLooks(h, p) ==
  /\ May(h, {"bootstrap"}) /\ auth = NoAuth
  /\ RequestGoes(h, [pc |-> "bootstrap", password |-> p])
  /\ UNCHANGED <<settings, kept, signed, grants, keys, keptKeys, world>>

BootstrapSets(h) ==
  /\ ajob[h].pc = "bootstrap" /\ keys < MaxKeys
  /\ keys' = keys + 1
  /\ auth' = [key |-> keys', password |-> ajob[h].password]
  /\ cookies' = cookies \cup {Session(Admin, keys')}
  /\ RequestGoes(h, NoJob)
  /\ UNCHANGED <<users, teams, kept, states, tokens, grants, keptKeys, world>>

Login(p) ==
  /\ "login" \in amix.verbs /\ auth # NoAuth /\ auth.password = p
  /\ cookies' = cookies \cup {Session(Admin, auth.key)}
  /\ UNCHANGED <<settings, kept, states, tokens, grants, ajob, keys, keptKeys, world>>

(* Only the browser forgets. *)
LogsOut(s) ==
  /\ "login" \in amix.verbs /\ s \in cookies
  /\ cookies' = cookies \ {s}
  /\ UNCHANGED <<settings, kept, states, tokens, grants, ajob, keys, keptKeys, world>>

(* put_auth_settings reads the bundle, then the list it was not given, writes  *)
(* both lists, and last the bundle with the new password.                      *)
NotGiven == {NoAuth}
SettingsLooks(h, us, ts, p) ==
  /\ May(h, {v \in {"lists"} : us # NotGiven \/ ts # NotGiven} \cup
            {v \in {"password"} : p # NoAuth})
  /\ \E s \in cookies : Accepts(s)
  /\ RequestGoes(h, [pc |-> IF us = NotGiven /\ ts = NotGiven THEN "password" ELSE "reads",
              bundle |-> auth, password |-> p, users |-> us, teams |-> ts])
  /\ UNCHANGED <<settings, kept, signed, grants, keys, keptKeys, world>>

SettingsReads(h) ==
  /\ ajob[h].pc = "reads"
  /\ RequestGoes(h, [ajob[h] EXCEPT !.pc = "lists",
                            !.users = IF @ = NotGiven THEN users ELSE @,
                            !.teams = IF @ = NotGiven THEN teams ELSE @])
  /\ UNCHANGED <<settings, kept, signed, grants, keys, keptKeys, world>>

SettingsLists(h) ==
  /\ ajob[h].pc = "lists"
  /\ users' = ajob[h].users /\ teams' = ajob[h].teams
  /\ RequestGoes(h, IF ajob[h].password = NoAuth THEN NoJob ELSE [ajob[h] EXCEPT !.pc = "password"])
  /\ UNCHANGED <<auth, kept, signed, grants, keys, keptKeys, world>>

NewPasswordNewKey(h) ==                                                     \* mutant
  /\ ajob[h].pc = "password" /\ keys < MaxKeys
  /\ keys' = keys + 1
  /\ auth' = [key |-> keys', password |-> ajob[h].password]
  /\ RequestGoes(h, NoJob)
  /\ UNCHANGED <<users, teams, kept, signed, grants, keptKeys, world>>
NewPassword(h) ==
  /\ ajob[h].pc = "password"
  /\ auth' = [ajob[h].bundle EXCEPT !.password = ajob[h].password]
  /\ RequestGoes(h, NoJob)
  /\ UNCHANGED <<users, teams, kept, signed, grants, keys, keptKeys, world>>

-------------------------------------------------------------------------------
(* Sign in with GitHub: a signed state out and back, the code exchanged and    *)
(* the login asked for, then the lists as they are by then.                    *)

GithubStart ==
  /\ "github" \in amix.verbs /\ auth # NoAuth
  /\ states' = states \cup {[key |-> auth.key, exp |-> clock + Ttl["state"]]}
  /\ UNCHANGED <<settings, kept, cookies, tokens, grants, ajob, keys, keptKeys, world>>

GithubComesBack(h, st) ==
  /\ May(h, {"github"}) /\ st \in states /\ Accepts(st)
  /\ RequestGoes(h, [pc |-> "asks", key |-> auth.key])
  /\ UNCHANGED <<settings, kept, signed, grants, keys, keptKeys, world>>

SignsIn(h, u) ==
  /\ cookies' = cookies \cup {Session(u, ajob[h].key)} /\ RequestGoes(h, NoJob)
  /\ UNCHANGED <<settings, kept, states, tokens, grants, keys, keptKeys, world>>

GithubAnswers(h, u) ==
  /\ ajob[h].pc = "asks"
  /\ IF u \in users THEN SignsIn(h, u)
     ELSE /\ RequestGoes(h, [pc |-> "teams", key |-> ajob[h].key, who |-> u, teams |-> teams])
          /\ UNCHANGED <<settings, kept, signed, grants, keys, keptKeys, world>>

GithubTeams(h) ==
  /\ ajob[h].pc = "teams"
  /\ IF \E t \in ajob[h].teams : ajob[h].who \in Member[t] THEN SignsIn(h, ajob[h].who)
     ELSE /\ RequestGoes(h, NoJob)
          /\ UNCHANGED <<settings, kept, signed, grants, keys, keptKeys, world>>

-------------------------------------------------------------------------------
(* The OAuth server for MCP clients. *)

Register(cl) ==
  /\ "mcp" \in amix.verbs /\ cl \notin Static \cup clients
  /\ clients' = clients \cup {cl}
  /\ UNCHANGED <<settings, kept, signed, codes, ajob, keys, keptKeys, world>>

(* Somebody with a session approves a client that is known. *)
Approve(s, cl) ==
  /\ "mcp" \in amix.verbs /\ s \in cookies /\ Accepts(s) /\ cl \in Static \cup clients
  /\ \E c \in Codes :
       /\ codes[c] = NoAuth
       /\ codes' = [codes EXCEPT ![c] =
            [who |-> s.who, client |-> cl, exp |-> clock + Ttl["code"]]]
  /\ UNCHANGED <<settings, kept, signed, clients, ajob, keys, keptKeys, world>>

Issued(who, cl) == {Token("access", who, cl, auth.key), Token("refresh", who, cl, auth.key)}

(* The code is taken out under the lock, whatever becomes of the request. *)
Redeem(c, cl) ==
  /\ codes[c] # NoAuth /\ auth # NoAuth
  /\ codes' = [codes EXCEPT ![c] = NoAuth]
  /\ IF codes[c].client = cl /\ codes[c].exp >= clock
     THEN tokens' = tokens \cup Issued(codes[c].who, cl)
     ELSE UNCHANGED tokens
  /\ UNCHANGED <<settings, kept, cookies, states, clients, ajob, keys, keptKeys, world>>

Refresh(t) ==
  /\ t \in tokens /\ t.kind = "refresh" /\ Accepts(t)
  /\ tokens' = tokens \cup Issued(t.who, t.client)
  /\ UNCHANGED <<settings, kept, cookies, states, grants, ajob, keys, keptKeys, world>>

(* The cockpit's seat gets its tokens without a browser, from a terminal that  *)
(* somebody attaches, or from the supervisor.                                  *)
CockpitMints(who, cl) ==
  /\ "cockpit" \in amix.verbs /\ auth # NoAuth /\ cl \in Static
  /\ who = SeatName \/ \E s \in cookies : Accepts(s) /\ s.who = who
  /\ tokens' = tokens \cup Issued(who, cl)
  /\ UNCHANGED <<settings, kept, cookies, states, grants, ajob, keys, keptKeys, world>>

-------------------------------------------------------------------------------
AccessFlush ==
  /\ kept' = [auth |-> auth, users |-> users, teams |-> teams] /\ kept' # kept
  /\ keptKeys' = keptKeys \cup (IF auth = NoAuth THEN {} ELSE {auth.key})
  /\ UNCHANGED <<settings, signed, grants, ajob, keys, world>>

(* What was not flushed is gone, and with it codes, clients and requests.      *)
AccessRestart ==
  /\ relaunched < amix.restarts /\ relaunched' = relaunched + 1
  /\ auth' = kept.auth /\ users' = kept.users /\ teams' = kept.teams
  /\ codes' = [c \in Codes |-> NoAuth] /\ clients' = {}
  /\ ajob' = [h \in Requests |-> NoJob]
  /\ UNCHANGED <<kept, signed, keys, keptKeys, clock, amix>>

Passes ==
  /\ clock < amix.ticks /\ clock' = clock + 1
  /\ UNCHANGED <<settings, kept, signed, grants, ajob, keys, keptKeys, relaunched, amix>>

AccessNext ==
  \/ \E h \in Requests, p \in Passwords : BootstrapLooks(h, p)
  \/ \E h \in Requests : BootstrapSets(h)
  \/ \E p \in Passwords : Login(p)
  \/ \E s \in cookies : LogsOut(s)
  \/ \E h \in Requests, us \in {NotGiven} \cup SUBSET Users, ts \in {NotGiven} \cup SUBSET Teams,
        p \in {NoAuth} \cup Passwords : SettingsLooks(h, us, ts, p)
  \/ \E h \in Requests : SettingsReads(h)
  \/ \E h \in Requests : SettingsLists(h)
  \/ \E h \in Requests : NewPassword(h)
  \/ GithubStart
  \/ \E h \in Requests, st \in states : GithubComesBack(h, st)
  \/ \E h \in Requests, u \in Users : GithubAnswers(h, u)
  \/ \E h \in Requests : GithubTeams(h)
  \/ \E cl \in McpClients : Register(cl)
  \/ \E s \in cookies, cl \in McpClients : Approve(s, cl)
  \/ \E c \in Codes, cl \in McpClients : Redeem(c, cl)
  \/ \E t \in tokens : Refresh(t)
  \/ \E who \in Principals, cl \in McpClients : CockpitMints(who, cl)
  \/ AccessFlush \/ AccessRestart \/ Passes

AccessSpec == AccessInit(AccessMixes) /\ [][AccessNext]_accessVars

-------------------------------------------------------------------------------
Signed == [who: Principals, key: 1..MaxKeys, exp: Nat]
AccessTypeOK ==
  /\ {auth, kept.auth} \subseteq AuthBundles \cup {NoAuth}
  /\ users \cup kept.users \subseteq Users /\ teams \cup kept.teams \subseteq Teams
  /\ cookies \subseteq Signed /\ states \subseteq [key: 1..MaxKeys, exp: Nat]
  /\ tokens \subseteq [kind: {"access", "refresh"}, who: Principals, client: McpClients,
                       key: 1..MaxKeys, exp: Nat]
  /\ \A c \in Codes : codes[c] = NoAuth
       \/ codes[c] \in [who: Principals, client: McpClients, exp: Nat]
  /\ clients \subseteq McpClients /\ keys \in 0..MaxKeys /\ keptKeys \subseteq 1..MaxKeys
  /\ \A h \in Requests :
       ajob[h].pc \in {"idle", "bootstrap", "reads", "lists", "password", "asks", "teams"}
  /\ clock \in 0..amix.ticks

(* What was signed under a bundle that reached the database stays good until   *)
(* it expires, through restarts, crashes and changes of the password: nobody   *)
(* is sent through a browser again for them (mcp_oauth.rs:7-11).  Bootstraps   *)
(* do not overlap here; the README says what happens when they do.             *)
SignedStands ==
  \A s \in cookies \cup tokens : s.key \in keptKeys /\ s.exp >= clock => Accepts(s)
================================================================================
