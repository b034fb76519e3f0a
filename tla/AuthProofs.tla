------------------------------- MODULE AuthProofs -------------------------------
(***************************************************************************)
(* Who is let in, and with what the Board itself is let in: that a signed  *)
(* session or token is honoured, and that the logins the Board holds with  *)
(* its identity provider and the MCP servers stay usable, for any number   *)
(* of users, clients, servers and requests.                                *)
(***************************************************************************)
EXTENDS Access, Logins, FiniteSetTheorems, TLAPS

(* Two bootstraps at once overwrite each other's key (auth.rs:490-520), and a  *)
(* password written back from before one takes the new key away.               *)
BootstrapsAlone == \A m \in AccessMixes : "bootstrap" \in m.verbs => m.alone

(* What a request remembers between two sections. *)
Given(S) == {NotGiven} \cup SUBSET S
Bootstrapping == [pc: {"bootstrap"}, password: Passwords]
Reads == [pc: {"reads"}, bundle: AuthBundles, password: Passwords \cup {NoAuth},
          users: Given(Users), teams: Given(Teams)]
Admit == [pc: {"lists"}, bundle: AuthBundles, password: Passwords \cup {NoAuth},
          users: SUBSET Users, teams: SUBSET Teams]
Resets == [pc: {"password"}, bundle: AuthBundles, password: Passwords,
           users: Given(Users), teams: Given(Teams)]
Asks == [pc: {"asks"}, key: 1..MaxKeys]
InTeams == [pc: {"teams"}, key: 1..MaxKeys, who: Users, teams: SUBSET Teams]
Req == [pc: {"idle"}] \cup Bootstrapping \cup Reads \cup Admit \cup Resets \cup Asks \cup InTeams

BoardTypes ==
  /\ auth \in AuthBundles \cup {NoAuth} /\ users \in SUBSET Users /\ teams \in SUBSET Teams
  /\ kept.auth \in AuthBundles \cup {NoAuth}
  /\ kept.users \in SUBSET Users /\ kept.teams \in SUBSET Teams
  /\ keys \in 0..MaxKeys /\ keptKeys \in SUBSET (1..MaxKeys)
  /\ amix \in AccessMix /\ clock \in 0..amix.ticks
  /\ "bootstrap" \in amix.verbs => amix.alone
States == [key: 1..MaxKeys, exp: Nat]
Bearer == [kind: {"access", "refresh"}, who: Principals, client: McpClients, key: 1..MaxKeys,
           exp: Nat]
Grants == [who: Principals, client: McpClients, exp: Nat]
SignedTypes ==
  /\ cookies \in SUBSET Signed /\ states \in SUBSET States /\ tokens \in SUBSET Bearer
GrantTypes ==
  /\ codes \in [Codes -> Grants \cup {NoAuth}] /\ clients \in SUBSET McpClients
JobTypes == ajob \in [Requests -> Req]

(* There is never but one key that was saved, and it is the one in force: a    *)
(* restart brings it back, and whoever is about to write a bundle writes it    *)
(* under that key.                                                             *)
OneKey ==
  /\ \A k \in keptKeys : auth # NoAuth /\ auth.key = k
  /\ kept.auth # NoAuth => kept.auth.key \in keptKeys
  /\ keptKeys # {} => kept.auth # NoAuth
Sound(j) ==
  /\ j \in Reads \cup Admit \cup Resets => auth # NoAuth /\ j.bundle.key = auth.key
  /\ j \in Bootstrapping => auth = NoAuth /\ amix.alone
JobsHold == \A h \in Requests, j \in Req : j = ajob[h] => Sound(j)
OneRequest ==
  amix.alone => \A g, h \in Requests : ajob[g] # NoJob /\ ajob[h] # NoJob => g = h

AccessInv ==
  /\ BoardTypes /\ SignedTypes /\ GrantTypes /\ JobTypes
  /\ OneKey /\ JobsHold /\ OneRequest

-------------------------------------------------------------------------------
(* The pieces of a step. *)

(* The rows of a request under way are told apart by where it is. *)
LEMMA RowsApart ==
  ASSUME NEW j \in Req
  PROVE  /\ NoJob \in Req /\ (j.pc = "idle" <=> j = NoJob)
         /\ j.pc = "bootstrap" <=> j \in Bootstrapping
         /\ j.pc = "reads" <=> j \in Reads
         /\ j.pc = "lists" <=> j \in Admit
         /\ j.pc = "password" <=> j \in Resets
         /\ j.pc = "asks" <=> j \in Asks
         /\ j.pc = "teams" <=> j \in InTeams
         /\ j.pc \in {"idle", "bootstrap", "reads", "lists", "password", "asks", "teams"}
<1>1. NoJob \in Req BY DEF NoJob, Req
<1>2. j.pc = "idle" <=> j = NoJob
  BY DEF Req, NoJob, Bootstrapping, Reads, Admit, Resets, Asks, InTeams
<1>3. /\ j.pc = "bootstrap" <=> j \in Bootstrapping
      /\ j.pc = "reads" <=> j \in Reads
      /\ j.pc = "lists" <=> j \in Admit
  BY DEF Req, Bootstrapping, Reads, Admit, Resets, Asks, InTeams
<1>4. /\ j.pc = "password" <=> j \in Resets
      /\ j.pc = "asks" <=> j \in Asks
      /\ j.pc = "teams" <=> j \in InTeams
  BY DEF Req, Bootstrapping, Reads, Admit, Resets, Asks, InTeams
<1>5. j.pc \in {"idle", "bootstrap", "reads", "lists", "password", "asks", "teams"}
  BY DEF Req, Bootstrapping, Reads, Admit, Resets, Asks, InTeams
<1> QED BY <1>1, <1>2, <1>3, <1>4, <1>5

(* What one request remembers next: its row, and what hangs on it. *)
LEMMA AccessGoesKeeps ==
  ASSUME AccessInv, NEW h \in Requests, NEW j \in Req, RequestGoes(h, j), Sound(j),
         UNCHANGED <<auth, amix>>,
         j = NoJob \/ ajob[h] # NoJob
           \/ (amix.alone => \A g \in Requests : ajob[g].pc = "idle")
  PROVE  JobTypes' /\ JobsHold' /\ OneRequest'
<1>1. JobTypes' BY DEF AccessInv, JobTypes, RequestGoes
<1>2. /\ ajob'[h] = j /\ \A g \in Requests \ {h} : ajob'[g] = ajob[g]
      /\ \A g \in Requests : ajob[g] \in Req
  BY DEF AccessInv, JobTypes, RequestGoes
<1>3. \A k \in Req : Sound(k)' <=> Sound(k) BY DEF Sound
<1>4. JobsHold'
  BY <1>2, <1>3 DEF AccessInv, JobsHold
<1>5. OneRequest'
  <2> SUFFICES ASSUME amix.alone, NEW g \in Requests, NEW i \in Requests,
                      ajob'[g] # NoJob, ajob'[i] # NoJob
               PROVE  g = i
    BY DEF OneRequest
  <2>1. CASE \A x \in Requests : ajob[x].pc = "idle"
    <3>1. \A x \in Requests : ajob[x] = NoJob BY <1>2, <2>1, RowsApart
    <3> QED BY <3>1, <1>2
  <2>2. CASE j = NoJob \/ ajob[h] # NoJob
    <3>1. ajob[g] # NoJob /\ ajob[i] # NoJob BY <1>2, <2>2
    <3> QED BY <3>1 DEF AccessInv, OneRequest
  <2> QED BY <2>1, <2>2
<1> QED BY <1>1, <1>4, <1>5

(* A step of no request: nothing of them changes. *)
LEMMA JobsRest ==
  ASSUME AccessInv, UNCHANGED <<auth, amix, ajob>>
  PROVE  JobTypes' /\ JobsHold' /\ OneRequest'
<1>1. \A k \in Req : Sound(k)' <=> Sound(k) BY DEF Sound
<1> QED BY <1>1 DEF AccessInv, JobTypes, JobsHold, OneRequest

LEMMA BoardRests ==
  ASSUME AccessInv, UNCHANGED <<settings, kept, keys, keptKeys, clock, amix>>
  PROVE  BoardTypes' /\ OneKey'
  BY DEF AccessInv, BoardTypes, OneKey, settings

LEMMA SignedRest ==
  ASSUME AccessInv, UNCHANGED signed
  PROVE  SignedTypes'
  BY DEF AccessInv, SignedTypes, signed

LEMMA GrantsRest ==
  ASSUME AccessInv, UNCHANGED grants
  PROVE  GrantTypes'
  BY DEF AccessInv, GrantTypes, grants

(* What is signed now lasts from now. *)
LEMMA Signs ==
  ASSUME AccessInv, NEW who \in Principals, NEW key \in 1..MaxKeys
  PROVE  /\ Session(who, key) \in Signed
         /\ [key |-> key, exp |-> clock + Ttl["state"]] \in States
         /\ \A cl \in McpClients : /\ [who |-> who, client |-> cl, exp |-> clock + Ttl["code"]] \in Grants
                                /\ Token("access", who, cl, key) \in Bearer
                                /\ Token("refresh", who, cl, key) \in Bearer
<1>1. clock \in Nat BY DEF AccessInv, BoardTypes, AccessMix
<1>2. \A k \in {"session", "state", "code", "access", "refresh"} : clock + Ttl[k] \in Nat
  BY <1>1, AccessAssumption
<1> QED BY <1>2 DEF Session, Token, Signed, States, Grants, Bearer

LEMMA Issues ==
  ASSUME AccessInv, auth # NoAuth,
         NEW who \in Principals, NEW cl \in McpClients,
         tokens' = tokens \cup Issued(who, cl), UNCHANGED <<cookies, states>>
  PROVE  SignedTypes'
<1>1. auth.key \in 1..MaxKeys BY DEF AccessInv, BoardTypes, AuthBundles
<1>2. Issued(who, cl) \subseteq Bearer BY <1>1, Signs DEF Issued
<1> QED BY <1>2 DEF AccessInv, SignedTypes

LEMMA SessionMade ==
  ASSUME AccessInv, NEW who \in Principals, NEW key \in 1..MaxKeys,
         cookies' = cookies \cup {Session(who, key)}, UNCHANGED <<states, tokens>>
  PROVE  SignedTypes'
  BY Signs DEF AccessInv, SignedTypes

-------------------------------------------------------------------------------
LEMMA StartsRight ==
  ASSUME BootstrapsAlone, AccessInit(AccessMixes)
  PROVE  AccessInv
<1>1. amix \in AccessMix /\ ("bootstrap" \in amix.verbs => amix.alone) /\ clock = 0
  BY AccessAssumption DEF AccessInit, BootstrapsAlone
<1>2. 0 \in 0..amix.ticks BY <1>1 DEF AccessMix
<1>3. CASE amix.admin
  <2> DEFINE b == [key |-> 1, password |-> CHOOSE p \in Passwords : TRUE]
  <2>1. b \in AuthBundles BY AccessAssumption DEF AuthBundles
  <2>2. auth = b /\ keptKeys = {1} /\ cookies = {Session(Admin, 1)} BY <1>3 DEF AccessInit
  <2>3. kept = [auth |-> b, users |-> {}, teams |-> {}] /\ users = {} /\ teams = {}
    BY <2>2 DEF AccessInit
  <2>4. keys = 1 BY <2>2, FS_Singleton DEF AccessInit
  <2>5. 1 \in 1..MaxKeys /\ b.key = 1 /\ b # NoAuth
    <3>1. b # NoAuth BY <2>1, AccessAssumption
    <3>2. b.key = 1 /\ 1 \in 1..MaxKeys BY AccessAssumption
    <3> QED BY <3>1, <3>2
  <2>6. Session(Admin, 1) \in Signed
    BY <1>1, <2>5, AccessAssumption DEF Session, Signed, Principals
  <2> HIDE DEF b
  <2>7. BoardTypes BY <1>1, <1>2, <2>1, <2>2, <2>3, <2>4, <2>5 DEF BoardTypes
  <2>8. SignedTypes BY <2>2, <2>6 DEF SignedTypes, AccessInit
  <2>9. GrantTypes BY DEF GrantTypes, AccessInit
  <2>10. OneKey BY <2>2, <2>3, <2>5 DEF OneKey
  <2>11. JobTypes /\ OneRequest BY DEF JobTypes, OneRequest, AccessInit, Req, NoJob
  <2>12. JobsHold
    BY RowsApart DEF JobsHold, Sound, AccessInit, NoJob, Bootstrapping, Reads, Admit, Resets
  <2> QED BY <2>7, <2>8, <2>9, <2>10, <2>11, <2>12 DEF AccessInv
<1>4. CASE ~amix.admin
  <2>1. auth = NoAuth /\ keptKeys = {} /\ cookies = {} BY <1>4 DEF AccessInit
  <2>2. kept = [auth |-> NoAuth, users |-> {}, teams |-> {}] /\ users = {} /\ teams = {}
    BY <2>1 DEF AccessInit
  <2>3. keys = 0 BY <2>1, FS_EmptySet DEF AccessInit
  <2>4. 0 \in 0..MaxKeys BY AccessAssumption
  <2>5. BoardTypes BY <1>1, <1>2, <2>1, <2>2, <2>3, <2>4 DEF BoardTypes
  <2>6. SignedTypes BY <2>1 DEF SignedTypes, AccessInit
  <2>7. GrantTypes BY DEF GrantTypes, AccessInit
  <2>8. OneKey BY <2>1, <2>2 DEF OneKey
  <2>9. JobTypes /\ OneRequest BY DEF JobTypes, OneRequest, AccessInit, Req, NoJob
  <2>10. JobsHold
    BY RowsApart DEF JobsHold, Sound, AccessInit, NoJob, Bootstrapping, Reads, Admit, Resets
  <2> QED BY <2>5, <2>6, <2>7, <2>8, <2>9, <2>10 DEF AccessInv
<1> QED BY <1>3, <1>4

-------------------------------------------------------------------------------
(* The steps, by what they touch. *)

LEMMA AdminSteps ==
  ASSUME AccessInv, NEW h \in Requests, NEW p \in Passwords,
         BootstrapLooks(h, p) \/ BootstrapSets(h) \/ NewPassword(h)
  PROVE  AccessInv'
<1>0. ajob[h] \in Req /\ NoJob \in Req /\ \A g \in Requests : ajob[g] \in Req
  BY RowsApart DEF AccessInv, JobTypes
<1>1. CASE BootstrapLooks(h, p)
  <2> DEFINE j == [pc |-> "bootstrap", password |-> p]
  <2>1. amix.alone /\ auth = NoAuth /\ \A g \in Requests : ajob[g].pc = "idle"
    BY <1>1 DEF BootstrapLooks, May, AccessInv, BoardTypes
  <2>2. j \in Bootstrapping /\ j \in Req BY DEF Bootstrapping, Req
  <2>3. ~(j \in Reads \cup Admit \cup Resets) BY DEF Reads, Admit, Resets
  <2>4. RequestGoes(h, j) BY <1>1 DEF BootstrapLooks
  <2> HIDE DEF j
  <2>5. Sound(j) BY <2>1, <2>3 DEF Sound
  <2>6. UNCHANGED <<settings, kept, signed, grants, keys, keptKeys, world>>
    BY <1>1 DEF BootstrapLooks
  <2>7. UNCHANGED <<auth, amix>> BY <2>6 DEF settings, world
  <2>8. JobTypes' /\ JobsHold' /\ OneRequest' BY <2>1, <2>2, <2>4, <2>5, <2>7, AccessGoesKeeps
  <2>9. BoardTypes' /\ OneKey' BY <2>6, BoardRests DEF world
  <2> QED BY <2>6, <2>8, <2>9, SignedRest, GrantsRest DEF AccessInv
<1>2. CASE BootstrapSets(h)
  <2>1. ajob[h] \in Bootstrapping BY <1>0, <1>2, RowsApart DEF BootstrapSets
  <2>2. auth = NoAuth /\ amix.alone
    BY <1>0, <2>1 DEF AccessInv, JobsHold, Sound
  <2>3. \A g \in Requests : g # h => ajob[g] = NoJob
    <3>1. ajob[h] # NoJob BY <2>1 DEF Bootstrapping, NoJob
    <3> QED BY <2>2, <3>1 DEF AccessInv, OneRequest
  <2>4. \A g \in Requests : ajob'[g] = NoJob
    BY <1>2, <2>3 DEF BootstrapSets, RequestGoes, AccessInv, JobTypes
  <2>5. JobTypes' /\ OneRequest'
    BY <1>0, <1>2, <2>4 DEF BootstrapSets, RequestGoes, AccessInv, JobTypes, OneRequest
  <2>6. JobsHold'
    BY <2>4 DEF JobsHold, Sound, NoJob, Bootstrapping, Reads, Admit, Resets
  <2>7. keptKeys = {} /\ kept.auth = NoAuth BY <2>2 DEF AccessInv, OneKey
  <2>8. keys' \in 1..MaxKeys /\ keys' \in 0..MaxKeys
    BY <1>2, AccessAssumption DEF BootstrapSets, AccessInv, BoardTypes
  <2>9. ajob[h].password \in Passwords BY <2>1 DEF Bootstrapping
  <2>10. auth' \in AuthBundles BY <1>2, <2>8, <2>9 DEF BootstrapSets, AuthBundles
  <2>11. UNCHANGED <<users, teams, kept, states, tokens, grants, keptKeys, world>>
    BY <1>2 DEF BootstrapSets
  <2>12. BoardTypes' BY <2>8, <2>10, <2>11 DEF AccessInv, BoardTypes, world
  <2>13. OneKey' BY <2>7, <2>11 DEF OneKey
  <2>14. cookies' = cookies \cup {Session(Admin, keys')} BY <1>2 DEF BootstrapSets
  <2>15. Admin \in Principals BY DEF Principals
  <2>16. SignedTypes' BY <2>8, <2>11, <2>14, <2>15, SessionMade
  <2> QED BY <2>5, <2>6, <2>11, <2>12, <2>13, <2>16, GrantsRest DEF AccessInv
<1>3. CASE NewPassword(h)
  <2>1. ajob[h] \in Resets BY <1>0, <1>3, RowsApart DEF NewPassword
  <2>2. auth # NoAuth /\ ajob[h].bundle.key = auth.key
    BY <1>0, <2>1 DEF AccessInv, JobsHold, Sound
  <2>3. ajob[h].bundle \in AuthBundles /\ ajob[h].password \in Passwords BY <2>1 DEF Resets
  <2>4. auth' = [ajob[h].bundle EXCEPT !.password = ajob[h].password] BY <1>3 DEF NewPassword
  <2>5. auth' \in AuthBundles /\ auth'.key = auth.key BY <2>2, <2>3, <2>4 DEF AuthBundles
  <2>6. auth' # NoAuth BY <2>5, AccessAssumption
  <2>7. UNCHANGED <<users, teams, kept, signed, grants, keys, keptKeys, world>>
    BY <1>3 DEF NewPassword
  <2>8. BoardTypes' BY <2>5, <2>7 DEF AccessInv, BoardTypes, world
  <2>9. OneKey' BY <2>5, <2>6, <2>7 DEF AccessInv, OneKey
  <2>10. /\ ajob'[h] = NoJob /\ \A g \in Requests : g # h => ajob'[g] = ajob[g]
         /\ ajob' \in [Requests -> Req]
    BY <1>0, <1>3 DEF NewPassword, RequestGoes, AccessInv, JobTypes
  <2>11. \A g \in Requests : Sound(ajob[g])
    BY <1>0 DEF AccessInv, JobsHold
  <2>12. \A j \in Req : Sound(j) => Sound(j)' BY <2>2, <2>5, <2>6 DEF Sound
  <2>13. Sound(NoJob)' BY DEF Sound, NoJob, Bootstrapping, Reads, Admit, Resets
  <2>14. JobsHold'
    <3> SUFFICES ASSUME NEW g \in Requests, NEW j \in Req, j = ajob'[g] PROVE Sound(j)'
      BY DEF JobsHold
    <3>1. CASE g = h BY <2>10, <2>13, <3>1
    <3>2. CASE g # h BY <2>10, <2>11, <2>12, <3>2
    <3> QED BY <3>1, <3>2
  <2>15. OneRequest' BY <2>7, <2>10 DEF AccessInv, OneRequest, world
  <2> QED BY <2>7, <2>8, <2>9, <2>10, <2>14, <2>15, SignedRest, GrantsRest
          DEF AccessInv, JobTypes
<1> QED BY <1>1, <1>2, <1>3

LEMMA SettingsSteps ==
  ASSUME AccessInv, NEW h \in Requests,
         \/ \E us \in {NotGiven} \cup SUBSET Users, ts \in {NotGiven} \cup SUBSET Teams,
               p \in {NoAuth} \cup Passwords : SettingsLooks(h, us, ts, p)
         \/ SettingsReads(h)
         \/ SettingsLists(h)
  PROVE  AccessInv'
<1>0. ajob[h] \in Req /\ NoJob \in Req BY RowsApart DEF AccessInv, JobTypes
<1>1. ASSUME NEW us \in {NotGiven} \cup SUBSET Users, NEW ts \in {NotGiven} \cup SUBSET Teams,
             NEW p \in {NoAuth} \cup Passwords, SettingsLooks(h, us, ts, p)
      PROVE  AccessInv'
  <2> DEFINE j == [pc |-> IF us = NotGiven /\ ts = NotGiven THEN "password" ELSE "reads",
                   bundle |-> auth, password |-> p, users |-> us, teams |-> ts]
  <2>1. auth # NoAuth /\ auth \in AuthBundles
    BY <1>1 DEF SettingsLooks, Accepts, AccessInv, BoardTypes
  <2>2. us \in Given(Users) /\ ts \in Given(Teams) BY DEF Given
  <2>3. us = NotGiven /\ ts = NotGiven => p \in Passwords
    BY <1>1 DEF SettingsLooks, May
  <2>4. j \in Reads \cup Resets BY <2>1, <2>2, <2>3 DEF Reads, Resets
  <2>5. j.bundle = auth /\ RequestGoes(h, j) BY <1>1 DEF SettingsLooks
  <2>6. amix.alone => \A g \in Requests : ajob[g].pc = "idle" BY <1>1 DEF SettingsLooks, May
  <2> HIDE DEF j
  <2>7. j \notin Bootstrapping BY <2>4 DEF Bootstrapping, Reads, Resets
  <2>8. Sound(j) /\ j \in Req BY <2>1, <2>4, <2>5, <2>7 DEF Sound, Req
  <2>9. UNCHANGED <<settings, kept, signed, grants, keys, keptKeys, world>>
    BY <1>1 DEF SettingsLooks
  <2>10. JobTypes' /\ JobsHold' /\ OneRequest'
    BY <2>5, <2>6, <2>8, <2>9, AccessGoesKeeps DEF settings, world
  <2>11. BoardTypes' /\ OneKey' BY <2>9, BoardRests DEF world
  <2> QED BY <2>9, <2>10, <2>11, SignedRest, GrantsRest DEF AccessInv
<1>2. CASE SettingsReads(h)
  <2> DEFINE j == [ajob[h] EXCEPT !.pc = "lists",
                                 !.users = IF @ = NotGiven THEN users ELSE @,
                                 !.teams = IF @ = NotGiven THEN teams ELSE @]
  <2>1. ajob[h] \in Reads BY <1>0, <1>2, RowsApart DEF SettingsReads
  <2>2. users \in SUBSET Users /\ teams \in SUBSET Teams BY DEF AccessInv, BoardTypes
  <2>3. j \in Admit /\ j.bundle = ajob[h].bundle BY <2>1, <2>2 DEF Reads, Admit, Given
  <2>4. RequestGoes(h, j) BY <1>2 DEF SettingsReads
  <2> HIDE DEF j
  <2>5. auth # NoAuth /\ ajob[h].bundle.key = auth.key
    BY <1>0, <2>1 DEF AccessInv, JobsHold, Sound
  <2>6. j \notin Bootstrapping BY <2>3 DEF Bootstrapping, Admit
  <2>7. Sound(j) /\ j \in Req BY <2>3, <2>5, <2>6 DEF Sound, Req
  <2>8. ajob[h] # NoJob BY <2>1 DEF Reads, NoJob
  <2>9. UNCHANGED <<settings, kept, signed, grants, keys, keptKeys, world>>
    BY <1>2 DEF SettingsReads
  <2>10. JobTypes' /\ JobsHold' /\ OneRequest'
    BY <2>4, <2>7, <2>8, <2>9, AccessGoesKeeps DEF settings, world
  <2>11. BoardTypes' /\ OneKey' BY <2>9, BoardRests DEF world
  <2> QED BY <2>9, <2>10, <2>11, SignedRest, GrantsRest DEF AccessInv
<1>3. CASE SettingsLists(h)
  <2> DEFINE j == IF ajob[h].password = NoAuth THEN NoJob ELSE [ajob[h] EXCEPT !.pc = "password"]
  <2>1. ajob[h] \in Admit BY <1>0, <1>3, RowsApart DEF SettingsLists
  <2>2. j = NoJob \/ (j \in Resets /\ j.bundle = ajob[h].bundle)
    BY <2>1 DEF Admit, Resets, Given
  <2>3. RequestGoes(h, j) BY <1>3 DEF SettingsLists
  <2> HIDE DEF j
  <2>4. auth # NoAuth /\ ajob[h].bundle.key = auth.key
    BY <1>0, <2>1 DEF AccessInv, JobsHold, Sound
  <2>5. j \notin Bootstrapping BY <2>2 DEF Bootstrapping, Resets, NoJob
  <2>6. Sound(j) /\ j \in Req
    <3>1. CASE j = NoJob BY <1>0, <3>1 DEF Sound, NoJob, Bootstrapping, Reads, Admit, Resets
    <3>2. CASE j \in Resets /\ j.bundle = ajob[h].bundle
      BY <2>4, <2>5, <3>2 DEF Sound, Req
    <3> QED BY <2>2, <3>1, <3>2
  <2>7. ajob[h] # NoJob BY <2>1 DEF Admit, NoJob
  <2>8. UNCHANGED <<auth, kept, signed, grants, keys, keptKeys, world>>
    BY <1>3 DEF SettingsLists
  <2>9. JobTypes' /\ JobsHold' /\ OneRequest'
    BY <2>3, <2>6, <2>7, <2>8, AccessGoesKeeps DEF world
  <2>10. users' \in SUBSET Users /\ teams' \in SUBSET Teams
    BY <1>3, <2>1 DEF SettingsLists, Admit
  <2>11. BoardTypes' BY <2>8, <2>10 DEF AccessInv, BoardTypes, world
  <2>12. OneKey' BY <2>8 DEF AccessInv, OneKey
  <2> QED BY <2>8, <2>9, <2>11, <2>12, SignedRest, GrantsRest DEF AccessInv
<1> QED BY <1>1, <1>2, <1>3

(* A sign-in at GitHub signs with the key it began with.                       *)
LEMMA SignInKeeps ==
  ASSUME AccessInv, NEW h \in Requests, NEW u \in Users,
         ajob[h] \in Asks \cup InTeams, SignsIn(h, u)
  PROVE  AccessInv'
<1>1. ajob[h] \in Req /\ NoJob \in Req BY RowsApart DEF AccessInv, JobTypes
<1>2. ajob[h].key \in 1..MaxKeys BY DEF Asks, InTeams
<1>3. UNCHANGED <<settings, kept, states, tokens, grants, keys, keptKeys, world>>
      /\ cookies' = cookies \cup {Session(u, ajob[h].key)} /\ RequestGoes(h, NoJob)
  BY DEF SignsIn
<1>4. u \in Principals BY DEF Principals
<1>5. SignedTypes' BY <1>2, <1>3, <1>4, SessionMade
<1>6. Sound(NoJob) BY DEF Sound, NoJob, Bootstrapping, Reads, Admit, Resets
<1>7. JobTypes' /\ JobsHold' /\ OneRequest'
  BY <1>1, <1>3, <1>6, AccessGoesKeeps DEF settings, world
<1>8. BoardTypes' /\ OneKey' BY <1>3, BoardRests DEF world
<1> QED BY <1>3, <1>5, <1>7, <1>8, GrantsRest DEF AccessInv

LEMMA GithubSteps ==
  ASSUME AccessInv, NEW h \in Requests,
         \/ \E st \in states : GithubComesBack(h, st)
         \/ \E u \in Users : GithubAnswers(h, u)
         \/ GithubTeams(h)
  PROVE  AccessInv'
<1>0. ajob[h] \in Req /\ NoJob \in Req BY RowsApart DEF AccessInv, JobTypes
<1>a. ASSUME NEW j \in Req, j \in Asks \cup InTeams \cup {NoJob}, RequestGoes(h, j),
             UNCHANGED <<settings, kept, signed, grants, keys, keptKeys, world>>,
             ajob[h] # NoJob \/ (amix.alone => \A g \in Requests : ajob[g].pc = "idle")
      PROVE  AccessInv'
  <2>1. Sound(j)
    BY <1>a DEF Sound, NoJob, Bootstrapping, Reads, Admit, Resets, Asks, InTeams
  <2>2. JobTypes' /\ JobsHold' /\ OneRequest' BY <1>a, <2>1, AccessGoesKeeps DEF settings, world
  <2>3. BoardTypes' /\ OneKey' BY <1>a, BoardRests DEF world
  <2> QED BY <1>a, <2>2, <2>3, SignedRest, GrantsRest DEF AccessInv
<1>1. ASSUME NEW st \in states, GithubComesBack(h, st) PROVE AccessInv'
  <2> DEFINE j == [pc |-> "asks", key |-> auth.key]
  <2>1. auth.key \in 1..MaxKeys
    BY <1>1 DEF GithubComesBack, Accepts, AccessInv, BoardTypes, AuthBundles
  <2>2. j \in Asks /\ j \in Req BY <2>1 DEF Asks, Req
  <2>3. /\ RequestGoes(h, j) /\ UNCHANGED <<settings, kept, signed, grants, keys, keptKeys, world>>
        /\ amix.alone => \A g \in Requests : ajob[g].pc = "idle"
    BY <1>1 DEF GithubComesBack, May
  <2> HIDE DEF j
  <2> QED BY <1>a, <2>2, <2>3
<1>2. ASSUME NEW u \in Users, GithubAnswers(h, u) PROVE AccessInv'
  <2> DEFINE j == [pc |-> "teams", key |-> ajob[h].key, who |-> u, teams |-> teams]
  <2>1. ajob[h] \in Asks BY <1>0, <1>2, RowsApart DEF GithubAnswers
  <2>2. CASE SignsIn(h, u) BY <2>1, <2>2, SignInKeeps
  <2>3. CASE RequestGoes(h, j) /\ UNCHANGED <<settings, kept, signed, grants, keys, keptKeys, world>>
    <3>1. ajob[h].key \in 1..MaxKeys /\ teams \in SUBSET Teams
      BY <2>1 DEF Asks, AccessInv, BoardTypes
    <3>2. j \in InTeams /\ j \in Req BY <3>1 DEF InTeams, Req
    <3>3. ajob[h] # NoJob BY <2>1 DEF Asks, NoJob
    <3> HIDE DEF j
    <3> QED BY <1>a, <2>3, <3>2, <3>3
  <2> QED BY <1>2, <2>2, <2>3 DEF GithubAnswers
<1>3. CASE GithubTeams(h)
  <2>1. ajob[h] \in InTeams BY <1>0, <1>3, RowsApart DEF GithubTeams
  <2>2. ajob[h].who \in Users /\ ajob[h] # NoJob BY <2>1 DEF InTeams, NoJob
  <2>3. CASE SignsIn(h, ajob[h].who) BY <2>1, <2>2, <2>3, SignInKeeps
  <2>4. CASE RequestGoes(h, NoJob) /\ UNCHANGED <<settings, kept, signed, grants, keys, keptKeys, world>>
    BY <1>0, <1>a, <2>2, <2>4
  <2> QED BY <1>3, <2>3, <2>4 DEF GithubTeams
<1> QED BY <1>1, <1>2, <1>3

LEMMA GrantSteps ==
  ASSUME AccessInv,
         \/ \E p \in Passwords : Login(p)
         \/ \E s \in cookies : LogsOut(s)
         \/ GithubStart
         \/ \E cl \in McpClients : Register(cl)
         \/ \E s \in cookies, cl \in McpClients : Approve(s, cl)
         \/ \E c \in Codes, cl \in McpClients : Redeem(c, cl)
         \/ \E t \in tokens : Refresh(t)
         \/ \E who \in Principals, cl \in McpClients : CockpitMints(who, cl)
  PROVE  AccessInv'
<1>1. UNCHANGED <<settings, kept, ajob, keys, keptKeys, world>>
  BY DEF Login, LogsOut, GithubStart, Register, Approve, Redeem, Refresh, CockpitMints
<1>2. JobTypes' /\ JobsHold' /\ OneRequest' BY <1>1, JobsRest DEF settings, world
<1>3. BoardTypes' /\ OneKey' BY <1>1, BoardRests DEF world
<1>4. SUFFICES SignedTypes' /\ GrantTypes' BY <1>2, <1>3 DEF AccessInv
<1>5. ASSUME NEW s \in cookies, LogsOut(s) PROVE SignedTypes' /\ GrantTypes'
  <2>1. UNCHANGED <<states, tokens, grants>> /\ cookies' \in SUBSET cookies
    BY <1>5 DEF LogsOut
  <2> QED BY <2>1, GrantsRest DEF AccessInv, SignedTypes
<1>6. CASE GithubStart
  <2>1. auth.key \in 1..MaxKeys BY <1>6 DEF GithubStart, AccessInv, BoardTypes, AuthBundles
  <2>2. [key |-> auth.key, exp |-> clock + Ttl["state"]] \in States
    BY <2>1, Signs DEF Principals
  <2>3. UNCHANGED <<cookies, tokens, grants>> BY <1>6 DEF GithubStart
  <2>4. states' \in SUBSET States BY <1>6, <2>2 DEF GithubStart, AccessInv, SignedTypes
  <2> QED BY <2>3, <2>4, GrantsRest DEF AccessInv, SignedTypes
<1>7. ASSUME NEW cl \in McpClients, Register(cl) PROVE SignedTypes' /\ GrantTypes'
  <2>1. UNCHANGED <<signed, codes>> /\ clients' \in SUBSET McpClients
    BY <1>7 DEF Register, AccessInv, GrantTypes
  <2> QED BY <2>1, SignedRest DEF AccessInv, GrantTypes
<1>8. ASSUME NEW s \in cookies, NEW cl \in McpClients, Approve(s, cl)
      PROVE  SignedTypes' /\ GrantTypes'
  <2>1. s.who \in Principals BY DEF AccessInv, SignedTypes, Signed
  <2>2. [who |-> s.who, client |-> cl, exp |-> clock + Ttl["code"]] \in Grants
    <3>1. 1 \in 1..MaxKeys BY AccessAssumption
    <3> QED BY <2>1, <3>1, Signs
  <2>3. codes' \in [Codes -> Grants \cup {NoAuth}]
    BY <1>8, <2>2 DEF Approve, AccessInv, GrantTypes
  <2>4. UNCHANGED <<signed, clients>> BY <1>8 DEF Approve
  <2> QED BY <2>3, <2>4, SignedRest DEF AccessInv, GrantTypes
<1>9. ASSUME NEW c \in Codes, NEW cl \in McpClients, Redeem(c, cl)
      PROVE  SignedTypes' /\ GrantTypes'
  <2>1. codes[c] \in Grants BY <1>9 DEF Redeem, AccessInv, GrantTypes
  <2>2. codes[c].who \in Principals BY <2>1 DEF Grants
  <2>3. codes' \in [Codes -> Grants \cup {NoAuth}] BY <1>9 DEF Redeem, AccessInv, GrantTypes
  <2>4. auth # NoAuth /\ UNCHANGED <<cookies, states, clients>> BY <1>9 DEF Redeem
  <2>5. SignedTypes'
    <3>1. CASE tokens' = tokens \cup Issued(codes[c].who, cl)
      BY <2>2, <2>4, <3>1, Issues
    <3>2. CASE tokens' = tokens BY <2>4, <3>2 DEF AccessInv, SignedTypes
    <3> QED BY <1>9, <3>1, <3>2 DEF Redeem
  <2> QED BY <2>3, <2>4, <2>5 DEF AccessInv, GrantTypes
<1>10. ASSUME NEW t \in tokens, Refresh(t) PROVE SignedTypes' /\ GrantTypes'
  <2>1. t.who \in Principals /\ t.client \in McpClients BY DEF AccessInv, SignedTypes, Bearer
  <2>2. /\ auth # NoAuth /\ UNCHANGED <<cookies, states, grants>>
        /\ tokens' = tokens \cup Issued(t.who, t.client)
    BY <1>10 DEF Refresh, Accepts
  <2> QED BY <2>1, <2>2, Issues, GrantsRest
<1>11. ASSUME NEW who \in Principals, NEW cl \in McpClients, CockpitMints(who, cl)
       PROVE  SignedTypes' /\ GrantTypes'
  <2>1. /\ auth # NoAuth /\ UNCHANGED <<cookies, states, grants>>
        /\ tokens' = tokens \cup Issued(who, cl)
    BY <1>11 DEF CockpitMints
  <2> QED BY <2>1, Issues, GrantsRest
<1>12. ASSUME NEW p \in Passwords, Login(p) PROVE SignedTypes' /\ GrantTypes'
  <2>1. auth.key \in 1..MaxKeys BY <1>12 DEF Login, AccessInv, BoardTypes, AuthBundles
  <2>2. /\ UNCHANGED <<states, tokens, grants>>
        /\ cookies' = cookies \cup {Session(Admin, auth.key)}
    BY <1>12 DEF Login
  <2> QED BY <2>1, <2>2, SessionMade, GrantsRest DEF Principals
<1> QED BY <1>5, <1>6, <1>7, <1>8, <1>9, <1>10, <1>11, <1>12

(* A flush saves the key in force, a restart brings it back. *)
LEMMA WorldSteps ==
  ASSUME AccessInv, AccessFlush \/ AccessRestart \/ Passes
  PROVE  AccessInv'
<1>1. CASE AccessFlush
  <2>1. UNCHANGED <<settings, signed, grants, ajob, keys, world>> BY <1>1 DEF AccessFlush
  <2>2. kept' = [auth |-> auth, users |-> users, teams |-> teams] BY <1>1 DEF AccessFlush
  <2>3. /\ auth = NoAuth => keptKeys' = keptKeys
        /\ auth # NoAuth => keptKeys' = keptKeys \cup {auth.key}
    BY <1>1 DEF AccessFlush
  <2>4. auth # NoAuth => auth.key \in 1..MaxKeys BY DEF AccessInv, BoardTypes, AuthBundles
  <2>5. BoardTypes'
    BY <2>1, <2>2, <2>3, <2>4 DEF AccessInv, BoardTypes, settings, world
  <2>6. OneKey'
    <3>1. auth' = auth /\ kept'.auth = auth BY <2>1, <2>2 DEF settings
    <3> QED BY <2>3, <3>1 DEF AccessInv, OneKey
  <2>7. JobTypes' /\ JobsHold' /\ OneRequest' BY <2>1, JobsRest DEF settings, world
  <2> QED BY <2>1, <2>5, <2>6, <2>7, SignedRest, GrantsRest DEF AccessInv
<1>2. CASE AccessRestart
  <2>1. UNCHANGED <<kept, signed, keys, keptKeys, clock, amix>> BY <1>2 DEF AccessRestart
  <2>2. /\ auth' = kept.auth /\ users' = kept.users /\ teams' = kept.teams
        /\ codes' = [c \in Codes |-> NoAuth] /\ clients' = {}
        /\ ajob' = [h \in Requests |-> NoJob]
    BY <1>2 DEF AccessRestart
  <2>3. BoardTypes' BY <2>1, <2>2 DEF AccessInv, BoardTypes
  <2>4. OneKey'
    <3> SUFFICES ASSUME NEW k \in keptKeys PROVE kept.auth # NoAuth /\ kept.auth.key = k
      BY <2>1, <2>2 DEF AccessInv, OneKey
    <3>1. kept.auth # NoAuth /\ kept.auth.key \in keptKeys BY DEF AccessInv, OneKey
    <3> QED BY <3>1 DEF AccessInv, OneKey
  <2>5. GrantTypes' BY <2>2 DEF GrantTypes
  <2>6. JobTypes' /\ OneRequest' BY <2>2 DEF JobTypes, OneRequest, Req, NoJob
  <2>7. JobsHold'
    BY <2>2 DEF JobsHold, Sound, NoJob, Bootstrapping, Reads, Admit, Resets
  <2> QED BY <2>1, <2>3, <2>4, <2>5, <2>6, <2>7, SignedRest DEF AccessInv
<1>3. CASE Passes
  <2>1. UNCHANGED <<settings, kept, signed, grants, ajob, keys, keptKeys, relaunched, amix>>
    BY <1>3 DEF Passes
  <2>2. clock' \in 0..amix.ticks
    BY <1>3 DEF Passes, AccessInv, BoardTypes, AccessMix
  <2>3. BoardTypes' BY <2>1, <2>2 DEF AccessInv, BoardTypes, settings
  <2>4. OneKey' BY <2>1 DEF AccessInv, OneKey, settings
  <2>5. JobTypes' /\ JobsHold' /\ OneRequest' BY <2>1, JobsRest DEF settings
  <2> QED BY <2>1, <2>3, <2>4, <2>5, SignedRest, GrantsRest DEF AccessInv
<1> QED BY <1>1, <1>2, <1>3

LEMMA AccessKeeps ==
  ASSUME AccessInv, [AccessNext]_accessVars
  PROVE  AccessInv'
<1>1. CASE UNCHANGED accessVars
  <2>1. /\ UNCHANGED <<settings, kept, keys, keptKeys, clock, amix>>
        /\ UNCHANGED <<auth, amix, ajob>> /\ UNCHANGED signed /\ UNCHANGED grants
    BY <1>1 DEF accessVars, settings, signed, grants
  <2> QED BY <2>1, JobsRest, BoardRests, SignedRest, GrantsRest DEF AccessInv
<1>2. CASE \E h \in Requests, p \in Passwords : BootstrapLooks(h, p)
  BY <1>2, AdminSteps
<1>3. CASE \E h \in Requests : BootstrapSets(h) \/ NewPassword(h)
  <2>1. PICK p \in Passwords : TRUE BY AccessAssumption
  <2> QED BY <1>3, <2>1, AdminSteps
<1>4. CASE \E h \in Requests :
             \/ \E us \in {NotGiven} \cup SUBSET Users, ts \in {NotGiven} \cup SUBSET Teams,
                   p \in {NoAuth} \cup Passwords : SettingsLooks(h, us, ts, p)
             \/ SettingsReads(h)
             \/ SettingsLists(h)
  BY <1>4, SettingsSteps
<1>5. CASE \E h \in Requests :
             \/ \E st \in states : GithubComesBack(h, st)
             \/ \E u \in Users : GithubAnswers(h, u)
             \/ GithubTeams(h)
  BY <1>5, GithubSteps
<1>6. CASE \/ \E p \in Passwords : Login(p)
           \/ \E s \in cookies : LogsOut(s)
           \/ GithubStart
           \/ \E cl \in McpClients : Register(cl)
           \/ \E s \in cookies, cl \in McpClients : Approve(s, cl)
           \/ \E c \in Codes, cl \in McpClients : Redeem(c, cl)
           \/ \E t \in tokens : Refresh(t)
           \/ \E who \in Principals, cl \in McpClients : CockpitMints(who, cl)
  BY <1>6, GrantSteps
<1>7. CASE AccessFlush \/ AccessRestart \/ Passes
  BY <1>7, WorldSteps
<1> QED BY <1>1, <1>2, <1>3, <1>4, <1>5, <1>6, <1>7 DEF AccessNext

-------------------------------------------------------------------------------
(* The types of the bundle and its copy in the database, of whatever was       *)
(* signed or granted, and of every request under way (auth.rs, mcp_oauth.rs).  *)
THEOREM AccessTypes ==
  ASSUME BootstrapsAlone
  PROVE  AccessSpec => []AccessTypeOK
<1>1. AccessInit(AccessMixes) => AccessInv BY StartsRight
<1>2. AccessInv /\ [AccessNext]_accessVars => AccessInv' BY AccessKeeps
<1>3. AccessInv => AccessTypeOK
  <2> SUFFICES ASSUME AccessInv PROVE AccessTypeOK OBVIOUS
  <2>1. \A h \in Requests :
          ajob[h].pc \in {"idle", "bootstrap", "reads", "lists", "password", "asks", "teams"}
    BY RowsApart DEF AccessInv, JobTypes
  <2>2. /\ {auth, kept.auth} \subseteq AuthBundles \cup {NoAuth}
        /\ users \cup kept.users \subseteq Users /\ teams \cup kept.teams \subseteq Teams
        /\ keys \in 0..MaxKeys /\ keptKeys \subseteq 1..MaxKeys /\ clock \in 0..amix.ticks
    BY DEF AccessInv, BoardTypes
  <2>3. /\ cookies \subseteq Signed /\ states \subseteq [key: 1..MaxKeys, exp: Nat]
        /\ tokens \subseteq [kind: {"access", "refresh"}, who: Principals, client: McpClients,
                             key: 1..MaxKeys, exp: Nat]
    BY DEF AccessInv, SignedTypes, States, Bearer
  <2>4. /\ clients \subseteq McpClients
        /\ \A c \in Codes : codes[c] = NoAuth
             \/ codes[c] \in [who: Principals, client: McpClients, exp: Nat]
    BY DEF AccessInv, GrantTypes, Grants
  <2> QED BY <2>1, <2>2, <2>3, <2>4 DEF AccessTypeOK
<1> QED BY <1>1, <1>2, <1>3, PTL DEF AccessSpec

(* Cookies and tokens outlive the process and the password (mcp_oauth.rs:7-11):*)
(* a restart without what was not flushed, a change of the password or of the  *)
(* lists, and a bundle written back by a request that read it long ago, all    *)
(* leave the key in force that was ever saved.                                 *)
THEOREM SignedHonoured ==
  ASSUME BootstrapsAlone
  PROVE  AccessSpec => []SignedStands
<1>1. AccessInit(AccessMixes) => AccessInv BY StartsRight
<1>2. AccessInv /\ [AccessNext]_accessVars => AccessInv' BY AccessKeeps
<1>3. AccessInv => SignedStands BY DEF AccessInv, OneKey, SignedStands, Accepts
<1> QED BY <1>1, <1>2, <1>3, PTL DEF AccessSpec

--------------------------------------------------------------------------------
(* The logins the Board holds. *)

(* Every refresh token that somebody holds was issued. *)
FreshRefs ==
  /\ sealed.ref <= issued
  /\ \A c \in Clients : client[c].tok.ref <= issued
  /\ \A l \in Attempts : attempt[l].tok.ref <= issued

(* An IdP that keeps the refresh token honours every one that was ever given. *)
AllLive ==
  ~lmix.rotates =>
    /\ sealed # NoBundle => sealed.ref \in live
    /\ \A c \in Clients : client[c].pc # "off" => client[c].tok.ref \in live
    /\ \A l \in Attempts : attempt[l].pc = "seal" => attempt[l].tok.ref \in live

(* With one that does not, what is about to be sealed is held by nobody else:  *)
(* no other client can use it up before it is sealed.                          *)
Calm == lmix.rotates /\ lmix.saves /\ missed = 0 /\ reset = 0
OnlyMine ==
  Calm => \A c \in Clients : client[c].pc = "save" =>
    /\ client[c].tok.ref \in live /\ sealed.ref # client[c].tok.ref
    /\ \A d \in Clients : d # c => client[d].tok.ref # client[c].tok.ref
    /\ \A l \in Attempts : attempt[l].tok.ref # client[c].tok.ref
OnlyLogins ==
  Calm => \A l \in Attempts : attempt[l].pc = "seal" =>
    /\ attempt[l].tok.ref \in live /\ sealed.ref # attempt[l].tok.ref
    /\ \A d \in Clients : client[d].tok.ref # attempt[l].tok.ref
    /\ \A k \in Attempts : k # l => attempt[k].tok.ref # attempt[l].tok.ref

(* Whoever used the sealed one up is about to seal the next. *)
Replaced ==
  Calm /\ sealed # NoBundle => sealed.ref \in live \/ \E c \in Clients : client[c].pc = "save"

OidcInv == FreshRefs /\ AllLive /\ OnlyMine /\ OnlyLogins /\ Replaced

(* Where nothing is taken away, or one request at a time, whoever goes on to  *)
(* write the server has written the pair, and whoever takes the pair away has *)
(* cleared the server.                                                        *)
Amid(h) == flow[h].pc \notin {"idle", "asked"}
OneFlow == lmix.alone => \A g, h \in Flows : Amid(g) /\ Amid(h) => g = h
Wipes == {"clear", "unprov", "untype", "gateprov", "gatetype"}
NoTakers ==
  lmix.verbs \cap {"disconnect", "delete"} = {} => \A h \in Flows : flow[h].pc \notin Wipes
Ordered == lmix.alone \/ lmix.verbs \cap {"disconnect", "delete"} = {}
Paired ==
  Ordered => \A s \in Servers : server[s] = "oauth" => s \in lprovs \cap ltypes
FlowOK(f) ==
  /\ f.pc \in {"import", "prov"} => f.of \in ltypes
  /\ f.pc \in {"apply", "server"} => f.of \in lprovs \cap ltypes
  /\ f.pc \in {"unprov", "untype", "gateprov", "gatetype"} => server[f.of] # "oauth"
FlowRows == [pc: FlowPc, of: Servers]
FlowsOK == Ordered => \A h \in Flows, f \in FlowRows : f = flow[h] => FlowOK(f)

(* What is there beside a server without OAuth, a request has put there and    *)
(* goes on, or is about to take away.                                          *)
Quiet == lmix.alone /\ "edit" \notin lmix.verbs /\ missed = 0 /\ reset = 0
Under(s, pcs) == \E h \in Flows : flow[h].of = s /\ flow[h].pc \in pcs
Leftover(s) ==
  /\ s \in ltypes => Under(s, {"import", "prov", "apply", "server", "unprov", "untype"})
  /\ s \in lprovs => Under(s, {"apply", "server", "unprov"})
  /\ s \in lgtypes =>
       Under(s, {"prov", "apply", "server", "unprov", "untype", "gateprov", "gatetype"})
  /\ s \in gprovs => Under(s, {"server", "unprov", "untype", "gateprov"})
NoLeftovers == Quiet => \A s \in Servers : server[s] # "oauth" => Leftover(s)

FlowInv == OneFlow /\ NoTakers /\ Paired /\ FlowsOK /\ NoLeftovers

Counted == missed \in Nat /\ reset \in Nat
OidcTypes ==
  /\ sealed \in Bundles /\ issued \in Numbers /\ live \subseteq 1 .. issued /\ aged \subseteq 1 .. issued
  /\ attempt \in [Attempts -> [pc: {"none", "pending", "stale", "seal", "gone"}, tok: Bundles]]
  /\ client \in [Clients -> [pc: {"off", "ready", "save"}, tok: Bundles]]
FlowTypes ==
  /\ server \in [Servers -> {"none", "plain", "oauth"}]
  /\ UNION {lprovs, ltypes, gprovs, lgtypes} \subseteq Servers
  /\ flow \in [Flows -> FlowRows]

LoginInv ==
  /\ OidcTypes /\ FlowTypes /\ Counted /\ lmix \in LoginMix
  /\ OidcInv /\ FlowInv

-------------------------------------------------------------------------------
(* The pieces of a step. *)

LEMMA NothingHeld ==
  /\ NoBundle \in Bundles /\ NoBundle.ref = 0 /\ NoFlow \in FlowRows
         /\ NoFlow.pc = "idle"
<1>1. 0 \in Numbers BY LoginAssumption DEF Numbers
<1>2. NoFlow \in FlowRows BY LoginAssumption DEF NoFlow, FlowRows, FlowPc
<1> QED BY <1>1, <1>2 DEF NoBundle, Bundles, NoFlow

(* Calls fail and processes end once more, never once less. *)
Later ==
  /\ lmix' = lmix /\ missed' \in {missed, missed + 1}
  /\ reset' \in {reset, reset + 1}

LEMMA LaterIs ==
  ASSUME Counted, Later
  PROVE  Counted' /\ (Calm' => Calm) /\ (Quiet' => Quiet)
  BY DEF Counted, Later, Calm, Quiet

LEMMA OidcRests ==
  ASSUME LoginInv, Later, UNCHANGED oidc
  PROVE  OidcTypes' /\ OidcInv'
<1>1. /\ sealed' = sealed /\ live' = live /\ issued' = issued /\ aged' = aged
      /\ attempt' = attempt /\ client' = client
  BY DEF oidc
<1>2. (Calm' => Calm) /\ lmix' = lmix BY LaterIs DEF LoginInv, Later
<1>3. OidcTypes' BY <1>1 DEF LoginInv, OidcTypes
<1>4. FreshRefs' /\ AllLive' BY <1>1, <1>2 DEF LoginInv, OidcInv, FreshRefs, AllLive
<1>5. OnlyMine' /\ OnlyLogins' /\ Replaced'
  BY <1>1, <1>2 DEF LoginInv, OidcInv, OnlyMine, OnlyLogins, Replaced
<1> QED BY <1>3, <1>4, <1>5 DEF OidcInv

LEMMA FlowsRest ==
  ASSUME LoginInv, Later, UNCHANGED oauth
  PROVE  FlowTypes' /\ FlowInv'
<1>1. /\ server' = server /\ lprovs' = lprovs /\ ltypes' = ltypes /\ gprovs' = gprovs
      /\ lgtypes' = lgtypes /\ flow' = flow
  BY DEF oauth
<1>2. (Quiet' => Quiet) /\ lmix' = lmix BY LaterIs DEF LoginInv, Later
<1>3. FlowTypes' BY <1>1 DEF LoginInv, FlowTypes
<1>4. OneFlow' /\ NoTakers' /\ Paired'
  BY <1>1, <1>2 DEF LoginInv, FlowInv, OneFlow, NoTakers, Paired, Amid, Ordered
<1>5. FlowsOK' BY <1>1, <1>2 DEF LoginInv, FlowInv, FlowsOK, FlowOK, Ordered
<1>6. NoLeftovers' BY <1>1, <1>2 DEF LoginInv, FlowInv, NoLeftovers, Leftover, Under
<1> QED BY <1>3, <1>4, <1>5, <1>6 DEF FlowInv

LEMMA LoginStarts ==
  ASSUME LoginInit(LoginMixes)
  PROVE  LoginInv
<1>1. lmix \in LoginMix /\ Counted BY LoginAssumption DEF LoginInit, Counted
<1>2. /\ sealed = NoBundle /\ live = {} /\ issued = 0 /\ aged = {}
      /\ attempt = [l \in Attempts |-> NoAttempt] /\ client = [c \in Clients |-> NoClient]
      /\ server = [s \in Servers |-> "none"]
      /\ lprovs = {} /\ ltypes = {} /\ gprovs = {} /\ lgtypes = {}
      /\ flow = [h \in Flows |-> NoFlow]
  BY DEF LoginInit
<1>3. OidcTypes
  <2>1. issued \in Numbers BY <1>2, LoginAssumption DEF Numbers
  <2>2. NoAttempt \in [pc: {"none", "pending", "stale", "seal", "gone"}, tok: Bundles]
        /\ NoClient \in [pc: {"off", "ready", "save"}, tok: Bundles]
    BY NothingHeld DEF NoAttempt, NoClient
  <2> QED BY <1>2, <2>1, <2>2, NothingHeld DEF OidcTypes
<1>4. FlowTypes BY <1>2, NothingHeld DEF FlowTypes
<1>5. OidcInv
  <2>1. NoAttempt.pc = "none" /\ NoClient.pc = "off" /\ NoAttempt.tok.ref = 0
        /\ NoClient.tok.ref = 0 /\ NoBundle.ref = 0
    BY DEF NoAttempt, NoClient, NoBundle
  <2>2. FreshRefs BY <1>2, <2>1 DEF FreshRefs
  <2>3. AllLive /\ OnlyMine /\ OnlyLogins /\ Replaced
    BY <1>2, <2>1 DEF AllLive, OnlyMine, OnlyLogins, Replaced
  <2> QED BY <2>2, <2>3 DEF OidcInv
<1>6. FlowInv
  <2>1. \A h \in Flows : flow[h].pc = "idle" BY <1>2, NothingHeld
  <2>2. OneFlow /\ NoTakers BY <2>1 DEF OneFlow, NoTakers, Amid, Wipes
  <2>3. Paired /\ NoLeftovers BY <1>2 DEF Paired, NoLeftovers, Leftover
  <2>4. FlowsOK BY <2>1 DEF FlowsOK, FlowOK
  <2> QED BY <2>2, <2>3, <2>4 DEF FlowInv
<1> QED BY <1>1, <1>3, <1>4, <1>5, <1>6 DEF LoginInv

-------------------------------------------------------------------------------
(* OIDC. *)

AttemptRows == [pc: {"none", "pending", "stale", "seal", "gone"}, tok: Bundles]
ClientRows == [pc: {"off", "ready", "save"}, tok: Bundles]

(* A login that is begun, expires or fails: no attempt gets a token to seal.   *)
LEMMA AttemptsMove ==
  ASSUME LoginInv, Later, attempt' \in [Attempts -> AttemptRows],
         \A l \in Attempts : /\ attempt'[l].tok = attempt[l].tok
                             /\ attempt'[l].pc = "seal" => attempt[l].pc = "seal",
         UNCHANGED <<sealed, live, issued, aged, client>>
  PROVE  OidcTypes' /\ OidcInv'
<1>1. (Calm' => Calm) /\ lmix' = lmix BY LaterIs DEF LoginInv, Later
<1>2. OidcTypes' BY DEF LoginInv, OidcTypes, AttemptRows
<1>3. FreshRefs' BY DEF LoginInv, OidcInv, FreshRefs
<1>4. AllLive' BY <1>1 DEF LoginInv, OidcInv, AllLive
<1>5. OnlyMine' BY <1>1 DEF LoginInv, OidcInv, OnlyMine
<1>6. OnlyLogins' BY <1>1 DEF LoginInv, OidcInv, OnlyLogins
<1>7. Replaced' BY <1>1 DEF LoginInv, OidcInv, Replaced
<1> QED BY <1>2, <1>3, <1>4, <1>5, <1>6, <1>7 DEF OidcInv

LEMMA AttemptSteps ==
  ASSUME LoginInv, NEW l \in Attempts,
         LogsIn(l) \/ Expires(l) \/ AnswersLate(l) \/ Answers(l) \/ SealsLogin(l)
  PROVE  LoginInv'
<1>0. /\ attempt \in [Attempts -> AttemptRows] /\ Counted
      /\ \A k \in Attempts : attempt[k] \in AttemptRows /\ attempt[k].tok \in Bundles
  BY DEF LoginInv, OidcTypes, AttemptRows
<1>1. UNCHANGED <<oauth, reset, lmix>> /\ missed' \in {missed, missed + 1}
  BY DEF LogsIn, Expires, AnswersLate, Answers, SealsLogin, Works, Fails
<1>2. Later /\ Counted' /\ lmix' \in LoginMix
  BY <1>1, LaterIs DEF Later, LoginInv
<1>3. FlowTypes' /\ FlowInv' BY <1>1, <1>2, FlowsRest
<1> SUFFICES OidcTypes' /\ OidcInv'
  BY <1>2, <1>3 DEF LoginInv
<1>4. CASE LogsIn(l)
  <2>1. attempt' = [k \in Attempts |-> [attempt[k] EXCEPT
          !.pc = IF k = l THEN "pending" ELSE IF @ = "stale" THEN "gone" ELSE @]]
    BY <1>4 DEF LogsIn
  <2>2. UNCHANGED <<sealed, live, issued, aged, client>> BY <1>4 DEF LogsIn
  <2>3. attempt' \in [Attempts -> AttemptRows] BY <1>0, <2>1 DEF AttemptRows
  <2>4. \A k \in Attempts : /\ attempt'[k].tok = attempt[k].tok
                            /\ attempt'[k].pc = "seal" => attempt[k].pc = "seal"
    BY <1>0, <2>1 DEF AttemptRows
  <2> QED BY <1>2, <2>2, <2>3, <2>4, AttemptsMove
<1>5. ASSUME NEW pc \in {"stale", "gone"}, Moves(l, pc),
             UNCHANGED <<sealed, live, issued, aged, client>>
      PROVE  OidcTypes' /\ OidcInv'
  <2>1. attempt' = [attempt EXCEPT ![l].pc = pc] BY <1>5 DEF Moves
  <2>2. attempt' \in [Attempts -> AttemptRows] BY <1>0, <2>1 DEF AttemptRows
  <2>3. \A k \in Attempts : /\ attempt'[k].tok = attempt[k].tok
                            /\ attempt'[k].pc = "seal" => attempt[k].pc = "seal"
    BY <1>0, <2>1 DEF AttemptRows
  <2> QED BY <1>2, <1>5, <2>2, <2>3, AttemptsMove
<1>6. CASE Expires(l) \/ AnswersLate(l)
  BY <1>5, <1>6 DEF Expires, AnswersLate
<1>7. CASE Answers(l)
  <2>1. CASE Moves(l, "gone") /\ UNCHANGED <<live, issued>>
    BY <1>5, <1>7, <2>1 DEF Answers
  <2>2. CASE /\ issued < MaxIssued /\ issued' = issued + 1 /\ live' = live \cup {issued + 1} /\ Works
             /\ attempt' = [attempt EXCEPT ![l] =
                  [pc |-> "seal", tok |-> [acc |-> issued + 1, ref |-> issued + 1]]]
    <3> DEFINE new == [acc |-> issued + 1, ref |-> issued + 1]
    <3>1. /\ issued \in Nat /\ MaxIssued \in Nat /\ issued + 1 \in Numbers
          /\ live \subseteq 1 .. issued /\ aged \subseteq 1 .. issued
      BY <2>2, LoginAssumption DEF LoginInv, OidcTypes, Numbers
    <3>2. new \in Bundles /\ new.ref = issued + 1 BY <3>1 DEF Bundles
    <3>3. attempt' = [attempt EXCEPT ![l] = [pc |-> "seal", tok |-> new]] BY <2>2
    <3> HIDE DEF new
    <3>4. /\ attempt'[l].pc = "seal" /\ attempt'[l].tok = new
          /\ \A k \in Attempts : k # l => attempt'[k] = attempt[k]
          /\ attempt' \in [Attempts -> AttemptRows]
      BY <1>0, <3>2, <3>3 DEF AttemptRows
    <3>5. UNCHANGED <<sealed, aged, client>> BY <1>7 DEF Answers
    <3>6. (Calm' => Calm) /\ lmix' = lmix BY <1>2, LaterIs DEF LoginInv, Later
    <3>7. /\ sealed.ref \in Nat /\ sealed.ref <= issued
          /\ \A c \in Clients : client[c].tok.ref \in Nat /\ client[c].tok.ref <= issued
          /\ \A k \in Attempts : attempt[k].tok.ref \in Nat /\ attempt[k].tok.ref <= issued
      BY DEF LoginInv, OidcTypes, Bundles, Numbers, OidcInv, FreshRefs
    <3>8. live' \subseteq 1 .. issued' /\ aged' \subseteq 1 .. issued'
      BY <2>2, <3>1, <3>5
    <3>9. OidcTypes' BY <2>2, <3>1, <3>4, <3>5, <3>8 DEF LoginInv, OidcTypes, AttemptRows
    <3>10. FreshRefs'
      <4>1. issued' = issued + 1 BY <2>2
      <4>2. \A k \in Attempts : attempt'[k].tok.ref <= issued + 1
        <5> TAKE k \in Attempts
        <5>1. CASE k = l BY <3>1, <3>2, <3>4, <5>1
        <5>2. CASE k # l BY <3>1, <3>4, <3>7, <5>2
        <5> QED BY <5>1, <5>2
      <4>3. sealed.ref <= issued + 1 /\ \A c \in Clients : client[c].tok.ref <= issued + 1
        BY <3>1, <3>7
      <4> QED BY <3>5, <4>1, <4>2, <4>3 DEF FreshRefs
    <3>11. AllLive'
      BY <2>2, <3>2, <3>4, <3>5, <3>6 DEF LoginInv, OidcInv, AllLive
    <3>12. /\ sealed.ref # new.ref
           /\ \A c \in Clients : client[c].tok.ref # new.ref
           /\ \A k \in Attempts : attempt[k].tok.ref # new.ref
      BY <3>1, <3>2, <3>7
    <3>13. OnlyMine'
      <4> SUFFICES ASSUME Calm, NEW c \in Clients, client[c].pc = "save"
                   PROVE  /\ client[c].tok.ref \in live' /\ sealed.ref # client[c].tok.ref
                          /\ \A d \in Clients : d # c => client[d].tok.ref # client[c].tok.ref
                          /\ \A k \in Attempts : attempt'[k].tok.ref # client[c].tok.ref
        BY <3>5, <3>6 DEF OnlyMine
      <4>1. /\ client[c].tok.ref \in live /\ sealed.ref # client[c].tok.ref
            /\ \A d \in Clients : d # c => client[d].tok.ref # client[c].tok.ref
            /\ \A k \in Attempts : attempt[k].tok.ref # client[c].tok.ref
        BY DEF LoginInv, OidcInv, OnlyMine
      <4>2. \A k \in Attempts : attempt'[k].tok.ref # client[c].tok.ref
        BY <3>4, <3>12, <4>1
      <4> QED BY <2>2, <4>1, <4>2
    <3>14. OnlyLogins'
      <4> SUFFICES ASSUME Calm, NEW k \in Attempts, attempt'[k].pc = "seal"
                   PROVE  /\ attempt'[k].tok.ref \in live' /\ sealed.ref # attempt'[k].tok.ref
                          /\ \A d \in Clients : client[d].tok.ref # attempt'[k].tok.ref
                          /\ \A m \in Attempts : m # k => attempt'[m].tok.ref # attempt'[k].tok.ref
        BY <3>5, <3>6 DEF OnlyLogins
      <4>1. CASE k = l BY <2>2, <3>2, <3>4, <3>12, <4>1
      <4>2. CASE k # l
        <5>1. attempt[k].pc = "seal" BY <3>4, <4>2
        <5>2. /\ attempt[k].tok.ref \in live /\ sealed.ref # attempt[k].tok.ref
              /\ \A d \in Clients : client[d].tok.ref # attempt[k].tok.ref
              /\ \A m \in Attempts : m # k => attempt[m].tok.ref # attempt[k].tok.ref
          BY <5>1 DEF LoginInv, OidcInv, OnlyLogins
        <5> QED BY <2>2, <3>4, <3>12, <4>2, <5>2
      <4> QED BY <4>1, <4>2
    <3>15. Replaced'
      BY <2>2, <3>5, <3>6 DEF LoginInv, OidcInv, Replaced
    <3> QED BY <3>9, <3>10, <3>11, <3>13, <3>14, <3>15 DEF OidcInv
  <2> QED BY <1>7, <2>1, <2>2 DEF Answers
<1>8. CASE SealsLogin(l)
  <2> DEFINE tok == attempt[l].tok
  <2>1. /\ attempt[l].pc = "seal" /\ sealed' = tok /\ tok \in Bundles
        /\ attempt' = [attempt EXCEPT ![l] = [pc |-> "gone", tok |-> NoBundle]]
        /\ UNCHANGED <<live, issued, aged, client>>
    BY <1>0, <1>8 DEF SealsLogin
  <2>2. /\ attempt'[l].pc = "gone" /\ attempt'[l].tok = NoBundle
        /\ \A k \in Attempts : k # l => attempt'[k] = attempt[k]
        /\ attempt' \in [Attempts -> AttemptRows]
    BY <1>0, <2>1, NothingHeld DEF AttemptRows
  <2>3. (Calm' => Calm) /\ lmix' = lmix BY <1>2, LaterIs DEF LoginInv, Later
  <2>4. OidcTypes' BY <2>1, <2>2 DEF LoginInv, OidcTypes, AttemptRows
  <2>5. FreshRefs'
    <3>1. 0 <= issued BY DEF LoginInv, OidcTypes, Numbers
    <3>2. tok.ref <= issued BY DEF LoginInv, OidcInv, FreshRefs
    <3> QED BY <2>1, <2>2, <3>1, <3>2, NothingHeld DEF LoginInv, OidcInv, FreshRefs
  <2>6. AllLive' BY <2>1, <2>2, <2>3 DEF LoginInv, OidcInv, AllLive
  <2>7. Calm => /\ tok.ref \in live
                /\ \A d \in Clients : client[d].tok.ref # tok.ref
                /\ \A m \in Attempts : m # l => attempt[m].tok.ref # tok.ref
    BY <2>1 DEF LoginInv, OidcInv, OnlyLogins
  <2>8. \A n \in live : n # 0 BY DEF LoginInv, OidcTypes
  <2> HIDE DEF tok
  <2>9. OnlyMine'
    BY <2>1, <2>2, <2>3, <2>7, <2>8, NothingHeld DEF LoginInv, OidcInv, OnlyMine
  <2>10. OnlyLogins'
    <3> SUFFICES ASSUME Calm, NEW k \in Attempts, attempt'[k].pc = "seal"
                 PROVE  /\ attempt'[k].tok.ref \in live /\ tok.ref # attempt'[k].tok.ref
                        /\ \A d \in Clients : client[d].tok.ref # attempt'[k].tok.ref
                        /\ \A m \in Attempts : m # k => attempt'[m].tok.ref # attempt'[k].tok.ref
      BY <2>1, <2>3 DEF OnlyLogins
    <3>1. k # l /\ attempt'[k] = attempt[k] BY <2>2
    <3>2. /\ attempt[k].tok.ref \in live
          /\ \A d \in Clients : client[d].tok.ref # attempt[k].tok.ref
          /\ \A m \in Attempts : m # k => attempt[m].tok.ref # attempt[k].tok.ref
      BY <3>1 DEF LoginInv, OidcInv, OnlyLogins
    <3>3. tok.ref # attempt[k].tok.ref BY <2>7, <3>1
    <3>4. \A m \in Attempts : m # k => attempt'[m].tok.ref # attempt[k].tok.ref
      BY <2>2, <2>8, <3>2, NothingHeld
    <3> QED BY <3>1, <3>2, <3>3, <3>4
  <2>11. Replaced' BY <2>1, <2>3, <2>7 DEF Replaced
  <2> QED BY <2>4, <2>5, <2>6, <2>9, <2>10, <2>11 DEF OidcInv
<1> QED BY <1>4, <1>6, <1>7, <1>8

(* What a client renews for itself uses its old token up, where tokens rotate. *)
LEMMA RenewKeeps ==
  ASSUME LoginInv, NEW c \in Clients, Renews(c)
  PROVE  OidcTypes' /\ OidcInv'
<1> DEFINE old == client[c].tok
           new == Renewed(old)
<1>1. /\ issued \in Nat /\ MaxIssued \in Nat /\ issued + 1 \in Numbers /\ issued' = issued + 1
      /\ live \subseteq 1 .. issued /\ aged \subseteq 1 .. issued
      /\ UNCHANGED <<sealed, aged, attempt, reset, lmix>>
  BY LoginAssumption DEF Renews, LoginInv, OidcTypes, Numbers
<1>2. /\ client \in [Clients -> ClientRows] /\ client[c].pc = "ready" /\ old \in Bundles
      /\ old.ref \in live /\ old.ref \in Nat
  BY DEF Renews, LoginInv, OidcTypes, ClientRows, Bundles, Numbers
<1>3. /\ new \in Bundles
      /\ lmix.rotates => new.ref = issued + 1
      /\ ~lmix.rotates => new.ref = old.ref
  BY <1>1, <1>2 DEF Renewed, Bundles
<1>4. /\ lmix.rotates => live' = (live \ {old.ref}) \cup {issued + 1}
      /\ ~lmix.rotates => live' = live
  BY DEF Renews
<1>5. /\ sealed.ref \in Nat /\ sealed.ref <= issued
      /\ \A d \in Clients : client[d].tok.ref \in Nat /\ client[d].tok.ref <= issued
      /\ \A k \in Attempts : attempt[k].tok.ref \in Nat /\ attempt[k].tok.ref <= issued
  BY DEF LoginInv, OidcTypes, Bundles, Numbers, OidcInv, FreshRefs
<1>6. Later /\ Counted /\ missed \in Nat BY DEF Later, Renews, Works, Fails, LoginInv, Counted
<1>7. (Calm' => Calm) /\ lmix' = lmix BY <1>6, LaterIs DEF Later
<1>8. live' \subseteq 1 .. issued' /\ aged' \subseteq 1 .. issued'
  <2>1. live' \subseteq live \cup {issued + 1} BY <1>4
  <2> QED BY <1>1, <2>1
<1>9. \/ /\ Works
         /\ client' = [client EXCEPT ![c] = [pc |-> IF lmix.saves THEN "save" ELSE "ready",
                                             tok |-> new]]
      \/ Fails /\ UNCHANGED client
  BY DEF Renews
<1> HIDE DEF new
<1>10. CASE Fails /\ UNCHANGED client
  <2>1. missed' # 0 BY <1>6, <1>10 DEF Fails
  <2>2. ~Calm' BY <2>1 DEF Calm
  <2>3. OidcTypes' BY <1>1, <1>8, <1>10 DEF LoginInv, OidcTypes
  <2>4. FreshRefs' BY <1>1, <1>5, <1>10 DEF FreshRefs
  <2>5. AllLive' BY <1>1, <1>4, <1>10 DEF LoginInv, OidcInv, AllLive
  <2> QED BY <2>2, <2>3, <2>4, <2>5 DEF OidcInv, OnlyMine, OnlyLogins, Replaced
<1>11. CASE /\ Works
            /\ client' = [client EXCEPT ![c] = [pc |-> IF lmix.saves THEN "save" ELSE "ready",
                                                tok |-> new]]
  <2>1. /\ client'[c].tok = new /\ client'[c].pc = IF lmix.saves THEN "save" ELSE "ready"
        /\ \A d \in Clients : d # c => client'[d] = client[d]
        /\ client' \in [Clients -> ClientRows]
    BY <1>2, <1>3, <1>11 DEF ClientRows
  <2>2. OidcTypes' BY <1>1, <1>8, <2>1 DEF LoginInv, OidcTypes, ClientRows
  <2>3. new.ref <= issued + 1
    BY <1>1, <1>3, <1>5
  <2>4. FreshRefs'
    <3>1. \A d \in Clients : client'[d].tok.ref <= issued + 1
      <4> TAKE d \in Clients
      <4>1. CASE d = c BY <2>1, <2>3, <4>1
      <4>2. CASE d # c BY <1>1, <1>5, <2>1, <4>2
      <4> QED BY <4>1, <4>2
    <3>2. sealed.ref <= issued + 1 /\ \A k \in Attempts : attempt[k].tok.ref <= issued + 1
      BY <1>1, <1>5
    <3> QED BY <1>1, <3>1, <3>2 DEF FreshRefs
  <2>5. AllLive'
    <3> SUFFICES ASSUME ~lmix.rotates PROVE AllLive' BY <1>7 DEF AllLive
    <3>1. live' = live /\ new.ref \in live BY <1>2, <1>3, <1>4
    <3> QED BY <1>1, <2>1, <3>1 DEF LoginInv, OidcInv, AllLive
  <2>6. ASSUME Calm
        PROVE  /\ new.ref \in live' /\ sealed.ref # new.ref
               /\ \A d \in Clients : d # c => client'[d].tok.ref # new.ref
               /\ \A k \in Attempts : attempt[k].tok.ref # new.ref
    <3>1. new.ref = issued + 1 /\ new.ref \in live' BY <1>3, <1>4, <2>6 DEF Calm
    <3> QED BY <1>1, <1>5, <2>1, <3>1
  <2>7. OnlyMine'
    <3> SUFFICES ASSUME Calm, NEW d \in Clients, client'[d].pc = "save"
                 PROVE  /\ client'[d].tok.ref \in live' /\ sealed.ref # client'[d].tok.ref
                        /\ \A e \in Clients : e # d => client'[e].tok.ref # client'[d].tok.ref
                        /\ \A k \in Attempts : attempt[k].tok.ref # client'[d].tok.ref
      BY <1>1, <1>7 DEF OnlyMine
    <3>1. CASE d = c BY <2>1, <2>6, <3>1
    <3>2. CASE d # c
      <4>1. client'[d] = client[d] BY <2>1, <3>2
      <4>2. /\ client[d].tok.ref \in live /\ sealed.ref # client[d].tok.ref
            /\ \A e \in Clients : e # d => client[e].tok.ref # client[d].tok.ref
            /\ \A k \in Attempts : attempt[k].tok.ref # client[d].tok.ref
        BY <4>1 DEF LoginInv, OidcInv, OnlyMine
      <4>3. client[d].tok.ref # old.ref BY <3>2, <4>2
      <4>4. client[d].tok.ref \in live' BY <1>4, <4>2, <4>3
      <4>5. client'[c].tok.ref # client[d].tok.ref BY <2>1, <2>6, <3>2
      <4> QED BY <2>1, <4>1, <4>2, <4>4, <4>5
    <3> QED BY <3>1, <3>2
  <2>8. OnlyLogins'
    <3> SUFFICES ASSUME Calm, NEW l \in Attempts, attempt[l].pc = "seal"
                 PROVE  /\ attempt[l].tok.ref \in live' /\ sealed.ref # attempt[l].tok.ref
                        /\ \A d \in Clients : client'[d].tok.ref # attempt[l].tok.ref
                        /\ \A k \in Attempts : k # l => attempt[k].tok.ref # attempt[l].tok.ref
      BY <1>1, <1>7 DEF OnlyLogins
    <3>1. /\ attempt[l].tok.ref \in live /\ sealed.ref # attempt[l].tok.ref
          /\ \A d \in Clients : client[d].tok.ref # attempt[l].tok.ref
          /\ \A k \in Attempts : k # l => attempt[k].tok.ref # attempt[l].tok.ref
      BY DEF LoginInv, OidcInv, OnlyLogins
    <3>2. attempt[l].tok.ref \in live' BY <1>4, <3>1
    <3>3. \A d \in Clients : client'[d].tok.ref # attempt[l].tok.ref
      BY <2>1, <2>6, <3>1
    <3> QED BY <3>1, <3>2, <3>3
  <2>9. Replaced'
    <3>1. Calm => client'[c].pc = "save" BY <2>1 DEF Calm
    <3> QED BY <1>7, <3>1 DEF Replaced
  <2> QED BY <2>2, <2>4, <2>5, <2>7, <2>8, <2>9 DEF OidcInv
<1> QED BY <1>9, <1>10, <1>11

(* Clients come, seal what they got, and go. *)
LEMMA ClientSteps ==
  ASSUME LoginInv,
         \/ \E c \in Clients : Opens(c) \/ Renews(c) \/ Saves(c) \/ Closes(c)
         \/ Logout \/ Ages
  PROVE  LoginInv'
<1>0. client \in [Clients -> ClientRows] /\ \A d \in Clients : client[d].tok \in Bundles
  BY DEF LoginInv, OidcTypes, ClientRows
<1>1. UNCHANGED <<oauth, reset, lmix>> /\ missed' \in {missed, missed + 1}
  BY DEF Opens, Renews, Saves, Closes, Logout, Ages, Works, Fails
<1>2. Later /\ Counted' /\ lmix' \in LoginMix /\ lmix' = lmix /\ (Calm' => Calm)
  BY <1>1, LaterIs DEF Later, LoginInv
<1>3. FlowTypes' /\ FlowInv' BY <1>1, <1>2, FlowsRest
<1> SUFFICES OidcTypes' /\ OidcInv'
  BY <1>2, <1>3 DEF LoginInv
<1>4. 0 <= issued /\ \A n \in live : n # 0 BY DEF LoginInv, OidcTypes, Numbers
<1>5. ASSUME NEW c \in Clients, Opens(c) PROVE OidcTypes' /\ OidcInv'
  <2>1. /\ sealed # NoBundle /\ client' = [client EXCEPT ![c] = [pc |-> "ready", tok |-> sealed]]
        /\ UNCHANGED <<sealed, live, issued, aged, attempt>>
    BY <1>5 DEF Opens
  <2>2. /\ client'[c].pc = "ready" /\ client'[c].tok = sealed /\ client[c].pc = "off"
        /\ \A d \in Clients : d # c => client'[d] = client[d]
        /\ client' \in [Clients -> ClientRows]
    BY <1>0, <1>5, <2>1 DEF Opens, LoginInv, OidcTypes, ClientRows
  <2>3. OidcTypes' BY <2>1, <2>2 DEF LoginInv, OidcTypes, ClientRows
  <2>4. FreshRefs' BY <2>1, <2>2 DEF LoginInv, OidcInv, FreshRefs
  <2>5. AllLive' BY <1>2, <2>1, <2>2 DEF LoginInv, OidcInv, AllLive
  <2>6. OnlyMine' BY <1>2, <2>1, <2>2 DEF LoginInv, OidcInv, OnlyMine
  <2>7. OnlyLogins' BY <1>2, <2>1, <2>2 DEF LoginInv, OidcInv, OnlyLogins
  <2>8. Replaced' BY <1>2, <2>1, <2>2 DEF LoginInv, OidcInv, Replaced
  <2> QED BY <2>3, <2>4, <2>5, <2>6, <2>7, <2>8 DEF OidcInv
<1>6. ASSUME NEW c \in Clients, Saves(c) PROVE OidcTypes' /\ OidcInv'
  <2>1. /\ client[c].pc = "save" /\ sealed' = client[c].tok
        /\ client' = [client EXCEPT ![c].pc = "ready"]
        /\ UNCHANGED <<live, issued, aged, attempt>>
    BY <1>6 DEF Saves
  <2>2. /\ client'[c].pc = "ready" /\ client'[c].tok = client[c].tok
        /\ \A d \in Clients : d # c => client'[d] = client[d]
        /\ client' \in [Clients -> ClientRows]
    BY <1>0, <2>1 DEF ClientRows
  <2>3. \A d \in Clients : client'[d].tok = client[d].tok BY <2>2
  <2>4. OidcTypes' BY <1>0, <2>1, <2>2 DEF LoginInv, OidcTypes, ClientRows
  <2>5. FreshRefs' BY <2>1, <2>3 DEF LoginInv, OidcInv, FreshRefs
  <2>6. AllLive' BY <1>2, <2>1, <2>2 DEF LoginInv, OidcInv, AllLive
  <2>7. Calm => /\ client[c].tok.ref \in live
                /\ \A d \in Clients : d # c => client[d].tok.ref # client[c].tok.ref
                /\ \A k \in Attempts : attempt[k].tok.ref # client[c].tok.ref
    BY <2>1 DEF LoginInv, OidcInv, OnlyMine
  <2>8. OnlyMine' BY <1>2, <2>1, <2>2, <2>7 DEF LoginInv, OidcInv, OnlyMine
  <2>9. OnlyLogins' BY <1>2, <2>1, <2>3, <2>7 DEF LoginInv, OidcInv, OnlyLogins
  <2>10. Replaced' BY <1>2, <2>1, <2>7 DEF Replaced
  <2> QED BY <2>4, <2>5, <2>6, <2>8, <2>9, <2>10 DEF OidcInv
<1>7. ASSUME NEW c \in Clients, Closes(c) PROVE OidcTypes' /\ OidcInv'
  <2>1. /\ client[c].pc = "ready" /\ client' = [client EXCEPT ![c] = NoClient]
        /\ UNCHANGED <<sealed, live, issued, aged, attempt>>
    BY <1>7 DEF Closes
  <2>2. /\ client'[c].pc = "off" /\ client'[c].tok.ref = 0
        /\ \A d \in Clients : d # c => client'[d] = client[d]
        /\ client' \in [Clients -> ClientRows]
    BY <1>0, <2>1, NothingHeld DEF NoClient, ClientRows
  <2>3. OidcTypes' BY <2>1, <2>2 DEF LoginInv, OidcTypes, ClientRows
  <2>4. FreshRefs' BY <1>4, <2>1, <2>2 DEF LoginInv, OidcInv, FreshRefs
  <2>5. AllLive' BY <1>2, <2>1, <2>2 DEF LoginInv, OidcInv, AllLive
  <2>6. OnlyMine' BY <1>2, <1>4, <2>1, <2>2 DEF LoginInv, OidcInv, OnlyMine
  <2>7. OnlyLogins' BY <1>2, <1>4, <2>1, <2>2 DEF LoginInv, OidcInv, OnlyLogins
  <2>8. Replaced' BY <1>2, <2>1, <2>2 DEF LoginInv, OidcInv, Replaced
  <2> QED BY <2>3, <2>4, <2>5, <2>6, <2>7, <2>8 DEF OidcInv
<1>8. CASE Logout
  <2>1. sealed' = NoBundle /\ UNCHANGED <<live, issued, aged, attempt, client>>
    BY <1>8 DEF Logout
  <2>2. OidcTypes' BY <2>1, NothingHeld DEF LoginInv, OidcTypes
  <2>3. FreshRefs' BY <1>4, <2>1, NothingHeld DEF LoginInv, OidcInv, FreshRefs
  <2>4. AllLive' /\ Replaced' BY <1>2, <2>1 DEF LoginInv, OidcInv, AllLive, Replaced
  <2>5. OnlyMine' BY <1>2, <1>4, <2>1, NothingHeld DEF LoginInv, OidcInv, OnlyMine
  <2>6. OnlyLogins' BY <1>2, <1>4, <2>1, NothingHeld DEF LoginInv, OidcInv, OnlyLogins
  <2> QED BY <2>2, <2>3, <2>4, <2>5, <2>6 DEF OidcInv
<1>9. CASE Ages
  <2>1. aged' = 1 .. issued /\ UNCHANGED <<sealed, live, issued, attempt, client>>
    BY <1>9 DEF Ages
  <2>2. OidcTypes' BY <2>1 DEF LoginInv, OidcTypes
  <2>3. FreshRefs' /\ AllLive' /\ Replaced'
    BY <1>2, <2>1 DEF LoginInv, OidcInv, FreshRefs, AllLive, Replaced
  <2>4. OnlyMine' /\ OnlyLogins' BY <1>2, <2>1 DEF LoginInv, OidcInv, OnlyMine, OnlyLogins
  <2> QED BY <2>2, <2>3, <2>4 DEF OidcInv
<1> QED BY <1>5, <1>6, <1>7, <1>8, <1>9, RenewKeeps

-------------------------------------------------------------------------------
(* Remote MCP servers. *)

(* What is left of a server is for this one request to go on with. *)
LeftTo(s, f) ==
  /\ s \in ltypes => f.of = s /\ f.pc \in {"import", "prov", "apply", "server", "unprov", "untype"}
  /\ s \in lprovs => f.of = s /\ f.pc \in {"apply", "server", "unprov"}
  /\ s \in lgtypes =>
       f.of = s /\ f.pc \in {"prov", "apply", "server", "unprov", "untype", "gateprov", "gatetype"}
  /\ s \in gprovs => f.of = s /\ f.pc \in {"server", "unprov", "untype", "gateprov"}
AllLeftTo(f) == \A s \in Servers : server[s] # "oauth" => LeftTo(s, f)

(* A request that has the servers to itself answers for all that is left. *)
LEMMA MineIs ==
  ASSUME NEW h \in Flows, FlowTypes, \A g \in Flows : g # h => ~Amid(g), NEW s \in Servers
  PROVE  Leftover(s) <=> LeftTo(s, flow[h])
  BY DEF Leftover, LeftTo, Under, Amid

LEMMA NobodyIs ==
  ASSUME \A g \in Flows : ~Amid(g), NEW s \in Servers, Leftover(s), NEW f
  PROVE  LeftTo(s, f)
  BY DEF Leftover, LeftTo, Under, Amid

(* One step of one request. *)
LEMMA FlowStep ==
  ASSUME LoginInv, Later, NEW h \in Flows, NEW f \in FlowRows,
         flow' = [flow EXCEPT ![h] = f],
         server' \in [Servers -> {"none", "plain", "oauth"}],
         UNION {lprovs', ltypes', gprovs', lgtypes'} \subseteq Servers,
         \/ f.pc \in {"idle", "asked"} \/ Amid(h)
         \/ lmix.alone => \A k \in Flows : ~Amid(k),
         f.pc \in Wipes => lmix.verbs \cap {"disconnect", "delete"} # {},
         Ordered => \A s \in Servers : server'[s] = "oauth" => s \in lprovs' \cap ltypes',
         Ordered => FlowOK(f)',
         \/ lprovs \subseteq lprovs' /\ ltypes \subseteq ltypes'
         \/ lmix.verbs \cap {"disconnect", "delete"} # {},
         \/ UNCHANGED <<server, lprovs, ltypes, gprovs, lgtypes>> /\ f.pc \in {"idle", "asked"} /\ ~Amid(h)
         \/ /\ Amid(h) \/ (lmix.alone => \A k \in Flows : ~Amid(k))
            /\ Quiet /\ Quiet' /\ AllLeftTo(flow[h]) => AllLeftTo(f)'
  PROVE  FlowTypes' /\ FlowInv'
<1>0. /\ lmix' = lmix /\ (Quiet' => Quiet) BY LaterIs DEF LoginInv, Later
<1>1. /\ flow'[h] = f /\ \A g \in Flows : g # h => flow'[g] = flow[g]
      /\ flow' \in [Flows -> FlowRows]
  BY DEF LoginInv, FlowTypes
<1>2. FlowTypes' BY <1>1 DEF FlowTypes
<1>3. OneFlow'
  <2> SUFFICES ASSUME lmix.alone, NEW a \in Flows, NEW b \in Flows,
                      flow'[a].pc \notin {"idle", "asked"}, flow'[b].pc \notin {"idle", "asked"}
               PROVE  a = b
    BY <1>0 DEF OneFlow, Amid
  <2>1. CASE f.pc \in {"idle", "asked"}
    BY <1>1, <2>1 DEF LoginInv, FlowInv, OneFlow, Amid
  <2>2. CASE Amid(h) BY <1>1, <2>2 DEF LoginInv, FlowInv, OneFlow, Amid
  <2>3. CASE \A k \in Flows : ~Amid(k) BY <1>1, <2>3 DEF Amid
  <2> QED BY <2>1, <2>2, <2>3
<1>4. NoTakers' BY <1>0, <1>1 DEF LoginInv, FlowInv, NoTakers
<1>5. Paired' BY <1>0 DEF Paired, Ordered
<1>6. FlowsOK'
  <2> SUFFICES ASSUME Ordered, NEW g \in Flows, NEW e \in FlowRows, e = flow'[g]
               PROVE  FlowOK(e)'
    BY <1>0 DEF FlowsOK, Ordered
  <2>1. CASE g = h BY <1>1, <2>1
  <2>2. CASE g # h
    <3>1. e = flow[g] /\ FlowOK(e) BY <1>1, <2>2 DEF LoginInv, FlowInv, FlowsOK
    <3>2. CASE lmix.verbs \cap {"disconnect", "delete"} = {}
      <4>1. e.pc \notin Wipes BY <3>1, <3>2 DEF LoginInv, FlowInv, NoTakers
      <4> QED BY <3>1, <3>2, <4>1 DEF FlowOK, Wipes
    <3>3. CASE lmix.alone
      <4>1. CASE UNCHANGED <<server, lprovs, ltypes>> BY <3>1, <4>1 DEF FlowOK
      <4>2. CASE Amid(h) \/ \A k \in Flows : ~Amid(k)
        <5>1. ~Amid(g) BY <2>2, <3>3, <4>2 DEF LoginInv, FlowInv, OneFlow
        <5> QED BY <3>1, <5>1 DEF Amid, FlowOK
      <4> QED BY <3>3, <4>1, <4>2
    <3> QED BY <3>2, <3>3 DEF Ordered
  <2> QED BY <2>1, <2>2
<1>7. NoLeftovers'
  <2> SUFFICES ASSUME Quiet', NEW s \in Servers, server'[s] # "oauth"
               PROVE  Leftover(s)'
    BY DEF NoLeftovers
  <2>1. Quiet /\ lmix.alone BY <1>0 DEF Quiet
  <2>2. CASE UNCHANGED <<server, lprovs, ltypes, gprovs, lgtypes>> /\ f.pc \in {"idle", "asked"} /\ ~Amid(h)
    <3>1. Leftover(s) BY <2>1, <2>2 DEF LoginInv, FlowInv, NoLeftovers
    <3>2. ASSUME NEW P, \A p \in P : p \notin {"idle", "asked"}, Under(s, P) PROVE Under(s, P)'
      <4>1. PICK g \in Flows : flow[g].of = s /\ flow[g].pc \in P BY <3>2 DEF Under
      <4>2. g # h BY <2>2, <3>2, <4>1 DEF Amid
      <4> QED BY <1>1, <4>1, <4>2 DEF Under
    <3> QED BY <2>2, <3>1, <3>2 DEF Leftover
  <2>3. CASE /\ Amid(h) \/ (lmix.alone => \A k \in Flows : ~Amid(k))
             /\ AllLeftTo(flow[h]) => AllLeftTo(f)'
    <3>1. \A g \in Flows : g # h => ~Amid(g)
      BY <2>1, <2>3 DEF LoginInv, FlowInv, OneFlow
    <3>2. AllLeftTo(flow[h])
      BY <2>1, <3>1, MineIs DEF LoginInv, FlowInv, NoLeftovers, AllLeftTo
    <3>3. LeftTo(s, f)' BY <2>3, <3>2 DEF AllLeftTo
    <3>4. \A g \in Flows : g # h => ~Amid(g)' BY <1>1, <3>1 DEF Amid
    <3>5. Leftover(s)' <=> LeftTo(s, flow[h])'
      BY <1>2, <3>4 DEF Leftover, LeftTo, Under, Amid
    <3>6. LeftTo(s, flow[h])' BY <1>1, <3>3 DEF LeftTo
    <3> QED BY <3>5, <3>6
  <2> QED BY <2>1, <2>2, <2>3
<1> QED BY <1>2, <1>3, <1>4, <1>5, <1>6, <1>7 DEF FlowInv

LEMMA GoesTo ==
  ASSUME LoginInv, NEW h \in Flows, NEW pc \in FlowPc, FlowGoes(h, pc)
  PROVE  \E f \in FlowRows :
           f.pc = pc /\ f.of = flow[h].of /\ flow' = [flow EXCEPT ![h] = f]
<1>1. flow \in [Flows -> FlowRows] /\ flow[h] \in FlowRows BY DEF LoginInv, FlowTypes
<1> DEFINE r == [flow[h] EXCEPT !.pc = pc]
<1>2. r \in FlowRows /\ r.pc = pc /\ r.of = flow[h].of BY <1>1 DEF FlowRows
<1>3. flow' = [flow EXCEPT ![h] = r] BY DEF FlowGoes
<1> QED BY <1>2, <1>3

LEMMA BeginsAt ==
  ASSUME NEW h \in Flows, NEW s \in Servers, NEW pc \in FlowPc, FlowBegins(h, s, pc)
  PROVE  \E f \in FlowRows : f.pc = pc /\ f.of = s /\ flow' = [flow EXCEPT ![h] = f]
<1> DEFINE r == [pc |-> pc, of |-> s]
<1>1. r \in FlowRows /\ r.pc = pc /\ r.of = s BY DEF FlowRows
<1>2. flow' = [flow EXCEPT ![h] = r] BY DEF FlowBegins
<1> QED BY <1>1, <1>2

LEMMA EndsAt ==
  ASSUME NEW h \in Flows, FlowEnds(h)
  PROVE  \E f \in FlowRows : f.pc = "idle" /\ flow' = [flow EXCEPT ![h] = f]
  BY NothingHeld DEF FlowEnds

(* A request that writes the pair, at the Board and at the gateway, and last   *)
(* the server.                                                                 *)
LEMMA ConnectSteps ==
  ASSUME LoginInv, NEW h \in Flows,
         \/ \E s \in Servers : Connects(h, s)
         \/ ComesBack(h) \/ PutsType(h) \/ ImportsType(h) \/ PutsProvider(h)
         \/ AppliesProvider(h) \/ PutsServer(h)
  PROVE  LoginInv'
<1>0. UNCHANGED <<oidc, reset, lmix>> /\ missed' \in {missed, missed + 1}
  BY DEF Connects, ComesBack, PutsType, ImportsType, PutsProvider, AppliesProvider, PutsServer,
         Works, Fails
<1>1. Later /\ Counted' /\ lmix' \in LoginMix
  BY <1>0, LaterIs DEF Later, LoginInv
<1>2. OidcTypes' /\ OidcInv' BY <1>0, <1>1, OidcRests
<1> SUFFICES FlowTypes' /\ FlowInv'
  BY <1>1, <1>2 DEF LoginInv
<1>3. /\ server \in [Servers -> {"none", "plain", "oauth"}]
      /\ UNION {lprovs, ltypes, gprovs, lgtypes} \subseteq Servers
      /\ lmix' = lmix /\ flow[h] \in FlowRows /\ flow[h].of \in Servers
      /\ flow \in [Flows -> FlowRows] /\ Counted
  BY <1>1 DEF LoginInv, FlowTypes, Later, FlowRows
<1>4. Ordered => /\ FlowOK(flow[h])
                 /\ \A s \in Servers : server[s] = "oauth" => s \in lprovs \cap ltypes
  BY <1>3 DEF LoginInv, FlowInv, FlowsOK, Paired
<1>5. ASSUME NEW s \in Servers, Connects(h, s) PROVE FlowTypes' /\ FlowInv'
  <2>1. FlowBegins(h, s, "asked") /\ ~Amid(h) /\ UNCHANGED <<server, lprovs, ltypes, gprovs, lgtypes>>
    BY <1>5 DEF Connects, Amid
  <2>2. "asked" \in FlowPc BY DEF FlowPc
  <2>3. PICK f \in FlowRows : f.pc = "asked" /\ flow' = [flow EXCEPT ![h] = f]
    BY <1>5, <2>1, <2>2, BeginsAt
  <2>4. Ordered => FlowOK(f)' BY <2>3 DEF FlowOK
  <2>5. f.pc \notin Wipes BY <2>3 DEF Wipes
  <2> QED BY <1>1, <1>3, <1>4, <2>1, <2>3, <2>4, <2>5, FlowStep
<1>6. CASE ComesBack(h)
  <2>0. ~Amid(h) /\ UNCHANGED <<server, lprovs, ltypes, gprovs, lgtypes>>
    BY <1>6 DEF ComesBack, Amid
  <2>1. CASE FlowEnds(h)
    <3>1. PICK f \in FlowRows : f.pc = "idle" /\ flow' = [flow EXCEPT ![h] = f]
      BY <2>1, EndsAt
    <3>2. Ordered => FlowOK(f)' BY <3>1 DEF FlowOK
    <3>3. f.pc \notin Wipes BY <3>1 DEF Wipes
    <3> QED BY <1>1, <1>3, <1>4, <2>0, <3>1, <3>2, <3>3, FlowStep
  <2>2. CASE FlowGoes(h, "type") /\ (lmix.alone => \A k \in Flows : flow[k].pc \in {"idle", "asked"})
    <3>0. "type" \in FlowPc /\ (lmix.alone => \A k \in Flows : ~Amid(k)) BY <2>2 DEF FlowPc, Amid
    <3>1. PICK f \in FlowRows :
            f.pc = "type" /\ f.of = flow[h].of /\ flow' = [flow EXCEPT ![h] = f]
      BY <2>2, <3>0, GoesTo
    <3>2. Ordered => FlowOK(f)' BY <3>1 DEF FlowOK
    <3>3. f.pc \notin Wipes BY <3>1 DEF Wipes
    <3>4. AllLeftTo(flow[h]) => AllLeftTo(f)'
      BY <2>0, <3>1 DEF AllLeftTo, LeftTo, Amid
    <3> QED BY <1>1, <1>3, <1>4, <2>0, <3>0, <3>1, <3>2, <3>3, <3>4, FlowStep
  <2> QED BY <1>6, <2>1, <2>2 DEF ComesBack
<1>7. CASE PutsType(h)
  <2>0. FlowGoes(h, "import") /\ "import" \in FlowPc BY <1>7 DEF PutsType, FlowPc
  <2>1. /\ flow[h].pc = "type" /\ Amid(h)
        /\ ltypes' = ltypes \cup {flow[h].of}
        /\ UNCHANGED <<server, lprovs, gprovs, lgtypes>>
    BY <1>7 DEF PutsType, Amid
  <2>2. PICK f \in FlowRows :
          f.pc = "import" /\ f.of = flow[h].of /\ flow' = [flow EXCEPT ![h] = f]
    BY <2>0, GoesTo
  <2>3. Ordered => FlowOK(f)' BY <1>4, <2>1, <2>2 DEF FlowOK
  <2>4. f.pc \notin Wipes BY <2>2 DEF Wipes
  <2>5. AllLeftTo(flow[h]) => AllLeftTo(f)' BY <2>1, <2>2 DEF AllLeftTo, LeftTo
  <2>6. UNION {lprovs', ltypes', gprovs', lgtypes'} \subseteq Servers BY <1>3, <2>1
  <2>7. Ordered => \A s \in Servers : server'[s] = "oauth" => s \in lprovs' \cap ltypes'
    BY <1>4, <2>1
  <2> QED BY <1>1, <1>3, <2>1, <2>2, <2>3, <2>4, <2>5, <2>6, <2>7, FlowStep
<1>8. CASE ImportsType(h)
  <2>1. flow[h].pc = "import" /\ Amid(h) /\ UNCHANGED <<server, lprovs, ltypes, gprovs>>
    BY <1>8 DEF ImportsType, Amid
  <2>2. CASE Works /\ lgtypes' = lgtypes \cup {flow[h].of} /\ FlowGoes(h, "prov")
    <3>0. "prov" \in FlowPc BY DEF FlowPc
    <3>1. PICK f \in FlowRows :
            f.pc = "prov" /\ f.of = flow[h].of /\ flow' = [flow EXCEPT ![h] = f]
      BY <2>2, <3>0, GoesTo
    <3>2. Ordered => FlowOK(f)' BY <1>4, <2>1, <3>1 DEF FlowOK
    <3>3. f.pc \notin Wipes BY <3>1 DEF Wipes
    <3>4. AllLeftTo(flow[h]) => AllLeftTo(f)' BY <2>1, <2>2, <3>1 DEF AllLeftTo, LeftTo
    <3>5. UNION {lprovs', ltypes', gprovs', lgtypes'} \subseteq Servers BY <1>3, <2>1, <2>2
    <3> QED BY <1>1, <1>3, <1>4, <2>1, <3>1, <3>2, <3>3, <3>4, <3>5, FlowStep
  <2>3. CASE Fails /\ UNCHANGED lgtypes /\ FlowEnds(h)
    <3>1. PICK f \in FlowRows : f.pc = "idle" /\ flow' = [flow EXCEPT ![h] = f]
      BY <2>3, EndsAt
    <3>2. Ordered => FlowOK(f)' BY <3>1 DEF FlowOK
    <3>3. f.pc \notin Wipes BY <3>1 DEF Wipes
    <3>4. ~Quiet' BY <1>3, <2>3 DEF Fails, Quiet, Counted
    <3> QED BY <1>1, <1>3, <1>4, <2>1, <2>3, <3>1, <3>2, <3>3, <3>4, FlowStep
  <2> QED BY <1>8, <2>2, <2>3 DEF ImportsType
<1>9. CASE PutsProvider(h)
  <2>0. FlowGoes(h, "apply") /\ "apply" \in FlowPc BY <1>9 DEF PutsProvider, FlowPc
  <2>1. /\ flow[h].pc = "prov" /\ Amid(h)
        /\ lprovs' = lprovs \cup {flow[h].of}
        /\ UNCHANGED <<server, ltypes, gprovs, lgtypes>>
    BY <1>9 DEF PutsProvider, Amid
  <2>2. PICK f \in FlowRows :
          f.pc = "apply" /\ f.of = flow[h].of /\ flow' = [flow EXCEPT ![h] = f]
    BY <2>0, GoesTo
  <2>3. Ordered => FlowOK(f)' BY <1>4, <2>1, <2>2 DEF FlowOK
  <2>4. f.pc \notin Wipes BY <2>2 DEF Wipes
  <2>5. AllLeftTo(flow[h]) => AllLeftTo(f)' BY <2>1, <2>2 DEF AllLeftTo, LeftTo
  <2>6. UNION {lprovs', ltypes', gprovs', lgtypes'} \subseteq Servers BY <1>3, <2>1
  <2>7. Ordered => \A s \in Servers : server'[s] = "oauth" => s \in lprovs' \cap ltypes'
    BY <1>4, <2>1
  <2> QED BY <1>1, <1>3, <2>1, <2>2, <2>3, <2>4, <2>5, <2>6, <2>7, FlowStep
<1>10. CASE AppliesProvider(h)
  <2>0. FlowGoes(h, "server") /\ "server" \in FlowPc BY <1>10 DEF AppliesProvider, FlowPc
  <2>1. /\ flow[h].pc = "apply" /\ Amid(h)
        /\ (gprovs' = gprovs \cup ({flow[h].of} \cap lgtypes)) \/ (gprovs' = gprovs)
        /\ UNCHANGED <<server, lprovs, ltypes, lgtypes>>
    BY <1>10 DEF AppliesProvider, Amid
  <2>2. PICK f \in FlowRows :
          f.pc = "server" /\ f.of = flow[h].of /\ flow' = [flow EXCEPT ![h] = f]
    BY <2>0, GoesTo
  <2>3. Ordered => FlowOK(f)' BY <1>4, <2>1, <2>2 DEF FlowOK
  <2>4. f.pc \notin Wipes BY <2>2 DEF Wipes
  <2>5. AllLeftTo(flow[h]) => AllLeftTo(f)' BY <2>1, <2>2 DEF AllLeftTo, LeftTo
  <2>6. UNION {lprovs', ltypes', gprovs', lgtypes'} \subseteq Servers BY <1>3, <2>1
  <2>7. Ordered => \A s \in Servers : server'[s] = "oauth" => s \in lprovs' \cap ltypes'
    BY <1>4, <2>1
  <2> QED BY <1>1, <1>3, <2>1, <2>2, <2>3, <2>4, <2>5, <2>6, <2>7, FlowStep
<1>11. CASE PutsServer(h)
  <2>1. /\ FlowEnds(h) /\ flow[h].pc = "server" /\ Amid(h)
        /\ server' = [server EXCEPT ![flow[h].of] = "oauth"]
        /\ UNCHANGED <<lprovs, ltypes, gprovs, lgtypes>>
    BY <1>11 DEF PutsServer, Amid
  <2>2. server' \in [Servers -> {"none", "plain", "oauth"}] BY <1>3, <2>1
  <2>3. PICK f \in FlowRows : f.pc = "idle" /\ flow' = [flow EXCEPT ![h] = f]
    BY <2>1, EndsAt
  <2>4. Ordered => FlowOK(f)' BY <2>3 DEF FlowOK
  <2>5. f.pc \notin Wipes BY <2>3 DEF Wipes
  <2>6. Ordered => flow[h].of \in lprovs \cap ltypes BY <1>4, <2>1 DEF FlowOK
  <2>7. Ordered => \A s \in Servers : server'[s] = "oauth" => s \in lprovs' \cap ltypes'
    BY <1>3, <1>4, <2>1, <2>6
  <2>8. AllLeftTo(flow[h]) => AllLeftTo(f)'
    BY <1>3, <2>1 DEF AllLeftTo, LeftTo
  <2> QED BY <1>1, <1>3, <2>1, <2>2, <2>3, <2>4, <2>5, <2>7, <2>8, FlowStep
<1> QED BY <1>5, <1>6, <1>7, <1>8, <1>9, <1>10, <1>11

(* A request that takes the pair away, or clears or deletes the server first. *)
LEMMA TakingSteps ==
  ASSUME LoginInv, NEW h \in Flows,
         \/ \E s \in Servers : Disconnects(h, s) \/ DeletesServer(h, s)
         \/ ClearsAuth(h) \/ DropsProvider(h) \/ DropsType(h)
         \/ GateDropsProvider(h) \/ GateDropsType(h)
  PROVE  LoginInv'
<1>0. UNCHANGED <<oidc, reset, lmix>> /\ missed' \in {missed, missed + 1}
  BY DEF Disconnects, DeletesServer, ClearsAuth, DropsProvider, DropsType, GateDropsProvider,
         GateDropsType, Works, Fails
<1>1. Later /\ Counted' /\ lmix' \in LoginMix
  BY <1>0, LaterIs DEF Later, LoginInv
<1>2. OidcTypes' /\ OidcInv' BY <1>0, <1>1, OidcRests
<1> SUFFICES FlowTypes' /\ FlowInv'
  BY <1>1, <1>2 DEF LoginInv
<1>3. /\ server \in [Servers -> {"none", "plain", "oauth"}]
      /\ UNION {lprovs, ltypes, gprovs, lgtypes} \subseteq Servers
      /\ lmix' = lmix /\ flow[h] \in FlowRows /\ flow[h].of \in Servers
      /\ flow \in [Flows -> FlowRows] /\ Counted
  BY <1>1 DEF LoginInv, FlowTypes, Later, FlowRows
<1>4. Ordered => /\ FlowOK(flow[h])
                 /\ \A s \in Servers : server[s] = "oauth" => s \in lprovs \cap ltypes
  BY <1>3 DEF LoginInv, FlowInv, FlowsOK, Paired
<1>5. /\ After("look") = "clear" /\ After("clear") = "unprov" /\ After("unprov") = "untype"
      /\ After("untype") = "gateprov"
  BY DEF After
<1>6. /\ {"clear", "unprov", "untype", "gateprov", "gatetype"} \subseteq FlowPc
      /\ "disconnect" \in lmix.verbs \/ "delete" \in lmix.verbs
           => lmix.verbs \cap {"disconnect", "delete"} # {}
      /\ flow[h].pc \in Wipes => lmix.verbs \cap {"disconnect", "delete"} # {}
  BY DEF FlowPc, LoginInv, FlowInv, NoTakers
<1>7. (\E s \in Servers : Disconnects(h, s) \/ DeletesServer(h, s)) =>
        (lmix.alone => \A k \in Flows : ~Amid(k))
  BY DEF Disconnects, DeletesServer, FlowFree, Amid
<1>8. ASSUME NEW s \in Servers, Disconnects(h, s) PROVE FlowTypes' /\ FlowInv'
  <2>1. /\ FlowBegins(h, s, IF server[s] = "none" THEN "unprov" ELSE "clear")
        /\ UNCHANGED <<server, lprovs, ltypes, gprovs, lgtypes>>
        /\ lmix.verbs \cap {"disconnect", "delete"} # {} /\ ~Amid(h)
    BY <1>5, <1>6, <1>8 DEF Disconnects, LoginVerb, FlowFree, Amid
  <2>2. ASSUME NEW pc \in {"unprov", "clear"}, FlowBegins(h, s, pc), pc = "unprov" => server[s] = "none"
        PROVE  FlowTypes' /\ FlowInv'
    <3>1. PICK f \in FlowRows : f.pc = pc /\ f.of = s /\ flow' = [flow EXCEPT ![h] = f]
      BY <1>6, <2>2, BeginsAt
    <3>2. Ordered => FlowOK(f)' BY <2>1, <2>2, <3>1 DEF FlowOK
    <3>3. AllLeftTo(flow[h]) => AllLeftTo(f)'
      BY <2>1, <3>1 DEF AllLeftTo, LeftTo, Amid
    <3>4. lmix.alone => \A k \in Flows : ~Amid(k) BY <1>7, <1>8
    <3> QED BY <1>1, <1>3, <1>4, <2>1, <3>1, <3>2, <3>3, <3>4, FlowStep
  <2> QED BY <2>1, <2>2
<1>9. ASSUME NEW s \in Servers, DeletesServer(h, s) PROVE FlowTypes' /\ FlowInv'
  <2>1. /\ FlowBegins(h, s, "unprov") /\ server' = [server EXCEPT ![s] = "none"] /\ server[s] # "none"
        /\ UNCHANGED <<lprovs, ltypes, gprovs, lgtypes>>
        /\ lmix.verbs \cap {"disconnect", "delete"} # {} /\ ~Amid(h)
    BY <1>6, <1>9 DEF DeletesServer, LoginVerb, FlowFree, Amid
  <2>2. lmix.alone => \A k \in Flows : ~Amid(k) BY <1>7, <1>9
  <2>3. PICK f \in FlowRows : f.pc = "unprov" /\ f.of = s /\ flow' = [flow EXCEPT ![h] = f]
    BY <1>6, <1>9, <2>1, BeginsAt
  <2>4. /\ server' \in [Servers -> {"none", "plain", "oauth"}] /\ server'[s] = "none"
        /\ \A r \in Servers : r # s => server'[r] = server[r]
    BY <1>3, <2>1
  <2>5. Ordered => FlowOK(f)' BY <2>3, <2>4 DEF FlowOK
  <2>6. Ordered => \A r \in Servers : server'[r] = "oauth" => r \in lprovs' \cap ltypes'
    BY <1>4, <2>1, <2>4
  <2>7. Quiet /\ AllLeftTo(flow[h]) => AllLeftTo(f)'
    BY <1>9, <2>1, <2>3, <2>4 DEF AllLeftTo, LeftTo, Amid
  <2> QED BY <1>1, <1>3, <1>4, <2>1, <2>2, <2>3, <2>4, <2>5, <2>6, <2>7, FlowStep
<1>10. CASE ClearsAuth(h)
  <2>1. /\ FlowGoes(h, "unprov") /\ flow[h].pc = "clear" /\ Amid(h)
        /\ server' = [server EXCEPT ![flow[h].of] = "plain"]
        /\ UNCHANGED <<lprovs, ltypes, gprovs, lgtypes>>
    BY <1>5, <1>10 DEF ClearsAuth, Amid
  <2>2. PICK f \in FlowRows :
          f.pc = "unprov" /\ f.of = flow[h].of /\ flow' = [flow EXCEPT ![h] = f]
    BY <1>6, <2>1, GoesTo
  <2>3. /\ server' \in [Servers -> {"none", "plain", "oauth"}] /\ server'[flow[h].of] = "plain"
        /\ \A r \in Servers : r # flow[h].of => server'[r] = server[r]
    BY <1>3, <2>1
  <2>4. Ordered => FlowOK(f)' BY <2>2, <2>3 DEF FlowOK
  <2>5. Ordered => \A r \in Servers : server'[r] = "oauth" => r \in lprovs' \cap ltypes'
    BY <1>4, <2>1, <2>3
  <2>6. lmix.verbs \cap {"disconnect", "delete"} # {} BY <1>6, <2>1 DEF Wipes
  <2>7. AllLeftTo(flow[h]) => AllLeftTo(f)'
    BY <1>3, <2>1, <2>2, <2>3 DEF AllLeftTo, LeftTo
  <2> QED BY <1>1, <1>3, <1>4, <2>1, <2>2, <2>3, <2>4, <2>5, <2>6, <2>7, FlowStep
<1>11. CASE DropsProvider(h)
  <2>1. /\ FlowGoes(h, "untype") /\ flow[h].pc = "unprov" /\ Amid(h)
        /\ lprovs' = lprovs \ {flow[h].of} /\ UNCHANGED <<server, ltypes, gprovs, lgtypes>>
    BY <1>5, <1>11 DEF DropsProvider, Amid
  <2>2. PICK f \in FlowRows :
          f.pc = "untype" /\ f.of = flow[h].of /\ flow' = [flow EXCEPT ![h] = f]
    BY <1>6, <2>1, GoesTo
  <2>3. Ordered => server[flow[h].of] # "oauth" BY <1>4, <2>1 DEF FlowOK
  <2>4. Ordered => FlowOK(f)' BY <2>1, <2>2, <2>3 DEF FlowOK
  <2>5. Ordered => \A r \in Servers : server'[r] = "oauth" => r \in lprovs' \cap ltypes'
    BY <1>4, <2>1, <2>3
  <2>6. lmix.verbs \cap {"disconnect", "delete"} # {} BY <1>6, <2>1 DEF Wipes
  <2>7. AllLeftTo(flow[h]) => AllLeftTo(f)'
    BY <2>1, <2>2 DEF AllLeftTo, LeftTo
  <2>8. UNION {lprovs', ltypes', gprovs', lgtypes'} \subseteq Servers BY <1>3, <2>1
  <2> QED BY <1>1, <1>3, <2>1, <2>2, <2>4, <2>5, <2>6, <2>7, <2>8, FlowStep
<1>12. CASE DropsType(h)
  <2>1. /\ FlowGoes(h, "gateprov") /\ flow[h].pc = "untype" /\ Amid(h)
        /\ ltypes' = ltypes \ {flow[h].of} /\ UNCHANGED <<server, lprovs, gprovs, lgtypes>>
    BY <1>5, <1>12 DEF DropsType, Amid
  <2>2. PICK f \in FlowRows :
          f.pc = "gateprov" /\ f.of = flow[h].of /\ flow' = [flow EXCEPT ![h] = f]
    BY <1>6, <2>1, GoesTo
  <2>3. Ordered => server[flow[h].of] # "oauth" BY <1>4, <2>1 DEF FlowOK
  <2>4. Ordered => FlowOK(f)' BY <2>1, <2>2, <2>3 DEF FlowOK
  <2>5. Ordered => \A r \in Servers : server'[r] = "oauth" => r \in lprovs' \cap ltypes'
    BY <1>4, <2>1, <2>3
  <2>6. lmix.verbs \cap {"disconnect", "delete"} # {} BY <1>6, <2>1 DEF Wipes
  <2>7. AllLeftTo(flow[h]) => AllLeftTo(f)'
    BY <2>1, <2>2 DEF AllLeftTo, LeftTo
  <2>8. UNION {lprovs', ltypes', gprovs', lgtypes'} \subseteq Servers BY <1>3, <2>1
  <2> QED BY <1>1, <1>3, <2>1, <2>2, <2>4, <2>5, <2>6, <2>7, <2>8, FlowStep
<1>13. CASE GateDropsProvider(h)
  <2>1. /\ FlowGoes(h, "gatetype") /\ flow[h].pc = "gateprov" /\ Amid(h)
        /\ (gprovs' = gprovs \ {flow[h].of}) \/ (gprovs' = gprovs /\ Fails)
        /\ UNCHANGED <<server, lprovs, ltypes, lgtypes>>
    BY <1>13 DEF GateDropsProvider, Amid
  <2>2. PICK f \in FlowRows :
          f.pc = "gatetype" /\ f.of = flow[h].of /\ flow' = [flow EXCEPT ![h] = f]
    BY <1>6, <2>1, GoesTo
  <2>4. Ordered => FlowOK(f)' BY <1>4, <2>1, <2>2 DEF FlowOK
  <2>6. lmix.verbs \cap {"disconnect", "delete"} # {} BY <1>6, <2>1 DEF Wipes
  <2>7. Quiet' /\ AllLeftTo(flow[h]) => AllLeftTo(f)'
    <3>1. CASE gprovs' = gprovs \ {flow[h].of} BY <2>1, <2>2, <3>1 DEF AllLeftTo, LeftTo
    <3>2. CASE Fails BY <1>3, <3>2 DEF Fails, Quiet, Counted
    <3> QED BY <2>1, <3>1, <3>2
  <2>8. UNION {lprovs', ltypes', gprovs', lgtypes'} \subseteq Servers BY <1>3, <2>1
  <2> QED BY <1>1, <1>3, <1>4, <2>1, <2>2, <2>4, <2>6, <2>7, <2>8, FlowStep
<1>14. CASE GateDropsType(h)
  <2>1. /\ FlowEnds(h) /\ flow[h].pc = "gatetype" /\ Amid(h)
        /\ (lgtypes' = lgtypes \ {flow[h].of}) \/ (lgtypes' = lgtypes /\ Fails)
        /\ UNCHANGED <<server, lprovs, ltypes, gprovs>>
    BY <1>14 DEF GateDropsType, Amid
  <2>2. PICK f \in FlowRows : f.pc = "idle" /\ flow' = [flow EXCEPT ![h] = f]
    BY <2>1, EndsAt
  <2>4. Ordered => FlowOK(f)' BY <2>2 DEF FlowOK
  <2>6. f.pc \notin Wipes BY <2>2 DEF Wipes
  <2>7. Quiet' /\ AllLeftTo(flow[h]) => AllLeftTo(f)'
    <3>1. CASE lgtypes' = lgtypes \ {flow[h].of} BY <2>1, <2>2, <3>1 DEF AllLeftTo, LeftTo
    <3>2. CASE Fails BY <1>3, <3>2 DEF Fails, Quiet, Counted
    <3> QED BY <2>1, <3>1, <3>2
  <2>8. UNION {lprovs', ltypes', gprovs', lgtypes'} \subseteq Servers BY <1>3, <2>1
  <2> QED BY <1>1, <1>3, <1>4, <2>1, <2>2, <2>4, <2>6, <2>7, <2>8, FlowStep
<1> QED BY <1>8, <1>9, <1>10, <1>11, <1>12, <1>13, <1>14

(* The operator saves a server without OAuth. *)
LEMMA EditSteps ==
  ASSUME LoginInv, NEW s \in Servers, EditsServer(s)
  PROVE  LoginInv'
<1>1. /\ server' = [server EXCEPT ![s] = "plain"] /\ "edit" \in lmix.verbs
      /\ UNCHANGED <<oidc, lprovs, ltypes, gprovs, lgtypes, flow, missed, reset, lmix>>
  BY DEF EditsServer, LoginVerb
<1>2. Later /\ Counted' /\ lmix' \in LoginMix BY <1>1, LaterIs DEF Later, LoginInv
<1>3. OidcTypes' /\ OidcInv' BY <1>1, <1>2, OidcRests
<1>4. /\ server' \in [Servers -> {"none", "plain", "oauth"}]
      /\ \A r \in Servers : server'[r] = "oauth" => server[r] = "oauth"
  BY <1>1 DEF LoginInv, FlowTypes
<1>5. FlowTypes' BY <1>1, <1>4 DEF LoginInv, FlowTypes
<1>6. OneFlow' /\ NoTakers' /\ Paired'
  BY <1>1, <1>4 DEF LoginInv, FlowInv, OneFlow, NoTakers, Paired, Amid, Ordered
<1>7. FlowsOK'
  <2>1. Ordered' => Ordered BY <1>1 DEF Ordered
  <2>2. \A f \in FlowRows : FlowOK(f) => FlowOK(f)'
    BY <1>1, <1>4 DEF FlowOK, FlowRows
  <2> QED BY <1>1, <2>1, <2>2 DEF LoginInv, FlowInv, FlowsOK
<1>8. NoLeftovers' BY <1>1 DEF NoLeftovers, Quiet
<1> QED BY <1>2, <1>3, <1>5, <1>6, <1>7, <1>8 DEF LoginInv, FlowInv

(* A restart forgets every request. *)
LEMMA RestartSteps ==
  ASSUME LoginInv, LoginRestart
  PROVE  LoginInv'
<1>1. /\ reset' = reset + 1
      /\ attempt' = [l \in Attempts |-> IF attempt[l].pc = "none" THEN NoAttempt
                                         ELSE [pc |-> "gone", tok |-> NoBundle]]
      /\ client' = [c \in Clients |-> NoClient] /\ flow' = [h \in Flows |-> NoFlow]
      /\ UNCHANGED <<sealed, live, issued, aged, server, lprovs, ltypes, gprovs, lgtypes, missed, lmix>>
  BY DEF LoginRestart
<1>2. Later /\ Counted' /\ lmix' \in LoginMix BY <1>1, LaterIs DEF Later, LoginInv
<1>3. ~Calm' /\ ~Quiet' BY <1>1 DEF Calm, Quiet, LoginInv, Counted
<1>4. /\ NoAttempt \in AttemptRows /\ [pc |-> "gone", tok |-> NoBundle] \in AttemptRows
      /\ NoClient \in ClientRows
      /\ NoAttempt.pc = "none" /\ NoClient.pc = "off" /\ NoAttempt.tok.ref = 0
      /\ NoClient.tok.ref = 0 /\ NoBundle.ref = 0
  BY NothingHeld DEF NoAttempt, NoClient, NoBundle, AttemptRows, ClientRows
<1>5. /\ attempt' \in [Attempts -> AttemptRows] /\ client' \in [Clients -> ClientRows]
      /\ \A l \in Attempts : attempt'[l].tok.ref = 0 /\ attempt'[l].pc # "seal"
      /\ \A c \in Clients : client'[c].tok.ref = 0 /\ client'[c].pc = "off"
  BY <1>1, <1>4
<1>6. OidcTypes' BY <1>1, <1>5 DEF LoginInv, OidcTypes, AttemptRows, ClientRows
<1>7. FreshRefs'
  <2>1. issued \in Nat /\ sealed.ref <= issued
    BY DEF LoginInv, OidcTypes, Numbers, OidcInv, FreshRefs
  <2> QED BY <1>1, <1>5, <2>1 DEF FreshRefs
<1>8. AllLive' BY <1>1, <1>5 DEF LoginInv, OidcInv, AllLive
<1>9. OnlyMine' /\ OnlyLogins' /\ Replaced' BY <1>3 DEF OnlyMine, OnlyLogins, Replaced
<1>10. FlowTypes' BY <1>1, NothingHeld DEF LoginInv, FlowTypes
<1>11. \A h \in Flows : flow'[h].pc = "idle" BY <1>1, NothingHeld
<1>12. OneFlow' /\ NoTakers' BY <1>11 DEF OneFlow, NoTakers, Amid, Wipes
<1>13. Paired' BY <1>1 DEF LoginInv, FlowInv, Paired, Ordered
<1>14. FlowsOK' BY <1>11 DEF FlowsOK, FlowOK
<1>15. NoLeftovers' BY <1>3 DEF NoLeftovers
<1> QED BY <1>2, <1>6, <1>7, <1>8, <1>9, <1>10, <1>12, <1>13, <1>14, <1>15
        DEF LoginInv, OidcInv, FlowInv

-------------------------------------------------------------------------------
LEMMA LoginsStep ==
  ASSUME LoginInv, [LoginNext]_loginVars
  PROVE  LoginInv'
<1>1. CASE UNCHANGED loginVars
  <2>1. UNCHANGED <<oidc, oauth, missed, reset, lmix>> BY <1>1 DEF loginVars, oidc, oauth
  <2>2. Later /\ Counted' /\ lmix' \in LoginMix BY <2>1, LaterIs DEF Later, LoginInv
  <2> QED BY <2>1, <2>2, OidcRests, FlowsRest DEF LoginInv
<1>2. CASE Logout \/ Ages
  BY <1>2, ClientSteps
<1> QED
  BY <1>1, <1>2, AttemptSteps, ClientSteps, ConnectSteps, TakingSteps, EditSteps, RestartSteps
  DEF LoginNext

(* TypeOK: every credential, request and pending login stays of its kind. *)
THEOREM LoginsTypes ==
  LoginSpec => []LoginTypeOK
<1>1. LoginInit(LoginMixes) => LoginInv BY LoginStarts
<1>2. LoginInv /\ [LoginNext]_loginVars => LoginInv' BY LoginsStep
<1>3. LoginInv => LoginTypeOK
  BY DEF LoginInv, OidcTypes, FlowTypes, FlowRows, LoginTypeOK
<1> QED BY <1>1, <1>2, <1>3, PTL DEF LoginSpec

(* What is sealed can be renewed, however many clients renew their copies and      *)
(* however many logins and logouts overlap them (openshell.rs, openshell_oauth.rs): *)
(* with an IdP that changes the refresh token, while clients seal what they get and *)
(* no answer is lost.                                                               *)
THEOREM SealedStaysLive ==
  LoginSpec => []SealedIsLive
<1>1. LoginInit(LoginMixes) => LoginInv BY LoginStarts
<1>2. LoginInv /\ [LoginNext]_loginVars => LoginInv' BY LoginsStep
<1>3. LoginInv => SealedIsLive
  <2> SUFFICES ASSUME LoginInv, sealed # NoBundle, \A c \in Clients : client[c].pc # "save",
                      ~lmix.rotates \/ (lmix.saves /\ missed = 0 /\ reset = 0)
               PROVE  sealed.ref \in live
    BY DEF SealedIsLive
  <2>1. CASE ~lmix.rotates BY <2>1 DEF LoginInv, OidcInv, AllLive
  <2>2. CASE lmix.rotates BY <2>2 DEF LoginInv, OidcInv, Replaced, Calm
  <2> QED BY <2>1, <2>2
<1> QED BY <1>1, <1>2, <1>3, PTL DEF LoginSpec

(* A server with OAuth has its provider and type, whatever fails; and when the     *)
(* requests are over, one without leaves nothing behind (mcp_client_oauth.rs,      *)
(* finish_oauth_connect and disconnect_oauth), for any number of servers.          *)
THEOREM OAuthPairsStand ==
  LoginSpec => []OAuthStands
<1>1. LoginInit(LoginMixes) => LoginInv BY LoginStarts
<1>2. LoginInv /\ [LoginNext]_loginVars => LoginInv' BY LoginsStep
<1>3. LoginInv => OAuthStands
  <2> SUFFICES ASSUME LoginInv PROVE OAuthStands OBVIOUS
  <2>1. ASSUME lmix.alone \/ lmix.verbs \cap {"disconnect", "delete"} = {},
               NEW s \in Servers, server[s] = "oauth"
        PROVE  s \in lprovs \cap ltypes
    BY <2>1 DEF LoginInv, FlowInv, Paired, Ordered
  <2>2. ASSUME lmix.alone /\ "edit" \notin lmix.verbs /\ missed = 0 /\ reset = 0,
               \A h \in Flows : flow[h].pc \in {"idle", "asked"},
               NEW s \in Servers, server[s] # "oauth"
        PROVE  s \notin lprovs \cup ltypes \cup gprovs \cup lgtypes
    BY <2>2 DEF LoginInv, FlowInv, NoLeftovers, Quiet, Leftover, Under
  <2> QED BY <2>1, <2>2 DEF OAuthStands
<1> QED BY <1>1, <1>2, <1>3, PTL DEF LoginSpec
================================================================================
