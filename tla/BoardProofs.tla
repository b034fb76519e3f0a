------------------------------ MODULE BoardProofs ------------------------------
(***************************************************************************)
(* That the instance of the Board's seven parts is each part's own           *)
(* specification: a behaviour moves one part and leaves the others, so what *)
(* is proved of a part alone holds of the behaviours of the instance that    *)
(* move it, for every value of the constants.                                *)
(***************************************************************************)
EXTENDS MCBoard, BoardTreeProofs, ProvisionProofs, AuthProofs, StartupProofs

-------------------------------------------------------------------------------
(* The part that moves is the same for ever. *)
Moving(p) == part = p

LEMMA PartStays ==
  ASSUME NEW p, [AllNext]_allVars
  PROVE  Moving(p)' <=> Moving(p)
<1>1. part' = part
  BY DEF AllNext, allVars, TreeNext, SpecsNext, ProvidersNext, TokensNext, LoginsNext, StartsNext,
         RequestsNext, OfTree, OfSpecs, OfProviders, OfTokens, OfLogins, OfStart, OfAccess
<1> QED
  BY <1>1 DEF Moving

-------------------------------------------------------------------------------
(* A behaviour is of the part it names.  The tree starts the same in all of them. *)
LEMMA TreePart == BoardSpec => Spec
<1>1. AllInit => Init
  BY DEF AllInit
<1>2. [AllNext]_allVars => [Next]_vars
  <2>1. CASE TreeNext
    BY <2>1 DEF TreeNext, Next, Starts
  <2>2. CASE ~TreeNext
    BY <2>2 DEF AllNext, allVars, SpecsNext, ProvidersNext, TokensNext, LoginsNext, StartsNext,
                RequestsNext, OfSpecs, OfProviders, OfTokens, OfLogins, OfStart, OfAccess
  <2> QED
    BY <2>1, <2>2
<1> QED
  BY <1>1, <1>2, PTL DEF BoardSpec, Spec

LEMMA SpecsPart == BoardSpec => SpecsSpec \/ []~Moving("specs")
<1>1. AllInit /\ Moving("specs") => SpecInit(SpecMixes)
  BY DEF AllInit, Moving
<1>2. Moving("specs") /\ [AllNext]_allVars => [SpecNext]_specVars
  <2> SUFFICES ASSUME part = "specs", AllNext PROVE SpecNext \/ UNCHANGED specVars
    BY DEF allVars, Moving
  <2>1. SpecsNext
    BY DEF AllNext, TreeNext, ProvidersNext, TokensNext, LoginsNext, StartsNext, RequestsNext,
           OfTree, OfProviders, OfTokens, OfLogins, OfStart, OfAccess
  <2> QED
    BY <2>1 DEF SpecsNext, SpecNext, Audiences
<1>3. [AllNext]_allVars => (Moving("specs")' <=> Moving("specs"))
  BY PartStays
<1> QED
  BY <1>1, <1>2, <1>3, PTL DEF BoardSpec, SpecsSpec

LEMMA ProvidersPart == BoardSpec => ProviderSpec \/ []~Moving("providers")
<1>1. AllInit /\ Moving("providers") => ProviderInit(ProviderMixes)
  BY DEF AllInit, Moving
<1>2. Moving("providers") /\ [AllNext]_allVars => [ProviderNext]_providerVars
  <2> SUFFICES ASSUME part = "providers", AllNext PROVE ProviderNext \/ UNCHANGED providerVars
    BY DEF allVars, Moving
  <2>1. ProvidersNext
    BY DEF AllNext, TreeNext, SpecsNext, TokensNext, LoginsNext, StartsNext, RequestsNext, OfTree,
           OfSpecs, OfTokens, OfLogins, OfStart, OfAccess
  <2> QED
    BY <2>1 DEF ProvidersNext, ProviderNext
<1>3. [AllNext]_allVars => (Moving("providers")' <=> Moving("providers"))
  BY PartStays
<1> QED
  BY <1>1, <1>2, <1>3, PTL DEF BoardSpec, ProviderSpec

LEMMA TokensPart == BoardSpec => TokenSpec \/ []~Moving("tokens")
<1>1. AllInit /\ Moving("tokens") => TokenInit(TokenMixes)
  BY DEF AllInit, Moving
<1>2. Moving("tokens") /\ [AllNext]_allVars => [TokenNext]_tokenVars
  <2> SUFFICES ASSUME part = "tokens", AllNext PROVE TokenNext \/ UNCHANGED tokenVars
    BY DEF allVars, Moving
  <2>1. TokensNext
    BY DEF AllNext, TreeNext, SpecsNext, ProvidersNext, LoginsNext, StartsNext, RequestsNext,
           OfTree, OfSpecs, OfProviders, OfLogins, OfStart, OfAccess
  <2> QED
    BY <2>1 DEF TokensNext, TokenNext
<1>3. [AllNext]_allVars => (Moving("tokens")' <=> Moving("tokens"))
  BY PartStays
<1> QED
  BY <1>1, <1>2, <1>3, PTL DEF BoardSpec, TokenSpec

LEMMA LoginsPart == BoardSpec => LoginSpec \/ []~Moving("logins")
<1>1. AllInit /\ Moving("logins") => LoginInit(LoginMixes)
  BY DEF AllInit, Moving
<1>2. Moving("logins") /\ [AllNext]_allVars => [LoginNext]_loginVars
  <2> SUFFICES ASSUME part = "logins", AllNext PROVE LoginNext \/ UNCHANGED loginVars
    BY DEF allVars, Moving
  <2>1. LoginsNext
    BY DEF AllNext, TreeNext, SpecsNext, ProvidersNext, TokensNext, StartsNext, RequestsNext,
           OfTree, OfSpecs, OfProviders, OfTokens, OfStart, OfAccess
  <2> QED
    BY <2>1 DEF LoginsNext, LoginNext
<1>3. [AllNext]_allVars => (Moving("logins")' <=> Moving("logins"))
  BY PartStays
<1> QED
  BY <1>1, <1>2, <1>3, PTL DEF BoardSpec, LoginSpec

LEMMA StartPart == BoardSpec => StartSpec \/ []~Moving("start")
<1>1. AllInit /\ Moving("start") => StartInit(Pasts)
  BY DEF AllInit, Moving
<1>2. Moving("start") /\ [AllNext]_allVars => [StartNext]_startVars
  <2> SUFFICES ASSUME part = "start", AllNext PROVE StartNext \/ UNCHANGED startVars
    BY DEF allVars, Moving
  <2>1. StartsNext
    BY DEF AllNext, TreeNext, SpecsNext, ProvidersNext, TokensNext, LoginsNext, RequestsNext,
           OfTree, OfSpecs, OfProviders, OfTokens, OfLogins, OfAccess
  <2> QED
    BY <2>1 DEF StartsNext, StartNext
<1>3. [AllNext]_allVars => (Moving("start")' <=> Moving("start"))
  BY PartStays
<1> QED
  BY <1>1, <1>2, <1>3, PTL DEF BoardSpec, StartSpec

LEMMA AccessPart == BoardSpec => AccessSpec \/ []~Moving("access")
<1>1. AllInit /\ Moving("access") => AccessInit(AccessMixes)
  BY DEF AllInit, Moving
<1>2. Moving("access") /\ [AllNext]_allVars => [AccessNext]_accessVars
  <2> SUFFICES ASSUME part = "access", AllNext PROVE AccessNext \/ UNCHANGED accessVars
    BY DEF allVars, Moving
  <2>1. RequestsNext
    BY DEF AllNext, TreeNext, SpecsNext, ProvidersNext, TokensNext, LoginsNext, StartsNext,
           OfTree, OfSpecs, OfProviders, OfTokens, OfLogins, OfStart
  <2> QED
    BY <2>1 DEF RequestsNext, AccessNext
<1>3. [AllNext]_allVars => (Moving("access")' <=> Moving("access"))
  BY PartStays
<1> QED
  BY <1>1, <1>2, <1>3, PTL DEF BoardSpec, AccessSpec

-------------------------------------------------------------------------------
(* Whichever part moves, its state is well typed and within what bounds it.     *)
(* Two requests that set the first password at once are outside the bounds.     *)
THEOREM PartTypes == ASSUME BootstrapsAlone PROVE BoardSpec => []AllTypeOK
<1>1. BoardSpec => []TypeOK
  BY TreePart, TreeTypes, PTL
<1>2. BoardSpec => [](Moving("specs") => SpecTypeOK)
  BY SpecsPart, SpecsTypes, PTL
<1>3. BoardSpec => [](Moving("providers") => ProviderTypeOK)
  BY ProvidersPart, ProviderTypesHold, PTL
<1>4. BoardSpec => [](Moving("tokens") => TokenTypeOK)
  BY TokensPart, TokenTypes, PTL
<1>5. BoardSpec => [](Moving("logins") => LoginTypeOK)
  BY LoginsPart, LoginsTypes, PTL
<1>6. BoardSpec => [](Moving("start") => StartTypeOK)
  BY StartPart, StartTypes, PTL
<1>7. BoardSpec => [](Moving("access") => AccessTypeOK)
  <2>1. AccessSpec => []AccessTypeOK
    BY AccessTypes
  <2> QED
    BY <2>1, AccessPart, PTL
<1>8. /\ TypeOK
      /\ Moving("specs") => SpecTypeOK
      /\ Moving("providers") => ProviderTypeOK
      /\ Moving("tokens") => TokenTypeOK
      /\ Moving("logins") => LoginTypeOK
      /\ Moving("start") => StartTypeOK
      /\ Moving("access") => AccessTypeOK
      => AllTypeOK
  BY DEF AllTypeOK, Moving
<1> QED
  BY <1>1, <1>2, <1>3, <1>4, <1>5, <1>6, <1>7, <1>8, PTL

(* What is proved of each part holds of the instance that moves it: the tree's    *)
(* indexes, plans, scopes and Epics; that catalogue names stand and the cockpit's *)
(* spec keeps its server; that a sandbox is made from current providers and a     *)
(* token that lives; that sealed logins and OAuth pairs stand; that starts        *)
(* converge and keep what they find; and that a signed session is honoured.       *)
THEOREM PartsKeep ==
  ASSUME DistinctRows, OneEach, BootstrapsAlone,
         \A m \in TokenMixes : m.alone \/ "host" \in m.actors \/ m.loses = 0
  PROVE  BoardSpec =>
           /\ []IndexesAgree /\ [](SeedsApart => OneInitialPlan) /\ [](HealsAlone => OncePerProposal)
           /\ [](NothingUndone => ApprovedBecomesTasks) /\ ScopeMovesWhole /\ ClosedWhenOver
           /\ Moving("specs") => []NamesStand /\ CockpitKeepsSandboard
           /\ Moving("providers") => CreatedIsCurrent
           /\ Moving("tokens") => TokenLives
           /\ Moving("logins") => []SealedIsLive /\ []OAuthStands
           /\ Moving("start") => []BootConverges /\ []UpgradeKeeps
           /\ Moving("access") => []SignedStands
<1>1. BoardSpec =>
        /\ []IndexesAgree /\ [](SeedsApart => OneInitialPlan) /\ [](HealsAlone => OncePerProposal)
        /\ [](NothingUndone => ApprovedBecomesTasks) /\ ScopeMovesWhole /\ ClosedWhenOver
  <2>1. Spec => [](HealsAlone => OncePerProposal)
    BY OnePerApproval
  <2> QED
    BY <2>1, TreePart, IndexesStand, OnePlanStands, ApprovalsTurnIntoTasks, ScopesMove, EpicsClose, PTL
<1>2. BoardSpec => (Moving("specs") => []NamesStand /\ CockpitKeepsSandboard)
  BY SpecsPart, CatalogStands, CockpitServedOn, PTL
<1>3. BoardSpec => (Moving("providers") => CreatedIsCurrent)
  <2>1. ProviderSpec => CreatedIsCurrent
    BY SandboxesAreCurrent
  <2> QED
    BY <2>1, ProvidersPart, PTL
<1>4. BoardSpec => (Moving("tokens") => TokenLives)
  <2>1. TokenSpec => TokenLives
    BY TokensLive
  <2> QED
    BY <2>1, TokensPart, PTL
<1>5. BoardSpec => (Moving("logins") => []SealedIsLive /\ []OAuthStands)
  BY LoginsPart, SealedStaysLive, OAuthPairsStand, PTL
<1>6. BoardSpec => (Moving("start") => []BootConverges /\ []UpgradeKeeps)
  BY StartPart, StartsConverge, UpgradesKeep, PTL
<1>7. BoardSpec => (Moving("access") => []SignedStands)
  <2>1. AccessSpec => []SignedStands
    BY SignedHonoured
  <2> QED
    BY <2>1, AccessPart, PTL
<1> QED
  BY <1>1, <1>2, <1>3, <1>4, <1>5, <1>6, <1>7, PTL
================================================================================
