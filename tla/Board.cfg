CONSTANTS
  Workers = {w1, w2}
  MaxId = 6
  MaxMade = 2
  Titles = {"a", "b", "c"}
  Keys = {"k1", "k2"}
  Plans <- MCPlans
  Splits <- MCSplits
  Mixes <- MCMixes
  PolicyIds = {"ship", "own"}
  ShippedPolicies = {"ship"}
  ServerIds = {"sandboard", "m"}
  Sandboard = "sandboard"
  SpecIds = {"cursor", "x"}
  ShippedSpecs <- MCShippedSpecs
  Projects = {"p"}
  NoSpec = "none"
  Verbs = {v1, v2}
  SpecMixes <- MCSpecMixes
  ProviderNames = {"a", "b"}
  Types = {"own", "builtin"}
  ShippedTypes = {"own"}
  Handlers = {h1}
  Runs = {r1}
  MaxVersion = 2
  ProviderMixes <- MCProviderMixes
  Insts = {1, 2}
  NoInst = 0
  Life = 3
  Skew = 2
  MaxTime = 3
  TokenMixes <- MCTokenMixes
  Attempts = {l1, l2}
  Clients = {c1, c2}
  MaxIssued = 4
  Servers = {s1}
  Flows = {h1, h2}
  LoginMixes <- MCLoginMixes
  Cards = {1, 2, 3, 4}
  NoCard = 0
  ProviderKeys = {"github", "github-app", "gen"}
  Legacy = "github"
  App = "github-app"
  Boxes = {"own", "cursor"}
  ShippedBoxes <- MCShippedBoxes
  Texts = {"x", "y", "shipped"}
  Paths = {"/p", "/gone"}
  Host <- MCHost
  NoText = "none"
  Minimal = "min"
  IdsFor <- MCIdsFor
  NoPolicy = "unset"
  ShippedText = "shipped"
  NoFile = NoFile
  Pasts <- MCPasts
  MaxEdits = 1
  MaxDeaths = 2
  Requests = {h1, h2}
  Admin = "admin"
  SeatName = "seat"
  Users = {"u"}
  Teams = {"t"}
  Member <- MCMember
  McpClients = {"cursor", "dyn"}
  Static = {"cursor"}
  Passwords = {"p", "q"}
  Ttl <- MCTtl
  NoAuth = NoAuth
  MaxKeys = 2
  MaxCodes = 1
  AccessMixes <- MCAccessMixes
SPECIFICATION BoardSpec
SYMMETRY AnyWorker

INVARIANTS AllTypeOK IndexesAgree OneInitialPlan OncePerProposal ApprovedBecomesTasks NamesStand SealedIsLive OAuthStands BootConverges UpgradeKeeps SignedStands
PROPERTIES ScopeMovesWhole ClosedWhenOver CockpitKeepsSandboard CreatedIsCurrent TokenLives
CHECK_DEADLOCK FALSE
