SPECIFICATION CommandsSpec
CONSTANTS
  tf1 = tf1
  tf2 = tf2
  TerraformProcs = {tf1, tf2}
  TerraformAccounts = {ac1, ac2}
  TerraformAddresses = {ad1, ad2}
  MaxTerraformTime = 1
  MaxTerraformPlans = 2
  NoTerraform = NoTerraform
  ReviewRoots = 2
  ReviewChanges = 2
  ReviewPaths <- SimplePaths
  ReviewRules <- TagRules
  CleanTargets = 3
  MaxCleanFiles = 5
  McpPrefixes <- RulePrefixes
  McpArgvs <- Argvs
  McpRefused = "x"
  McpServices = {s1}
  McpPresets = {pr1}
  NoRule = NoRule
  NoCall = NoCall
  MaxMcpRequests = 2
  McpProcs = {m1, m2}
  McpVars = {"V"}
  McpSpecs <- Servers
  NoServer = NoServer
  WenvProcs = {w1}
  WenvNames = {n1, n2}
  PlainKeys = {"HOST"}
  SecretKeys = {"TOKEN"}
  MaxListRows = 3
  WsProcs = {w1}
  WsNames = {n1, n2}
  WsPaths = {d1, d2}
  WsBase <- SameBase
  WsSessions <- SessionNames
  MaxWsSessions = 2
  NoWork = NoWork
  WalkStages <- TwoLevels
  MaxRows = 3
CHECK_DEADLOCK FALSE
SYMMETRY Interchangeable
INVARIANTS CommandsTypeOK ConfirmedIsWhatIsDone ReportsAreTrue RunsAccountedFor
PROPERTIES AllowListHolds RegistryHolds PresetsAndProjectsHold SelectionsHold
