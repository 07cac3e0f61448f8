SPECIFICATION Spec
CONSTANTS
  r = r
  s = s
  a = a
  a2 = a2
  z = z
  R = R
  S = S
  A = A
  Ids <- MCIds
  Titles <- MCTitles
  Modules <- MCModules
  ModuleOf <- MCModuleOf
  Prefixes <- MCPrefixes
  PrefixOf <- MCPrefixOf
  Strays = {"old"}
  Contracts <- MCContracts
  MaxTroubles = 2
  NoSchema = NoSchema
  None = None
  Torn = Torn
  Irregular = Irregular
  Edited = Edited
INVARIANTS BundleExact OkIsTrue FailureHasACause
PROPERTIES CheckNeverWrites WritesTowardsExpected RunsEnd
