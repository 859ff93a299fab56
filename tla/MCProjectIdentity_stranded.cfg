SPECIFICATION FairSpec
CONSTANTS
  here = here there = there app = app r1 = r1 r2 = r2
  NoPath = NoPath
  Paths = {here, there}
  Names = {app}
  NameOf <- SameName
  ScopeNames <- Library
  Resolvers = {r1, r2}
  Cwd <- Apart
  MaxClients = 2
  MaxDeaths = 1
PROPERTY EventuallyResolved
