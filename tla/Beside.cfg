SPECIFICATION Spec
CONSTANTS
  pg = pg
  a = a
  b = b
  logger = logger
  embedded = embedded
  Builtin = {logger}
  Database = pg
  Controller = embedded
  Constructor <- Constructors
  RouteItem <- RouteItems
  MaxServices = 3
  MaxItems = 2
  Request = {r1, r2}
  Nil = nil
  Upgrading = {"create", "socket"}
  MaxOrders = 3
  DefaultLimit = 1
  MaxLimit = 2
  Worker = {old, new, mute}
  Healthy = {old, new}
  Silent = {mute}
  None = none
  MaxCommits = 3
  MaxTroubles = 2
  Run = {x, y}
  ListMax = 2
  MaxUpdates = 3
  MaxFaults = 1
  MaxFetches = 2
  PullKind <- PullKinds
  FileList <- FileLists
  FilesPerPage = 2
  Lifetime = 3
  RefreshMargin = 1
  MaxPushes = 1
  Unset = unset
SYMMETRY Alike
INVARIANTS BuiltInOrder StartsIffItCan OneAnswer PagesCoverOrders NewestServes ListIsCurrent GivenWhatItTouches TokenInForce
PROPERTIES NeverBackwards RollbackRestores
CHECK_DEADLOCK FALSE
