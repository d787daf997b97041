SPECIFICATION HandlersSpec
CONSTANTS
  first = first
  second = second
  ann = ann
  bob = bob
  Units = {1, 2}
  Jobs = {first, second}
  Workers = {ann, bob}
  Tabs = {t1}
  NoOne = NoOne
  Adapters = {TRUE, FALSE}
  Storing = {TRUE, FALSE}
  MaxTrouble = 2
  ExportJob = ExportJob
  Exporters = {ann, bob}
  NoExporter = NoExporter
  Sums = {first, second}
  NoSum = NoSum
  Postgres = FALSE
  Downloads = {ann, bob}
  PayWorks = {first, second}
  PayWorkers = {ann, bob}
  WeekDays = 2
  WindowDays = 3
  BatchLimit = 1
  LastDay = 4
  MaxReads = 2
  MaxAmends = 1
  Voters = {ann, bob}
  Proposals = {p1}
  Passes = {first, second}
  MinimumQuorum = 1
  WidenQuorum = 2
  MaxAnswers = 2
  FetchJobs = {first, second}
  Fetchers = {ann, bob}
  NoFetcher = NoFetcher
  CopyTabs = {ann, bob}
  Origins = {first, second}
  NoOrigin = NoOrigin
INVARIANTS HandlersTypeOK BulkImportHoldsEveryBody StoredRowsHaveBodies CancelStopsWithinAUnit NamedFileIsKept LinkOpensOnce WindowPaidOnce ReadPaidBoundedly PassedWasApplied CommitsWereCarried
PROPERTIES DecidedStaysDecided FetchedBodyStays
SYMMETRY Alike
CHECK_DEADLOCK FALSE
