SPECIFICATION BlobSpec
CONSTANTS
  c1 = c1
  c2 = c2
  server = server
  worker = worker
  Clients = {c1, c2}
  Referrers = {o1, o2}
  Processes = {server, worker}
  ProcessOf <- Apart
  Postgres = FALSE
  Crashes = FALSE
INVARIANT ReferencedHasFile
