SPECIFICATION BlobSpec
CONSTANTS
  c1 = c1
  c2 = c2
  server = server
  worker = worker
  Clients = {c1, c2}
  Referrers = {o1}
  Processes = {server, worker}
  ProcessOf <- Together
  Postgres = FALSE
  Crashes = FALSE
INVARIANT NeverHalfWritten
