SPECIFICATION FairSpec
CONSTANTS
  server = server
  worker = worker
  index = index
  notify = notify
  revised = revised
  Topics <- AllTopics
  Webhooks = {notify}
  TopicOf <- RevisedFirst
  Handles <- Servers
  Workers = {server, worker}
  Batch = 2
  MaxFailures = 1
  MaxCrashes = 1
INVARIANTS TypeOK DeliveredWasHandled
PROPERTIES OverIsOver EveryEventIsDelivered
