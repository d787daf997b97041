SPECIFICATION FairSpec
CONSTANTS
  server = server
  worker = worker
  index = index
  notify = notify
  revised = revised
  Topics <- AllTopics
  Webhooks = {notify}
  TopicOf <- RevisedTwice
  Handles <- OneServer
  Workers = {server}
  Batch = 2
  MaxFailures = 0
  MaxCrashes = 0
PROPERTY EveryEventIsDelivered
