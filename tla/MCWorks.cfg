SPECIFICATION WorksSpec
CONSTANTS
  TextTabs = {t1, t2}
  Units = {u1}
  MaxSaves = 4
  author = author
  guest = guest
  Tabs = {author, guest}
  Owners = {author}
  Keys = {k1}
  NoKey = NoKey
  MaxVersion = 3
  c1 = c1
  o1 = o1
  front = front
  back = back
  Clients = {c1, c2}
  Referrers = {o1, o2}
  Processes = {front, back}
  ProcessOf <- Apart
  Postgres = FALSE
  Crashes = TRUE
  ann = ann
  bob = bob
  cid = cid
  phone = phone
  laptop = laptop
  book = book
  essay = essay
  poem = poem
  NoWork = NoWork
  LoanTabs = {phone, laptop}
  Borrowers = {ann, bob, cid}
  NoReader = NoReader
  LoanWorks = {book, essay, poem}
  Copies = 1
  MaxLoans = 1
  LoanTime = 1
  MaxMisreads = 1
  Backers = {ann, bob}
  Gifts = {1, 2}
  Required = 2
  MaxFunded = 5
  SaleTabs = {phone, laptop, bob}
  ReaderOf <- WhoseTab
  Author = bob
  Prices = {3, 20}
  FeeBp = 1500
  Pseuds = {author, ann, bob}
  WorkOwner = author
  Invites = {i1, i2}
  RolesGiven = {"coauthor", "editor"}
  ContributorTabs = {phone, laptop}
  Members = {ann, bob}
  Shelves = {front, back}
  FirstShelf = front
  NoShelf = NoShelf
  MaxPolls = 2
INVARIANTS WorksTypeOK HistoryIsDense SavesBuildOnWhatWasRead MatchingVersionIsInformed ReplayMeetsTheVersion NeverHalfWritten BytesAreLostOnlyToALateRemoval LimitsBoundedByRequests ExpiredIsOver OpenIsFunded PaidOnceForAccess FeeCompletesItsTip
PROPERTIES ReferenceOutlivesCollection MembershipIsInvited EntryChangesWereVoted
CHECK_DEADLOCK FALSE
