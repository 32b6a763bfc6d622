SPECIFICATION Spec
CONSTANTS
  ann = ann
  bob = bob
  grocer = grocer
  baker = baker
  r1 = r1
  r2 = r2
  r3 = r3
  r4 = r4
  server = server
  worker = worker
  j1 = j1
  j2 = j2
  k1 = k1
  k2 = k2
  o1 = o1
  o2 = o2
  Merchants = {grocer, baker}
  NoMerchant = NoMerchant
  Callers = {k1, k2}
  TEMPORARY_THRESHOLD = 2
  PERMANENT_THRESHOLD = 3
  MaxEncounters = 4
  MaxLosses = 1
  Processes = {server, worker}
  Server = server
  Jobs = {j1, j2}
  MaxData = 2
  MinVectors = 2
  NoJob = NoJob
  Versions = {1, 2, 3}
  Operators = {o1, o2}
  MaxPublications = 3
  MaxBreaks = 1
  NoVersion = NoVersion
  Transactions = {r1, r2, r3, r4}
  OwnerOf <- Owner
  MerchantOf <- Merchant
  Unnamed = Unnamed
  Categories = {"Food", "Shopping"}
  RuleCategory = "Shopping"
  MaxCorrections = 2
  MaxWrites = 2
  MaxDeaths = 1
  Checkers = {k1, k2}
  Threshold = 2
  Readers = {ann, bob}
  LastMonth = 2
  NoAnswer = NoAnswer
  bistro = bistro
  aunt = aunt
  Counterparties = {bistro, aunt}
  AliasOf <- Alias
  KeywordOf <- Keyword
  Uncategorized = "Uncategorized"
  Income = "Income"
  min_occurrences = 2
  MaxPayments = 2
  MaxAmount = 2
  host1 = host1
  host2 = host2
  OLLAMA_HOSTS <- OllamaHosts
  MaxStops = 3
  NoHost = NoHost
  MaxBytes = 3
  MaxSent = 5
  Ids = {id1}
  Fresh = id2
  NoId = NoId
  NoResponse = NoResponse
  Scenarios <- OnlyCorrections
INVARIANT
  QueuedReachesMerchant
CHECK_DEADLOCK FALSE
