SPECIFICATION Spec
CONSTANTS
  Closers = {t1, t2}
  Requests = {q1}
  Fiat = {"USD", "EUR", "CAD", "ZAR"}
  Crypto = {"BTC"}
  SarbCodes <- MCSarbCodes
  Symbols <- MCSymbols
  ZaroniaSeries <- MCZaronia
  FredSeries <- MCFred
  Setups <- MCSetups
  DocsOf <- Published
  Addresses = {"public", "private"}
  Networks <- MCNetworks
  Today <- MCToday
  Day <- MCDay
  Price <- MCPrice
  Level <- MCLevel
  Peers <- MCPeers
  Headers <- MCHeaders
  ProxyConfigs <- MCProxies
  MaxHops = 2
  SourceRank <- MCRank
  Defunct = {"HRK"}
  Managed = {"NGN"}
  MaxRate = 10000
  Source = {"ecb", "coinbase", "stooq"}
  Feed <- MCFeeds
  Materialize <- BookOf
  Codes = {"", "USD", "NGN", "XXX"}
  Bases = {"", "XXX"}
  DefaultBase = "ZAR"
  Number <- MCNumbers
  Infinite = 100000
  Largest = 99999
  Instants = {0, 4, 2000}
  MaxResults = 2
  Asked <- MCAsked
INVARIANTS NothingLeftBehind RepeatedCloseIsSafe ReadyMeansRates FetchTellsTheTruth ChargedToTheSender SurfacesAgree OneMomentPerAnswer GradeAIsEarned
PROPERTIES EveryCallReturns
CHECK_DEADLOCK FALSE
