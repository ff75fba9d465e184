SPECIFICATION ServingSpec
CONSTANTS
  SourceRank <- MCRank
  Defunct = {"HRK"}
  Managed = {"NGN"}
  MaxRate = 10000
  Source = {"ecb", "coinbase", "stooq"}
  Feed <- MCFeeds
  Materialize <- BookOf
  Codes = {"", "USD", "NGN", "XXX"}
  Bases = {"", "XXX"}
  DefaultBase = "ZAR"
  Number <- MCNumbers
  Infinite = 100000
  Largest = 99999
  Instants = {0, 4, 2000}
  MaxResults = 2
  Asked <- ByLibrary
INVARIANT ANeedsTwoQuotes
CHECK_DEADLOCK FALSE
