SPECIFICATION FetchSpec
CONSTANTS
    Fiat = {"USD", "EUR", "CAD", "ZAR"}
    Crypto = {"BTC"}
    SarbCodes <- MCSarbCodes
    Symbols <- MCSymbols
    ZaroniaSeries <- MCZaronia
    FredSeries <- MCFred
    Setups <- BisSetups
    DocsOf <- Published
    Addresses = {"public", "private"}
    Networks <- MCNetworks
    Today <- MCToday
    Day <- MCDay
    Price <- MCPrice
    Level <- MCLevel
PROPERTY EveryFetchReturns
CHECK_DEADLOCK FALSE
