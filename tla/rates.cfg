SPECIFICATION Spec
CONSTANTS
  Source = {"bis", "fred", "sarbrates"}
  Rank <- Authority
  Series = {"policy", "bond"}
  DayLength = 2
  MaxLevel = 50
  Lists <- Published
  Flaky = {"bis", "fred"}
  Area <- AreaOf
  Type <- TypeOf
  Caveated = {"US"}
  Readings = {6, 10, 36, 104, 304}
INVARIANTS TypeOK HeadlineIsBest HistoryEndsAtTheHeadline InterestAnswersAreEarned
PROPERTIES NeverLosesAQuote
