SPECIFICATION Spec
CONSTANTS
  Currency = {1, 2, 3, 4, 5}
  Source = {"ecb", "sarb", "boc"}
  Band = 2
  Now = 3
  Graphs <- SmallGraphs
  MaxQuotes = 4
INVARIANT FreshestOfTheShortest
CHECK_DEADLOCK FALSE
