\* Two rebuilds of a day, two stock rows, and counts and quantities from 0 to 2.
SPECIFICATION AnalyticsSpec
CONSTANTS
  Rebuild = {r1, r2}
  StockId = {s1, s2}
  MaxCount = 2
  Missing = Missing
SYMMETRY Interchangeable
INVARIANTS AnalyticsTypeOK FactsAgree
