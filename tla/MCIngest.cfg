SPECIFICATION RecordsSpec
CONSTANTS
  MaxBlock = 4
  StartBlock = 1
  RunUp = 0
  MaxCatchup = 3
  LagAlert = 1
  Batch = 2
  HeadWindow = 2
  HistWindow = 1
  History = TRUE
  MaxTries = 1
  MaxFaults = 1
  Quotes = {100, 109, 125, 200}
  Deviation = 10
  Window = 3
  Warmup = 3
  MaxReread = 1
  Deals <- MCDeals
  MinBase = 10
  MinUsdc = 10
  MinRate = 1
  MaxRate = 3
  Contents <- MCContents
  Asked = {1, 2, 3}
  Readers = {q1, q2}
  MaxRecounts = 2
  WindowBlocks = 2
  Buys <- MCBuys
  OwnPayers <- MCOwnPayers
  Markets <- MCMarkets
  Hour = 2
  Day = 4
  MaxTicks = 8
  NamedSellers = {"shop"}
INVARIANTS TypeOK AnchorKept CursorBelowHead RowsTellTheTruth 
PROPERTY CursorMovesOn
