SPECIFICATION ListingSpec
CONSTANTS
  Names = {1, 2, 3}
  FwTocs <- MCFwTocs
  IsParam = TRUE
  NoEntry = NoEntry
  MaxFlash = 1
  Values = {0, 1}
  NoValue = NoValue
  Missing = Missing
INVARIANTS TypeOK CacheIsPartOfToc LookupsAgree WrittenIsStored RowsAreOfTheirItems
PROPERTIES ConversionKeepsType ReadIsNamed
VIEW MCView
