CONSTANTS
  Images <- ImagesOf
  SymbolTables <- Shapes
  PerfMaps <- Jitted
  Addresses = {2, 4, 6, 10}
  lazy_symbolize = TRUE
SPECIFICATION Spec
INVARIANTS TypeOK HitIsInnermost NestingIsSeen NewImageIsNoticed
CHECK_DEADLOCK FALSE
