\* The application's schema, every sequence of releases, kills and errors.
CONSTANTS
  MaxVersion <- LatestVersion
  Tables <- TidalTables
  Columns <- TidalColumns
  Keys <- OneKey
  Indices <- TidalIndices
  TableSince <- TidalTableSince
  PartSince <- TidalPartSince
  IndexSince <- TidalIndexSince
  Owner <- TidalOwner
  Faults <- AllFaults
SPECIFICATION Spec
INVARIANTS TypeOK MigratedLikeNew RunningHasItsTables IndicesUnlessSkipped
CHECK_DEADLOCK FALSE
