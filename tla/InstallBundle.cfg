SPECIFICATION Spec
CONSTANTS
  pool = pool
  dll = dll
  marker = marker
  base = base
  notices = notices
  Files = {pool, dll, marker, base, notices}
  Plan <- MCPlan
  Configs = {pool, base}
  Marker = marker
INVARIANTS
  ConfigsKept
  ReceiptMeansInstalled
PROPERTIES
  KeepsBundle
