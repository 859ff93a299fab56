SPECIFICATION AuditTransferSpec
CONSTANTS
  Exporters = {}
  KeepValues = {1}
  Purges = {0}
  MaxSeq = 5
  Bases = {0}
INVARIANTS
  ChainedToPrevious
CHECK_DEADLOCK FALSE
