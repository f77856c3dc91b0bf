SPECIFICATION FairSpec
CONSTANTS
  Threads = {t1, t2, t3}
  Kinds = {malloc, free}
  NoKind = NoKind
  LabelRange = 2
  MaxCalls = 1
INVARIANTS IInv NoFault CountsExact
PROPERTIES SizeNeverShrinks ImplementsTally CallsReturn
