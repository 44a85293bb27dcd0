CONSTANTS
  CommandLines <- Nested
  Plus <- PlusTexts
  Uvm <- UvmTexts
  MaxConstructed = 2
SPECIFICATION Spec
INVARIANTS KnowsArguments PassesAgree
PROPERTY ConstructorReturns
CHECK_DEADLOCK FALSE
