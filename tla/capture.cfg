SPECIFICATION LiveSpec
CONSTANTS
  a1 = a1
  a2 = a2
  Attempts <- MCAttempts
  MaxVersion = 2
  MaxFaults = 2
INVARIANTS
    OneRun
    ReceiptsTruthful
PROPERTIES
    Settles
