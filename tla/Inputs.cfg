CONSTANTS
  Alphabet <- Alphabets
  MaxLength <- Lengths
  Word <- AllWords
  MaxInt = 10
  MaxUllong = 99
  LineMax = 4
  Nul = Nul
  Newline = Newline
  Missing = Missing
  Failed = Failed
  Signatures <- CpuidTable
  Vendors <- DmiTable
SPECIFICATION Spec
INVARIANTS ObjectRoundTrip ObjectNodeIsLegal ObjectNodeIsAnAlias SliceAncestors SliceOwner
           VirtContainer VirtMachine VirtAnswer
CHECK_DEADLOCK FALSE
