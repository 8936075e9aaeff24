\* Two documents of either preset in one process.
CONSTANTS
  Base = 2
  HashBytes = 3
  Units <- MCUnits
  Rounds <- MCRounds
  PowHashes <- MCPowHashes
  MaxDocuments = 2
SPECIFICATION Spec
INVARIANTS TypeOK VectorsFresh TransitionReplays CasesShow VerdictsNumeric
\* The program ends after its documents, or with an exception.
CHECK_DEADLOCK FALSE
