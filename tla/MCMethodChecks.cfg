CONSTANTS
  Width = 3
  Units <- MCUnits
SPECIFICATION Spec
INVARIANTS
  AcceptedFlowIsLegal
  LegalFlowIsAccepted
  LiveMeansUsed
PROPERTY CheckReturns
CHECK_DEADLOCK FALSE
