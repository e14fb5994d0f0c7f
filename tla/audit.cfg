CONSTANTS
  e1 = e1
  e2 = e2
  Events <- MCEvents
  MaxRecords = 2
  MaxAnchors = 2
SPECIFICATION Spec
INVARIANTS AckedStays OpenLogVerifies AnchorsKeepVerifying AnchorPinsHistory
PROPERTY AppendHeals
