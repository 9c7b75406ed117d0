SPECIFICATION Spec
CONSTANTS
  Texts <- AllTexts
  Headers <- Duplicate
  Cells <- FewCells
  MaxRows = 2
INVARIANTS
  Faithful
