SPECIFICATION Spec
CONSTANTS
  Texts <- AllTexts
  Headers <- Distinct
  Cells <- FewCells
  MaxRows = 3
INVARIANTS
  TypeOK
  Faithful
