SPECIFICATION Spec
CONSTANTS
  PrefixFlags <- Plain
  Arguments <- FewArguments
  MaxRows = 2
  MaxSequences = 2
INVARIANTS
  ResultsAreWhole
