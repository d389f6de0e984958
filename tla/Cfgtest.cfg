SPECIFICATION Spec
CONSTANTS
  Name = {"a", "b"}
  MakeVar = {"V"}
  MaxTests = 3
INVARIANTS
  FlagsAreTrue
  OneLinePerSlip
  StopsForARefusal
