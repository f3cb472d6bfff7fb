SPECIFICATION Spec
CONSTANTS
  Services = {s1, s2}
  NoOne = NoOne
  NumPorts = 2
  UintMod = 65536
  Give = 2
  UseFile = TRUE
  RemoveOnExit = FALSE
SYMMETRY Sym
CONSTRAINT Bound
INVARIANT OthersUseItOnlyOnceReturned
