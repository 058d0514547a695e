CONSTANTS
  Keys = 2
  Capacity = 2
SPECIFICATION Spec
INVARIANTS TypeOK ApplicationCatchesUp EventsMakeSense
PROPERTIES WholePacketsReported TouchedWhereReported
