CONSTANTS
  f1 = f1
  f2 = f2
  NoFile = NoFile
  File <- MCFile
  MaxFiles = 2
  MaxDirectories = 2
SPECIFICATION Spec
SYMMETRY MCSymmetry
INVARIANTS TypeOK SurvivesSuspend DirectoriesReusable
PROPERTIES HandleKeepsItsFile RefusesExactly
