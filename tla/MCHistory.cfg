CONSTANTS
  Article = {a1, a2, a3}
  NoArticle = NoArticle
  Linked = a3
  MaxHistory = 2
  MaxViewing = 2
  Position = {0, 1}
  Start <- MCStart
SYMMETRY Symmetry
SPECIFICATION Spec
INVARIANTS TypeOK NoDuplicates LogsTheShown NothingUnsaved ResumesWhereLeft
