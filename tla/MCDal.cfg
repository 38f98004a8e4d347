SPECIFICATION Spec
CONSTANTS
  Contexts = {x1, x2}
  Cursors = {k1, k2}
  ConnAddrs = {c1, c2}
  ResultAddrs = {r1, r2}
  Names = {n, empty}
  Unnamed = empty
  Replies <- MCReplies
  MaxRows = 3
  MaxReads = 3
  MaxStatements = 2
SYMMETRY MCSymmetry
INVARIANTS
  TypeOK
  OneOwner
  ResultsOwned
  StatementsAgree
  ReadsInOrder
