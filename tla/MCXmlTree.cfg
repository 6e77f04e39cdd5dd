SPECIFICATION Spec
CONSTANTS
  Nodes = {n1, n2, n3, n4}
  Doc = Doc
  Nil = Nil
SYMMETRY Symmetry
CHECK_DEADLOCK FALSE
INVARIANTS
  TreeTypeOK
  LinksAgree
  NodesAreOwned
  UntrackedIsUnlinked
PROPERTY
  ImplementsForest
