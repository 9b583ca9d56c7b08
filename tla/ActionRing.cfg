SPECIFICATION Spec
CONSTANTS
  Item = {a, b}
  Cap = 4
INVARIANTS TypeOK TailFollowsCount
PROPERTY ImplementsDeque
