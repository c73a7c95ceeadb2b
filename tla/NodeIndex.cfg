SPECIFICATION Spec
CONSTANTS
  Handler = {h1, h2}
  Nodes = 2
INVARIANT KnownNodesAreFound
CHECK_DEADLOCK FALSE
