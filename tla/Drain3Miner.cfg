CONSTANTS
  Token = {"a", "b", "7"}
  VariableToken = {"7"}
  Wildcard = "<*>"
  MaxDepth = 1
  MaxChildren = 1
  SimNum = 2
  SimDen = 5
  MinerLine <- MCLine
  MaxAdds = 5
SPECIFICATION MinerSpec
INVARIANT SeenLinesStayKnown
INVARIANT TreeBounded
PROPERTY TemplatesOnlyGeneralise
CHECK_DEADLOCK FALSE
