SPECIFICATION SpecRenamed
CONSTANTS
  TreeTypes = {"nested-set"}
  Nodes <- MCThreeNodes
  NoNode = NoNode
  Cascade <- MCRestrict
  Usage <- MCAside
  Digits <- MCDigits
INVARIANT FindsTheFamily
