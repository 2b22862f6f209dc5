SPECIFICATION Spec
CONSTANTS
  TreeTypes = {"nested-set", "closure-table", "materialized-path"}
  Nodes <- MCNodes
  NoNode = NoNode
  Cascade <- MCCascade
  Usage <- MCUsage
  Digits <- MCDigits
INVARIANTS
  FindsTheFamily
  Laminar
  Closed
  NoCycle
  PathsSpellTheTree
