SPECIFICATION FairSpec
CONSTANTS
  main = main
  a = a
  b = b
  none = none
  x = x
  y = y
  Files = {main, a, b}
  NoFile = none
  Paths = {"main", "one.net", "two.net", "link.net", "gone"}
  Canonical <- MCCanonical
  Alias <- MCAlias
  Entry = "main"
  Names = {x, y}
  Projects <- MCProjects
CHECK_DEADLOCK FALSE
INVARIANTS ReadOnce DependenciesLoaded Complete CycleReal VerdictRight
PROPERTIES Terminates
