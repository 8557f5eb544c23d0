SPECIFICATION Spec
CONSTANTS
  Namespace = {"n1", "n2"}
  i1 = i1
  i2 = i2
  j1 = j1
  Link <- MCLink
  Name = {eth0, eth1}
  Type = {"ethernet", "bridge"}
  Backend = {"bridges", "wired", "far"}
  NamespaceOf <- MCNamespaceOf
  Entities <- MCEntities
  MaxChanges = 1
  MaxCalls = 2
SYMMETRY Symmetry
INVARIANTS
  OwnersAreUnique
PROPERTIES
  QuietLinksAreAsTheirOwnersSeeThem
  RoutedPlansFit
