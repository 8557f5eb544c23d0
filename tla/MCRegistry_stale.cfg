SPECIFICATION Spec
CONSTANTS
  i1 = i1
  i2 = i2
  j1 = j1
  Namespace = {"n1"}
  Link <- OneLink
  Name = {eth0, eth1}
  Type = {"ethernet", "bridge"}
  Backend = {"bridges", "wired"}
  NamespaceOf <- MCNamespaceOf
  Entities <- MCEntities
  MaxChanges = 1
  MaxCalls = 1
INVARIANTS
  OwnersViewIsKept
