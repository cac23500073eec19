\* A database without the value domains.
SPECIFICATION Spec
CONSTANTS
  n1 = n1
  n2 = n2
  boolean = boolean
  double = double
  Nothing = Nothing
  Nodes <- MCNodes
  Types <- MCTypes
INVARIANT
  DomainsAreCreated
