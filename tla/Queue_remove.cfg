SPECIFICATION Spec
CONSTANTS
  Node = {n1, n2, n3}
  Item = {a, b}
  Head0 = Head0
  NULL = NULL
PROPERTIES
  RemoveFinds
