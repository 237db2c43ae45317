\* Every order of inserting and deleting eight price levels.
CONSTANT
  MaxKey = 8
SPECIFICATION Spec
INVARIANTS
  TypeOK
  KeysAreOrdered
  LinksAgree
  NoRedPair
  BlackBalanced
  HeightIsLogarithmic
  QueriesAreRight
PROPERTIES
  ImplementsSortedKeys
  CallsGetShorter
