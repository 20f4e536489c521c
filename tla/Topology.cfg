SPECIFICATION Spec
CONSTANT Setups <- MCSetups
INVARIANTS
  TypeOK
  ViewsFit
  BurgersConserved
