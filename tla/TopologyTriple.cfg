SPECIFICATION Spec
CONSTANT Setups <- TripleSetups
INVARIANT BurgersConserved
