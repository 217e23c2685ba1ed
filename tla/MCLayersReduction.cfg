CONSTANT
    Jobs <- MCReduction
SPECIFICATION Spec
INVARIANTS
    LayerExact
