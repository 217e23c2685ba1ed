CONSTANT
    Jobs <- MCJobs
SPECIFICATION Spec
INVARIANTS
    GemmExact
    ConvExact
    LayerExact
    TilesReady
    TransfersUndisturbed
    CoresApart
    LayernormExact
