SPECIFICATION Spec
CONSTANTS
    Txs = {t1, t2}
    Environments <- Envs
    NULL = NULL
CHECK_DEADLOCK FALSE
SYMMETRY Symmetry
INVARIANTS InOrder CurrentIsLive CloseLogsCurrent BodyHasContext IInv
