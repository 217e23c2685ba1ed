CONSTANTS
    Procs = {h1, h2, h3, h4}
    IterMod = 2
    MaxEpisodes = 3
SPECIFICATION Spec
INVARIANTS
    IInv
    Synchronised
PROPERTY
    Implements
\* every hart has made its MaxEpisodes calls and stays outside
CHECK_DEADLOCK FALSE
