SPECIFICATION Spec
CONSTANTS
    Runs = {r1, r2, r3}
    Dirs = {d1, d2, d3}
    Files = {manifest, code}
    None = None
SYMMETRY MCSymmetry
INVARIANTS
    OnlyWholePlugins
    StagingBelongsToRuns
PROPERTIES
    NeverOverwrites
