\* Up to six points, so that the dense case happens with two hits per sector.
SPECIFICATION Spec
CONSTANTS
    Scenes <- MCScenes
    MaxDistance = 2000
    MinQuality = 15
    MinHits = 2
    MaxPoints = 6
INVARIANTS
    VerdictIsExact
    
    DenseObjectFound
