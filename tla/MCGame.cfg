SPECIFICATION Spec
CONSTANTS
    Cells = 2
    MaxCreatures = 3
    Total = 2
    Slips = {}
    MaxWorlds = 2
    MaxHits = 1
INVARIANTS
    GridConsistent
    
    
