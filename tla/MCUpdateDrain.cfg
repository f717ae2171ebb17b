CONSTANTS
    Runs = {r1, r2, r3}
    TimeoutPolls = 2
SPECIFICATION FairSpec
INVARIANTS
    InstallQuiescent
    CountExact
    LatchOwned

    
