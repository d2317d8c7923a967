SPECIFICATION ForgeSpec
CONSTANTS
    ann = ann
    bob = bob
    cat = cat
    p1 = p1
    p2 = p2
    pr1 = pr1
    Procs = {p1, p2}
    Names = {"main", "dev"}
    TagNames = {"dev"}
    Default = "main"
    Requests = {"edit", "create", "delete", "sync"}
    MaxCommits = 3
SYMMETRY Symmetry
INVARIANTS
    DecisionsStand
    IssuesStand
    
    MergedWasDelivered
PROPERTIES
    ChangesByRight
    
    BranchesKeep
