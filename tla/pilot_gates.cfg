SPECIFICATION Spec
SYMMETRY Alike
CONSTANTS
    note = note
    draft = Absent
    Absent = Absent
    Requests = {r1, r2}
    Targets = {note}
    TargetOf <- OneTarget
    DraftOf <- OneDraft
    Runs = {d1, d2}
    Operations = {"deny", "cleanup"}
    Rollbacks = {FALSE}
    MaxStarts = 2
    MaxLapses = 1
    MaxFailures = 0
    MaxCrashes = 0
INVARIANTS
    TypeOK
    PilotInv
PROPERTY
    DecisionsStand
