SPECIFICATION Spec
CONSTANTS
    note = note
    draft = draft
    Absent = Absent
    Requests = {r1}
    Targets = {note}
    TargetOf <- OneTarget
    DraftOf <- OneDraft
    Runs = {d1}
    Operations = {}
    Rollbacks = {TRUE, FALSE}
    MaxStarts = 1
    MaxLapses = 0
    MaxFailures = 0
    MaxCrashes = 0
INVARIANT
    OriginalKept
