SPECIFICATION FairSpec
CONSTANTS
    note = note
    draft = draft
    Absent = Absent
    Requests = {r1}
    Targets = {note}
    TargetOf <- OneTarget
    DraftOf <- OneDraft
    Runs = {d1}
    Operations = {"deny", "cancel"}
    Rollbacks = {TRUE, FALSE}
    MaxStarts = 2
    MaxLapses = 0
    MaxFailures = 1
    MaxCrashes = 1
PROPERTY
    ApprovedIsCommitted
