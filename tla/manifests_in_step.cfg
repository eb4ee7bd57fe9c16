SPECIFICATION FairSpec
CONSTANTS
    Notes = {n1}
    MaxEdits = 3
    MaxFailures = 1
    Scenarios = {{"foreign_change", "inputs_change"}, {"foreign_notes", "inputs_change"}, {"hasty_edit"}}
INVARIANTS ConfiguredBeforeMachines RecordedIsRendered
PROPERTIES NotesKept RenderedInTheEnd NodesLookedAt
