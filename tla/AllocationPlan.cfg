SPECIFICATION Spec
CONSTANTS
    Snapshots <- MCSnapshots
    MaxSequence = 6
INVARIANTS
    EveryChoiceIsFirst
    OneDecisionEach
    AcceptedSnapshotsArePlanned
