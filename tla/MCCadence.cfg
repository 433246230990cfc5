\* Cadence scaled down: a second of 9 units and rates of 2, 3 and 9, whose
\* intervals are 5 (rounded up), 3 and 1.  The network step of 3 lies among
\* them as the one of 60 Hz does among 20 to 240 Hz: one step owes three ticks
\* of the fastest, and several steps one of the slowest.
SPECIFICATION LiveSpec
CONSTANTS
  Second = 9
  Rates = {2, 9}
  NetworkStep = 3
  MaxInFlight = 1
INVARIANTS
  CadenceConsistent
  NoSnapshotDropped
PROPERTIES
  SnapshotsKeepComing
