SPECIFICATION FairSpec
CONSTANTS
  Names = {n1}
  Upserts = {u1, u2, u3}
  Deletes = {d1}
  Reads = {q1}
  Pins = {0, 2}
CHECK_DEADLOCK FALSE
INVARIANTS
  TypeOK
  OneLiveRow
  SnapshotFits
PROPERTIES
  OnlyCreatorsFail
  ReadsWhatWasCurrent
  VersionsGoToLiveRows
  StaffIsAnswered
