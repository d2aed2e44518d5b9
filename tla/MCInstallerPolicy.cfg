CONSTANTS
  N = 3
  Values = {0, 1}
  Absent = Absent
  Setting <- MCSetting
SPECIFICATION Spec
INVARIANTS
  PoliciesComeBack
  BackupIsTheUsers
