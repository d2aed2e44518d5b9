CONSTANTS
  Threads = {t1, t2}
  Packages = {kerberos, msv}
  Kerberos = kerberos
  Msv = msv
  MaxLong = 2
  Ids = {0, 1, 2, 5}
  UShort = 16
  LogonHeader = 3
  UnlockHeader = 5
  HeapBase = 1000
  Inputs <- MCInputs
SPECIFICATION PackSpec
SYMMETRY Symmetry
INVARIANTS
  AnswersAgree
  AnswersComeFromLsa
  LsaHandlesReturned
  LsaReadsTheFields
