SPECIFICATION Spec
CONSTANTS
 Procs = {p1, p2}
 Keys = {k1, k2}
 Inodes = {i1, i2, i3}
 None = None
 Passwords = {mail}
 Totps = {otp}
 Confs = {c1, c2}
 Texts <- OneBackup
 MaxJobs = 3
SYMMETRY Interchangeable
INVARIANTS TypeOK MigrationIsAtomic RestIsLoadable RestoreIsComplete BackupIsExact
CHECK_DEADLOCK FALSE
