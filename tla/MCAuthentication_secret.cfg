\* A sign-in verifies a secret that is changed before its session is stored.
CONSTANTS
  Requests = {r1, r2}
  Secrets = {s1, s2}
  NoSecret = NoSecret
  Threshold = 2
  Duration = 1
  Ttl = 2
  MaxWrites = 3
  MaxTime = 2
  MaxRevision = 5
  MaxChanges = 2
  MaxSessions = 1
SYMMETRY Symmetry
CHECK_DEADLOCK FALSE
SPECIFICATION Spec
INVARIANT OldSecretsOpenNothing
