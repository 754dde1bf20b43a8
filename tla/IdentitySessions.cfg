\* The founder and one that is invited twice, three sessions, one reset token
\* and two requests that may overlap.
SPECIFICATION Spec
CONSTANTS
  Email = {founder, guest}
  Founder = founder
  SessionId = {s1, s2, s3}
  InvitationId = {i1, i2}
  ResetId = {t1}
  Request = {r1, r2}
  NoSession = NoSession
SYMMETRY Interchangeable
INVARIANTS TypeOK SingleUse RevokedForGood
\* The system may stop: the last administrator may deactivate everyone, itself
\* included, and then nobody gets in.
CHECK_DEADLOCK FALSE
