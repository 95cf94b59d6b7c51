\* A publish meets the observer before the match is stored.
CONSTANTS
  NULL = NULL
  k1 = k1  k2 = k2
  s1 = s1  s2 = s2  s3 = s3
  c1 = c1  c2 = c2
  m1 = m1  m2 = m2
  d1 = d1  d2 = d2
  Kickers = {k1}
  Publishers = {p1}
  Chans = {c1, c2}
  Msgs = {m1, m2}
  Dsts = {d1, d2}
  Steps = {s1, s2, s3}
  Entry = s1
  Follows <- Straight
  Awaits <- BoundedAwaits
  ApiErrors = {}
  QuietArm = FALSE
SPECIFICATION Spec
INVARIANT
  EventQualifies
