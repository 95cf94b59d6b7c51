\* Every interleaving, every Zephyr call may fail, publishers at any time.
CONSTANTS
  NULL = NULL
  k1 = k1  k2 = k2
  s1 = s1  s2 = s2  s3 = s3
  c1 = c1  c2 = c2
  m1 = m1  m2 = m2
  d1 = d1  d2 = d2
  Kickers = {k1, k2}
  Publishers = {p1}
  Chans = {c1, c2}
  Msgs = {m1, m2}
  Dsts = {d1}
  Steps = {s1}
  Entry = s1
  Follows <- Loop
  Awaits <- MixedAwaits
  ApiErrors = {"add_obs", "rm_obs", "schedule"}
  QuietArm = FALSE
SPECIFICATION Spec
SYMMETRY KickerSymmetry
INVARIANTS
  TypeOK
  OneDriver
  ArmedIsObserved
