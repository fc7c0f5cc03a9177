SPECIFICATION Spec
CONSTANTS
  p1 = p1
  p2 = p2
  i1 = i1
  i2 = i2
  a = a
  b = b
  k = k
  Permits = {p1, p2}
  Claims <- MCClaims
  Creators = {c1, c2}
  Rooms = {r1, r2}
  MemberIds = {m1, m2, m3, m4}
  Invites = {i1, i2}
  Names = {a, b, k}
  Requests <- MCRequests
  AskedCapacity = {0, 3}
  InviteTTL = {1, 2}
  None = None
  MaxPermitTTL = 3
  ClockSkew = 1
  MaxTime = 3
INVARIANT RetryReturnsMember
