\* Two pods, two sockets, one user, any one event.
SPECIFICATION FairSpec
CONSTANTS
  p1 = p1
  p2 = p2
  c1 = c1
  c2 = c2
  u1 = u1
  Pods = {p1, p2}
  Sockets = {c1, c2}
  Users = {u1}
  BadToken = BadToken
  NoToken = NoToken
  Handshakes <- MCHandshakes
  MaxSession = 1
  MaxSold = 1
  MaxAsked = 1
  Homes <- MCHomes
  Events = {"db", "redis", "lost", "bar", "change"}
  MaxEvents = 1
INVARIANTS TypeOK NeverShowsUnsold AdmittedOnly NeverCountsMore
PROPERTIES PublishedIsShown
CHECK_DEADLOCK FALSE
