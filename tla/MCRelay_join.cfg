\* One room, two tokens, two joiners racing for one free place.
SPECIFICATION Spec
CONSTANTS
  c1 = c1
  c2 = c2
  c3 = c3
  r1 = r1
  r2 = r2
  r3 = r3
  t1 = t1
  t2 = t2
  s1 = s1
  None = None
  Conn = {c1, c2, c3}
  Room = {r1}
  Token = {t1, t2}
  Session = {}
  MaxRoomSize = 2
  Hello <- HelloJoin
  Sweeper = {}
INVARIANTS
  TypeInv
  OwnerIsMember
  RoomBound
  ChannelClosedOnce
  MembersReachable
  OwnerGuardStable
  SingleUse
  HandshakeOwned
SYMMETRY SymJoin
