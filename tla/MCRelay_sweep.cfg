\* The janitor and the shutdown against one creator and one joiner.
SPECIFICATION Spec
CONSTANTS
  c1 = c1
  c2 = c2
  c3 = c3
  r1 = r1
  r2 = r2
  r3 = r3
  t1 = t1
  t2 = t2
  s1 = s1
  None = None
  Conn = {c1, c2}
  Room = {r1}
  Token = {t1}
  Session = {s1}
  MaxRoomSize = 2
  Hello <- HelloPair
  Sweeper = {"janitor", "shutdown"}
INVARIANT IndInv
PROPERTY
  RefinesRoomSpec
  TokenConsumption
