-------------------------- MODULE RelayRoomProofs --------------------------
(***************************************************************************)
(* Types and rooms: no step leaves the types or uses a nil; the invariant  *)
(* RoomInv on membership, ownership and channels is preserved by every     *)
(* step, and with it every step of the server is a step of RoomSpec or     *)
(* leaves the rooms alone.                                                 *)
(***************************************************************************)
EXTENDS RelayInv, FiniteSetTheorems, TLAPS

-----------------------------------------------------------------------------
(* Types: no step leaves them or uses a nil. *)

\* Taking the members out of a room keeps the types of its fields.
LEMMA DetachType ==
  ASSUME TypeOK, NEW r \in Room, Detach(r)
  PROVE  /\ phase' \in [Room -> Phase] /\ members' \in [Room -> SUBSET Conn]
         /\ owner' \in [Room -> Conn \cup {None}] /\ idle' \subseteq Room
         /\ todo' \in [Room -> SUBSET Conn]
BY DEF TypeOK, Detach, Phase

\* Taking one member out of a room keeps the types of what it touches.
LEMMA RemoveType ==
  ASSUME TypeOK, NEW r \in Room, NEW c \in Conn, Remove(c, r)
  PROVE  /\ members' \in [Room -> SUBSET Conn] /\ idle' \subseteq Room
         /\ out' \in [Conn -> {"open", "closed", "broken"}]
         /\ phase' = phase /\ owner' = owner /\ todo' = todo
BY DEF TypeOK, Remove, CloseChannel, CloseOf

\* The server starts with the types and with nothing looked up.
LEMMA TypeInit == Init => TypeInv
BY DEF Init, TypeInv, TypeOK, Dereferenced, Location, PreJoin, Serving, Exiting,
       Phase, SweepLocation

\* Every step of every goroutine preserves the types and uses only what it has
\* looked up.
LEMMA TypeStep ==
  TypeInv /\ [Next]_vars => TypeInv'
<1> SUFFICES ASSUME TypeInv, [Next]_vars PROVE TypeInv'
  OBVIOUS
<1> USE NoneAssumption, HelloAssumption, SweeperAssumption
<1> USE DEF TypeInv, TypeOK, Dereferenced, Location, PreJoin, Serving,
  Exiting, Phase, SweepLocation, Closed, localVars, roomVars, inviteVars,
  sweepVars
<1>1. ASSUME NEW c \in Conn, ReceiveHello(c) PROVE TypeInv'
  BY <1>1 DEF ReceiveHello, Goto, HelloFrame
<1>2. ASSUME NEW c \in Conn, BadHello(c) PROVE TypeInv'
  BY <1>2 DEF BadHello, Reject, CloseChannel, CloseOf, Goto, HelloFrame
<1>3. ASSUME NEW c \in Conn, JoinerFrame(c) PROVE TypeInv'
  BY <1>3 DEF JoinerFrame, Goto
<1>4. ASSUME NEW c \in Conn, Enter(c) PROVE TypeInv'
  BY <1>4 DEF Enter, CanAdd, Add, Goto
<1>5. ASSUME NEW c \in Conn, Chat(c) PROVE TypeInv'
  BY <1>5 DEF Chat, Reading
<1>6. ASSUME NEW c \in Conn, OwnerRequest(c) PROVE TypeInv'
  <2>1. CASE pc' = [pc EXCEPT ![c] = "mint"] /\ UNCHANGED arg
    BY <1>6, <2>1 DEF OwnerRequest, Reading, IsOwner
  <2>2. ASSUME NEW d \in Conn, NEW l \in {"setowner", "kick"},
               pc' = [pc EXCEPT ![c] = l], arg' = [arg EXCEPT ![c] = d]
        PROVE  TypeInv'
    BY <1>6, <2>2 DEF OwnerRequest, Reading, IsOwner
  <2> QED BY <1>6, <2>1, <2>2 DEF OwnerRequest, Goto
<1>7. ASSUME NEW c \in Conn, RequestRefused(c) PROVE TypeInv'
  BY <1>7 DEF RequestRefused, Reading, AfterSend, Goto
<1>8. ASSUME NEW c \in Conn, OwnerFrame(c) PROVE TypeInv'
  BY <1>8 DEF OwnerFrame, Reading, Goto
<1>9. ASSUME NEW c \in Conn, NoHello(c) PROVE TypeInv'
  BY <1>9 DEF NoHello, Goto
<1>10. ASSUME NEW c \in Conn, RateLimited(c) PROVE TypeInv'
  BY <1>10 DEF RateLimited, Reject, CloseChannel, CloseOf, Goto
<1>11. ASSUME NEW c \in Conn, ClaimSession(c) PROVE TypeInv'
  BY <1>11 DEF ClaimSession, CanClaim, Claimed, Goto
<1>12. ASSUME NEW c \in Conn, ClaimRefused(c) PROVE TypeInv'
  BY <1>12 DEF ClaimRefused, Reject, CloseChannel, CloseOf, Goto
<1>13. ASSUME NEW c \in Conn, CreateRoom(c) PROVE TypeInv'
  BY <1>13 DEF CreateRoom, Goto
<1>14. ASSUME NEW c \in Conn, AddCreator(c) PROVE TypeInv'
  <2>1. CASE CanAdd(rm[c])
    BY <1>14, <2>1 DEF AddCreator, CanAdd, Add, Goto
  <2>2. CASE ~CanAdd(rm[c])
    BY <1>14, <2>2 DEF AddCreator, CanAdd, Add, Goto
  <2> QED BY <2>1, <2>2
<1>15. ASSUME NEW c \in Conn, Welcome(c) PROVE TypeInv'
  BY <1>15 DEF Welcome, AfterSend, Goto
<1>16. ASSUME NEW c \in Conn, Redeem(c) PROVE TypeInv'
  <2>1. CASE tok[c] \in expired
    <3>1. TypeOK'
      BY <1>16, <2>1 DEF Redeem, SetInvites, Consumed, Reject, CloseChannel,
        CloseOf, Goto
    <3>2. Dereferenced'
      BY <1>16, <2>1 DEF Redeem, SetInvites, Consumed, Reject, CloseChannel,
        CloseOf, Goto
    <3> QED BY <3>1, <3>2
  <2>2. CASE tok[c] \notin expired
    <3>1. TypeOK'
      BY <1>16, <2>2 DEF Redeem, SetInvites, Consumed, Reject, CloseChannel,
        CloseOf, Goto
    <3>2. Dereferenced'
      BY <1>16, <2>2 DEF Redeem, SetInvites, Consumed, Reject, CloseChannel,
        CloseOf, Goto
    <3> QED BY <3>1, <3>2
  <2> QED BY <2>1, <2>2
<1>17. ASSUME NEW c \in Conn, JoinRefused(c) PROVE TypeInv'
  BY <1>17 DEF JoinRefused, Reject, CloseChannel, CloseOf, Goto
<1>18. ASSUME NEW c \in Conn, GetRoom(c) PROVE TypeInv'
  BY <1>18 DEF GetRoom, Goto
<1>19. ASSUME NEW c \in Conn, HasCapacity(c) PROVE TypeInv'
  BY <1>19 DEF HasCapacity, Goto
<1>20. ASSUME NEW c \in Conn, OwnerClient(c) PROVE TypeInv'
  BY <1>20 DEF OwnerClient, HasOwner, Goto
<1>21. ASSUME NEW c \in Conn, NewHandshake(c) PROVE TypeInv'
  BY <1>21 DEF NewHandshake, Goto
<1>22. ASSUME NEW c \in Conn, NotifyOwner(c) PROVE TypeInv'
  BY <1>22 DEF NotifyOwner, AfterSend, Forget, Goto
<1>23. ASSUME NEW c \in Conn, RelayToPeer(c) PROVE TypeInv'
  BY <1>23 DEF RelayToPeer, AfterSend, Forget, Goto
<1>24. ASSUME NEW c \in Conn, EndHandshake(c) PROVE TypeInv'
  BY <1>24 DEF EndHandshake, Goto
<1>25. ASSUME NEW c \in Conn, QuitHandshake(c) PROVE TypeInv'
  BY <1>25 DEF QuitHandshake, Reject, CloseChannel, CloseOf, Goto
<1>26. ASSUME NEW c \in Conn, CreateInvite(c) PROVE TypeInv'
  BY <1>26 DEF CreateInvite, Goto
<1>27. ASSUME NEW c \in Conn, SendInvite(c) PROVE TypeInv'
  BY <1>27 DEF SendInvite, AfterSend, Goto
<1>28. ASSUME NEW c \in Conn, SetOwner(c) PROVE TypeInv'
  <2>1. CASE Joined(arg[c], rm[c])
    BY <1>28, <2>1 DEF SetOwner, Joined, Goto, Forget
  <2>2. CASE ~Joined(arg[c], rm[c])
    BY <1>28, <2>2 DEF SetOwner, Joined, Goto, Forget
  <2> QED BY <2>1, <2>2
<1>29. ASSUME NEW c \in Conn, Kick(c) PROVE TypeInv'
  <2>1. CASE Kickable(arg[c], rm[c])
    <3>1. rm[c] \in Room /\ arg[c] \in Conn /\ Remove(arg[c], rm[c])
      BY <1>29, <2>1 DEF Kick
    <3>2. TypeOK'
      BY <1>29, <2>1, <3>1, RemoveType DEF Kick, Goto
    <3>3. Dereferenced'
      BY <1>29, <2>1 DEF Kick, Goto
    <3> QED BY <3>2, <3>3
  <2>2. CASE ~Kickable(arg[c], rm[c])
    BY <1>29, <2>2 DEF Kick, Kickable, Joined, Remove, CloseChannel, CloseOf,
      Goto, Forget
  <2> QED BY <2>1, <2>2
<1>30. ASSUME NEW c \in Conn, KickClear(c) PROVE TypeInv'
  BY <1>30 DEF KickClear, ClearSessionByClient, Goto, Forget
<1>31. ASSUME NEW c \in Conn, Leave(c) PROVE TypeInv'
  <2>1. CASE ~Joined(c, rm[c])
    BY <1>31, <2>1 DEF Leave, Joined, Remove, CloseChannel, CloseOf, Goto
  <2>2. CASE Joined(c, rm[c]) /\ c = owner[rm[c]]
    BY <1>31, <2>2 DEF Leave, Joined, Remove, CloseChannel, CloseOf, Goto
  <2>3. CASE Joined(c, rm[c]) /\ c # owner[rm[c]]
    <3>1. rm[c] \in Room /\ Remove(c, rm[c])
      BY <1>31, <2>3 DEF Leave
    <3>2. TypeOK'
      BY <1>31, <2>3, <3>1, RemoveType DEF Leave, Goto
    <3>3. Dereferenced'
      BY <1>31, <2>3 DEF Leave, Goto
    <3> QED BY <3>2, <3>3
  <2> QED BY <2>1, <2>2, <2>3
<1>32. ASSUME NEW c \in Conn, OwnerClose(c) PROVE TypeInv'
  <2>0. rm[c] \in Room
    BY <1>32 DEF OwnerClose
  <2>1. CASE Closed(rm[c])
    BY <1>32, <2>0, <2>1 DEF OwnerClose, Goto
  <2>2. CASE ~Closed(rm[c])
    <3>1. Detach(rm[c])
      BY <1>32, <2>2 DEF OwnerClose
    <3>2. /\ phase' \in [Room -> Phase] /\ members' \in [Room -> SUBSET Conn]
         /\ owner' \in [Room -> Conn \cup {None}] /\ idle' \subseteq Room
         /\ todo' \in [Room -> SUBSET Conn]
      BY <2>0, <3>1, DetachType
    <3>3. TypeOK'
      BY <1>32, <2>2, <3>2, SMTT(30) DEF OwnerClose, Goto
    <3>4. Dereferenced'
      BY <1>32, <2>0, <2>2 DEF OwnerClose, Goto
    <3> QED BY <3>3, <3>4
  <2> QED BY <2>1, <2>2
<1>33. ASSUME NEW c \in Conn, OwnerClosed(c) PROVE TypeInv'
  BY <1>33 DEF OwnerClosed, Goto
<1>34. ASSUME NEW c \in Conn, FreeSession(c) PROVE TypeInv'
  BY <1>34 DEF FreeSession, ClearSession, Goto
<1>35. ASSUME NEW c \in Conn, PumpDone(c) PROVE TypeInv'
  BY <1>35 DEF PumpDone, Goto
<1>36. ASSUME NEW c \in Conn, Deferred(c) PROVE TypeInv'
  BY <1>36 DEF Deferred, EndHandshakesFor, ClearSession, Goto
<1>37. ASSUME NEW c \in Conn, AbandonHandshake(c) PROVE TypeInv'
  BY <1>37 DEF AbandonHandshake, Goto
<1>38. ASSUME NEW c \in Conn, EndLoop(c) PROVE TypeInv'
  BY <1>38 DEF EndLoop, Goto
<1>39. ASSUME NEW c \in Conn, PumpDrains(c) PROVE TypeInv'
  BY <1>39 DEF PumpDrains
<1>40. ASSUME NEW c \in Conn, PumpFails(c) PROVE TypeInv'
  BY <1>40 DEF PumpFails
<1>41. ASSUME NEW c \in Conn, PeerDrops(c) PROVE TypeInv'
  BY <1>41 DEF PeerDrops
<1>42. ASSUME NEW r \in Room, RemoveRoom(r) PROVE TypeInv'
  BY <1>42 DEF RemoveRoom
<1>43. ASSUME NEW r \in Room, DropInvites(r) PROVE TypeInv'
  BY <1>43 DEF DropInvites, SetInvites
<1>44. ASSUME NEW r \in Room, CloseMember(r) PROVE TypeInv'
  BY <1>44 DEF CloseMember, ClearSessionByClient, CloseChannel, CloseOf
<1>45. ASSUME NEW r \in Room, CloseDone(r) PROVE TypeInv'
  BY <1>45 DEF CloseDone
<1>46. ASSUME NEW r \in Room, BecomeIdle(r) PROVE TypeInv'
  BY <1>46 DEF BecomeIdle
<1>47. ASSUME NEW t \in Token, Expire(t) PROVE TypeInv'
  BY <1>47 DEF Expire
<1>48. ASSUME NEW w \in Sweeper, Snapshot(w) PROVE TypeInv'
  BY <1>48 DEF Snapshot, Registered
<1>49. ASSUME NEW w \in Sweeper, Visit(w) PROVE TypeInv'
  BY <1>49 DEF Visit
<1>50. ASSUME NEW w \in Sweeper, IdleFor(w) PROVE TypeInv'
  BY <1>50 DEF IdleFor
<1>51. ASSUME NEW w \in Sweeper, SweepClose(w) PROVE TypeInv'
  <2>1. CASE Closed(sroom[w])
    BY <1>51, <2>1 DEF SweepClose, Detach
  <2>2. CASE ~Closed(sroom[w])
    <3>1. sroom[w] \in Room /\ Detach(sroom[w])
      BY <1>51, <2>2 DEF SweepClose
    <3>2. /\ phase' \in [Room -> Phase] /\ members' \in [Room -> SUBSET Conn]
         /\ owner' \in [Room -> Conn \cup {None}] /\ idle' \subseteq Room
         /\ todo' \in [Room -> SUBSET Conn]
      BY <3>1, DetachType
    <3>3. TypeOK'
      BY <1>51, <2>2, <3>2 DEF SweepClose
    <3>4. Dereferenced'
      BY <1>51, <2>2 DEF SweepClose
    <3> QED BY <3>3, <3>4
  <2> QED BY <2>1, <2>2
<1>52. ASSUME NEW w \in Sweeper, SweepClosed(w) PROVE TypeInv'
  BY <1>52 DEF SweepClosed
<1>53. ASSUME NEW w \in Sweeper, SweepEnd(w) PROVE TypeInv'
  BY <1>53 DEF SweepEnd, SetInvites, GcInvites
<1>54. CASE UNCHANGED vars
  BY <1>54 DEF vars
<1> QED BY <1>1, <1>2, <1>3, <1>4, <1>5, <1>6, <1>7, <1>8, <1>9, <1>10, <1>11,
  <1>12, <1>13, <1>14, <1>15, <1>16, <1>17, <1>18, <1>19, <1>20, <1>21, <1>22,
  <1>23, <1>24, <1>25, <1>26, <1>27, <1>28, <1>29, <1>30, <1>31, <1>32, <1>33,
  <1>34, <1>35, <1>36, <1>37, <1>38, <1>39, <1>40, <1>41, <1>42, <1>43, <1>44,
  <1>45, <1>46, <1>47, <1>48, <1>49, <1>50, <1>51, <1>52, <1>53, <1>54 DEF
  Next, Frame, Handler, LoopEnds, CloseStep, Sweep, Quiescent

\* Type correctness of the server, and no handler, janitor or shutdown ever
\* dereferences a room, peer or target that it does not have.
THEOREM TypeCorrect == Spec => []TypeInv
<1>1. Init => TypeInv
  BY TypeInit
<1>2. TypeInv /\ [Next]_vars => TypeInv'
  BY TypeStep
<1> QED BY <1>1, <1>2, PTL DEF Spec

-----------------------------------------------------------------------------
(* Membership, ownership and channels. *)

\* The first critical section of Room.Close, field by field.
LEMMA DetachEffect ==
  ASSUME TypeOK, NEW r \in Room, Detach(r)
  PROVE  /\ phase'[r] = "unregister" /\ todo'[r] = members[r]
         /\ members'[r] = {} /\ owner'[r] = None
         /\ \A q \in Room \ {r} : /\ phase'[q] = phase[q] /\ todo'[q] = todo[q]
                                 /\ members'[q] = members[q] /\ owner'[q] = owner[q]
BY DEF TypeOK, Detach

\* The server starts without rooms, members and closed channels.
LEMMA RoomInit == Init => RoomInv
BY DEF Init, RoomInv, MemberInv, TodoInv, OutInv, OwnerIsMember, MembersReachable, ChannelClosedOnce, PreJoin

\* Every step keeps the members of each room owned, reachable and inside the
\* handlers that entered it, and closes a channel only once.
LEMMA RoomStep ==
  TypeInv /\ RoomInv /\ [Next]_vars => RoomInv'
<1> SUFFICES ASSUME TypeInv, RoomInv, [Next]_vars PROVE RoomInv'
  OBVIOUS
<1> USE NoneAssumption
<1> USE DEF TypeInv, TypeOK, Dereferenced, Location, PreJoin, Serving,
  Exiting, Closed, localVars, roomVars, inviteVars, sweepVars, RoomInv,
  MemberInv, TodoInv, OutInv, OwnerIsMember, MembersReachable,
  ChannelClosedOnce, InRoom
<1>1. ASSUME NEW c \in Conn, ReceiveHello(c) PROVE RoomInv'
  BY <1>1 DEF ReceiveHello, Goto, HelloFrame
<1>2. ASSUME NEW c \in Conn, BadHello(c) PROVE RoomInv'
  BY <1>2 DEF BadHello, Reject, CloseChannel, CloseOf, Goto, HelloFrame
<1>3. ASSUME NEW c \in Conn, JoinerFrame(c) PROVE RoomInv'
  BY <1>3 DEF JoinerFrame, Goto
<1>4. ASSUME NEW c \in Conn, Enter(c) PROVE RoomInv'
  BY <1>4 DEF Enter, CanAdd, Add, Goto
<1>5. ASSUME NEW c \in Conn, Chat(c) PROVE RoomInv'
  BY <1>5 DEF Chat, Reading
<1>6. ASSUME NEW c \in Conn, OwnerRequest(c) PROVE RoomInv'
  <2>1. MemberInv'
    BY <1>6, SMTT(30) DEF OwnerRequest, Reading, IsOwner, HasOwner, Goto
  <2>2. TodoInv'
    BY <1>6 DEF OwnerRequest, Reading, IsOwner, HasOwner, Goto
  <2>3. OutInv'
    BY <1>6 DEF OwnerRequest, Reading, IsOwner, HasOwner, Goto
  <2>4. OwnerIsMember'
    BY <1>6 DEF OwnerRequest, Reading, IsOwner, HasOwner, Goto
  <2>5. MembersReachable'
    BY <1>6 DEF OwnerRequest, Reading, IsOwner, HasOwner, Goto
  <2>6. ChannelClosedOnce'
    BY <1>6 DEF OwnerRequest, Reading, IsOwner, HasOwner, Goto
  <2> QED BY <2>1, <2>2, <2>3, <2>4, <2>5, <2>6
<1>7. ASSUME NEW c \in Conn, RequestRefused(c) PROVE RoomInv'
  BY <1>7 DEF RequestRefused, Reading, AfterSend, Goto
<1>8. ASSUME NEW c \in Conn, OwnerFrame(c) PROVE RoomInv'
  BY <1>8 DEF OwnerFrame, Reading, Goto
<1>9. ASSUME NEW c \in Conn, NoHello(c) PROVE RoomInv'
  BY <1>9 DEF NoHello, Goto
<1>10. ASSUME NEW c \in Conn, RateLimited(c) PROVE RoomInv'
  BY <1>10 DEF RateLimited, Reject, CloseChannel, CloseOf, Goto
<1>11. ASSUME NEW c \in Conn, ClaimSession(c) PROVE RoomInv'
  BY <1>11 DEF ClaimSession, CanClaim, Claimed, Goto
<1>12. ASSUME NEW c \in Conn, ClaimRefused(c) PROVE RoomInv'
  BY <1>12 DEF ClaimRefused, Reject, CloseChannel, CloseOf, Goto
<1>13. ASSUME NEW c \in Conn, CreateRoom(c) PROVE RoomInv'
  BY <1>13 DEF CreateRoom, Goto
<1>14. ASSUME NEW c \in Conn, AddCreator(c) PROVE RoomInv'
  <2>1. CASE CanAdd(rm[c])
    <3>1. MemberInv'
      BY <1>14, <2>1 DEF AddCreator, CanAdd, Add, Goto
    <3>2. TodoInv'
      BY <1>14, <2>1 DEF AddCreator, CanAdd, Add, Goto
    <3>3. OutInv'
      BY <1>14, <2>1 DEF AddCreator, CanAdd, Add, Goto
    <3>4. OwnerIsMember'
      BY <1>14, <2>1 DEF AddCreator, CanAdd, Add, Goto
    <3>5. MembersReachable'
      BY <1>14, <2>1, SMTT(30) DEF AddCreator, CanAdd, Add, Goto
    <3>6. ChannelClosedOnce'
      BY <1>14, <2>1 DEF AddCreator, CanAdd, Add, Goto
    <3> QED BY <3>1, <3>2, <3>3, <3>4, <3>5, <3>6
  <2>2. CASE ~CanAdd(rm[c])
    BY <1>14, <2>2 DEF AddCreator, CanAdd, Add, Goto
  <2> QED BY <2>1, <2>2
<1>15. ASSUME NEW c \in Conn, Welcome(c) PROVE RoomInv'
  BY <1>15 DEF Welcome, AfterSend, Goto
<1>16. ASSUME NEW c \in Conn, Redeem(c) PROVE RoomInv'
  <2>1. CASE tok[c] \in expired
    <3>1. MemberInv'
      BY <1>16, <2>1 DEF Redeem, SetInvites, Consumed, Reject, CloseChannel,
        CloseOf, Goto
    <3>2. TodoInv'
      BY <1>16, <2>1 DEF Redeem, SetInvites, Consumed, Reject, CloseChannel,
        CloseOf, Goto
    <3>3. OutInv'
      BY <1>16, <2>1 DEF Redeem, SetInvites, Consumed, Reject, CloseChannel,
        CloseOf, Goto
    <3>4. OwnerIsMember'
      BY <1>16, <2>1 DEF Redeem, SetInvites, Consumed, Reject, CloseChannel,
        CloseOf, Goto
    <3>5. MembersReachable'
      BY <1>16, <2>1 DEF Redeem, SetInvites, Consumed, Reject, CloseChannel,
        CloseOf, Goto
    <3>6. ChannelClosedOnce'
      BY <1>16, <2>1 DEF Redeem, SetInvites, Consumed, Reject, CloseChannel,
        CloseOf, Goto
    <3> QED BY <3>1, <3>2, <3>3, <3>4, <3>5, <3>6
  <2>2. CASE tok[c] \notin expired
    BY <1>16, <2>2, SMTT(30) DEF Redeem, SetInvites, Consumed, Reject, CloseChannel,
      CloseOf, Goto
  <2> QED BY <2>1, <2>2
<1>17. ASSUME NEW c \in Conn, JoinRefused(c) PROVE RoomInv'
  <2>1. MemberInv'
    BY <1>17 DEF JoinRefused, Reject, CloseChannel, CloseOf, Goto
  <2>2. TodoInv'
    BY <1>17 DEF JoinRefused, Reject, CloseChannel, CloseOf, Goto
  <2>3. OutInv'
    BY <1>17 DEF JoinRefused, Reject, CloseChannel, CloseOf, Goto
  <2>4. OwnerIsMember'
    BY <1>17 DEF JoinRefused, Reject, CloseChannel, CloseOf, Goto
  <2>5. MembersReachable'
    BY <1>17, SMTT(30) DEF JoinRefused, Reject, CloseChannel, CloseOf, Goto
  <2>6. ChannelClosedOnce'
    BY <1>17 DEF JoinRefused, Reject, CloseChannel, CloseOf, Goto
  <2> QED BY <2>1, <2>2, <2>3, <2>4, <2>5, <2>6
<1>18. ASSUME NEW c \in Conn, GetRoom(c) PROVE RoomInv'
  BY <1>18 DEF GetRoom, Goto
<1>19. ASSUME NEW c \in Conn, HasCapacity(c) PROVE RoomInv'
  BY <1>19 DEF HasCapacity, Goto
<1>20. ASSUME NEW c \in Conn, OwnerClient(c) PROVE RoomInv'
  BY <1>20 DEF OwnerClient, HasOwner, Goto
<1>21. ASSUME NEW c \in Conn, NewHandshake(c) PROVE RoomInv'
  BY <1>21 DEF NewHandshake, Goto
<1>22. ASSUME NEW c \in Conn, NotifyOwner(c) PROVE RoomInv'
  BY <1>22 DEF NotifyOwner, AfterSend, Forget, Goto
<1>23. ASSUME NEW c \in Conn, RelayToPeer(c) PROVE RoomInv'
  BY <1>23 DEF RelayToPeer, AfterSend, Forget, Goto
<1>24. ASSUME NEW c \in Conn, EndHandshake(c) PROVE RoomInv'
  BY <1>24 DEF EndHandshake, Goto
<1>25. ASSUME NEW c \in Conn, QuitHandshake(c) PROVE RoomInv'
  BY <1>25, SMTT(30) DEF QuitHandshake, Reject, CloseChannel, CloseOf, Goto
<1>26. ASSUME NEW c \in Conn, CreateInvite(c) PROVE RoomInv'
  BY <1>26 DEF CreateInvite, Goto
<1>27. ASSUME NEW c \in Conn, SendInvite(c) PROVE RoomInv'
  BY <1>27 DEF SendInvite, AfterSend, Goto
<1>28. ASSUME NEW c \in Conn, SetOwner(c) PROVE RoomInv'
  <2>1. CASE Joined(arg[c], rm[c])
    BY <1>28, <2>1 DEF SetOwner, Joined, Goto, Forget
  <2>2. CASE ~Joined(arg[c], rm[c])
    BY <1>28, <2>2 DEF SetOwner, Joined, Goto, Forget
  <2> QED BY <2>1, <2>2
<1>29. ASSUME NEW c \in Conn, Kick(c) PROVE RoomInv'
  <2>1. CASE Kickable(arg[c], rm[c])
    <3>1. MemberInv'
      BY <1>29, <2>1, SMTT(30) DEF Kick, Kickable, Joined, Remove, CloseChannel,
        CloseOf, Goto, Forget
    <3>2. TodoInv'
      BY <1>29, <2>1 DEF Kick, Kickable, Joined, Remove, CloseChannel,
        CloseOf, Goto, Forget
    <3>3. OutInv'
      <4>1. pc[arg[c]] \notin PreJoin
        BY <1>29, <2>1, SMTT(30) DEF Kickable, Joined, Kick
      <4>2. pc' = [pc EXCEPT ![c] = "kickclr"] /\ arg[c] \in Conn
        BY <1>29, <2>1 DEF Kick, Goto
      <4>3. \A x \in Conn \ {arg[c]} : out'[x] = out[x]
        BY <1>29, <2>1, <4>2 DEF Kick, Remove, CloseChannel
      <4> QED BY <4>1, <4>2, <4>3
    <3>4. OwnerIsMember'
      BY <1>29, <2>1 DEF Kick, Kickable, Joined, Remove, CloseChannel,
        CloseOf, Goto, Forget
    <3>5. MembersReachable'
      BY <1>29, <2>1, SMTT(30) DEF Kick, Kickable, Joined, Remove, CloseChannel,
        CloseOf, Goto, Forget
    <3>6. ChannelClosedOnce'
      BY <1>29, <2>1 DEF Kick, Kickable, Joined, Remove, CloseChannel,
        CloseOf, Goto, Forget
    <3> QED BY <3>1, <3>2, <3>3, <3>4, <3>5, <3>6
  <2>2. CASE ~Kickable(arg[c], rm[c])
    BY <1>29, <2>2, SMTT(30) DEF Kick, Kickable, Joined, Remove, CloseChannel, CloseOf,
      Goto, Forget
  <2> QED BY <2>1, <2>2
<1>30. ASSUME NEW c \in Conn, KickClear(c) PROVE RoomInv'
  BY <1>30 DEF KickClear, ClearSessionByClient, Goto, Forget
<1>31. ASSUME NEW c \in Conn, Leave(c) PROVE RoomInv'
  <2>1. CASE ~Joined(c, rm[c])
    BY <1>31, <2>1, SMTT(30) DEF Leave, Joined, Remove, CloseChannel, CloseOf, Goto
  <2>2. CASE Joined(c, rm[c]) /\ c = owner[rm[c]]
    BY <1>31, <2>2, SMTT(30) DEF Leave, Joined, Remove, CloseChannel, CloseOf, Goto
  <2>3. CASE Joined(c, rm[c]) /\ c # owner[rm[c]]
    <3>1. MemberInv'
      <4>1. rm[c] \in Room /\ c \in members[rm[c]] /\ UNCHANGED rm
        BY <1>31, <2>3 DEF Leave, Joined
      <4>2. members' = [members EXCEPT ![rm[c]] = @ \ {c}]
        BY <1>31, <2>3 DEF Leave, Remove
      <4>3. \A x \in Conn \ {c} : pc'[x] = pc[x]
        BY <1>31, <2>3 DEF Leave, Goto
      <4>4. ASSUME NEW q \in Room, NEW x \in members'[q] PROVE x # c /\ x \in members[q]
        BY <4>1, <4>2
      <4> QED BY <4>1, <4>3, <4>4
    <3>2. TodoInv'
      BY <1>31, <2>3 DEF Leave, Joined, Remove, CloseChannel, CloseOf, Goto
    <3>3. OutInv'
      BY <1>31, <2>3 DEF Leave, Joined, Remove, CloseChannel, CloseOf, Goto
    <3>4. OwnerIsMember'
      BY <1>31, <2>3 DEF Leave, Joined, Remove, CloseChannel, CloseOf, Goto
    <3>5. MembersReachable'
      BY <1>31, <2>3 DEF Leave, Joined, Remove, CloseChannel, CloseOf, Goto
    <3>6. ChannelClosedOnce'
      BY <1>31, <2>3 DEF Leave, Joined, Remove, CloseChannel, CloseOf, Goto
    <3> QED BY <3>1, <3>2, <3>3, <3>4, <3>5, <3>6
  <2> QED BY <2>1, <2>2, <2>3
<1>32. ASSUME NEW c \in Conn, OwnerClose(c) PROVE RoomInv'
  <2>1. CASE Closed(rm[c])
    BY <1>32, <2>1 DEF OwnerClose, Detach, Goto
  <2>2. CASE ~Closed(rm[c])
    <3>1. MemberInv'
      BY <1>32, <2>2, SMTT(30) DEF OwnerClose, Detach, Goto
    <3>2. TodoInv'
      <4>1. rm[c] \in Room /\ Detach(rm[c]) /\ UNCHANGED rm /\ pc' = [pc EXCEPT ![c] = "closing"]
        BY <1>32, <2>2 DEF OwnerClose, Goto
      <4>2. ASSUME NEW q \in Room, NEW x \in todo'[q], q = rm[c]
            PROVE  rm'[x] = q /\ phase'[q] \notin {"absent", "open"} /\ pc'[x] \notin PreJoin
        <5>1. x \in members[q] /\ phase'[q] = "unregister"
          BY <4>1, <4>2, DetachEffect
        <5>2. rm[x] = q /\ pc[x] \notin PreJoin /\ x \in Conn
          BY <5>1, SMTT(30)
        <5> QED BY <4>1, <5>1, <5>2
      <4>3. ASSUME NEW q \in Room, NEW x \in todo'[q], q # rm[c]
            PROVE  rm'[x] = q /\ phase'[q] \notin {"absent", "open"} /\ pc'[x] \notin PreJoin
        BY <4>1, <4>3 DEF Detach
      <4> QED BY <4>2, <4>3
    <3>3. OutInv'
      BY <1>32, <2>2 DEF OwnerClose, Detach, Goto
    <3>4. OwnerIsMember'
      BY <1>32, <2>2, SMTT(30) DEF OwnerClose, Detach, Goto
    <3>5. MembersReachable'
      BY <1>32, <2>2 DEF OwnerClose, Detach, Goto
    <3>6. ChannelClosedOnce'
      BY <1>32, <2>2 DEF OwnerClose, Detach, Goto
    <3> QED BY <3>1, <3>2, <3>3, <3>4, <3>5, <3>6
  <2> QED BY <2>1, <2>2
<1>33. ASSUME NEW c \in Conn, OwnerClosed(c) PROVE RoomInv'
  BY <1>33 DEF OwnerClosed, Goto
<1>34. ASSUME NEW c \in Conn, FreeSession(c) PROVE RoomInv'
  BY <1>34 DEF FreeSession, ClearSession, Goto
<1>35. ASSUME NEW c \in Conn, PumpDone(c) PROVE RoomInv'
  BY <1>35 DEF PumpDone, Goto
<1>36. ASSUME NEW c \in Conn, Deferred(c) PROVE RoomInv'
  BY <1>36 DEF Deferred, EndHandshakesFor, ClearSession, Goto
<1>37. ASSUME NEW c \in Conn, AbandonHandshake(c) PROVE RoomInv'
  BY <1>37 DEF AbandonHandshake, Goto
<1>38. ASSUME NEW c \in Conn, EndLoop(c) PROVE RoomInv'
  BY <1>38 DEF EndLoop, Goto
<1>39. ASSUME NEW c \in Conn, PumpDrains(c) PROVE RoomInv'
  BY <1>39 DEF PumpDrains
<1>40. ASSUME NEW c \in Conn, PumpFails(c) PROVE RoomInv'
  BY <1>40 DEF PumpFails
<1>41. ASSUME NEW c \in Conn, PeerDrops(c) PROVE RoomInv'
  BY <1>41 DEF PeerDrops
<1>42. ASSUME NEW r \in Room, RemoveRoom(r) PROVE RoomInv'
  BY <1>42 DEF RemoveRoom
<1>43. ASSUME NEW r \in Room, DropInvites(r) PROVE RoomInv'
  BY <1>43 DEF DropInvites, SetInvites
<1>44. ASSUME NEW r \in Room, CloseMember(r) PROVE RoomInv'
  BY <1>44 DEF CloseMember, ClearSessionByClient, CloseChannel, CloseOf
<1>45. ASSUME NEW r \in Room, CloseDone(r) PROVE RoomInv'
  BY <1>45 DEF CloseDone
<1>46. ASSUME NEW r \in Room, BecomeIdle(r) PROVE RoomInv'
  BY <1>46 DEF BecomeIdle
<1>47. ASSUME NEW t \in Token, Expire(t) PROVE RoomInv'
  BY <1>47 DEF Expire
<1>48. ASSUME NEW w \in Sweeper, Snapshot(w) PROVE RoomInv'
  BY <1>48 DEF Snapshot, Registered
<1>49. ASSUME NEW w \in Sweeper, Visit(w) PROVE RoomInv'
  BY <1>49 DEF Visit
<1>50. ASSUME NEW w \in Sweeper, IdleFor(w) PROVE RoomInv'
  BY <1>50 DEF IdleFor
<1>51. ASSUME NEW w \in Sweeper, SweepClose(w) PROVE RoomInv'
  <2>1. CASE Closed(sroom[w])
    BY <1>51, <2>1 DEF SweepClose, Detach
  <2>2. CASE ~Closed(sroom[w])
    <3>1. MemberInv'
      BY <1>51, <2>2, SMTT(30) DEF SweepClose, Detach
    <3>2. TodoInv'
      <4>1. sroom[w] \in Room /\ Detach(sroom[w]) /\ UNCHANGED rm /\ UNCHANGED pc
        BY <1>51, <2>2 DEF SweepClose, Goto
      <4>2. ASSUME NEW q \in Room, NEW x \in todo'[q], q = sroom[w]
            PROVE  rm'[x] = q /\ phase'[q] \notin {"absent", "open"} /\ pc'[x] \notin PreJoin
        <5>1. x \in members[q] /\ phase'[q] = "unregister"
          BY <4>1, <4>2, DetachEffect
        <5>2. rm[x] = q /\ pc[x] \notin PreJoin /\ x \in Conn
          BY <5>1, SMTT(30)
        <5> QED BY <4>1, <5>1, <5>2
      <4>3. ASSUME NEW q \in Room, NEW x \in todo'[q], q # sroom[w]
            PROVE  rm'[x] = q /\ phase'[q] \notin {"absent", "open"} /\ pc'[x] \notin PreJoin
        BY <4>1, <4>3 DEF Detach
      <4> QED BY <4>2, <4>3
    <3>3. OutInv'
      BY <1>51, <2>2 DEF SweepClose, Detach
    <3>4. OwnerIsMember'
      BY <1>51, <2>2 DEF SweepClose, Detach
    <3>5. MembersReachable'
      BY <1>51, <2>2 DEF SweepClose, Detach
    <3>6. ChannelClosedOnce'
      BY <1>51, <2>2 DEF SweepClose, Detach
    <3> QED BY <3>1, <3>2, <3>3, <3>4, <3>5, <3>6
  <2> QED BY <2>1, <2>2
<1>52. ASSUME NEW w \in Sweeper, SweepClosed(w) PROVE RoomInv'
  BY <1>52 DEF SweepClosed
<1>53. ASSUME NEW w \in Sweeper, SweepEnd(w) PROVE RoomInv'
  BY <1>53 DEF SweepEnd, SetInvites, GcInvites
<1>54. CASE UNCHANGED vars
  BY <1>54 DEF vars
<1> QED BY <1>1, <1>2, <1>3, <1>4, <1>5, <1>6, <1>7, <1>8, <1>9, <1>10, <1>11,
  <1>12, <1>13, <1>14, <1>15, <1>16, <1>17, <1>18, <1>19, <1>20, <1>21, <1>22,
  <1>23, <1>24, <1>25, <1>26, <1>27, <1>28, <1>29, <1>30, <1>31, <1>32, <1>33,
  <1>34, <1>35, <1>36, <1>37, <1>38, <1>39, <1>40, <1>41, <1>42, <1>43, <1>44,
  <1>45, <1>46, <1>47, <1>48, <1>49, <1>50, <1>51, <1>52, <1>53, <1>54 DEF
  Next, Frame, Handler, LoopEnds, CloseStep, Sweep, Quiescent

\* Detaching the members of an open room destroys the abstract one.
LEMMA DetachDestroys ==
  ASSUME TypeOK, NEW r \in Room, ~Closed(r), Detach(r)
  PROVE  RoomAbstract!Next
<1>1. RoomAbstract!Destroy(r)
  BY DEF TypeOK, Phase, Closed, Detach, RoomAbstract!Destroy, RoomStatus
<1> QED BY <1>1 DEF RoomAbstract!Next

\* Every step of the server is a step of the abstract room or leaves it alone.
LEMMA RefineStep ==
  TypeInv /\ RoomInv /\ [Next]_vars =>
    RoomAbstract!Next \/ UNCHANGED <<RoomStatus, members, owner>>
<1> SUFFICES ASSUME TypeInv, RoomInv, [Next]_vars
             PROVE  RoomAbstract!Next \/ UNCHANGED <<RoomStatus, members, owner>>
  OBVIOUS
<1> USE DEF TypeInv, TypeOK, Dereferenced, PreJoin, Serving, Phase, Closed,
  localVars, roomVars, inviteVars, sweepVars
<1>1. ASSUME NEW c \in Conn, ReceiveHello(c)
      PROVE  UNCHANGED <<RoomStatus, members, owner>>
  BY <1>1 DEF ReceiveHello, RoomStatus
<1>2. ASSUME NEW c \in Conn, BadHello(c)
      PROVE  UNCHANGED <<RoomStatus, members, owner>>
  BY <1>2 DEF BadHello, RoomStatus
<1>3. ASSUME NEW c \in Conn, JoinerFrame(c)
      PROVE  UNCHANGED <<RoomStatus, members, owner>>
  BY <1>3 DEF JoinerFrame, RoomStatus
<1>4. ASSUME NEW c \in Conn, Enter(c)
      PROVE  RoomAbstract!Next \/ UNCHANGED <<RoomStatus, members, owner>>
  <2>1. rm[c] \in Room /\ c \notin members[rm[c]]
    BY <1>4 DEF Enter, RoomInv, MemberInv, InRoom
  <2>2. RoomAbstract!Join(rm[c], c)
    <3>1. RoomStatus[rm[c]] = "open" /\ UNCHANGED RoomStatus
      BY <1>4, <2>1 DEF Enter, CanAdd, Add, RoomStatus
    <3>2. CanAdd(rm[c]) /\ Add(c, rm[c])
      BY <1>4 DEF Enter
    <3> QED BY <2>1, <3>1, <3>2 DEF CanAdd, Add, RoomAbstract!Join
  <2> QED BY <2>1, <2>2 DEF RoomAbstract!Next
<1>5. ASSUME NEW c \in Conn, Chat(c)
      PROVE  UNCHANGED <<RoomStatus, members, owner>>
  BY <1>5 DEF Chat, RoomStatus
<1>6. ASSUME NEW c \in Conn, OwnerRequest(c)
      PROVE  UNCHANGED <<RoomStatus, members, owner>>
  BY <1>6 DEF OwnerRequest, RoomStatus
<1>7. ASSUME NEW c \in Conn, RequestRefused(c)
      PROVE  UNCHANGED <<RoomStatus, members, owner>>
  BY <1>7 DEF RequestRefused, RoomStatus
<1>8. ASSUME NEW c \in Conn, OwnerFrame(c)
      PROVE  UNCHANGED <<RoomStatus, members, owner>>
  BY <1>8 DEF OwnerFrame, RoomStatus
<1>9. ASSUME NEW c \in Conn, NoHello(c)
      PROVE  UNCHANGED <<RoomStatus, members, owner>>
  BY <1>9 DEF NoHello, RoomStatus
<1>10. ASSUME NEW c \in Conn, RateLimited(c)
      PROVE  UNCHANGED <<RoomStatus, members, owner>>
  BY <1>10 DEF RateLimited, RoomStatus
<1>11. ASSUME NEW c \in Conn, ClaimSession(c)
      PROVE  UNCHANGED <<RoomStatus, members, owner>>
  BY <1>11 DEF ClaimSession, RoomStatus
<1>12. ASSUME NEW c \in Conn, ClaimRefused(c)
      PROVE  UNCHANGED <<RoomStatus, members, owner>>
  BY <1>12 DEF ClaimRefused, RoomStatus
<1>13. ASSUME NEW c \in Conn, CreateRoom(c)
      PROVE  RoomAbstract!Next \/ UNCHANGED <<RoomStatus, members, owner>>
  <2>1. PICK q \in Room : phase[q] = "absent" /\ phase' = [phase EXCEPT ![q] = "open"]
    BY <1>13 DEF CreateRoom
  <2>2. RoomAbstract!Open(q)
    BY <1>13, <2>1 DEF CreateRoom, RoomAbstract!Open, RoomStatus
  <2> QED BY <2>2 DEF RoomAbstract!Next
<1>14. ASSUME NEW c \in Conn, AddCreator(c)
      PROVE  RoomAbstract!Next \/ UNCHANGED <<RoomStatus, members, owner>>
  <2>1. rm[c] \in Room /\ c \notin members[rm[c]]
    BY <1>14 DEF AddCreator, RoomInv, MemberInv, InRoom
  <2>2. CASE CanAdd(rm[c])
    <3>1. RoomAbstract!Join(rm[c], c)
      <4>1. RoomStatus[rm[c]] = "open" /\ UNCHANGED RoomStatus
        BY <1>14, <2>1, <2>2 DEF AddCreator, CanAdd, Add, RoomStatus
      <4>2. Add(c, rm[c])
        BY <1>14, <2>2 DEF AddCreator
      <4> QED BY <2>1, <2>2, <4>1, <4>2 DEF CanAdd, Add, RoomAbstract!Join
    <3> QED BY <2>1, <3>1 DEF RoomAbstract!Next
  <2>3. CASE ~CanAdd(rm[c])
    BY <1>14, <2>3 DEF AddCreator, RoomStatus
  <2> QED BY <2>2, <2>3
<1>15. ASSUME NEW c \in Conn, Welcome(c)
      PROVE  UNCHANGED <<RoomStatus, members, owner>>
  BY <1>15 DEF Welcome, RoomStatus
<1>16. ASSUME NEW c \in Conn, Redeem(c)
      PROVE  UNCHANGED <<RoomStatus, members, owner>>
  BY <1>16 DEF Redeem, RoomStatus
<1>17. ASSUME NEW c \in Conn, JoinRefused(c)
      PROVE  UNCHANGED <<RoomStatus, members, owner>>
  BY <1>17 DEF JoinRefused, RoomStatus
<1>18. ASSUME NEW c \in Conn, GetRoom(c)
      PROVE  UNCHANGED <<RoomStatus, members, owner>>
  BY <1>18 DEF GetRoom, RoomStatus
<1>19. ASSUME NEW c \in Conn, HasCapacity(c)
      PROVE  UNCHANGED <<RoomStatus, members, owner>>
  BY <1>19 DEF HasCapacity, RoomStatus
<1>20. ASSUME NEW c \in Conn, OwnerClient(c)
      PROVE  UNCHANGED <<RoomStatus, members, owner>>
  BY <1>20 DEF OwnerClient, RoomStatus
<1>21. ASSUME NEW c \in Conn, NewHandshake(c)
      PROVE  UNCHANGED <<RoomStatus, members, owner>>
  BY <1>21 DEF NewHandshake, RoomStatus
<1>22. ASSUME NEW c \in Conn, NotifyOwner(c)
      PROVE  UNCHANGED <<RoomStatus, members, owner>>
  BY <1>22 DEF NotifyOwner, RoomStatus
<1>23. ASSUME NEW c \in Conn, RelayToPeer(c)
      PROVE  UNCHANGED <<RoomStatus, members, owner>>
  BY <1>23 DEF RelayToPeer, RoomStatus
<1>24. ASSUME NEW c \in Conn, EndHandshake(c)
      PROVE  UNCHANGED <<RoomStatus, members, owner>>
  BY <1>24 DEF EndHandshake, RoomStatus
<1>25. ASSUME NEW c \in Conn, QuitHandshake(c)
      PROVE  UNCHANGED <<RoomStatus, members, owner>>
  BY <1>25 DEF QuitHandshake, RoomStatus
<1>26. ASSUME NEW c \in Conn, CreateInvite(c)
      PROVE  UNCHANGED <<RoomStatus, members, owner>>
  BY <1>26 DEF CreateInvite, RoomStatus
<1>27. ASSUME NEW c \in Conn, SendInvite(c)
      PROVE  UNCHANGED <<RoomStatus, members, owner>>
  BY <1>27 DEF SendInvite, RoomStatus
<1>28. ASSUME NEW c \in Conn, SetOwner(c)
      PROVE  RoomAbstract!Next \/ UNCHANGED <<RoomStatus, members, owner>>
  <2>1. rm[c] \in Room /\ arg[c] \in Conn
    BY <1>28 DEF SetOwner
  <2>2. CASE Joined(arg[c], rm[c])
    <3>1. RoomAbstract!Transfer(rm[c], arg[c])
      BY <1>28, <2>1, <2>2 DEF SetOwner, Joined, RoomAbstract!Transfer, RoomStatus,
         RoomInv, OwnerIsMember
    <3> QED BY <2>1, <3>1 DEF RoomAbstract!Next
  <2>3. CASE ~Joined(arg[c], rm[c])
    BY <1>28, <2>3 DEF SetOwner, RoomStatus
  <2> QED BY <2>2, <2>3
<1>29. ASSUME NEW c \in Conn, Kick(c)
      PROVE  RoomAbstract!Next \/ UNCHANGED <<RoomStatus, members, owner>>
  <2>1. rm[c] \in Room /\ arg[c] \in Conn
    BY <1>29 DEF Kick
  <2>2. CASE Kickable(arg[c], rm[c])
    <3>1. RoomAbstract!Depart(rm[c], arg[c])
      BY <1>29, <2>1, <2>2 DEF Kick, Kickable, Joined, Remove, RoomAbstract!Depart,
         RoomStatus, RoomInv, OwnerIsMember
    <3> QED BY <2>1, <3>1 DEF RoomAbstract!Next
  <2>3. CASE ~Kickable(arg[c], rm[c])
    BY <1>29, <2>3 DEF Kick, RoomStatus
  <2> QED BY <2>2, <2>3
<1>30. ASSUME NEW c \in Conn, KickClear(c)
      PROVE  UNCHANGED <<RoomStatus, members, owner>>
  BY <1>30 DEF KickClear, RoomStatus
<1>31. ASSUME NEW c \in Conn, Leave(c)
      PROVE  RoomAbstract!Next \/ UNCHANGED <<RoomStatus, members, owner>>
  <2>1. rm[c] \in Room
    BY <1>31 DEF Leave
  <2>2. CASE Joined(c, rm[c]) /\ c # owner[rm[c]]
    <3>1. RoomAbstract!Depart(rm[c], c)
      BY <1>31, <2>1, <2>2 DEF Leave, Joined, Remove, RoomAbstract!Depart,
         RoomStatus, RoomInv, OwnerIsMember
    <3> QED BY <2>1, <3>1 DEF RoomAbstract!Next
  <2>3. CASE ~(Joined(c, rm[c]) /\ c # owner[rm[c]])
    BY <1>31, <2>3 DEF Leave, RoomStatus
  <2> QED BY <2>2, <2>3
<1>32. ASSUME NEW c \in Conn, OwnerClose(c)
      PROVE  RoomAbstract!Next \/ UNCHANGED <<RoomStatus, members, owner>>
  <2>1. CASE Closed(rm[c])
    BY <1>32, <2>1 DEF OwnerClose, RoomStatus
  <2>2. CASE ~Closed(rm[c])
    BY <1>32, <2>2, DetachDestroys DEF OwnerClose
  <2> QED BY <2>1, <2>2
<1>33. ASSUME NEW c \in Conn, OwnerClosed(c)
      PROVE  UNCHANGED <<RoomStatus, members, owner>>
  BY <1>33 DEF OwnerClosed, RoomStatus
<1>34. ASSUME NEW c \in Conn, FreeSession(c)
      PROVE  UNCHANGED <<RoomStatus, members, owner>>
  BY <1>34 DEF FreeSession, RoomStatus
<1>35. ASSUME NEW c \in Conn, PumpDone(c)
      PROVE  UNCHANGED <<RoomStatus, members, owner>>
  BY <1>35 DEF PumpDone, RoomStatus
<1>36. ASSUME NEW c \in Conn, Deferred(c)
      PROVE  UNCHANGED <<RoomStatus, members, owner>>
  BY <1>36 DEF Deferred, RoomStatus
<1>37. ASSUME NEW c \in Conn, AbandonHandshake(c)
      PROVE  UNCHANGED <<RoomStatus, members, owner>>
  BY <1>37 DEF AbandonHandshake, RoomStatus
<1>38. ASSUME NEW c \in Conn, EndLoop(c)
      PROVE  UNCHANGED <<RoomStatus, members, owner>>
  BY <1>38 DEF EndLoop, RoomStatus
<1>39. ASSUME NEW c \in Conn, PumpDrains(c)
      PROVE  UNCHANGED <<RoomStatus, members, owner>>
  BY <1>39 DEF PumpDrains, RoomStatus
<1>40. ASSUME NEW c \in Conn, PumpFails(c)
      PROVE  UNCHANGED <<RoomStatus, members, owner>>
  BY <1>40 DEF PumpFails, RoomStatus
<1>41. ASSUME NEW c \in Conn, PeerDrops(c)
      PROVE  UNCHANGED <<RoomStatus, members, owner>>
  BY <1>41 DEF PeerDrops, RoomStatus
<1>42. ASSUME NEW r \in Room, RemoveRoom(r)
      PROVE  UNCHANGED <<RoomStatus, members, owner>>
  BY <1>42 DEF RemoveRoom, RoomStatus
<1>43. ASSUME NEW r \in Room, DropInvites(r)
      PROVE  UNCHANGED <<RoomStatus, members, owner>>
  BY <1>43 DEF DropInvites, RoomStatus
<1>44. ASSUME NEW r \in Room, CloseMember(r)
      PROVE  UNCHANGED <<RoomStatus, members, owner>>
  BY <1>44 DEF CloseMember, RoomStatus
<1>45. ASSUME NEW r \in Room, CloseDone(r)
      PROVE  UNCHANGED <<RoomStatus, members, owner>>
  BY <1>45 DEF CloseDone, RoomStatus
<1>46. ASSUME NEW r \in Room, BecomeIdle(r)
      PROVE  UNCHANGED <<RoomStatus, members, owner>>
  BY <1>46 DEF BecomeIdle, RoomStatus
<1>47. ASSUME NEW t \in Token, Expire(t)
      PROVE  UNCHANGED <<RoomStatus, members, owner>>
  BY <1>47 DEF Expire, RoomStatus
<1>48. ASSUME NEW w \in Sweeper, Snapshot(w)
      PROVE  UNCHANGED <<RoomStatus, members, owner>>
  BY <1>48 DEF Snapshot, RoomStatus
<1>49. ASSUME NEW w \in Sweeper, Visit(w)
      PROVE  UNCHANGED <<RoomStatus, members, owner>>
  BY <1>49 DEF Visit, RoomStatus
<1>50. ASSUME NEW w \in Sweeper, IdleFor(w)
      PROVE  UNCHANGED <<RoomStatus, members, owner>>
  BY <1>50 DEF IdleFor, RoomStatus
<1>51. ASSUME NEW w \in Sweeper, SweepClose(w)
      PROVE  RoomAbstract!Next \/ UNCHANGED <<RoomStatus, members, owner>>
  <2>1. CASE Closed(sroom[w])
    BY <1>51, <2>1 DEF SweepClose, RoomStatus
  <2>2. CASE ~Closed(sroom[w])
    BY <1>51, <2>2, DetachDestroys DEF SweepClose
  <2> QED BY <2>1, <2>2
<1>52. ASSUME NEW w \in Sweeper, SweepClosed(w)
      PROVE  UNCHANGED <<RoomStatus, members, owner>>
  BY <1>52 DEF SweepClosed, RoomStatus
<1>53. ASSUME NEW w \in Sweeper, SweepEnd(w)
      PROVE  UNCHANGED <<RoomStatus, members, owner>>
  BY <1>53 DEF SweepEnd, RoomStatus
<1>54. CASE UNCHANGED vars
  BY <1>54 DEF vars, RoomStatus
<1> QED BY <1>1, <1>2, <1>3, <1>4, <1>5, <1>6, <1>7, <1>8, <1>9, <1>10, <1>11,
  <1>12, <1>13, <1>14, <1>15, <1>16, <1>17, <1>18, <1>19, <1>20, <1>21, <1>22,
  <1>23, <1>24, <1>25, <1>26, <1>27, <1>28, <1>29, <1>30, <1>31, <1>32, <1>33,
  <1>34, <1>35, <1>36, <1>37, <1>38, <1>39, <1>40, <1>41, <1>42, <1>43, <1>44,
  <1>45, <1>46, <1>47, <1>48, <1>49, <1>50, <1>51, <1>52, <1>53, <1>54 DEF
  Next, Frame, Handler, LoopEnds, CloseStep, Sweep, Quiescent

\* A room never outgrows MaxRoomSize, by what a room step may do.
LEMMA BoundStep ==
  /\ TypeInv /\ RoomBound
  /\ RoomAbstract!Next \/ UNCHANGED <<RoomStatus, members, owner>>
  => RoomBound'
<1> SUFFICES ASSUME TypeInv, RoomBound,
                    RoomAbstract!Next \/ UNCHANGED <<RoomStatus, members, owner>>,
                    NEW q \in Room
             PROVE  Cardinality(members'[q]) <= MaxRoomSize
  BY DEF RoomBound
<1>1. IsFiniteSet(members[q]) /\ Cardinality(members[q]) \in Nat
  BY ConnAssumption, FS_Subset, FS_CardinalityType DEF TypeInv, TypeOK
<1>2. Cardinality(members[q]) <= MaxRoomSize
  BY DEF RoomBound
<1>3. CASE members'[q] = members[q]
  BY <1>2, <1>3
<1>4. ASSUME NEW c \in Conn, RoomAbstract!Join(q, c)
      PROVE  Cardinality(members'[q]) <= MaxRoomSize
  <2>1. members'[q] = members[q] \cup {c} /\ c \notin members[q]
    BY <1>4 DEF TypeInv, TypeOK, RoomAbstract!Join
  <2>2. Cardinality(members'[q]) = Cardinality(members[q]) + 1
    BY <1>1, <2>1, FS_AddElement
  <2>3. Cardinality(members[q]) < MaxRoomSize
    BY <1>4 DEF RoomAbstract!Join, HasSpace
  <2> QED BY <1>1, <2>2, <2>3, SizeAssumption
<1>5. ASSUME NEW c \in Conn, RoomAbstract!Depart(q, c)
      PROVE  Cardinality(members'[q]) <= MaxRoomSize
  <2>1. members'[q] \subseteq members[q]
    BY <1>5 DEF TypeInv, TypeOK, RoomAbstract!Depart
  <2>2. Cardinality(members'[q]) <= Cardinality(members[q])
    BY <1>1, <2>1, FS_Subset
  <2>3. Cardinality(members'[q]) \in Nat
    BY <1>1, <2>1, FS_Subset, FS_CardinalityType
  <2> QED BY <1>1, <1>2, <2>2, <2>3, SizeAssumption
<1>6. CASE RoomAbstract!Destroy(q)
  <2>1. members'[q] = {}
    BY <1>6 DEF TypeInv, TypeOK, RoomAbstract!Destroy
  <2> QED BY <2>1, FS_EmptySet, SizeAssumption
<1> QED
  BY <1>3, <1>4, <1>5, <1>6 DEF TypeInv, TypeOK, RoomAbstract!Next,
     RoomAbstract!Open, RoomAbstract!Join, RoomAbstract!Depart,
     RoomAbstract!Transfer, RoomAbstract!Destroy

\* Between the ownership check of a handler and its act nobody else can take
\* the ownership away except by destroying the room.
LEMMA GuardStep ==
  TypeInv /\ RoomInv /\ OwnerGuardStable /\ [Next]_vars => OwnerGuardStable'
<1> SUFFICES ASSUME TypeInv, RoomInv, OwnerGuardStable, [Next]_vars PROVE OwnerGuardStable'
  OBVIOUS
<1> USE NoneAssumption
<1> USE DEF TypeInv, TypeOK, Dereferenced, Serving, PreJoin, Closed,
  OwnerGuardStable, RoomInv, MemberInv, OwnerIsMember, localVars, roomVars,
  inviteVars, sweepVars
<1>1. ASSUME NEW c \in Conn, ReceiveHello(c) PROVE OwnerGuardStable'
  BY <1>1 DEF ReceiveHello, Goto, HelloFrame
<1>2. ASSUME NEW c \in Conn, BadHello(c) PROVE OwnerGuardStable'
  BY <1>2 DEF BadHello, Reject, CloseChannel, CloseOf, Goto, HelloFrame
<1>3. ASSUME NEW c \in Conn, JoinerFrame(c) PROVE OwnerGuardStable'
  BY <1>3 DEF JoinerFrame, Goto
<1>4. ASSUME NEW c \in Conn, Enter(c) PROVE OwnerGuardStable'
  BY <1>4 DEF Enter, CanAdd, Add, Goto
<1>5. ASSUME NEW c \in Conn, Chat(c) PROVE OwnerGuardStable'
  BY <1>5 DEF Chat, Reading
<1>6. ASSUME NEW c \in Conn, OwnerRequest(c) PROVE OwnerGuardStable'
  <2>1. UNCHANGED <<rm, phase, members, owner>> /\ IsOwner(c)
    BY <1>6 DEF OwnerRequest
  <2>2. \A x \in Conn \ {c} : pc'[x] = pc[x]
    BY <1>6 DEF OwnerRequest, Goto
  <2> QED BY <2>1, <2>2 DEF IsOwner, HasOwner
<1>7. ASSUME NEW c \in Conn, RequestRefused(c) PROVE OwnerGuardStable'
  BY <1>7 DEF RequestRefused, Reading, AfterSend, Goto
<1>8. ASSUME NEW c \in Conn, OwnerFrame(c) PROVE OwnerGuardStable'
  BY <1>8 DEF OwnerFrame, Reading, Goto
<1>9. ASSUME NEW c \in Conn, NoHello(c) PROVE OwnerGuardStable'
  BY <1>9 DEF NoHello, Goto
<1>10. ASSUME NEW c \in Conn, RateLimited(c) PROVE OwnerGuardStable'
  BY <1>10 DEF RateLimited, Reject, CloseChannel, CloseOf, Goto
<1>11. ASSUME NEW c \in Conn, ClaimSession(c) PROVE OwnerGuardStable'
  BY <1>11 DEF ClaimSession, CanClaim, Claimed, Goto
<1>12. ASSUME NEW c \in Conn, ClaimRefused(c) PROVE OwnerGuardStable'
  BY <1>12 DEF ClaimRefused, Reject, CloseChannel, CloseOf, Goto
<1>13. ASSUME NEW c \in Conn, CreateRoom(c) PROVE OwnerGuardStable'
  BY <1>13 DEF CreateRoom, Goto
<1>14. ASSUME NEW c \in Conn, AddCreator(c) PROVE OwnerGuardStable'
  <2>1. CASE CanAdd(rm[c])
    BY <1>14, <2>1 DEF AddCreator, CanAdd, Add, Goto
  <2>2. CASE ~CanAdd(rm[c])
    BY <1>14, <2>2 DEF AddCreator, CanAdd, Add, Goto
  <2> QED BY <2>1, <2>2
<1>15. ASSUME NEW c \in Conn, Welcome(c) PROVE OwnerGuardStable'
  BY <1>15 DEF Welcome, AfterSend, Goto
<1>16. ASSUME NEW c \in Conn, Redeem(c) PROVE OwnerGuardStable'
  <2>1. CASE tok[c] \in expired
    BY <1>16, <2>1 DEF Redeem, SetInvites, Consumed, Reject, CloseChannel,
      CloseOf, Goto
  <2>2. CASE tok[c] \notin expired
    BY <1>16, <2>2 DEF Redeem, SetInvites, Consumed, Reject, CloseChannel,
      CloseOf, Goto
  <2> QED BY <2>1, <2>2
<1>17. ASSUME NEW c \in Conn, JoinRefused(c) PROVE OwnerGuardStable'
  BY <1>17 DEF JoinRefused, Reject, CloseChannel, CloseOf, Goto
<1>18. ASSUME NEW c \in Conn, GetRoom(c) PROVE OwnerGuardStable'
  BY <1>18 DEF GetRoom, Goto
<1>19. ASSUME NEW c \in Conn, HasCapacity(c) PROVE OwnerGuardStable'
  BY <1>19 DEF HasCapacity, Goto
<1>20. ASSUME NEW c \in Conn, OwnerClient(c) PROVE OwnerGuardStable'
  BY <1>20 DEF OwnerClient, HasOwner, Goto
<1>21. ASSUME NEW c \in Conn, NewHandshake(c) PROVE OwnerGuardStable'
  BY <1>21 DEF NewHandshake, Goto
<1>22. ASSUME NEW c \in Conn, NotifyOwner(c) PROVE OwnerGuardStable'
  BY <1>22 DEF NotifyOwner, AfterSend, Forget, Goto
<1>23. ASSUME NEW c \in Conn, RelayToPeer(c) PROVE OwnerGuardStable'
  BY <1>23 DEF RelayToPeer, AfterSend, Forget, Goto
<1>24. ASSUME NEW c \in Conn, EndHandshake(c) PROVE OwnerGuardStable'
  BY <1>24 DEF EndHandshake, Goto
<1>25. ASSUME NEW c \in Conn, QuitHandshake(c) PROVE OwnerGuardStable'
  BY <1>25 DEF QuitHandshake, Reject, CloseChannel, CloseOf, Goto
<1>26. ASSUME NEW c \in Conn, CreateInvite(c) PROVE OwnerGuardStable'
  BY <1>26 DEF CreateInvite, Goto
<1>27. ASSUME NEW c \in Conn, SendInvite(c) PROVE OwnerGuardStable'
  BY <1>27 DEF SendInvite, AfterSend, Goto
<1>28. ASSUME NEW c \in Conn, SetOwner(c) PROVE OwnerGuardStable'
  <2>1. CASE Joined(arg[c], rm[c])
    BY <1>28, <2>1 DEF SetOwner, Joined, Goto, Forget
  <2>2. CASE ~Joined(arg[c], rm[c])
    BY <1>28, <2>2 DEF SetOwner, Joined, Goto, Forget
  <2> QED BY <2>1, <2>2
<1>29. ASSUME NEW c \in Conn, Kick(c) PROVE OwnerGuardStable'
  <2>1. CASE Kickable(arg[c], rm[c])
    BY <1>29, <2>1 DEF Kick, Kickable, Joined, Remove, CloseChannel, CloseOf,
      Goto, Forget
  <2>2. CASE ~Kickable(arg[c], rm[c])
    BY <1>29, <2>2 DEF Kick, Kickable, Joined, Remove, CloseChannel, CloseOf,
      Goto, Forget
  <2> QED BY <2>1, <2>2
<1>30. ASSUME NEW c \in Conn, KickClear(c) PROVE OwnerGuardStable'
  BY <1>30 DEF KickClear, ClearSessionByClient, Goto, Forget
<1>31. ASSUME NEW c \in Conn, Leave(c) PROVE OwnerGuardStable'
  <2>1. CASE ~Joined(c, rm[c])
    BY <1>31, <2>1 DEF Leave, Joined, Remove, CloseChannel, CloseOf, Goto
  <2>2. CASE Joined(c, rm[c]) /\ c = owner[rm[c]]
    BY <1>31, <2>2 DEF Leave, Joined, Remove, CloseChannel, CloseOf, Goto
  <2>3. CASE Joined(c, rm[c]) /\ c # owner[rm[c]]
    BY <1>31, <2>3 DEF Leave, Joined, Remove, CloseChannel, CloseOf, Goto
  <2> QED BY <2>1, <2>2, <2>3
<1>32. ASSUME NEW c \in Conn, OwnerClose(c) PROVE OwnerGuardStable'
  <2>1. CASE Closed(rm[c])
    BY <1>32, <2>1 DEF OwnerClose, Detach, Goto
  <2>2. CASE ~Closed(rm[c])
    BY <1>32, <2>2 DEF OwnerClose, Detach, Goto
  <2> QED BY <2>1, <2>2
<1>33. ASSUME NEW c \in Conn, OwnerClosed(c) PROVE OwnerGuardStable'
  BY <1>33 DEF OwnerClosed, Goto
<1>34. ASSUME NEW c \in Conn, FreeSession(c) PROVE OwnerGuardStable'
  BY <1>34 DEF FreeSession, ClearSession, Goto
<1>35. ASSUME NEW c \in Conn, PumpDone(c) PROVE OwnerGuardStable'
  BY <1>35 DEF PumpDone, Goto
<1>36. ASSUME NEW c \in Conn, Deferred(c) PROVE OwnerGuardStable'
  BY <1>36 DEF Deferred, EndHandshakesFor, ClearSession, Goto
<1>37. ASSUME NEW c \in Conn, AbandonHandshake(c) PROVE OwnerGuardStable'
  BY <1>37 DEF AbandonHandshake, Goto
<1>38. ASSUME NEW c \in Conn, EndLoop(c) PROVE OwnerGuardStable'
  BY <1>38 DEF EndLoop, Goto
<1>39. ASSUME NEW c \in Conn, PumpDrains(c) PROVE OwnerGuardStable'
  BY <1>39 DEF PumpDrains
<1>40. ASSUME NEW c \in Conn, PumpFails(c) PROVE OwnerGuardStable'
  BY <1>40 DEF PumpFails
<1>41. ASSUME NEW c \in Conn, PeerDrops(c) PROVE OwnerGuardStable'
  BY <1>41 DEF PeerDrops
<1>42. ASSUME NEW r \in Room, RemoveRoom(r) PROVE OwnerGuardStable'
  BY <1>42 DEF RemoveRoom
<1>43. ASSUME NEW r \in Room, DropInvites(r) PROVE OwnerGuardStable'
  BY <1>43 DEF DropInvites, SetInvites
<1>44. ASSUME NEW r \in Room, CloseMember(r) PROVE OwnerGuardStable'
  BY <1>44 DEF CloseMember, ClearSessionByClient, CloseChannel, CloseOf
<1>45. ASSUME NEW r \in Room, CloseDone(r) PROVE OwnerGuardStable'
  BY <1>45 DEF CloseDone
<1>46. ASSUME NEW r \in Room, BecomeIdle(r) PROVE OwnerGuardStable'
  BY <1>46 DEF BecomeIdle
<1>47. ASSUME NEW t \in Token, Expire(t) PROVE OwnerGuardStable'
  BY <1>47 DEF Expire
<1>48. ASSUME NEW w \in Sweeper, Snapshot(w) PROVE OwnerGuardStable'
  BY <1>48 DEF Snapshot, Registered
<1>49. ASSUME NEW w \in Sweeper, Visit(w) PROVE OwnerGuardStable'
  BY <1>49 DEF Visit
<1>50. ASSUME NEW w \in Sweeper, IdleFor(w) PROVE OwnerGuardStable'
  BY <1>50 DEF IdleFor
<1>51. ASSUME NEW w \in Sweeper, SweepClose(w) PROVE OwnerGuardStable'
  <2>1. CASE Closed(sroom[w])
    BY <1>51, <2>1 DEF SweepClose, Detach
  <2>2. CASE ~Closed(sroom[w])
    BY <1>51, <2>2 DEF SweepClose, Detach
  <2> QED BY <2>1, <2>2
<1>52. ASSUME NEW w \in Sweeper, SweepClosed(w) PROVE OwnerGuardStable'
  BY <1>52 DEF SweepClosed
<1>53. ASSUME NEW w \in Sweeper, SweepEnd(w) PROVE OwnerGuardStable'
  BY <1>53 DEF SweepEnd, SetInvites, GcInvites
<1>54. CASE UNCHANGED vars
  BY <1>54 DEF vars
<1> QED BY <1>1, <1>2, <1>3, <1>4, <1>5, <1>6, <1>7, <1>8, <1>9, <1>10, <1>11,
  <1>12, <1>13, <1>14, <1>15, <1>16, <1>17, <1>18, <1>19, <1>20, <1>21, <1>22,
  <1>23, <1>24, <1>25, <1>26, <1>27, <1>28, <1>29, <1>30, <1>31, <1>32, <1>33,
  <1>34, <1>35, <1>36, <1>37, <1>38, <1>39, <1>40, <1>41, <1>42, <1>43, <1>44,
  <1>45, <1>46, <1>47, <1>48, <1>49, <1>50, <1>51, <1>52, <1>53, <1>54 DEF
  Next, Frame, Handler, LoopEnds, CloseStep, Sweep, Quiescent

\* The invariant on membership, ownership and channels.
THEOREM RoomInvariant == Spec => [](TypeInv /\ RoomInv)
<1>1. Init => TypeInv /\ RoomInv
  BY TypeInit, RoomInit
<1>2. TypeInv /\ RoomInv /\ [Next]_vars => (TypeInv /\ RoomInv)'
  BY TypeStep, RoomStep
<1> QED BY <1>1, <1>2, PTL DEF Spec

\* Somebody in the room always owns it; a destroyed room is empty.
THEOREM OwnerAlwaysMember == Spec => []OwnerIsMember
<1>1. RoomInv => OwnerIsMember
  BY DEF RoomInv
<1> QED BY <1>1, RoomInvariant, PTL

\* No broadcast and no teardown ever sends on a closed channel.
THEOREM MembersAlwaysReachable == Spec => []MembersReachable
<1>1. RoomInv => MembersReachable
  BY DEF RoomInv
<1> QED BY <1>1, RoomInvariant, PTL

\* No interleaving of handlers, kicks and teardowns closes a channel twice.
THEOREM NoDoubleClose == Spec => []ChannelClosedOnce
<1>1. RoomInv => ChannelClosedOnce
  BY DEF RoomInv
<1> QED BY <1>1, RoomInvariant, PTL

\* The server implements the abstract room: Close, kick, leave, enter and
\* transfer each take effect on the room in one step.
THEOREM Refinement == Spec => RefinesRoomSpec
<1>1. Init => RoomAbstract!Init
  BY DEF Init, RoomAbstract!Init, RoomStatus
<1>2. TypeInv /\ RoomInv /\ [Next]_vars
        => [RoomAbstract!Next]_(RoomAbstract!roomSpecVars)
  BY RefineStep DEF RoomAbstract!roomSpecVars
<1> QED BY <1>1, <1>2, RoomInvariant, PTL DEF Spec, RefinesRoomSpec, RoomAbstract!Spec

\* No race of joiners past HasCapacity overfills a room of any size limit.
THEOREM NeverOverfull == Spec => []RoomBound
<1>1. Init => RoomBound
  BY FS_EmptySet, SizeAssumption DEF Init, RoomBound
<1>2. TypeInv /\ RoomInv /\ RoomBound /\ [Next]_vars => RoomBound'
  BY BoundStep, RefineStep
<1> QED BY <1>1, <1>2, RoomInvariant, PTL DEF Spec

\* The ownership checks of handleInvite, handleTransfer and handleKick still
\* hold when the handler acts on them, unless the room is gone.
THEOREM OwnerGuardSafe == Spec => []OwnerGuardStable
<1>1. Init => OwnerGuardStable
  BY DEF Init, OwnerGuardStable
<1>2. TypeInv /\ RoomInv /\ OwnerGuardStable /\ [Next]_vars => OwnerGuardStable'
  BY GuardStep
<1> QED BY <1>1, <1>2, RoomInvariant, PTL DEF Spec
=============================================================================
