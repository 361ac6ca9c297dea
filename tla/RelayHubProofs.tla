-------------------------- MODULE RelayHubProofs ---------------------------
(***************************************************************************)
(* The hub: session claims, invite tokens and handshakes.  Each part of    *)
(* the invariant is preserved by every step given the parts on types and   *)
(* rooms; together they give IndInv and the properties of the hub.         *)
(***************************************************************************)
EXTENDS RelayRoomProofs

\* A handler that moves on while no room gains a member keeps the claims right.
LEMMA HoldKept ==
  ASSUME TypeOK, HoldInv, NEW c \in Conn, NEW l \in Location \ Claiming,
         pc[c] \notin {"defer", "done"}, pc' = [pc EXCEPT ![c] = l],
         UNCHANGED <<sess, claim>>,
         \A r \in Room : members'[r] \subseteq members[r]
  PROVE  HoldInv'
BY DEF TypeOK, HoldInv

\* Nobody comes back into a room while the kick releases his session.
LEMMA KickKept ==
  ASSUME TypeOK, KickInv, NEW c \in Conn, NEW l \in Location \ PreJoin,
         l # "kickclr", pc' = [pc EXCEPT ![c] = l], UNCHANGED arg,
         \A r \in Room : members'[r] \subseteq members[r]
  PROVE  KickInv'
BY DEF TypeOK, KickInv

\* Every step keeps the claims of Hub.sessions with the handlers they serve.
LEMMA ClaimStep ==
  TypeInv /\ RoomInv /\ ClaimInv /\ [Next]_vars => ClaimInv'
<1> SUFFICES ASSUME TypeInv, RoomInv, ClaimInv, [Next]_vars PROVE ClaimInv'
  OBVIOUS
<1> USE NoneAssumption, HelloAssumption
<1> USE DEF TypeInv, TypeOK, Dereferenced, Location, PreJoin, Serving,
  Exiting, localVars, roomVars, inviteVars, sweepVars, RoomInv, MemberInv,
  TodoInv, OwnerIsMember, InRoom, Closed, ClaimInv, NoStaleClaim, HoldInv,
  KickInv, Claiming
<1>1. ASSUME NEW c \in Conn, ReceiveHello(c) PROVE ClaimInv'
  <2>1. NoStaleClaim'
    BY <1>1 DEF ReceiveHello, Goto, HelloFrame
  <2>2. HoldInv'
    BY <1>1, SMTT(30) DEF ReceiveHello, Goto, HelloFrame
  <2>3. KickInv'
    BY <1>1, SMTT(30) DEF ReceiveHello, Goto, HelloFrame
  <2> QED BY <2>1, <2>2, <2>3
<1>2. ASSUME NEW c \in Conn, BadHello(c) PROVE ClaimInv'
  BY <1>2, SMTT(30) DEF BadHello, Reject, CloseChannel, CloseOf, Goto, HelloFrame
<1>3. ASSUME NEW c \in Conn, JoinerFrame(c) PROVE ClaimInv'
  BY <1>3 DEF JoinerFrame, Goto
<1>4. ASSUME NEW c \in Conn, Enter(c) PROVE ClaimInv'
  BY <1>4 DEF Enter, CanAdd, Add, Goto
<1>5. ASSUME NEW c \in Conn, Chat(c) PROVE ClaimInv'
  BY <1>5 DEF Chat, Reading
<1>6. ASSUME NEW c \in Conn, OwnerRequest(c) PROVE ClaimInv'
  <2>1. NoStaleClaim'
    BY <1>6 DEF OwnerRequest, Reading, Goto
  <2>2. HoldInv'
    <3>1. PICK l \in {"mint", "setowner", "kick"} : pc' = [pc EXCEPT ![c] = l]
      BY <1>6 DEF OwnerRequest, Goto
    <3> QED BY <1>6, <3>1, HoldKept DEF OwnerRequest, Reading
  <2>3. KickInv'
    BY <1>6, SMTT(30) DEF OwnerRequest, Reading, IsOwner, HasOwner, Goto
  <2> QED BY <2>1, <2>2, <2>3
<1>7. ASSUME NEW c \in Conn, RequestRefused(c) PROVE ClaimInv'
  BY <1>7 DEF RequestRefused, Reading, AfterSend, Goto
<1>8. ASSUME NEW c \in Conn, OwnerFrame(c) PROVE ClaimInv'
  BY <1>8 DEF OwnerFrame, Reading, Goto
<1>9. ASSUME NEW c \in Conn, NoHello(c) PROVE ClaimInv'
  BY <1>9 DEF NoHello, Goto
<1>10. ASSUME NEW c \in Conn, RateLimited(c) PROVE ClaimInv'
  BY <1>10 DEF RateLimited, Reject, CloseChannel, CloseOf, Goto
<1>11. ASSUME NEW c \in Conn, ClaimSession(c) PROVE ClaimInv'
  BY <1>11 DEF ClaimSession, CanClaim, Claimed, Goto
<1>12. ASSUME NEW c \in Conn, ClaimRefused(c) PROVE ClaimInv'
  BY <1>12 DEF ClaimRefused, Reject, CloseChannel, CloseOf, Goto
<1>13. ASSUME NEW c \in Conn, CreateRoom(c) PROVE ClaimInv'
  BY <1>13 DEF CreateRoom, Goto
<1>14. ASSUME NEW c \in Conn, AddCreator(c) PROVE ClaimInv'
  <2>1. CASE CanAdd(rm[c])
    <3>1. NoStaleClaim'
      BY <1>14, <2>1 DEF AddCreator, CanAdd, Add, Goto
    <3>2. HoldInv'
      BY <1>14, <2>1 DEF AddCreator, CanAdd, Add, Goto
    <3>3. KickInv'
      BY <1>14, <2>1, SMTT(30) DEF AddCreator, CanAdd, Add, Goto
    <3> QED BY <3>1, <3>2, <3>3
  <2>2. CASE ~CanAdd(rm[c])
    BY <1>14, <2>2 DEF AddCreator, CanAdd, Add, Goto
  <2> QED BY <2>1, <2>2
<1>15. ASSUME NEW c \in Conn, Welcome(c) PROVE ClaimInv'
  BY <1>15 DEF Welcome, AfterSend, Goto
<1>16. ASSUME NEW c \in Conn, Redeem(c) PROVE ClaimInv'
  <2>1. CASE tok[c] \in expired
    <3>1. NoStaleClaim'
      BY <1>16, <2>1 DEF Redeem, SetInvites, Consumed, Reject, CloseChannel,
        CloseOf, Goto
    <3>2. HoldInv'
      BY <1>16, <2>1 DEF Redeem, SetInvites, Consumed, Reject, CloseChannel,
        CloseOf, Goto
    <3>3. KickInv'
      BY <1>16, <2>1 DEF Redeem, SetInvites, Consumed, Reject, CloseChannel,
        CloseOf, Goto
    <3> QED BY <3>1, <3>2, <3>3
  <2>2. CASE tok[c] \notin expired
    <3>1. NoStaleClaim'
      BY <1>16, <2>2 DEF Redeem, SetInvites, Consumed, Reject, CloseChannel,
        CloseOf, Goto
    <3>2. HoldInv'
      BY <1>16, <2>2 DEF Redeem, SetInvites, Consumed, Reject, CloseChannel,
        CloseOf, Goto
    <3>3. KickInv'
      BY <1>16, <2>2 DEF Redeem, SetInvites, Consumed, Reject, CloseChannel,
        CloseOf, Goto
    <3> QED BY <3>1, <3>2, <3>3
  <2> QED BY <2>1, <2>2
<1>17. ASSUME NEW c \in Conn, JoinRefused(c) PROVE ClaimInv'
  BY <1>17 DEF JoinRefused, Reject, CloseChannel, CloseOf, Goto
<1>18. ASSUME NEW c \in Conn, GetRoom(c) PROVE ClaimInv'
  BY <1>18 DEF GetRoom, Goto
<1>19. ASSUME NEW c \in Conn, HasCapacity(c) PROVE ClaimInv'
  BY <1>19 DEF HasCapacity, Goto
<1>20. ASSUME NEW c \in Conn, OwnerClient(c) PROVE ClaimInv'
  BY <1>20 DEF OwnerClient, HasOwner, Goto
<1>21. ASSUME NEW c \in Conn, NewHandshake(c) PROVE ClaimInv'
  BY <1>21 DEF NewHandshake, Goto
<1>22. ASSUME NEW c \in Conn, NotifyOwner(c) PROVE ClaimInv'
  BY <1>22 DEF NotifyOwner, AfterSend, Forget, Goto
<1>23. ASSUME NEW c \in Conn, RelayToPeer(c) PROVE ClaimInv'
  BY <1>23 DEF RelayToPeer, AfterSend, Forget, Goto
<1>24. ASSUME NEW c \in Conn, EndHandshake(c) PROVE ClaimInv'
  BY <1>24 DEF EndHandshake, Goto
<1>25. ASSUME NEW c \in Conn, QuitHandshake(c) PROVE ClaimInv'
  BY <1>25 DEF QuitHandshake, Reject, CloseChannel, CloseOf, Goto
<1>26. ASSUME NEW c \in Conn, CreateInvite(c) PROVE ClaimInv'
  BY <1>26 DEF CreateInvite, Goto
<1>27. ASSUME NEW c \in Conn, SendInvite(c) PROVE ClaimInv'
  BY <1>27 DEF SendInvite, AfterSend, Goto
<1>28. ASSUME NEW c \in Conn, SetOwner(c) PROVE ClaimInv'
  <2>1. CASE Joined(arg[c], rm[c])
    BY <1>28, <2>1 DEF SetOwner, Joined, Goto, Forget
  <2>2. CASE ~Joined(arg[c], rm[c])
    BY <1>28, <2>2 DEF SetOwner, Joined, Goto, Forget
  <2> QED BY <2>1, <2>2
<1>29. ASSUME NEW c \in Conn, Kick(c) PROVE ClaimInv'
  <2>1. CASE Kickable(arg[c], rm[c])
    <3>1. NoStaleClaim'
      BY <1>29, <2>1 DEF Kick, Kickable, Joined, Remove, CloseChannel,
        CloseOf, Goto, Forget
    <3>2. HoldInv'
      <4>1. pc' = [pc EXCEPT ![c] = "kickclr"] /\ pc[c] = "kick" /\ UNCHANGED <<sess, claim>>
        BY <1>29, <2>1 DEF Kick, Goto
      <4>2. \A r \in Room : members'[r] \subseteq members[r]
        BY <1>29, <2>1 DEF Kick, Remove
      <4> QED BY <4>1, <4>2, HoldKept
    <3>3. KickInv'
      <4>1. pc' = [pc EXCEPT ![c] = "kickclr"] /\ pc[c] = "kick" /\ UNCHANGED arg
        BY <1>29, <2>1 DEF Kick, Goto
      <4>2. /\ \A r \in Room : members'[r] \subseteq members[r]
            /\ arg[c] \notin members'[rm[c]]
        BY <1>29, <2>1 DEF Kick, Remove
      <4>3. /\ arg[c] \in Conn /\ pc[arg[c]] \notin PreJoin
            /\ \A r \in Room : arg[c] \in members[r] => r = rm[c]
        BY <1>29, <2>1, SMTT(30) DEF Kick, Kickable, Joined
      <4>4. \A r \in Room : arg[c] \notin members'[r]
        BY <4>2, <4>3
      <4> QED BY <4>1, <4>2, <4>3, <4>4
    <3> QED BY <3>1, <3>2, <3>3
  <2>2. CASE ~Kickable(arg[c], rm[c])
    <3>1. NoStaleClaim'
      BY <1>29, <2>2 DEF Kick, Kickable, Joined, Remove, CloseChannel,
        CloseOf, Goto, Forget
    <3>2. HoldInv'
      BY <1>29, <2>2, SMTT(30) DEF Kick, Kickable, Joined, Remove, CloseChannel,
        CloseOf, Goto, Forget
    <3>3. KickInv'
      BY <1>29, <2>2, SMTT(30) DEF Kick, Kickable, Joined, Remove, CloseChannel,
        CloseOf, Goto, Forget
    <3> QED BY <3>1, <3>2, <3>3
  <2> QED BY <2>1, <2>2
<1>30. ASSUME NEW c \in Conn, KickClear(c) PROVE ClaimInv'
  BY <1>30 DEF KickClear, ClearSessionByClient, Goto, Forget
<1>31. ASSUME NEW c \in Conn, Leave(c) PROVE ClaimInv'
  <2>1. CASE ~Joined(c, rm[c])
    BY <1>31, <2>1, SMTT(30) DEF Leave, Joined, Remove, CloseChannel, CloseOf, Goto
  <2>2. CASE Joined(c, rm[c]) /\ c = owner[rm[c]]
    BY <1>31, <2>2, SMTT(30) DEF Leave, Joined, Remove, CloseChannel, CloseOf, Goto
  <2>3. CASE Joined(c, rm[c]) /\ c # owner[rm[c]]
    <3>1. NoStaleClaim'
      BY <1>31, <2>3 DEF Leave, Joined, Remove, CloseChannel, CloseOf, Goto
    <3>2. HoldInv'
      <4>1. /\ pc[c] = "leave" /\ UNCHANGED <<sess, claim>>
            /\ pc' = [pc EXCEPT ![c] = IF members[rm[c]] = {c} THEN "close" ELSE "clrsess"]
        BY <1>31, <2>3 DEF Leave, Goto
      <4>2. \A r \in Room : members'[r] \subseteq members[r]
        <5>1. Remove(c, rm[c])
          BY <1>31, <2>3 DEF Leave
        <5> QED BY <5>1 DEF Remove
      <4> QED BY <4>1, <4>2, HoldKept
    <3>3. KickInv'
      BY <1>31, <2>3 DEF Leave, Joined, Remove, CloseChannel, CloseOf, Goto
    <3> QED BY <3>1, <3>2, <3>3
  <2> QED BY <2>1, <2>2, <2>3
<1>32. ASSUME NEW c \in Conn, OwnerClose(c) PROVE ClaimInv'
  <2>1. CASE Closed(rm[c])
    BY <1>32, <2>1, SMTT(30) DEF OwnerClose, Detach, Goto
  <2>2. CASE ~Closed(rm[c])
    <3>1. NoStaleClaim'
      BY <1>32, <2>2 DEF OwnerClose, Detach, Goto
    <3>2. HoldInv'
      <4>1. pc' = [pc EXCEPT ![c] = "closing"] /\ pc[c] = "close" /\ UNCHANGED <<sess, claim>>
        BY <1>32, <2>2 DEF OwnerClose, Goto
      <4>2. \A r \in Room : members'[r] \subseteq members[r]
        BY <1>32, <2>2 DEF OwnerClose, Detach
      <4> QED BY <4>1, <4>2, HoldKept
    <3>3. KickInv'
      <4>1. pc' = [pc EXCEPT ![c] = "closing"] /\ pc[c] = "close" /\ UNCHANGED arg
        BY <1>32, <2>2 DEF OwnerClose, Goto
      <4>2. \A r \in Room : members'[r] \subseteq members[r]
        BY <1>32, <2>2 DEF OwnerClose, Detach
      <4> QED BY <4>1, <4>2, KickKept
    <3> QED BY <3>1, <3>2, <3>3
  <2> QED BY <2>1, <2>2
<1>33. ASSUME NEW c \in Conn, OwnerClosed(c) PROVE ClaimInv'
  BY <1>33 DEF OwnerClosed, Goto
<1>34. ASSUME NEW c \in Conn, FreeSession(c) PROVE ClaimInv'
  <2>1. NoStaleClaim'
    BY <1>34 DEF FreeSession, ClearSession, Goto
  <2>2. HoldInv'
    BY <1>34 DEF FreeSession, ClearSession, Goto
  <2>3. KickInv'
    BY <1>34 DEF FreeSession, ClearSession, Goto
  <2> QED BY <2>1, <2>2, <2>3
<1>35. ASSUME NEW c \in Conn, PumpDone(c) PROVE ClaimInv'
  BY <1>35 DEF PumpDone, Goto
<1>36. ASSUME NEW c \in Conn, Deferred(c) PROVE ClaimInv'
  BY <1>36 DEF Deferred, EndHandshakesFor, ClearSession, Goto
<1>37. ASSUME NEW c \in Conn, AbandonHandshake(c) PROVE ClaimInv'
  BY <1>37 DEF AbandonHandshake, Goto
<1>38. ASSUME NEW c \in Conn, EndLoop(c) PROVE ClaimInv'
  BY <1>38 DEF EndLoop, Goto
<1>39. ASSUME NEW c \in Conn, PumpDrains(c) PROVE ClaimInv'
  BY <1>39 DEF PumpDrains
<1>40. ASSUME NEW c \in Conn, PumpFails(c) PROVE ClaimInv'
  BY <1>40 DEF PumpFails
<1>41. ASSUME NEW c \in Conn, PeerDrops(c) PROVE ClaimInv'
  BY <1>41 DEF PeerDrops
<1>42. ASSUME NEW r \in Room, RemoveRoom(r) PROVE ClaimInv'
  BY <1>42 DEF RemoveRoom
<1>43. ASSUME NEW r \in Room, DropInvites(r) PROVE ClaimInv'
  BY <1>43 DEF DropInvites, SetInvites
<1>44. ASSUME NEW r \in Room, CloseMember(r) PROVE ClaimInv'
  BY <1>44 DEF CloseMember, ClearSessionByClient, CloseChannel, CloseOf
<1>45. ASSUME NEW r \in Room, CloseDone(r) PROVE ClaimInv'
  BY <1>45 DEF CloseDone
<1>46. ASSUME NEW r \in Room, BecomeIdle(r) PROVE ClaimInv'
  BY <1>46 DEF BecomeIdle
<1>47. ASSUME NEW t \in Token, Expire(t) PROVE ClaimInv'
  BY <1>47 DEF Expire
<1>48. ASSUME NEW w \in Sweeper, Snapshot(w) PROVE ClaimInv'
  BY <1>48 DEF Snapshot, Registered
<1>49. ASSUME NEW w \in Sweeper, Visit(w) PROVE ClaimInv'
  BY <1>49 DEF Visit
<1>50. ASSUME NEW w \in Sweeper, IdleFor(w) PROVE ClaimInv'
  BY <1>50 DEF IdleFor
<1>51. ASSUME NEW w \in Sweeper, SweepClose(w) PROVE ClaimInv'
  <2>1. CASE Closed(sroom[w])
    BY <1>51, <2>1 DEF SweepClose, Detach
  <2>2. CASE ~Closed(sroom[w])
    BY <1>51, <2>2, SMTT(30) DEF SweepClose, Detach
  <2> QED BY <2>1, <2>2
<1>52. ASSUME NEW w \in Sweeper, SweepClosed(w) PROVE ClaimInv'
  BY <1>52 DEF SweepClosed
<1>53. ASSUME NEW w \in Sweeper, SweepEnd(w) PROVE ClaimInv'
  BY <1>53 DEF SweepEnd, SetInvites, GcInvites
<1>54. CASE UNCHANGED vars
  BY <1>54 DEF vars
<1> QED BY <1>1, <1>2, <1>3, <1>4, <1>5, <1>6, <1>7, <1>8, <1>9, <1>10, <1>11,
  <1>12, <1>13, <1>14, <1>15, <1>16, <1>17, <1>18, <1>19, <1>20, <1>21, <1>22,
  <1>23, <1>24, <1>25, <1>26, <1>27, <1>28, <1>29, <1>30, <1>31, <1>32, <1>33,
  <1>34, <1>35, <1>36, <1>37, <1>38, <1>39, <1>40, <1>41, <1>42, <1>43, <1>44,
  <1>45, <1>46, <1>47, <1>48, <1>49, <1>50, <1>51, <1>52, <1>53, <1>54 DEF
  Next, Frame, Handler, LoopEnds, CloseStep, Sweep, Quiescent

\* Every step keeps an invite token with at most one redeemer.
LEMMA TokenStep ==
  TypeInv /\ TokenInv /\ [Next]_vars => TokenInv'
<1> SUFFICES ASSUME TypeInv, TokenInv, [Next]_vars PROVE TokenInv'
  OBVIOUS
<1> USE NoneAssumption, HelloAssumption
<1> USE DEF TypeInv, TypeOK, Dereferenced, Location, PreJoin, Serving,
  Exiting, localVars, roomVars, inviteVars, sweepVars, TokenInv, SingleUse
<1>1. ASSUME NEW c \in Conn, ReceiveHello(c) PROVE TokenInv'
  BY <1>1 DEF ReceiveHello, Goto, HelloFrame
<1>2. ASSUME NEW c \in Conn, BadHello(c) PROVE TokenInv'
  BY <1>2 DEF BadHello, Reject, CloseChannel, CloseOf, Goto, HelloFrame
<1>3. ASSUME NEW c \in Conn, JoinerFrame(c) PROVE TokenInv'
  BY <1>3 DEF JoinerFrame, Goto
<1>4. ASSUME NEW c \in Conn, Enter(c) PROVE TokenInv'
  BY <1>4 DEF Enter, CanAdd, Add, Goto
<1>5. ASSUME NEW c \in Conn, Chat(c) PROVE TokenInv'
  BY <1>5 DEF Chat, Reading
<1>6. ASSUME NEW c \in Conn, OwnerRequest(c) PROVE TokenInv'
  BY <1>6 DEF OwnerRequest, Reading, IsOwner, HasOwner, Goto
<1>7. ASSUME NEW c \in Conn, RequestRefused(c) PROVE TokenInv'
  BY <1>7 DEF RequestRefused, Reading, AfterSend, Goto
<1>8. ASSUME NEW c \in Conn, OwnerFrame(c) PROVE TokenInv'
  BY <1>8 DEF OwnerFrame, Reading, Goto
<1>9. ASSUME NEW c \in Conn, NoHello(c) PROVE TokenInv'
  BY <1>9 DEF NoHello, Goto
<1>10. ASSUME NEW c \in Conn, RateLimited(c) PROVE TokenInv'
  BY <1>10 DEF RateLimited, Reject, CloseChannel, CloseOf, Goto
<1>11. ASSUME NEW c \in Conn, ClaimSession(c) PROVE TokenInv'
  BY <1>11 DEF ClaimSession, CanClaim, Claimed, Goto
<1>12. ASSUME NEW c \in Conn, ClaimRefused(c) PROVE TokenInv'
  BY <1>12 DEF ClaimRefused, Reject, CloseChannel, CloseOf, Goto
<1>13. ASSUME NEW c \in Conn, CreateRoom(c) PROVE TokenInv'
  BY <1>13 DEF CreateRoom, Goto
<1>14. ASSUME NEW c \in Conn, AddCreator(c) PROVE TokenInv'
  <2>1. CASE CanAdd(rm[c])
    BY <1>14, <2>1 DEF AddCreator, CanAdd, Add, Goto
  <2>2. CASE ~CanAdd(rm[c])
    BY <1>14, <2>2 DEF AddCreator, CanAdd, Add, Goto
  <2> QED BY <2>1, <2>2
<1>15. ASSUME NEW c \in Conn, Welcome(c) PROVE TokenInv'
  BY <1>15 DEF Welcome, AfterSend, Goto
<1>16. ASSUME NEW c \in Conn, Redeem(c) PROVE TokenInv'
  <2>1. CASE tok[c] \in expired
    BY <1>16, <2>1 DEF Redeem, SetInvites, Consumed, Reject, CloseChannel,
      CloseOf, Goto
  <2>2. CASE tok[c] \notin expired
    BY <1>16, <2>2 DEF Redeem, SetInvites, Consumed, Reject, CloseChannel,
      CloseOf, Goto
  <2> QED BY <2>1, <2>2
<1>17. ASSUME NEW c \in Conn, JoinRefused(c) PROVE TokenInv'
  BY <1>17 DEF JoinRefused, Reject, CloseChannel, CloseOf, Goto
<1>18. ASSUME NEW c \in Conn, GetRoom(c) PROVE TokenInv'
  BY <1>18 DEF GetRoom, Goto
<1>19. ASSUME NEW c \in Conn, HasCapacity(c) PROVE TokenInv'
  BY <1>19 DEF HasCapacity, Goto
<1>20. ASSUME NEW c \in Conn, OwnerClient(c) PROVE TokenInv'
  BY <1>20 DEF OwnerClient, HasOwner, Goto
<1>21. ASSUME NEW c \in Conn, NewHandshake(c) PROVE TokenInv'
  BY <1>21 DEF NewHandshake, Goto
<1>22. ASSUME NEW c \in Conn, NotifyOwner(c) PROVE TokenInv'
  BY <1>22 DEF NotifyOwner, AfterSend, Forget, Goto
<1>23. ASSUME NEW c \in Conn, RelayToPeer(c) PROVE TokenInv'
  BY <1>23 DEF RelayToPeer, AfterSend, Forget, Goto
<1>24. ASSUME NEW c \in Conn, EndHandshake(c) PROVE TokenInv'
  BY <1>24 DEF EndHandshake, Goto
<1>25. ASSUME NEW c \in Conn, QuitHandshake(c) PROVE TokenInv'
  BY <1>25 DEF QuitHandshake, Reject, CloseChannel, CloseOf, Goto
<1>26. ASSUME NEW c \in Conn, CreateInvite(c) PROVE TokenInv'
  BY <1>26 DEF CreateInvite, Goto
<1>27. ASSUME NEW c \in Conn, SendInvite(c) PROVE TokenInv'
  BY <1>27 DEF SendInvite, AfterSend, Goto
<1>28. ASSUME NEW c \in Conn, SetOwner(c) PROVE TokenInv'
  <2>1. CASE Joined(arg[c], rm[c])
    BY <1>28, <2>1 DEF SetOwner, Joined, Goto, Forget
  <2>2. CASE ~Joined(arg[c], rm[c])
    BY <1>28, <2>2 DEF SetOwner, Joined, Goto, Forget
  <2> QED BY <2>1, <2>2
<1>29. ASSUME NEW c \in Conn, Kick(c) PROVE TokenInv'
  <2>1. CASE Kickable(arg[c], rm[c])
    BY <1>29, <2>1 DEF Kick, Kickable, Joined, Remove, CloseChannel, CloseOf,
      Goto, Forget
  <2>2. CASE ~Kickable(arg[c], rm[c])
    BY <1>29, <2>2 DEF Kick, Kickable, Joined, Remove, CloseChannel, CloseOf,
      Goto, Forget
  <2> QED BY <2>1, <2>2
<1>30. ASSUME NEW c \in Conn, KickClear(c) PROVE TokenInv'
  BY <1>30 DEF KickClear, ClearSessionByClient, Goto, Forget
<1>31. ASSUME NEW c \in Conn, Leave(c) PROVE TokenInv'
  <2>1. CASE ~Joined(c, rm[c])
    BY <1>31, <2>1 DEF Leave, Joined, Remove, CloseChannel, CloseOf, Goto
  <2>2. CASE Joined(c, rm[c]) /\ c = owner[rm[c]]
    BY <1>31, <2>2 DEF Leave, Joined, Remove, CloseChannel, CloseOf, Goto
  <2>3. CASE Joined(c, rm[c]) /\ c # owner[rm[c]]
    BY <1>31, <2>3 DEF Leave, Joined, Remove, CloseChannel, CloseOf, Goto
  <2> QED BY <2>1, <2>2, <2>3
<1>32. ASSUME NEW c \in Conn, OwnerClose(c) PROVE TokenInv'
  <2>1. CASE Closed(rm[c])
    BY <1>32, <2>1 DEF OwnerClose, Detach, Goto
  <2>2. CASE ~Closed(rm[c])
    BY <1>32, <2>2 DEF OwnerClose, Detach, Goto
  <2> QED BY <2>1, <2>2
<1>33. ASSUME NEW c \in Conn, OwnerClosed(c) PROVE TokenInv'
  BY <1>33 DEF OwnerClosed, Goto
<1>34. ASSUME NEW c \in Conn, FreeSession(c) PROVE TokenInv'
  BY <1>34 DEF FreeSession, ClearSession, Goto
<1>35. ASSUME NEW c \in Conn, PumpDone(c) PROVE TokenInv'
  BY <1>35 DEF PumpDone, Goto
<1>36. ASSUME NEW c \in Conn, Deferred(c) PROVE TokenInv'
  BY <1>36 DEF Deferred, EndHandshakesFor, ClearSession, Goto
<1>37. ASSUME NEW c \in Conn, AbandonHandshake(c) PROVE TokenInv'
  BY <1>37 DEF AbandonHandshake, Goto
<1>38. ASSUME NEW c \in Conn, EndLoop(c) PROVE TokenInv'
  BY <1>38 DEF EndLoop, Goto
<1>39. ASSUME NEW c \in Conn, PumpDrains(c) PROVE TokenInv'
  BY <1>39 DEF PumpDrains
<1>40. ASSUME NEW c \in Conn, PumpFails(c) PROVE TokenInv'
  BY <1>40 DEF PumpFails
<1>41. ASSUME NEW c \in Conn, PeerDrops(c) PROVE TokenInv'
  BY <1>41 DEF PeerDrops
<1>42. ASSUME NEW r \in Room, RemoveRoom(r) PROVE TokenInv'
  BY <1>42 DEF RemoveRoom
<1>43. ASSUME NEW r \in Room, DropInvites(r) PROVE TokenInv'
  BY <1>43 DEF DropInvites, SetInvites
<1>44. ASSUME NEW r \in Room, CloseMember(r) PROVE TokenInv'
  BY <1>44 DEF CloseMember, ClearSessionByClient, CloseChannel, CloseOf
<1>45. ASSUME NEW r \in Room, CloseDone(r) PROVE TokenInv'
  BY <1>45 DEF CloseDone
<1>46. ASSUME NEW r \in Room, BecomeIdle(r) PROVE TokenInv'
  BY <1>46 DEF BecomeIdle
<1>47. ASSUME NEW t \in Token, Expire(t) PROVE TokenInv'
  BY <1>47 DEF Expire
<1>48. ASSUME NEW w \in Sweeper, Snapshot(w) PROVE TokenInv'
  BY <1>48 DEF Snapshot, Registered
<1>49. ASSUME NEW w \in Sweeper, Visit(w) PROVE TokenInv'
  BY <1>49 DEF Visit
<1>50. ASSUME NEW w \in Sweeper, IdleFor(w) PROVE TokenInv'
  BY <1>50 DEF IdleFor
<1>51. ASSUME NEW w \in Sweeper, SweepClose(w) PROVE TokenInv'
  <2>1. CASE Closed(sroom[w])
    BY <1>51, <2>1 DEF SweepClose, Detach
  <2>2. CASE ~Closed(sroom[w])
    BY <1>51, <2>2 DEF SweepClose, Detach
  <2> QED BY <2>1, <2>2
<1>52. ASSUME NEW w \in Sweeper, SweepClosed(w) PROVE TokenInv'
  BY <1>52 DEF SweepClosed
<1>53. ASSUME NEW w \in Sweeper, SweepEnd(w) PROVE TokenInv'
  BY <1>53 DEF SweepEnd, SetInvites, GcInvites
<1>54. CASE UNCHANGED vars
  BY <1>54 DEF vars
<1> QED BY <1>1, <1>2, <1>3, <1>4, <1>5, <1>6, <1>7, <1>8, <1>9, <1>10, <1>11,
  <1>12, <1>13, <1>14, <1>15, <1>16, <1>17, <1>18, <1>19, <1>20, <1>21, <1>22,
  <1>23, <1>24, <1>25, <1>26, <1>27, <1>28, <1>29, <1>30, <1>31, <1>32, <1>33,
  <1>34, <1>35, <1>36, <1>37, <1>38, <1>39, <1>40, <1>41, <1>42, <1>43, <1>44,
  <1>45, <1>46, <1>47, <1>48, <1>49, <1>50, <1>51, <1>52, <1>53, <1>54 DEF
  Next, Frame, Handler, LoopEnds, CloseStep, Sweep, Quiescent

\* Every step keeps a handshake between a joiner and a connection of its room.
LEMMA HandshakeStep ==
  TypeInv /\ RoomInv /\ HandshakeInv /\ [Next]_vars => HandshakeInv'
<1> SUFFICES ASSUME TypeInv, RoomInv, HandshakeInv, [Next]_vars PROVE HandshakeInv'
  OBVIOUS
<1> USE NoneAssumption
<1> USE DEF TypeInv, TypeOK, Dereferenced, Location, PreJoin, Serving,
  Exiting, localVars, roomVars, inviteVars, sweepVars, RoomInv, MemberInv,
  InRoom, HandshakeInv, HandshakeOwned
<1>1. ASSUME NEW c \in Conn, ReceiveHello(c) PROVE HandshakeInv'
  BY <1>1 DEF ReceiveHello, Goto, HelloFrame
<1>2. ASSUME NEW c \in Conn, BadHello(c) PROVE HandshakeInv'
  BY <1>2 DEF BadHello, Reject, CloseChannel, CloseOf, Goto, HelloFrame
<1>3. ASSUME NEW c \in Conn, JoinerFrame(c) PROVE HandshakeInv'
  BY <1>3 DEF JoinerFrame, Goto
<1>4. ASSUME NEW c \in Conn, Enter(c) PROVE HandshakeInv'
  BY <1>4 DEF Enter, CanAdd, Add, Goto
<1>5. ASSUME NEW c \in Conn, Chat(c) PROVE HandshakeInv'
  BY <1>5 DEF Chat, Reading
<1>6. ASSUME NEW c \in Conn, OwnerRequest(c) PROVE HandshakeInv'
  BY <1>6, SMTT(30) DEF OwnerRequest, Reading, IsOwner, HasOwner, Goto
<1>7. ASSUME NEW c \in Conn, RequestRefused(c) PROVE HandshakeInv'
  BY <1>7 DEF RequestRefused, Reading, AfterSend, Goto
<1>8. ASSUME NEW c \in Conn, OwnerFrame(c) PROVE HandshakeInv'
  BY <1>8 DEF OwnerFrame, Reading, Goto
<1>9. ASSUME NEW c \in Conn, NoHello(c) PROVE HandshakeInv'
  BY <1>9 DEF NoHello, Goto
<1>10. ASSUME NEW c \in Conn, RateLimited(c) PROVE HandshakeInv'
  BY <1>10 DEF RateLimited, Reject, CloseChannel, CloseOf, Goto
<1>11. ASSUME NEW c \in Conn, ClaimSession(c) PROVE HandshakeInv'
  BY <1>11 DEF ClaimSession, CanClaim, Claimed, Goto
<1>12. ASSUME NEW c \in Conn, ClaimRefused(c) PROVE HandshakeInv'
  BY <1>12 DEF ClaimRefused, Reject, CloseChannel, CloseOf, Goto
<1>13. ASSUME NEW c \in Conn, CreateRoom(c) PROVE HandshakeInv'
  BY <1>13 DEF CreateRoom, Goto
<1>14. ASSUME NEW c \in Conn, AddCreator(c) PROVE HandshakeInv'
  <2>1. CASE CanAdd(rm[c])
    BY <1>14, <2>1 DEF AddCreator, CanAdd, Add, Goto
  <2>2. CASE ~CanAdd(rm[c])
    BY <1>14, <2>2 DEF AddCreator, CanAdd, Add, Goto
  <2> QED BY <2>1, <2>2
<1>15. ASSUME NEW c \in Conn, Welcome(c) PROVE HandshakeInv'
  BY <1>15 DEF Welcome, AfterSend, Goto
<1>16. ASSUME NEW c \in Conn, Redeem(c) PROVE HandshakeInv'
  <2>1. CASE tok[c] \in expired
    BY <1>16, <2>1, SMTT(30) DEF Redeem, SetInvites, Consumed, Reject, CloseChannel,
      CloseOf, Goto
  <2>2. CASE tok[c] \notin expired
    BY <1>16, <2>2 DEF Redeem, SetInvites, Consumed, Reject, CloseChannel,
      CloseOf, Goto
  <2> QED BY <2>1, <2>2
<1>17. ASSUME NEW c \in Conn, JoinRefused(c) PROVE HandshakeInv'
  BY <1>17 DEF JoinRefused, Reject, CloseChannel, CloseOf, Goto
<1>18. ASSUME NEW c \in Conn, GetRoom(c) PROVE HandshakeInv'
  BY <1>18 DEF GetRoom, Goto
<1>19. ASSUME NEW c \in Conn, HasCapacity(c) PROVE HandshakeInv'
  BY <1>19 DEF HasCapacity, Goto
<1>20. ASSUME NEW c \in Conn, OwnerClient(c) PROVE HandshakeInv'
  BY <1>20, SMTT(30) DEF OwnerClient, HasOwner, Goto
<1>21. ASSUME NEW c \in Conn, NewHandshake(c) PROVE HandshakeInv'
  BY <1>21 DEF NewHandshake, Goto
<1>22. ASSUME NEW c \in Conn, NotifyOwner(c) PROVE HandshakeInv'
  BY <1>22 DEF NotifyOwner, AfterSend, Forget, Goto
<1>23. ASSUME NEW c \in Conn, RelayToPeer(c) PROVE HandshakeInv'
  BY <1>23 DEF RelayToPeer, AfterSend, Forget, Goto
<1>24. ASSUME NEW c \in Conn, EndHandshake(c) PROVE HandshakeInv'
  BY <1>24 DEF EndHandshake, Goto
<1>25. ASSUME NEW c \in Conn, QuitHandshake(c) PROVE HandshakeInv'
  BY <1>25 DEF QuitHandshake, Reject, CloseChannel, CloseOf, Goto
<1>26. ASSUME NEW c \in Conn, CreateInvite(c) PROVE HandshakeInv'
  BY <1>26 DEF CreateInvite, Goto
<1>27. ASSUME NEW c \in Conn, SendInvite(c) PROVE HandshakeInv'
  BY <1>27 DEF SendInvite, AfterSend, Goto
<1>28. ASSUME NEW c \in Conn, SetOwner(c) PROVE HandshakeInv'
  <2>1. CASE Joined(arg[c], rm[c])
    BY <1>28, <2>1 DEF SetOwner, Joined, Goto, Forget
  <2>2. CASE ~Joined(arg[c], rm[c])
    BY <1>28, <2>2 DEF SetOwner, Joined, Goto, Forget
  <2> QED BY <2>1, <2>2
<1>29. ASSUME NEW c \in Conn, Kick(c) PROVE HandshakeInv'
  <2>1. CASE Kickable(arg[c], rm[c])
    BY <1>29, <2>1 DEF Kick, Kickable, Joined, Remove, CloseChannel, CloseOf,
      Goto, Forget
  <2>2. CASE ~Kickable(arg[c], rm[c])
    BY <1>29, <2>2, SMTT(30) DEF Kick, Kickable, Joined, Remove, CloseChannel, CloseOf,
      Goto, Forget
  <2> QED BY <2>1, <2>2
<1>30. ASSUME NEW c \in Conn, KickClear(c) PROVE HandshakeInv'
  BY <1>30 DEF KickClear, ClearSessionByClient, Goto, Forget
<1>31. ASSUME NEW c \in Conn, Leave(c) PROVE HandshakeInv'
  <2>1. CASE ~Joined(c, rm[c])
    BY <1>31, <2>1 DEF Leave, Joined, Remove, CloseChannel, CloseOf, Goto
  <2>2. CASE Joined(c, rm[c]) /\ c = owner[rm[c]]
    BY <1>31, <2>2 DEF Leave, Joined, Remove, CloseChannel, CloseOf, Goto
  <2>3. CASE Joined(c, rm[c]) /\ c # owner[rm[c]]
    <3>1. HandshakeOwned'
      BY <1>31, <2>3 DEF Leave, Joined, Remove, CloseChannel, CloseOf, Goto
    <3>2. (\A j \in Conn : hs[j] # None => pc[hs[j]] \notin PreJoin)'
      BY <1>31, <2>3 DEF Leave, Joined, Remove, CloseChannel, CloseOf, Goto
    <3>3. (\A j \in Conn : pc[j] = "newhs" => rm[arg[j]] = rm[j] /\ pc[arg[j]] \notin PreJoin)'
      BY <1>31, <2>3 DEF Leave, Joined, Remove, CloseChannel, CloseOf, Goto
    <3> QED BY <3>1, <3>2, <3>3
  <2> QED BY <2>1, <2>2, <2>3
<1>32. ASSUME NEW c \in Conn, OwnerClose(c) PROVE HandshakeInv'
  <2>1. CASE Closed(rm[c])
    BY <1>32, <2>1 DEF OwnerClose, Detach, Goto
  <2>2. CASE ~Closed(rm[c])
    BY <1>32, <2>2, SMTT(30) DEF OwnerClose, Detach, Goto
  <2> QED BY <2>1, <2>2
<1>33. ASSUME NEW c \in Conn, OwnerClosed(c) PROVE HandshakeInv'
  BY <1>33 DEF OwnerClosed, Goto
<1>34. ASSUME NEW c \in Conn, FreeSession(c) PROVE HandshakeInv'
  BY <1>34 DEF FreeSession, ClearSession, Goto
<1>35. ASSUME NEW c \in Conn, PumpDone(c) PROVE HandshakeInv'
  BY <1>35 DEF PumpDone, Goto
<1>36. ASSUME NEW c \in Conn, Deferred(c) PROVE HandshakeInv'
  BY <1>36 DEF Deferred, EndHandshakesFor, ClearSession, Goto
<1>37. ASSUME NEW c \in Conn, AbandonHandshake(c) PROVE HandshakeInv'
  BY <1>37 DEF AbandonHandshake, Goto
<1>38. ASSUME NEW c \in Conn, EndLoop(c) PROVE HandshakeInv'
  BY <1>38 DEF EndLoop, Goto
<1>39. ASSUME NEW c \in Conn, PumpDrains(c) PROVE HandshakeInv'
  BY <1>39 DEF PumpDrains
<1>40. ASSUME NEW c \in Conn, PumpFails(c) PROVE HandshakeInv'
  BY <1>40 DEF PumpFails
<1>41. ASSUME NEW c \in Conn, PeerDrops(c) PROVE HandshakeInv'
  BY <1>41 DEF PeerDrops
<1>42. ASSUME NEW r \in Room, RemoveRoom(r) PROVE HandshakeInv'
  BY <1>42 DEF RemoveRoom
<1>43. ASSUME NEW r \in Room, DropInvites(r) PROVE HandshakeInv'
  BY <1>43 DEF DropInvites, SetInvites
<1>44. ASSUME NEW r \in Room, CloseMember(r) PROVE HandshakeInv'
  BY <1>44 DEF CloseMember, ClearSessionByClient, CloseChannel, CloseOf
<1>45. ASSUME NEW r \in Room, CloseDone(r) PROVE HandshakeInv'
  BY <1>45 DEF CloseDone
<1>46. ASSUME NEW r \in Room, BecomeIdle(r) PROVE HandshakeInv'
  BY <1>46 DEF BecomeIdle
<1>47. ASSUME NEW t \in Token, Expire(t) PROVE HandshakeInv'
  BY <1>47 DEF Expire
<1>48. ASSUME NEW w \in Sweeper, Snapshot(w) PROVE HandshakeInv'
  BY <1>48 DEF Snapshot, Registered
<1>49. ASSUME NEW w \in Sweeper, Visit(w) PROVE HandshakeInv'
  BY <1>49 DEF Visit
<1>50. ASSUME NEW w \in Sweeper, IdleFor(w) PROVE HandshakeInv'
  BY <1>50 DEF IdleFor
<1>51. ASSUME NEW w \in Sweeper, SweepClose(w) PROVE HandshakeInv'
  <2>1. CASE Closed(sroom[w])
    BY <1>51, <2>1 DEF SweepClose, Detach
  <2>2. CASE ~Closed(sroom[w])
    BY <1>51, <2>2 DEF SweepClose, Detach
  <2> QED BY <2>1, <2>2
<1>52. ASSUME NEW w \in Sweeper, SweepClosed(w) PROVE HandshakeInv'
  BY <1>52 DEF SweepClosed
<1>53. ASSUME NEW w \in Sweeper, SweepEnd(w) PROVE HandshakeInv'
  BY <1>53 DEF SweepEnd, SetInvites, GcInvites
<1>54. CASE UNCHANGED vars
  BY <1>54 DEF vars
<1> QED BY <1>1, <1>2, <1>3, <1>4, <1>5, <1>6, <1>7, <1>8, <1>9, <1>10, <1>11,
  <1>12, <1>13, <1>14, <1>15, <1>16, <1>17, <1>18, <1>19, <1>20, <1>21, <1>22,
  <1>23, <1>24, <1>25, <1>26, <1>27, <1>28, <1>29, <1>30, <1>31, <1>32, <1>33,
  <1>34, <1>35, <1>36, <1>37, <1>38, <1>39, <1>40, <1>41, <1>42, <1>43, <1>44,
  <1>45, <1>46, <1>47, <1>48, <1>49, <1>50, <1>51, <1>52, <1>53, <1>54 DEF
  Next, Frame, Handler, LoopEnds, CloseStep, Sweep, Quiescent

\* A token goes only to a redeemer that holds its claim, with its room, or
\* after its expiry.
LEMMA ConsumptionStep ==
  ASSUME TypeInv, ClaimInv, TokenInv, [Next]_vars,
         NEW t \in Token, inv[t] # None, inv'[t] # inv[t]
  PROVE  \/ \E c \in Conn : /\ pc[c] = "redeem" /\ pc'[c] # "redeem" /\ tok[c] = t
                            /\ sess[c] # None => claim[sess[c]] = c
         \/ Closed(inv[t])
         \/ t \in expired
<1> USE DEF inviteVars
<1>1. ASSUME NEW c \in Conn, Redeem(c)
      PROVE  /\ pc[c] = "redeem" /\ pc'[c] # "redeem" /\ tok[c] = t
             /\ sess[c] # None => claim[sess[c]] = c
  <2>1. pc[c] = "redeem" /\ (sess[c] # None => claim[sess[c]] = c)
    BY <1>1 DEF Redeem, ClaimInv, HoldInv, Claiming, PreJoin
  <2>2. pc'[c] # "redeem"
    BY <1>1 DEF Redeem, Reject, Goto, TypeInv, TypeOK
  <2>3. tok[c] = t
    BY <1>1 DEF Redeem, SetInvites, Consumed, TypeInv, TypeOK
  <2> QED BY <2>1, <2>2, <2>3
<1>2. ASSUME NEW c \in Conn, CreateInvite(c) PROVE FALSE
  BY <1>2, NoneAssumption DEF CreateInvite, TypeInv, TypeOK, TokenInv
<1>3. ASSUME NEW r \in Room, DropInvites(r) PROVE Closed(inv[t])
  BY <1>3 DEF DropInvites, SetInvites, Closed, TypeInv, TypeOK
<1>4. ASSUME NEW w \in Sweeper, SweepEnd(w) PROVE t \in expired
  BY <1>4 DEF SweepEnd, SetInvites, GcInvites, TypeInv, TypeOK
<1>5. ASSUME inv' = inv PROVE FALSE
  BY <1>5
<1> QED
  BY <1>1, <1>2, <1>3, <1>4, <1>5 DEF vars, Next, Frame, Handler, LoopEnds,
    CloseStep, Sweep, Quiescent, ReceiveHello, BadHello, JoinerFrame, Enter,
    Chat, OwnerRequest, RequestRefused, OwnerFrame, NoHello, RateLimited,
    ClaimSession, ClaimRefused, CreateRoom, AddCreator, Welcome, JoinRefused,
    GetRoom, HasCapacity, OwnerClient, NewHandshake, NotifyOwner, RelayToPeer,
    EndHandshake, QuitHandshake, SendInvite, SetOwner, Kick, KickClear, Leave,
    OwnerClose, OwnerClosed, FreeSession, PumpDone, Deferred,
    AbandonHandshake, EndLoop, PumpDrains, PumpFails, PeerDrops, RemoveRoom,
    CloseMember, CloseDone, BecomeIdle, Expire, Snapshot, Visit, IdleFor,
    SweepClose, SweepClosed

\* A room is destroyed by its owner, which is then not minting, so no invite is
\* registered after the one critical section that drops the room's invites.
LEMMA InviteStep ==
  TypeInv /\ RoomInv /\ OwnerGuardStable /\ InviteInv /\ SweepersHoldOff
    /\ [Next]_vars => InviteInv'
<1> SUFFICES ASSUME TypeInv, RoomInv, OwnerGuardStable, InviteInv, SweepersHoldOff,
                    [Next]_vars
             PROVE  InviteInv'
  OBVIOUS
<1> USE NoneAssumption
<1> USE DEF TypeInv, TypeOK, Dereferenced, Serving, PreJoin, Closed,
  InviteInv, NoInviteForDeadRoom, RoomInv, MemberInv, OwnerIsMember, localVars, roomVars,
  inviteVars, sweepVars
<1>1. ASSUME NEW c \in Conn, ReceiveHello(c) PROVE InviteInv'
  BY <1>1 DEF ReceiveHello, Goto, HelloFrame
<1>2. ASSUME NEW c \in Conn, BadHello(c) PROVE InviteInv'
  BY <1>2 DEF BadHello, Reject, CloseChannel, CloseOf, Goto, HelloFrame
<1>3. ASSUME NEW c \in Conn, JoinerFrame(c) PROVE InviteInv'
  BY <1>3 DEF JoinerFrame, Goto
<1>4. ASSUME NEW c \in Conn, Enter(c) PROVE InviteInv'
  BY <1>4 DEF Enter, CanAdd, Add, Goto
<1>5. ASSUME NEW c \in Conn, Chat(c) PROVE InviteInv'
  BY <1>5 DEF Chat, Reading
<1>6. ASSUME NEW c \in Conn, OwnerRequest(c) PROVE InviteInv'
  <2>1. UNCHANGED <<rm, phase, members, owner, inv>> /\ IsOwner(c)
    BY <1>6 DEF OwnerRequest
  <2>2. \A x \in Conn \ {c} : pc'[x] = pc[x]
    BY <1>6 DEF OwnerRequest, Goto
  <2> QED BY <2>1, <2>2 DEF IsOwner, HasOwner
<1>7. ASSUME NEW c \in Conn, RequestRefused(c) PROVE InviteInv'
  BY <1>7 DEF RequestRefused, Reading, AfterSend, Goto
<1>8. ASSUME NEW c \in Conn, OwnerFrame(c) PROVE InviteInv'
  BY <1>8 DEF OwnerFrame, Reading, Goto
<1>9. ASSUME NEW c \in Conn, NoHello(c) PROVE InviteInv'
  BY <1>9 DEF NoHello, Goto
<1>10. ASSUME NEW c \in Conn, RateLimited(c) PROVE InviteInv'
  BY <1>10 DEF RateLimited, Reject, CloseChannel, CloseOf, Goto
<1>11. ASSUME NEW c \in Conn, ClaimSession(c) PROVE InviteInv'
  BY <1>11 DEF ClaimSession, CanClaim, Claimed, Goto
<1>12. ASSUME NEW c \in Conn, ClaimRefused(c) PROVE InviteInv'
  BY <1>12 DEF ClaimRefused, Reject, CloseChannel, CloseOf, Goto
<1>13. ASSUME NEW c \in Conn, CreateRoom(c) PROVE InviteInv'
  BY <1>13 DEF CreateRoom, Goto
<1>14. ASSUME NEW c \in Conn, AddCreator(c) PROVE InviteInv'
  <2>1. CASE CanAdd(rm[c])
    BY <1>14, <2>1 DEF AddCreator, CanAdd, Add, Goto
  <2>2. CASE ~CanAdd(rm[c])
    BY <1>14, <2>2 DEF AddCreator, CanAdd, Add, Goto
  <2> QED BY <2>1, <2>2
<1>15. ASSUME NEW c \in Conn, Welcome(c) PROVE InviteInv'
  BY <1>15 DEF Welcome, AfterSend, Goto
<1>16. ASSUME NEW c \in Conn, Redeem(c) PROVE InviteInv'
  <2>1. CASE tok[c] \in expired
    BY <1>16, <2>1 DEF Redeem, SetInvites, Consumed, Reject, CloseChannel,
      CloseOf, Goto
  <2>2. CASE tok[c] \notin expired
    <3>1. UNCHANGED <<phase, members, owner>> /\ pc'[c] = "getroom"
      BY <1>16, <2>2 DEF Redeem, Goto
    <3>2. \A x \in Conn \ {c} : pc'[x] = pc[x] /\ rm'[x] = rm[x]
      BY <1>16, <2>2 DEF Redeem, Goto
    <3>3. \A t \in Token : inv'[t] # None => inv'[t] = inv[t]
      BY <1>16 DEF Redeem, SetInvites, Consumed
    <3> QED BY <3>1, <3>2, <3>3
  <2> QED BY <2>1, <2>2
<1>17. ASSUME NEW c \in Conn, JoinRefused(c) PROVE InviteInv'
  BY <1>17 DEF JoinRefused, Reject, CloseChannel, CloseOf, Goto
<1>18. ASSUME NEW c \in Conn, GetRoom(c) PROVE InviteInv'
  BY <1>18 DEF GetRoom, Goto
<1>19. ASSUME NEW c \in Conn, HasCapacity(c) PROVE InviteInv'
  BY <1>19 DEF HasCapacity, Goto
<1>20. ASSUME NEW c \in Conn, OwnerClient(c) PROVE InviteInv'
  BY <1>20 DEF OwnerClient, HasOwner, Goto
<1>21. ASSUME NEW c \in Conn, NewHandshake(c) PROVE InviteInv'
  BY <1>21 DEF NewHandshake, Goto
<1>22. ASSUME NEW c \in Conn, NotifyOwner(c) PROVE InviteInv'
  BY <1>22 DEF NotifyOwner, AfterSend, Forget, Goto
<1>23. ASSUME NEW c \in Conn, RelayToPeer(c) PROVE InviteInv'
  BY <1>23 DEF RelayToPeer, AfterSend, Forget, Goto
<1>24. ASSUME NEW c \in Conn, EndHandshake(c) PROVE InviteInv'
  BY <1>24 DEF EndHandshake, Goto
<1>25. ASSUME NEW c \in Conn, QuitHandshake(c) PROVE InviteInv'
  BY <1>25 DEF QuitHandshake, Reject, CloseChannel, CloseOf, Goto
<1>26. ASSUME NEW c \in Conn, CreateInvite(c) PROVE InviteInv'
  BY <1>26 DEF CreateInvite, Goto
<1>27. ASSUME NEW c \in Conn, SendInvite(c) PROVE InviteInv'
  BY <1>27 DEF SendInvite, AfterSend, Goto
<1>28. ASSUME NEW c \in Conn, SetOwner(c) PROVE InviteInv'
  <2>1. CASE Joined(arg[c], rm[c])
    <3>1. owner[rm[c]] = c
      BY <1>28, <2>1 DEF SetOwner, Joined, OwnerGuardStable
    <3> QED BY <1>28, <2>1, <3>1 DEF SetOwner, Goto, Forget
  <2>2. CASE ~Joined(arg[c], rm[c])
    BY <1>28, <2>2 DEF SetOwner, Joined, Goto, Forget
  <2> QED BY <2>1, <2>2
<1>29. ASSUME NEW c \in Conn, Kick(c) PROVE InviteInv'
  <2>1. CASE Kickable(arg[c], rm[c])
    BY <1>29, <2>1 DEF Kick, Kickable, Joined, Remove, CloseChannel, CloseOf,
      Goto, Forget
  <2>2. CASE ~Kickable(arg[c], rm[c])
    BY <1>29, <2>2 DEF Kick, Kickable, Joined, Remove, CloseChannel, CloseOf,
      Goto, Forget
  <2> QED BY <2>1, <2>2
<1>30. ASSUME NEW c \in Conn, KickClear(c) PROVE InviteInv'
  BY <1>30 DEF KickClear, ClearSessionByClient, Goto, Forget
<1>31. ASSUME NEW c \in Conn, Leave(c) PROVE InviteInv'
  <2>1. CASE ~Joined(c, rm[c])
    BY <1>31, <2>1 DEF Leave, Joined, Remove, CloseChannel, CloseOf, Goto
  <2>2. CASE Joined(c, rm[c]) /\ c = owner[rm[c]]
    BY <1>31, <2>2 DEF Leave, Joined, Remove, CloseChannel, CloseOf, Goto
  <2>3. CASE Joined(c, rm[c]) /\ c # owner[rm[c]]
    BY <1>31, <2>3 DEF Leave, Joined, Remove, CloseChannel, CloseOf, Goto
  <2> QED BY <2>1, <2>2, <2>3
<1>32. ASSUME NEW c \in Conn, OwnerClose(c) PROVE InviteInv'
  <2>1. CASE Closed(rm[c])
    BY <1>32, <2>1 DEF OwnerClose, Detach, Goto
  <2>2. CASE ~Closed(rm[c])
    BY <1>32, <2>2 DEF OwnerClose, Detach, Goto
  <2> QED BY <2>1, <2>2
<1>33. ASSUME NEW c \in Conn, OwnerClosed(c) PROVE InviteInv'
  BY <1>33 DEF OwnerClosed, Goto
<1>34. ASSUME NEW c \in Conn, FreeSession(c) PROVE InviteInv'
  BY <1>34 DEF FreeSession, ClearSession, Goto
<1>35. ASSUME NEW c \in Conn, PumpDone(c) PROVE InviteInv'
  BY <1>35 DEF PumpDone, Goto
<1>36. ASSUME NEW c \in Conn, Deferred(c) PROVE InviteInv'
  BY <1>36 DEF Deferred, EndHandshakesFor, ClearSession, Goto
<1>37. ASSUME NEW c \in Conn, AbandonHandshake(c) PROVE InviteInv'
  BY <1>37 DEF AbandonHandshake, Goto
<1>38. ASSUME NEW c \in Conn, EndLoop(c) PROVE InviteInv'
  BY <1>38 DEF EndLoop, Goto
<1>39. ASSUME NEW c \in Conn, PumpDrains(c) PROVE InviteInv'
  BY <1>39 DEF PumpDrains
<1>40. ASSUME NEW c \in Conn, PumpFails(c) PROVE InviteInv'
  BY <1>40 DEF PumpFails
<1>41. ASSUME NEW c \in Conn, PeerDrops(c) PROVE InviteInv'
  BY <1>41 DEF PeerDrops
<1>42. ASSUME NEW r \in Room, RemoveRoom(r) PROVE InviteInv'
  BY <1>42 DEF RemoveRoom
<1>43. ASSUME NEW r \in Room, DropInvites(r) PROVE InviteInv'
  BY <1>43 DEF DropInvites, SetInvites
<1>44. ASSUME NEW r \in Room, CloseMember(r) PROVE InviteInv'
  BY <1>44 DEF CloseMember, ClearSessionByClient, CloseChannel, CloseOf
<1>45. ASSUME NEW r \in Room, CloseDone(r) PROVE InviteInv'
  BY <1>45 DEF CloseDone
<1>46. ASSUME NEW r \in Room, BecomeIdle(r) PROVE InviteInv'
  BY <1>46 DEF BecomeIdle
<1>47. ASSUME NEW t \in Token, Expire(t) PROVE InviteInv'
  BY <1>47 DEF Expire
<1>48. ASSUME NEW w \in Sweeper, Snapshot(w) PROVE InviteInv'
  BY <1>48 DEF Snapshot, Registered
<1>49. ASSUME NEW w \in Sweeper, Visit(w) PROVE InviteInv'
  BY <1>49 DEF Visit
<1>50. ASSUME NEW w \in Sweeper, IdleFor(w) PROVE InviteInv'
  BY <1>50 DEF IdleFor
<1>51. ASSUME NEW w \in Sweeper, SweepClose(w) PROVE InviteInv'
  BY <1>51 DEF SweepClose, SweepersHoldOff
<1>52. ASSUME NEW w \in Sweeper, SweepClosed(w) PROVE InviteInv'
  BY <1>52 DEF SweepClosed
<1>53. ASSUME NEW w \in Sweeper, SweepEnd(w) PROVE InviteInv'
  BY <1>53 DEF SweepEnd, SetInvites, GcInvites
<1>54. CASE UNCHANGED vars
  BY <1>54 DEF vars
<1> QED BY <1>1, <1>2, <1>3, <1>4, <1>5, <1>6, <1>7, <1>8, <1>9, <1>10, <1>11,
  <1>12, <1>13, <1>14, <1>15, <1>16, <1>17, <1>18, <1>19, <1>20, <1>21, <1>22,
  <1>23, <1>24, <1>25, <1>26, <1>27, <1>28, <1>29, <1>30, <1>31, <1>32, <1>33,
  <1>34, <1>35, <1>36, <1>37, <1>38, <1>39, <1>40, <1>41, <1>42, <1>43, <1>44,
  <1>45, <1>46, <1>47, <1>48, <1>49, <1>50, <1>51, <1>52, <1>53, <1>54 DEF
  Next, Frame, Handler, LoopEnds, CloseStep, Sweep, Quiescent

\* The session claims start empty.
LEMMA ClaimInit == Init => ClaimInv
BY DEF Init, ClaimInv, NoStaleClaim, HoldInv, KickInv, Claiming, PreJoin

\* No token is out and nobody has redeemed one.
LEMMA TokenInit == Init => TokenInv
BY DEF Init, TokenInv, SingleUse

\* The invariant on session claims.
THEOREM ClaimInvariant == Spec => []ClaimInv
<1>1. TypeInv /\ RoomInv /\ ClaimInv /\ [Next]_vars => ClaimInv'
  BY ClaimStep
<1> QED BY <1>1, ClaimInit, RoomInvariant, PTL DEF Spec

\* The invariant on invite tokens.
THEOREM TokenInvariant == Spec => []TokenInv
<1>1. TypeInv /\ TokenInv /\ [Next]_vars => TokenInv'
  BY TokenStep
<1> QED BY <1>1, TokenInit, TypeCorrect, PTL DEF Spec

\* The invariant on registered handshakes.
THEOREM HandshakeInvariant == Spec => []HandshakeInv
<1>1. Init => HandshakeInv
  BY DEF Init, HandshakeInv, HandshakeOwned
<1>2. TypeInv /\ RoomInv /\ HandshakeInv /\ [Next]_vars => HandshakeInv'
  BY HandshakeStep
<1> QED BY <1>1, <1>2, RoomInvariant, PTL DEF Spec

\* The whole inductive invariant, in every reachable state of every instance.
THEOREM Inductive == Spec => []IndInv
<1>1. /\ TypeInv /\ RoomInv /\ RoomBound /\ OwnerGuardStable
      /\ ClaimInv /\ TokenInv /\ HandshakeInv
      => IndInv
  BY DEF IndInv
<1> QED BY <1>1, RoomInvariant, NeverOverfull, OwnerGuardSafe, ClaimInvariant,
           TokenInvariant, HandshakeInvariant, PTL

\* One room per session: the claim each live member holds is unique.
THEOREM OneRoom == Spec => []OneRoomPerSession
<1>1. TypeInv /\ ClaimInv => OneRoomPerSession
  BY DEF OneRoomPerSession, ClaimInv, HoldInv, TypeInv, TypeOK
<1> QED BY <1>1, ClaimInvariant, TypeCorrect, PTL

\* Every exit path of a handler gives its claim back.
THEOREM ClaimsReleased == Spec => []NoStaleClaim
<1>1. ClaimInv => NoStaleClaim
  BY DEF ClaimInv
<1> QED BY <1>1, ClaimInvariant, PTL

\* A token admits at most one joiner, however many redeem it at once.
THEOREM TokensSingleUse == Spec => []SingleUse
<1>1. TokenInv => SingleUse
  BY DEF TokenInv
<1> QED BY <1>1, TokenInvariant, PTL

\* A handshake never pairs connections of different rooms nor outlives its use.
THEOREM HandshakesPaired == Spec => []HandshakeOwned
<1>1. HandshakeInv => HandshakeOwned
  BY DEF HandshakeInv
<1> QED BY <1>1, HandshakeInvariant, PTL

\* A join that is refused for its session never costs the invite.
THEOREM TokensConsumed == Spec => TokenConsumption
<1>1. TypeInv /\ ClaimInv /\ TokenInv /\ [Next]_vars =>
        [\A t \in Token : inv[t] # None /\ inv'[t] # inv[t] =>
           \/ \E c \in Conn : /\ pc[c] = "redeem" /\ pc'[c] # "redeem" /\ tok[c] = t
                              /\ sess[c] # None => claim[sess[c]] = c
           \/ Closed(inv[t])
           \/ t \in expired]_vars
  BY ConsumptionStep
<1> QED BY <1>1, TypeCorrect, ClaimInvariant, TokenInvariant, PTL
        DEF Spec, TokenConsumption

\* No invite outlives its room (dropInvitesForRoom), as long as the janitor and
\* the shutdown are not about to close one: only then may an owner be minting
\* while somebody else destroys its room.
THEOREM InvitesDieWithRoom ==
  Spec /\ []SweepersHoldOff => []NoInviteForDeadRoom
<1>1. Init => InviteInv
  BY NoneAssumption DEF Init, InviteInv, NoInviteForDeadRoom
<1>2. TypeInv /\ RoomInv /\ OwnerGuardStable /\ InviteInv /\ SweepersHoldOff
        /\ [Next]_vars => InviteInv'
  BY InviteStep
<1>3. InviteInv => NoInviteForDeadRoom
  BY DEF InviteInv
<1> QED BY <1>1, <1>2, <1>3, RoomInvariant, OwnerGuardSafe, PTL DEF Spec
=============================================================================
