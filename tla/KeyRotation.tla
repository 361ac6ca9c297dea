---------------------------- MODULE KeyRotation ----------------------------
(***************************************************************************)
(* The room key: how the owner's browser rotates it when the membership    *)
(* changes, how it reaches the other browsers through the relay, and how   *)
(* the roster of public keys lets another member take over.                *)
(*                                                                         *)
(* Every client has a FIFO of frames to the server (up) and from it (down; *)
(* FIFO by the NoGap property of Outbound).  A client handles one frame at *)
(* a time; the server serves one frame of one client at a time.  A key is  *)
(* a number, in the order of generation, and a public key is named by its  *)
(* owner.  The SPAKE2 exchange is one step whose outcome is that both      *)
(* sides hold Ke and send their member_key frames: an owner's member_key   *)
(* always precedes its key_deliver, so pendingKeyDeliver stays unused.     *)
(***************************************************************************)
EXTENDS Naturals, Sequences, FiniteSets, SequencesExt

CONSTANTS
  Client,        \* browsers; each enters the room at most once
  Creator,       \* the one that creates it
  MaxKeptKeys,   \* MAX_KEPT_KEYS
  MaxRoomSize,   \* cfg.MaxRoomSize
  MaxRequests,   \* bound of the model: kick and transfer requests
  None

ASSUME ClientAssumption == IsFiniteSet(Client)
ASSUME CreatorAssumption == Creator \in Client
ASSUME KeptAssumption == MaxKeptKeys \in Nat \ {0}
ASSUME SizeAssumption == MaxRoomSize \in Nat \ {0}
ASSUME RequestsAssumption == MaxRequests \in Nat
ASSUME NoneAssumption == None \notin Client

VARIABLES
  \* the server
  members, owner,  \* of the room; both empty once it is destroyed
  hs,              \* hs[j]: the owner paired with joiner j
  spc,             \* spc[c]: where the handler of c is
  up, down,        \* frames from and to every client
  \* the clients
  phase,           \* phase[c]: "out", "joining", "member" or "gone"
  keys,            \* keys[c]: session.keys, newest first
  pubs,            \* pubs[c][d]: whose public key c has under d (memberPubs)
  known,           \* known[c]: knownMembers
  seen,            \* seen[c]: lastMembers
  oid,             \* oid[c]: ownerId; c's role is owner iff it is c
  first,           \* first[c]: firstOwnerPub
  \* history
  nkeys,           \* number of keys generated
  born,            \* born[j]: number of keys when j started to join
  learned,         \* learned[c]: every key c ever held
  requests,        \* number of kick and transfer requests
  overlap          \* has a membership change begun before another settled?

serverVars == <<members, owner, hs, spc>>
clientVars == <<phase, keys, pubs, known, seen, oid, first>>
history    == <<nkeys, born, learned, requests, overlap>>
vars == <<serverVars, up, down, clientVars, history>>

NoPubs == [d \in Client |-> None]

Init ==
  /\ members = {Creator} /\ owner = Creator
  /\ hs = [c \in Client |-> None]
  /\ spc = [c \in Client |-> "read"]
  /\ up = [c \in Client |-> <<>>]
  /\ down = [c \in Client |-> <<>>]
  /\ phase = [c \in Client |-> IF c = Creator THEN "member" ELSE "out"]
  /\ keys = [c \in Client |-> IF c = Creator THEN <<1>> ELSE <<>>]
  /\ pubs = [c \in Client |-> NoPubs]
  /\ known = [c \in Client |-> IF c = Creator THEN {Creator} ELSE {}]
  /\ seen = known
  /\ oid = [c \in Client |-> IF c = Creator THEN Creator ELSE None]
  /\ first = [c \in Client |-> None]
  /\ nkeys = 1
  /\ born = [c \in Client |-> 0]
  /\ learned = [c \in Client |-> IF c = Creator THEN {1} ELSE {}]
  /\ requests = 0
  /\ overlap = FALSE

-----------------------------------------------------------------------------
(* Frames and sending. *)

Presence(M, o) == [t |-> "presence", m |-> M, o |-> o]
MemberKey(j, p) == [t |-> "member_key", j |-> j, pub |-> p]
RoomClosed == [t |-> "room_closed"]

\* send(): to the server, in order; broadcasts: one frame to every client of S.
Sends(c, s) == up' = [up EXCEPT ![c] = @ \o s]
Served(c) == up' = [up EXCEPT ![c] = Tail(@)]
\* What is sent to a client that is gone is lost.
Online(c) == phase[c] \in {"joining", "member"}
ToEach(S, f) ==
  down' = [c \in Client |-> IF c \in S /\ Online(c) THEN Append(down[c], f) ELSE down[c]]

Handled(c) == down' = [down EXCEPT ![c] = Tail(@)]
NextFor(c, t) == down[c] # <<>> /\ Head(down[c]).t = t
NextOf(c, t) == /\ spc[c] = "read"
                /\ up[c] # <<>> /\ Head(up[c]).t = t

\* pushKey: the newest key first, at most MaxKeptKeys of them.
PushedAll(c, k) == <<k>> \o keys[c]  \* mutant: old keys are never dropped
Pushed(c, k) == SubSeq(<<k>> \o keys[c], 1, IF Len(keys[c]) < MaxKeptKeys
                                              THEN Len(keys[c]) + 1 ELSE MaxKeptKeys)
PushKey(c, k) ==
  /\ keys' = [keys EXCEPT ![c] = Pushed(c, k)]
  /\ learned' = [learned EXCEPT ![c] = @ \cup {k}]

\* rekeyMember for every target whose public key is held, in some order.
RekeyFrames(c, S, p, k) ==
  {[i \in DOMAIN s |-> [t |-> "rekey", target |-> s[i], by |-> c, for |-> p[s[i]],
                        key |-> k]] :
     s \in SetToSeqs({d \in S : p[d] # None})}

\* Nothing on its way, nobody in the middle of anything.
Settled ==
  /\ \A c \in Client : /\ up[c] = <<>> /\ spc[c] = "read"
                       /\ phase[c] # "joining"
                       /\ down[c] = <<>>
MarkOverlap == overlap' = (overlap \/ ~Settled)

-----------------------------------------------------------------------------
(* Users: joining, leaving, kicking, handing over. *)

\* Room.HasCapacity, and Room.Add's own check.
HasSpace(S) == Cardinality(S) < MaxRoomSize

\* An invite is redeemed while there is room for another member, and SPAKE2
\* succeeds: both sides send member_key.
Join(j) ==
  /\ phase[j] = "out" /\ owner # None /\ phase[owner] = "member"
  /\ HasSpace(members)
  /\ phase' = [phase EXCEPT ![j] = "joining"]
  /\ hs' = [hs EXCEPT ![j] = owner]
  /\ up' = [c \in Client |-> IF c \in {j, owner} THEN Append(up[c], MemberKey(j, c))
                                                 ELSE up[c]]
  /\ born' = [born EXCEPT ![j] = nkeys]
  /\ MarkOverlap
  /\ UNCHANGED <<members, owner, spc, down, keys, pubs, known, seen, oid, first, nkeys,
                 learned, requests>>

\* teardown drops the session with its keys; the frames s still reach the server.
Gone(c, s) ==
  /\ phase' = [phase EXCEPT ![c] = "gone"]
  /\ keys' = [keys EXCEPT ![c] = <<>>]
  /\ up' = [up EXCEPT ![c] = s]
  /\ down' = [down EXCEPT ![c] = <<>>]
  /\ pubs' = [pubs EXCEPT ![c] = NoPubs]
  /\ known' = [known EXCEPT ![c] = {}]
  /\ seen' = [seen EXCEPT ![c] = {}]
  /\ oid' = [oid EXCEPT ![c] = None]
  /\ first' = [first EXCEPT ![c] = None]

\* Leaving, or a connection that breaks after some of its frames arrived.
Depart(c) ==
  /\ Online(c)
  /\ \E i \in 0 .. Len(up[c]) : Gone(c, SubSeq(up[c], 1, i) \o <<[t |-> "leave"]>>)
  /\ MarkOverlap
  /\ UNCHANGED <<serverVars, nkeys, born, learned, requests>>

\* The member list shows the owner's buttons for everybody else.
Request == requests < MaxRequests /\ requests' = requests + 1
CanManage(c, d) == phase[c] = "member" /\ oid[c] = c /\ d \in seen[c] \ {c}

\* "Make owner", or "Transfer & leave" in the owner's leave dialog.
HandOver(c, d, leave) ==
  /\ CanManage(c, d) /\ Request
  /\ IF leave
       THEN Gone(c, up[c] \o <<[t |-> "transfer", target |-> d], [t |-> "leave"]>>)
       ELSE /\ Sends(c, <<[t |-> "transfer", target |-> d]>>)
            /\ UNCHANGED <<down, clientVars>>
  /\ MarkOverlap
  /\ UNCHANGED <<serverVars, nkeys, born, learned>>

Kick(c, d) ==
  /\ CanManage(c, d) /\ Request
  /\ Sends(c, <<[t |-> "kick", target |-> d]>>)
  /\ MarkOverlap
  /\ UNCHANGED <<serverVars, down, clientVars, nkeys, born, learned>>

-----------------------------------------------------------------------------
(* The server: one frame of one client. *)

\* relayHandshake: to the other party while the handshake is registered.
RelayHandshake(c) ==
  /\ NextOf(c, "member_key") \/ NextOf(c, "key_deliver")
  /\ LET j == Head(up[c]).j
         peer == IF hs[j] = None THEN {} ELSE {j, hs[j]} \ {c}
     IN ToEach(peer, Head(up[c]))
  /\ Served(c)
  /\ UNCHANGED <<serverVars, clientVars, history>>

\* Room.Add and EndHandshake; the welcome follows in a step of its own.  A room
\* that was destroyed, or filled up since, refuses the joiner, which has got its
\* key by now; the browser gives up as it does on room_closed.
Enter(j) ==
  /\ NextOf(j, "enter")
  /\ Served(j)
  /\ hs' = [hs EXCEPT ![j] = None]
  /\ IF owner # None /\ HasSpace(members)
       THEN /\ members' = members \cup {j}
            /\ spc' = [spc EXCEPT ![j] = "welcome"]
            /\ UNCHANGED down
       ELSE ToEach({j}, RoomClosed) /\ UNCHANGED <<members, spc>>
  /\ UNCHANGED <<owner, clientVars, history>>

\* Send(welcome) and BroadcastPresence, or the latter alone after SetOwner.
Announce(c) ==
  /\ spc[c] \in {"welcome", "presence"}
  /\ LET p == Presence(members, owner)
         w == [p EXCEPT !.t = "welcome"]
     IN down' = [d \in Client |->
          IF d \notin members \/ ~Online(d) THEN down[d]
          ELSE down[d] \o (IF d = c /\ spc[c] = "welcome" THEN <<w, p>> ELSE <<p>>)]
  /\ spc' = [spc EXCEPT ![c] = "read"]
  /\ UNCHANGED <<members, owner, hs, up, clientVars, history>>

\* handleRekey: owner only, to a current member.
HandleRekey(c) ==
  /\ NextOf(c, "rekey")
  /\ ToEach(IF c = owner THEN {Head(up[c]).target} \cap members ELSE {}, Head(up[c]))
  /\ Served(c)
  /\ UNCHANGED <<serverVars, clientVars, history>>

HandleRoster(c) ==
  /\ NextOf(c, "roster")
  /\ ToEach(IF c = owner THEN members \ {c} ELSE {}, Head(up[c]))
  /\ Served(c)
  /\ UNCHANGED <<serverVars, clientVars, history>>

HandleTransfer(c) ==
  /\ NextOf(c, "transfer")
  /\ Served(c)
  /\ IF c = owner /\ Head(up[c]).target \in members
       THEN /\ owner' = Head(up[c]).target
            /\ spc' = [spc EXCEPT ![c] = "presence"]
       ELSE UNCHANGED <<owner, spc>>
  /\ UNCHANGED <<members, hs, down, clientVars, history>>

\* Out of the room: presence for the rest, room_closed for those in told.
Removed(d, told) ==
  LET rest == members \ {d} IN
  /\ members' = rest
  /\ down' = [c \in Client |->
       IF ~Online(c) THEN down[c]
       ELSE IF c \in told THEN Append(down[c], RoomClosed)
       ELSE IF c \in rest THEN Append(down[c], Presence(rest, owner))
       ELSE down[c]]
  /\ UNCHANGED owner

HandleKick(c) ==
  /\ NextOf(c, "kick")
  /\ LET d == Head(up[c]).target IN
       IF c = owner /\ d \in members /\ d # c THEN Removed(d, {d})
                                              ELSE UNCHANGED <<members, owner, down>>
  /\ Served(c)
  /\ UNCHANGED <<hs, spc, clientVars, history>>

\* Room.Leave, and EndHandshakesFor: the owner's leaving destroys the room.
Leave(c) ==
  /\ NextOf(c, "leave")
  /\ Served(c)
  /\ CASE c = owner -> /\ members' = {} /\ owner' = None
                       /\ ToEach(members \ {c}, RoomClosed)
       [] c \in members /\ c # owner -> Removed(c, {})
       [] OTHER -> UNCHANGED <<members, owner, down>>
  /\ hs' = [j \in Client |-> IF c \in {j, hs[j]} THEN None ELSE hs[j]]
  /\ UNCHANGED <<spc, clientVars, history>>

-----------------------------------------------------------------------------
(* The browser. *)

\* onMemberKey of the owner, with rotateForJoin.
RotateForJoinStale(c) ==  \* mutant: the joiner gets the current key
  /\ NextFor(c, "member_key") /\ Head(down[c]).j # c
  /\ LET j == Head(down[c]).j
         p == [pubs[c] EXCEPT ![j] = Head(down[c]).pub]
         k == Head(keys[c])
     IN /\ Sends(c, <<[t |-> "key_deliver", j |-> j, by |-> c, key |-> k]>>)
        /\ pubs' = [pubs EXCEPT ![c] = p]
        /\ known' = [known EXCEPT ![c] = @ \cup {j}]
  /\ Handled(c)
  /\ UNCHANGED <<serverVars, phase, keys, seen, oid, first, history>>
RotateForJoin(c) ==
  /\ NextFor(c, "member_key") /\ Head(down[c]).j # c
  /\ LET j == Head(down[c]).j
         p == [pubs[c] EXCEPT ![j] = Head(down[c]).pub]
         k == nkeys + 1
     IN /\ nkeys' = k
        /\ PushKey(c, k)
        /\ \E s \in RekeyFrames(c, known[c] \ {c, j}, p, k) :
             Sends(c, <<[t |-> "key_deliver", j |-> j, by |-> c, key |-> k]>> \o s)
        /\ pubs' = [pubs EXCEPT ![c] = p]
        /\ known' = [known EXCEPT ![c] = @ \cup {j}]
  /\ Handled(c)
  /\ UNCHANGED <<serverVars, phase, seen, oid, first, born, requests, overlap>>

\* onMemberKey of the joiner.
OnOwnerKey(j) ==
  /\ NextFor(j, "member_key") /\ Head(down[j]).j = j
  /\ first' = [first EXCEPT ![j] = Head(down[j]).pub]
  /\ Handled(j)
  /\ UNCHANGED <<serverVars, up, phase, keys, pubs, known, seen, oid, history>>

\* onKeyDeliver, finishJoin: sealed by the owner of the handshake.
FinishJoin(j) ==
  /\ NextFor(j, "key_deliver") /\ first[j] # None
  /\ PushKey(j, Head(down[j]).key)
  /\ Sends(j, <<[t |-> "enter", j |-> j]>>)
  /\ Handled(j)
  /\ UNCHANGED <<serverVars, phase, pubs, known, seen, oid, first, nkeys, born,
                 requests, overlap>>

\* The owner's key is filed under whoever owns the room by now.
OnWelcome(c) ==
  /\ NextFor(c, "welcome")
  /\ LET f == Head(down[c]) IN
       /\ phase' = [phase EXCEPT ![c] = "member"]
       /\ oid' = [oid EXCEPT ![c] = f.o]
       /\ seen' = [seen EXCEPT ![c] = f.m]
       /\ known' = [known EXCEPT ![c] = IF f.o = c THEN f.m ELSE @]
       /\ pubs' = [pubs EXCEPT ![c][f.o] = IF first[c] # None THEN first[c] ELSE @]
  /\ Handled(c)
  /\ UNCHANGED <<serverVars, up, keys, first, history>>

\* onRekey: opened with the key filed for the current owner, ignored otherwise.
OnRekey(c) ==
  /\ NextFor(c, "rekey")
  /\ LET f == Head(down[c])
         ownerPub == IF oid[c] = None THEN None ELSE pubs[c][oid[c]]
     IN IF ownerPub = f.by /\ f.for = c
          THEN PushKey(c, f.key)
          ELSE UNCHANGED <<keys, learned>>
  /\ Handled(c)
  /\ UNCHANGED <<serverVars, up, phase, pubs, known, seen, oid, first, nkeys, born,
                 requests, overlap>>

\* applyRoster: readable under any kept key, merged into the own map.
ApplyRoster(c) ==
  /\ NextFor(c, "roster")
  /\ LET f == Head(down[c]) IN
       pubs' = IF \E i \in DOMAIN keys[c] : keys[c][i] = f.key
                 THEN [pubs EXCEPT ![c] = [d \in Client |->
                         IF f.map[d] # None THEN f.map[d] ELSE @[d]]]
                 ELSE pubs
  /\ Handled(c)
  /\ UNCHANGED <<serverVars, up, phase, keys, known, seen, oid, first, history>>

\* onPresence of a member that is not the owner (any more).
OnPresenceMember(c) ==
  /\ NextFor(c, "presence") /\ Head(down[c]).o # c
  /\ oid' = [oid EXCEPT ![c] = Head(down[c]).o]
  /\ seen' = [seen EXCEPT ![c] = Head(down[c]).m]
  /\ Handled(c)
  /\ UNCHANGED <<serverVars, up, phase, keys, pubs, known, first, history>>

\* broadcastRoster, under the newest key.
RosterFrame(c, p, k) == [t |-> "roster", key |-> k, map |-> [p EXCEPT ![c] = c]]

\* onPresence of the owner: whoever is no longer listed makes it rotate.
MissingNone(c, f) == {}  \* mutant: departures go unnoticed
MissingFrom(c, f) ==
  IF oid[c] = c THEN known[c] \ f.m ELSE {}   \* a new owner starts from the list

OnPresenceQuiet(c) ==  \* mutant: the roster is published on rotation only
  /\ NextFor(c, "presence") /\ Head(down[c]).o = c
  /\ MissingFrom(c, Head(down[c])) = {}
  /\ oid' = [oid EXCEPT ![c] = c]
  /\ seen' = [seen EXCEPT ![c] = Head(down[c]).m]
  /\ known' = [known EXCEPT ![c] = Head(down[c]).m]
  /\ Handled(c)
  /\ UNCHANGED <<serverVars, up, phase, keys, pubs, first, history>>
OnPresenceSame(c) ==
  /\ NextFor(c, "presence") /\ Head(down[c]).o = c
  /\ MissingFrom(c, Head(down[c])) = {}
  /\ Sends(c, <<RosterFrame(c, pubs[c], Head(keys[c]))>>)
  /\ oid' = [oid EXCEPT ![c] = c]
  /\ seen' = [seen EXCEPT ![c] = Head(down[c]).m]
  /\ known' = [known EXCEPT ![c] = Head(down[c]).m]
  /\ Handled(c)
  /\ UNCHANGED <<serverVars, phase, keys, pubs, first, history>>

RotateForLeaveNever(c) ==  \* mutant: the new key is generated and not sent
  /\ NextFor(c, "presence") /\ Head(down[c]).o = c
  /\ MissingFrom(c, Head(down[c])) # {}
  /\ nkeys' = nkeys + 1
  /\ PushKey(c, nkeys + 1)
  /\ known' = [known EXCEPT ![c] = Head(down[c]).m]
  /\ seen' = [seen EXCEPT ![c] = Head(down[c]).m]
  /\ Handled(c)
  /\ UNCHANGED <<serverVars, up, phase, pubs, oid, first, born, requests, overlap>>
RotateForLeave(c) ==
  /\ NextFor(c, "presence") /\ Head(down[c]).o = c
  /\ MissingFrom(c, Head(down[c])) # {}
  /\ LET f == Head(down[c])
         p == [d \in Client |-> IF d \in MissingFrom(c, f) THEN None ELSE pubs[c][d]]
         k == nkeys + 1
     IN /\ nkeys' = k
        /\ PushKey(c, k)
        /\ pubs' = [pubs EXCEPT ![c] = p]
        /\ \E s \in RekeyFrames(c, f.m \ {c}, p, k) :
             Sends(c, s \o <<RosterFrame(c, p, k)>>)
        /\ known' = [known EXCEPT ![c] = f.m]
        /\ seen' = [seen EXCEPT ![c] = f.m]
  /\ Handled(c)
  /\ UNCHANGED <<serverVars, phase, oid, first, born, requests, overlap>>

\* room_closed: teardown.
OnRoomClosed(c) ==
  /\ NextFor(c, "room_closed")
  /\ Gone(c, <<[t |-> "leave"]>>)
  /\ UNCHANGED <<serverVars, history>>

-----------------------------------------------------------------------------
User(c) ==
  \/ Join(c) \/ Depart(c)
  \/ \E d \in Client : Kick(c, d) \/ \E leave \in BOOLEAN : HandOver(c, d, leave)

Server(c) ==
  \/ RelayHandshake(c) \/ Enter(c) \/ Announce(c) \/ HandleRekey(c)
  \/ HandleRoster(c) \/ HandleTransfer(c) \/ HandleKick(c) \/ Leave(c)

Browser(c) ==
  \/ RotateForJoin(c) \/ OnOwnerKey(c) \/ FinishJoin(c) \/ OnWelcome(c)
  \/ OnRekey(c) \/ ApplyRoster(c) \/ OnPresenceMember(c) \/ OnPresenceSame(c)
  \/ RotateForLeave(c) \/ OnRoomClosed(c)

Next == \E c \in Client : User(c) \/ Server(c) \/ Browser(c)

Spec == Init /\ [][Next]_vars

-----------------------------------------------------------------------------
\* Type invariant; the kept keys are bounded and an owner always has a key.
TypeInv ==
  /\ members \subseteq Client /\ owner \in Client \cup {None}
  /\ hs \in [Client -> Client \cup {None}]
  /\ spc \in [Client -> {"read", "welcome", "presence"}]
  /\ phase \in [Client -> {"out", "joining", "member", "gone"}]
  /\ \A c \in Client : /\ Len(keys[c]) <= MaxKeptKeys
                       /\ phase[c] = "member" => keys[c] # <<>>
  /\ pubs \in [Client -> [Client -> Client \cup {None}]]
  /\ known \in [Client -> SUBSET Client] /\ seen \in [Client -> SUBSET Client]
  /\ oid \in [Client -> Client \cup {None}] /\ first \in [Client -> Client \cup {None}]
  /\ learned \in [Client -> SUBSET (1 .. nkeys)]

\* A joiner never learns a key that was generated before it started to join,
\* whatever rotations, transfers and departures overlap (rotateForJoin).
NoPreJoinKey == \A j \in Client : \A k \in learned[j] : k > born[j]

\* When membership changes do not overlap, every settled room agrees on its
\* newest key: all members encrypt with the key the owner generated last.
Agreement ==
  owner # None => \A c \in members : keys[c] # <<>> /\ keys[c][1] = keys[owner][1]
SettledAgreement == Settled /\ ~overlap => Agreement

\* When membership changes do not overlap, a settled room has rotated past
\* everybody who left it: no departed client ever learned the newest key.
SettledForwardSecrecy ==
  Settled /\ ~overlap /\ owner # None =>
    \A d \in Client \ members : keys[owner][1] \notin learned[d]

\* When membership changes do not overlap, every member of a settled room can
\* take over: it holds the right public key of every other member.
SettledRoster ==
  Settled /\ ~overlap =>
    \A c \in members : \A d \in members \ {c} : pubs[c][d] = d

\* PROTOCOL.md: the owner re-seals every fresh room key to every current member.
EveryMemberRekeyed == Settled => Agreement
=============================================================================
