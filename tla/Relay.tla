-------------------------------- MODULE Relay --------------------------------
(***************************************************************************)
(* The relay server: the hub (rooms, invite tokens, handshakes, session    *)
(* claims), the rooms, and one handler goroutine per WebSocket connection. *)
(*                                                                         *)
(* One step is one critical section (hub.mu or room.mu) or one channel     *)
(* operation of one goroutine, so two handlers interleave wherever the Go  *)
(* scheduler can interleave them.  Frames carry no content here: a         *)
(* broadcast only reaches channels that the invariants show to be open,    *)
(* and the slow-consumer disconnect it may cause is an instance of         *)
(* PeerDrops.  A handshake is named by the connection of its joiner (each  *)
(* joiner opens exactly one).  Time is abstracted: a token may expire and  *)
(* a room may become idle at any moment.                                   *)
(***************************************************************************)
EXTENDS Naturals, FiniteSets

CONSTANTS
  Conn,         \* WebSocket connections (one handler goroutine each)
  Room,         \* room ids newRoomID can draw; each is drawn once
  Token,        \* invite tokens NewToken can draw; each is drawn once
  Session,      \* non-empty session ids
  None,         \* no value: nil, "", or the empty session id
  MaxRoomSize,  \* cfg.MaxRoomSize
  Hello,        \* Hello[c]: the first frames connection c may send
  Sweeper       \* which of "janitor" and "shutdown" run

HelloFrame == [kind : {"create", "redeem", "other"},
               sess : Session \cup {None}, tok : Token \cup {None}]

ASSUME ConnAssumption == IsFiniteSet(Conn)
ASSUME SizeAssumption == MaxRoomSize \in Nat \ {0}
ASSUME NoneAssumption == None \notin Conn \cup Room \cup Token \cup Session
ASSUME HelloAssumption == Hello \in [Conn -> SUBSET HelloFrame]
ASSUME SweeperAssumption == Sweeper \subseteq {"janitor", "shutdown"}

VARIABLES
  pc,        \* pc[c]: where c's handler goroutine is
  sess,      \* sess[c]: the session id of its hello
  tok,       \* tok[c]: the token of its hello
  rm,        \* rm[c]: its local variable room
  arg,       \* arg[c]: the connection it looked up or was told to act on
  out,       \* out[c]: the channel Client.out; "broken" is a second close
  link,      \* link[c]: "up", "down" (dead or closed by the peer), "closed"
             \*          (the write pump has exited and closed the socket)
  phase,     \* phase[r]: life cycle of a room, through the steps of Close
  members,   \* members[r]: Room.members
  owner,     \* owner[r]: Room.ownerID
  idle,      \* rooms whose lastActivity is older than the idle timeout
  todo,      \* todo[r]: Close's private copy of the members not yet closed
  inv,       \* inv[t]: the room of an outstanding invite token
  expired,   \* tokens past their expiry
  minted,    \* tokens drawn so far
  hs,        \* hs[j]: the owner joiner j is paired with, if registered
  claim,     \* claim[s]: Hub.sessions[s].client
  spc,       \* spc[w]: where the janitor or the shutdown is
  scan,      \* scan[w]: rooms of its snapshot still to visit
  sroom      \* sroom[w]: the room it is visiting

localVars   == <<sess, tok, rm, arg>>
roomVars    == <<phase, members, owner, idle, todo>>
inviteVars  == <<inv, expired, minted>>
sweepVars   == <<spc, scan, sroom>>
vars == <<pc, localVars, out, link, roomVars, inviteVars, hs, claim,
          sweepVars>>

-----------------------------------------------------------------------------
(* Program locations of a handler goroutine. *)

\* Before room.Add succeeded: nobody but the goroutine may close c.out.
PreJoin == {"new", "claimC", "claimJ", "mkroom", "addC", "redeem", "getroom",
            "cap", "getowner", "newhs", "notify", "handshake", "hsSend", "quit"}
\* Inside memberLoop, and the steps around it that still count as serving.
Serving == {"welC", "endhs", "welJ", "member", "mbSend", "mint", "inviteSend",
            "setowner", "kick", "kickclr"}
\* Past the loop: room.Leave, ClearSession, <-client.Done(), the defers.
Exiting == {"leave", "close", "closing", "clrsess", "drain", "defer", "done"}
Location == PreJoin \cup Serving \cup Exiting

Phase == {"absent", "open", "unregister", "invites", "members", "closed"}
SweepLocation == {"ready", "visit", "idle", "close", "closing", "done"}

TypeOK ==
  /\ pc \in [Conn -> Location]
  /\ sess \in [Conn -> Session \cup {None}]
  /\ tok \in [Conn -> Token \cup {None}]
  /\ rm \in [Conn -> Room \cup {None}]
  /\ arg \in [Conn -> Conn \cup {None}]
  /\ out \in [Conn -> {"open", "closed", "broken"}]
  /\ link \in [Conn -> {"up", "down", "closed"}]
  /\ phase \in [Room -> Phase]
  /\ members \in [Room -> SUBSET Conn]
  /\ owner \in [Room -> Conn \cup {None}]
  /\ idle \subseteq Room
  /\ todo \in [Room -> SUBSET Conn]
  /\ inv \in [Token -> Room \cup {None}]
  /\ expired \subseteq Token
  /\ minted \subseteq Token
  /\ hs \in [Conn -> Conn \cup {None}]
  /\ claim \in [Session -> Conn \cup {None}]
  /\ spc \in [Sweeper -> SweepLocation]
  /\ scan \in [Sweeper -> SUBSET Room]
  /\ sroom \in [Sweeper -> Room \cup {None}]

Init ==
  /\ pc = [c \in Conn |-> "new"]
  /\ sess = [c \in Conn |-> None]
  /\ tok = [c \in Conn |-> None]
  /\ rm = [c \in Conn |-> None]
  /\ arg = [c \in Conn |-> None]
  /\ out = [c \in Conn |-> "open"]
  /\ link = [c \in Conn |-> "up"]
  /\ phase = [r \in Room |-> "absent"]
  /\ members = [r \in Room |-> {}]
  /\ owner = [r \in Room |-> None]
  /\ idle = {}
  /\ todo = [r \in Room |-> {}]
  /\ inv = [t \in Token |-> None]
  /\ expired = {}
  /\ minted = {}
  /\ hs = [c \in Conn |-> None]
  /\ claim = [s \in Session |-> None]
  /\ spc = [w \in Sweeper |-> "ready"]
  /\ scan = [w \in Sweeper |-> {}]
  /\ sroom = [w \in Sweeper |-> None]

-----------------------------------------------------------------------------
(* What the critical sections of Room, Hub and Client do to their state. *)

\* Room.closed, of a room that was made.
Closed(r) == phase[r] # "open"
Registered == {r \in Room : phase[r] \in {"open", "unregister"}}

Goto(c, l) == pc' = [pc EXCEPT ![c] = l]

\* close(c.out): closing a closed channel panics, here it leaves "broken".
CloseOf(ch) == IF ch = "open" THEN "closed" ELSE "broken"
CloseChannel(c) == out' = [out EXCEPT ![c] = CloseOf(out[c])]

\* The look-up result goes out of scope.
Forget(c) == arg' = [arg EXCEPT ![c] = None]

\* A Send on d by handler c.  Sending on a closed channel panics; net/http
\* recovers the panic, so c's deferred calls run and nothing else of c does.
AfterSend(c, d, l) == Goto(c, IF out[d] = "open" THEN l ELSE "defer")

\* Room.HasCapacity, a check without effect; then Room.Add's own conditions.
HasSpace(S) == Cardinality(S) < MaxRoomSize
Capacity(r) == phase[r] = "open" /\ HasSpace(members[r])
CanAddUnlimited(r) == phase[r] = "open"  \* mutant: no size check under the lock
CanAddClosed(r) == HasSpace(members[r])  \* mutant: no closed check
CanAdd(r) == phase[r] = "open" /\ HasSpace(members[r])

\* Room.OwnerClient, and its result compared with the caller.
HasOwner(r) == phase[r] = "open" /\ owner[r] \in members[r]
IsMember(c) == /\ rm[c] # None /\ phase[rm[c]] = "open"  \* mutant: any member passes
               /\ c \in members[rm[c]]
IsOwner(c) == /\ rm[c] # None
              /\ HasOwner(rm[c])
              /\ owner[rm[c]] = c

Add(c, r) ==
  /\ members' = [members EXCEPT ![r] = @ \cup {c}]
  /\ owner' = [owner EXCEPT ![r] = IF members[r] = {} THEN c ELSE @]
  /\ idle' = idle \ {r}
  /\ UNCHANGED <<phase, todo>>

\* Room.Leave's idempotence check, RemoveMember's conditions.
JoinedAlways(c, r) == TRUE  \* mutant: leaving twice is not a no-op
Joined(c, r) == ~Closed(r) /\ c \in members[r]
KickableOwner(d, r) == Joined(d, r)  \* mutant: the owner may kick itself
Kickable(d, r) == Joined(d, r) /\ d # owner[r]

RemoveKeepsEntry(c, r) ==  \* mutant: the map entry survives
  /\ idle' = idle \ {r}
  /\ CloseChannel(c)
  /\ UNCHANGED <<phase, members, owner, todo>>
Remove(c, r) ==
  /\ members' = [members EXCEPT ![r] = @ \ {c}]
  /\ idle' = idle \ {r}
  /\ CloseChannel(c)
  /\ UNCHANGED <<phase, owner, todo>>

\* First critical section of Room.Close, past its idempotence check.
DetachKeepsMembers(r) ==  \* mutant: r.members is not dropped
  /\ phase' = [phase EXCEPT ![r] = "unregister"]
  /\ todo' = [todo EXCEPT ![r] = members[r]]
  /\ UNCHANGED <<members, owner, idle>>
Detach(r) ==
  /\ phase' = [phase EXCEPT ![r] = "unregister"]
  /\ todo' = [todo EXCEPT ![r] = members[r]]
  /\ members' = [members EXCEPT ![r] = {}]
  /\ owner' = [owner EXCEPT ![r] = None]
  /\ UNCHANGED idle

\* Deleting entries of Hub.invites drops their expiry with them.
SetInvites(f) ==
  /\ inv' = f
  /\ expired' = {t \in expired : f[t] # None}

ConsumedNever(t) == inv  \* mutant: a redeemed token stays
Consumed(t) == [inv EXCEPT ![t] = None]
\* gcInvites, called by the janitor only.
GcInvitesAll(w) == [t \in Token |-> IF w = "janitor" THEN None ELSE inv[t]]  \* mutant
GcInvites(w) ==
  [t \in Token |-> IF w = "janitor" /\ t \in expired THEN None ELSE inv[t]]

CanClaim(c) == sess[c] # None => claim[sess[c]] = None
Claimed(c) == [s \in Session |-> IF s = sess[c] THEN c ELSE claim[s]]
\* ClearSession compares the claim's client; ClearSessionByClient looks for it.
ClearSessionBlindly(c) ==  \* mutant: whoever holds the claim
  [s \in Session |-> IF s = sess[c] THEN None ELSE claim[s]]
ClearSessionNever(c) == claim  \* mutant: the exit paths forget the claim
ClearSession(c) ==
  [s \in Session |-> IF s = sess[c] /\ claim[s] = c THEN None ELSE claim[s]]
ClearSessionByClient(c) ==
  [s \in Session |-> IF claim[s] = c THEN None ELSE claim[s]]

EndHandshakesFor(c) ==
  [j \in Conn |-> IF j = c \/ hs[j] = c THEN None ELSE hs[j]]

-----------------------------------------------------------------------------
(* session: the hello frame and its dispatch. *)

ReceiveHello(c) ==
  /\ pc[c] = "new" /\ link[c] = "up"
  /\ \E h \in Hello[c] :
       /\ h.kind \in {"create", "redeem"}
       /\ sess' = [sess EXCEPT ![c] = h.sess]
       /\ tok' = [tok EXCEPT ![c] = IF h.kind = "redeem" THEN h.tok ELSE None]
       /\ Goto(c, IF h.kind = "create" THEN "claimC" ELSE "claimJ")
  /\ UNCHANGED <<rm, arg, out, link, roomVars, inviteVars, hs, claim,
                 sweepVars>>

\* Send the error, CloseOut, wait for the pump: only the goroutine itself has
\* a reference to c at these points.
RejectLeaks(c) == UNCHANGED out /\ Goto(c, "drain")  \* mutant: no CloseOut
Reject(c) == CloseChannel(c) /\ Goto(c, "drain")

BadHello(c) ==
  /\ pc[c] = "new" /\ link[c] = "up"
  /\ \E h \in Hello[c] :
       /\ h.kind = "other"
       /\ sess' = [sess EXCEPT ![c] = h.sess]
  /\ Reject(c)
  /\ UNCHANGED <<tok, rm, arg, link, roomVars, inviteVars, hs, claim,
                 sweepVars>>

\* No readable frame within helloTimeout: no Client was built yet.
NoHello(c) ==
  /\ pc[c] = "new"
  /\ link' = [link EXCEPT ![c] = "closed"]
  /\ Goto(c, "done")
  /\ UNCHANGED <<localVars, out, roomVars, inviteVars, hs, claim,
                 sweepVars>>

RateLimited(c) ==
  /\ pc[c] \in {"claimC", "claimJ"}
  /\ Reject(c)
  /\ UNCHANGED <<localVars, link, roomVars, inviteVars, hs, claim,
                 sweepVars>>

ClaimSession(c) ==
  /\ pc[c] \in {"claimC", "claimJ"} /\ CanClaim(c)
  /\ claim' = Claimed(c)
  /\ Goto(c, IF pc[c] = "claimC" THEN "mkroom" ELSE "redeem")
  /\ UNCHANGED <<localVars, out, link, roomVars, inviteVars, hs, sweepVars>>

ClaimRefusedLate(c) ==  \* mutant: the token is redeemed before the refusal
  /\ pc[c] \in {"claimC", "claimJ"} /\ ~CanClaim(c)
  /\ Goto(c, "redeem")
  /\ UNCHANGED <<localVars, out, link, roomVars, inviteVars, hs, claim,
                 sweepVars>>
ClaimRefused(c) ==
  /\ pc[c] \in {"claimC", "claimJ"} /\ ~CanClaim(c)
  /\ Reject(c)
  /\ UNCHANGED <<localVars, link, roomVars, inviteVars, hs, claim,
                 sweepVars>>

-----------------------------------------------------------------------------
(* runOwner, up to memberLoop. *)

CreateRoom(c) ==
  /\ pc[c] = "mkroom"
  /\ \E r \in Room :
       /\ phase[r] = "absent"
       /\ phase' = [phase EXCEPT ![r] = "open"]
       /\ rm' = [rm EXCEPT ![c] = r]
  /\ Goto(c, "addC")
  /\ UNCHANGED <<sess, tok, arg, out, link, members, owner, idle, todo,
                 inviteVars, hs, claim, sweepVars>>

\* The error of Add is discarded.
AddCreator(c) ==
  /\ pc[c] = "addC"
  /\ IF CanAdd(rm[c]) THEN Add(c, rm[c]) ELSE UNCHANGED roomVars
  /\ Goto(c, "welC")
  /\ UNCHANGED <<localVars, out, link, inviteVars, hs, claim, sweepVars>>

\* client.Send(welcome) to itself: a joiner may have been kicked since it entered.
Welcome(c) ==
  /\ pc[c] \in {"welC", "welJ"}
  /\ AfterSend(c, c, "member")
  /\ UNCHANGED <<localVars, out, link, roomVars, inviteVars, hs, claim,
                 sweepVars>>

-----------------------------------------------------------------------------
(* runJoiner, up to handshakeLoop. *)

\* RedeemInvite deletes a known token, then looks at its expiry.
Redeem(c) ==
  /\ pc[c] = "redeem"
  /\ tok[c] # None /\ inv[tok[c]] # None
  /\ SetInvites(Consumed(tok[c]))
  /\ IF tok[c] \in expired
       THEN Reject(c) /\ UNCHANGED rm
       ELSE /\ rm' = [rm EXCEPT ![c] = inv[tok[c]]]
            /\ Goto(c, "getroom")
            /\ UNCHANGED out
  /\ UNCHANGED <<sess, tok, arg, link, roomVars, minted, hs, claim,
                 sweepVars>>

\* Unknown token, unregistered room, no capacity or no owner: fail(...).
JoinRefused(c) ==
  /\ \/ pc[c] = "redeem" /\ (tok[c] # None => inv[tok[c]] = None)
     \/ pc[c] = "getroom" /\ rm[c] \notin Registered
     \/ pc[c] = "cap" /\ ~Capacity(rm[c])
     \/ pc[c] = "getowner" /\ ~HasOwner(rm[c])
  /\ Reject(c)
  /\ UNCHANGED <<localVars, link, roomVars, inviteVars, hs, claim,
                 sweepVars>>

GetRoom(c) ==
  /\ pc[c] = "getroom" /\ rm[c] \in Registered
  /\ Goto(c, "cap")
  /\ UNCHANGED <<localVars, out, link, roomVars, inviteVars, hs, claim,
                 sweepVars>>

HasCapacity(c) ==
  /\ pc[c] = "cap" /\ Capacity(rm[c])
  /\ Goto(c, "getowner")
  /\ UNCHANGED <<localVars, out, link, roomVars, inviteVars, hs, claim,
                 sweepVars>>

OwnerClientUnchecked(c) ==  \* mutant: the ok result is ignored
  /\ pc[c] = "getowner"
  /\ arg' = [arg EXCEPT ![c] = owner[rm[c]]]
  /\ Goto(c, "newhs")
  /\ UNCHANGED <<sess, tok, rm, out, link, roomVars, inviteVars, hs,
                 claim, sweepVars>>
OwnerClient(c) ==
  /\ pc[c] = "getowner" /\ HasOwner(rm[c])
  /\ arg' = [arg EXCEPT ![c] = owner[rm[c]]]
  /\ Goto(c, "newhs")
  /\ UNCHANGED <<sess, tok, rm, out, link, roomVars, inviteVars, hs,
                 claim, sweepVars>>

\* Registers the handshake and queues redeem_ok on c's own, still open channel.
NewHandshake(c) ==
  /\ pc[c] = "newhs"
  /\ hs' = [hs EXCEPT ![c] = arg[c]]
  /\ Goto(c, "notify")
  /\ UNCHANGED <<localVars, out, link, roomVars, inviteVars, claim,
                 sweepVars>>

\* owner.Send(invite_redeemed), to the owner looked up three steps earlier.
NotifyOwner(c) ==
  /\ pc[c] = "notify"
  /\ AfterSend(c, arg[c], "handshake")
  /\ Forget(c)
  /\ UNCHANGED <<sess, tok, rm, out, link, roomVars, inviteVars, hs, claim,
                 sweepVars>>

-----------------------------------------------------------------------------
(* handshakeLoop. *)

\* pake or member_key: GetHandshake and Peer; frames of unknown handshakes are
\* ignored.
JoinerFrame(c) ==
  /\ pc[c] = "handshake" /\ link[c] = "up"
  /\ hs[c] # None
  /\ arg' = [arg EXCEPT ![c] = hs[c]]
  /\ Goto(c, "hsSend")
  /\ UNCHANGED <<sess, tok, rm, out, link, roomVars, inviteVars, hs,
                 claim, sweepVars>>

\* peer.Send in relayHandshake, for either party of a handshake.
RelayToPeer(c) ==
  /\ pc[c] \in {"hsSend", "mbSend"}
  /\ AfterSend(c, arg[c], IF pc[c] = "hsSend" THEN "handshake" ELSE "member")
  /\ Forget(c)
  /\ UNCHANGED <<sess, tok, rm, out, link, roomVars, inviteVars, hs, claim,
                 sweepVars>>

Enter(c) ==
  /\ pc[c] = "handshake" /\ link[c] = "up"
  /\ CanAdd(rm[c])
  /\ Add(c, rm[c])
  /\ Goto(c, "endhs")
  /\ UNCHANGED <<localVars, out, link, inviteVars, hs, claim, sweepVars>>

\* enter into a full or closed room, a leave frame, or a failed read.
AbandonHandshake(c) ==
  /\ pc[c] = "handshake"
  /\ Goto(c, "quit")
  /\ UNCHANGED <<localVars, out, link, roomVars, inviteVars, hs, claim,
                 sweepVars>>

EndHandshake(c) ==
  /\ pc[c] = "endhs"
  /\ hs' = [hs EXCEPT ![c] = None]
  /\ Goto(c, "welJ")
  /\ UNCHANGED <<localVars, out, link, roomVars, inviteVars, claim,
                 sweepVars>>

\* EndHandshake and CloseOut of a joiner that did not enter.
QuitHandshakeKeeps(c) ==  \* mutant: EndHandshake is forgotten
  /\ pc[c] = "quit"
  /\ Reject(c)
  /\ UNCHANGED <<localVars, link, roomVars, inviteVars, hs, claim, sweepVars>>
QuitHandshake(c) ==
  /\ pc[c] = "quit"
  /\ hs' = [hs EXCEPT ![c] = None]
  /\ Reject(c)
  /\ UNCHANGED <<localVars, link, roomVars, inviteVars, claim, sweepVars>>

-----------------------------------------------------------------------------
(* memberLoop: one action per frame that changes state.  rekey, roster and   *)
(* the file frames only send to open channels of current members.            *)

Reading(c) == pc[c] = "member" /\ link[c] = "up"

\* msg: Relay touches the room if the sender is still a member.
Chat(c) ==
  /\ Reading(c)
  /\ rm[c] # None /\ c \in members[rm[c]]
  /\ idle' = idle \ {rm[c]}
  /\ UNCHANGED <<pc, localVars, out, link, phase, members, owner, todo,
                 inviteVars, hs, claim, sweepVars>>

\* Bound of the model: no more invites are asked for than tokens are left.
MintBound == Cardinality({d \in Conn : pc[d] = "mint"}) < Cardinality(Token \ minted)

\* invite, transfer or kick: the ownership check of the handler.
OwnerRequest(c) ==
  /\ Reading(c) /\ IsOwner(c)
  /\ \/ MintBound /\ Goto(c, "mint") /\ UNCHANGED arg
     \/ \E d \in Conn, l \in {"setowner", "kick"} :
          Goto(c, l) /\ arg' = [arg EXCEPT ![c] = d]
  /\ UNCHANGED <<sess, tok, rm, out, link, roomVars, inviteVars, hs,
                 claim, sweepVars>>

\* The same frames from someone else (also a file frame over a cap): an error
\* is sent to c itself, whose channel a kick may have closed meanwhile.
RequestRefused(c) ==
  /\ Reading(c) /\ ~IsOwner(c)
  /\ AfterSend(c, c, "member")
  /\ UNCHANGED <<localVars, out, link, roomVars, inviteVars, hs, claim,
                 sweepVars>>

CreateInvite(c) ==
  /\ pc[c] = "mint"
  /\ \E t \in Token \ minted :
       /\ inv' = [inv EXCEPT ![t] = rm[c]]
       /\ minted' = minted \cup {t}
  /\ Goto(c, "inviteSend")
  /\ UNCHANGED <<localVars, out, link, roomVars, expired, hs, claim,
                 sweepVars>>

\* client.Send(invite_created).
SendInvite(c) ==
  /\ pc[c] = "inviteSend"
  /\ AfterSend(c, c, "member")
  /\ UNCHANGED <<localVars, out, link, roomVars, inviteVars, hs, claim,
                 sweepVars>>

\* pake, key_deliver or member_key of the owner side: GetHandshake and Peer.
OwnerFrame(c) ==
  /\ Reading(c)
  /\ \E j \in Conn :
       /\ hs[j] = c
       /\ arg' = [arg EXCEPT ![c] = j]
  /\ Goto(c, "mbSend")
  /\ UNCHANGED <<sess, tok, rm, out, link, roomVars, inviteVars, hs,
                 claim, sweepVars>>

SetOwner(c) ==
  /\ pc[c] = "setowner"
  /\ LET r == rm[c] IN
       IF Joined(arg[c], r)
         THEN /\ owner' = [owner EXCEPT ![r] = arg[c]]
              /\ idle' = idle \ {r}
         ELSE UNCHANGED <<owner, idle>>
  /\ Goto(c, "member")
  /\ Forget(c)
  /\ UNCHANGED <<sess, tok, rm, out, link, phase, members, todo, inviteVars, hs,
                 claim, sweepVars>>

Kick(c) ==
  /\ pc[c] = "kick"
  /\ LET r == rm[c] IN
       IF Kickable(arg[c], r)
         THEN Remove(arg[c], r) /\ Goto(c, "kickclr") /\ UNCHANGED arg
         ELSE UNCHANGED <<out, roomVars>> /\ Goto(c, "member") /\ Forget(c)
  /\ UNCHANGED <<sess, tok, rm, link, inviteVars, hs, claim, sweepVars>>

\* RemoveMember frees the kicked member's session after releasing the lock.
KickClear(c) ==
  /\ pc[c] = "kickclr"
  /\ claim' = ClearSessionByClient(arg[c])
  /\ Goto(c, "member")
  /\ Forget(c)
  /\ UNCHANGED <<sess, tok, rm, out, link, roomVars, inviteVars, hs, sweepVars>>

\* A leave frame or a failed read ends memberLoop.
EndLoop(c) ==
  /\ pc[c] = "member"
  /\ Goto(c, "leave")
  /\ UNCHANGED <<localVars, out, link, roomVars, inviteVars, hs, claim,
                 sweepVars>>

-----------------------------------------------------------------------------
(* Room.Leave, Room.Close and the way out of the handler. *)

Leave(c) ==
  /\ pc[c] = "leave"
  /\ LET r == rm[c] IN
       \/ /\ ~Joined(c, r)
          /\ UNCHANGED <<out, roomVars>>
          /\ Goto(c, "clrsess")
       \/ /\ Joined(c, r) /\ c = owner[r]
          /\ UNCHANGED <<out, roomVars>>
          /\ Goto(c, "close")
       \/ /\ Joined(c, r) /\ c # owner[r]
          /\ Remove(c, r)
          /\ Goto(c, IF members[r] = {c} THEN "close" ELSE "clrsess")
  /\ UNCHANGED <<localVars, link, inviteVars, hs, claim, sweepVars>>

\* Close returns at once in a room that is already closed.
OwnerClose(c) ==
  /\ pc[c] = "close"
  /\ IF Closed(rm[c])
       THEN UNCHANGED roomVars /\ Goto(c, "clrsess")
       ELSE Detach(rm[c]) /\ Goto(c, "closing")
  /\ UNCHANGED <<localVars, out, link, inviteVars, hs, claim, sweepVars>>

OwnerClosed(c) ==
  /\ pc[c] = "closing" /\ phase[rm[c]] = "closed"
  /\ Goto(c, "clrsess")
  /\ UNCHANGED <<localVars, out, link, roomVars, inviteVars, hs, claim,
                 sweepVars>>

\* The rest of Close, executed by the one goroutine that detached the room:
\* removeRoom, dropInvitesForRoom, then every member in some order.
RemoveRoom(r) ==
  /\ phase[r] = "unregister"
  /\ phase' = [phase EXCEPT ![r] = "invites"]
  /\ UNCHANGED <<pc, localVars, out, link, members, owner, idle, todo,
                 inviteVars, hs, claim, sweepVars>>

DropInvitesLate(r) ==  \* mutant: the tokens of the room stay
  /\ phase[r] = "invites"
  /\ phase' = [phase EXCEPT ![r] = "members"]
  /\ UNCHANGED <<pc, localVars, out, link, members, owner, idle, todo,
                 inviteVars, hs, claim, sweepVars>>
DropInvites(r) ==
  /\ phase[r] = "invites"
  /\ SetInvites([t \in Token |-> IF inv[t] = r THEN None ELSE inv[t]])
  /\ phase' = [phase EXCEPT ![r] = "members"]
  /\ UNCHANGED <<pc, localVars, out, link, members, owner, idle, todo,
                 minted, hs, claim, sweepVars>>

CloseMemberSilent(r) ==  \* mutant: the channel is not closed
  /\ phase[r] = "members"
  /\ \E c \in todo[r] :
       /\ todo' = [todo EXCEPT ![r] = @ \ {c}]
       /\ claim' = ClearSessionByClient(c)
  /\ UNCHANGED <<pc, localVars, out, link, phase, members, owner, idle,
                 inviteVars, hs, sweepVars>>
CloseMember(r) ==
  /\ phase[r] = "members"
  /\ \E c \in todo[r] :
       /\ todo' = [todo EXCEPT ![r] = @ \ {c}]
       /\ claim' = ClearSessionByClient(c)
       /\ CloseChannel(c)
  /\ UNCHANGED <<pc, localVars, link, phase, members, owner, idle, inviteVars,
                 hs, sweepVars>>

CloseDone(r) ==
  /\ phase[r] = "members" /\ todo[r] = {}
  /\ phase' = [phase EXCEPT ![r] = "closed"]
  /\ UNCHANGED <<pc, localVars, out, link, members, owner, idle, todo,
                 inviteVars, hs, claim, sweepVars>>

FreeSession(c) ==
  /\ pc[c] = "clrsess"
  /\ claim' = ClearSession(c)
  /\ Goto(c, "drain")
  /\ UNCHANGED <<localVars, out, link, roomVars, inviteVars, hs, sweepVars>>

\* <-client.Done()
PumpDone(c) ==
  /\ pc[c] = "drain" /\ link[c] = "closed"
  /\ Goto(c, "defer")
  /\ UNCHANGED <<localVars, out, link, roomVars, inviteVars, hs, claim,
                 sweepVars>>

\* The deferred calls of session and handleWS; cancel stops the write pump.
Deferred(c) ==
  /\ pc[c] = "defer"
  /\ hs' = EndHandshakesFor(c)
  /\ claim' = ClearSession(c)
  /\ link' = [link EXCEPT ![c] = "closed"]
  /\ Goto(c, "done")
  /\ UNCHANGED <<localVars, out, roomVars, inviteVars, sweepVars>>

-----------------------------------------------------------------------------
(* The write pump, the network and the clock. *)

\* WritePump after close(out): it drains the queue and closes the socket.
PumpDrains(c) ==
  /\ out[c] # "open" /\ link[c] # "closed" /\ pc[c] \notin {"new", "done"}
  /\ link' = [link EXCEPT ![c] = "closed"]
  /\ UNCHANGED <<pc, localVars, out, roomVars, inviteVars, hs, claim,
                 sweepVars>>

\* A write fails, or the heartbeat misses its pong and cancels the context.
PumpFails(c) ==
  /\ link[c] = "down" /\ pc[c] \notin {"new", "done"}
  /\ link' = [link EXCEPT ![c] = "closed"]
  /\ UNCHANGED <<pc, localVars, out, roomVars, inviteVars, hs, claim,
                 sweepVars>>

\* The peer goes away, or a broadcast closes the socket of a slow consumer.
PeerDrops(c) ==
  /\ link[c] = "up"
  /\ link' = [link EXCEPT ![c] = "down"]
  /\ UNCHANGED <<pc, localVars, out, roomVars, inviteVars, hs, claim,
                 sweepVars>>

Expire(t) ==
  /\ inv[t] # None /\ t \notin expired
  /\ expired' = expired \cup {t}
  /\ UNCHANGED <<pc, localVars, out, link, roomVars, inv, minted, hs,
                 claim, sweepVars>>

BecomeIdle(r) ==
  /\ "janitor" \in Sweeper /\ phase[r] = "open" /\ r \notin idle
  /\ idle' = idle \cup {r}
  /\ UNCHANGED <<pc, localVars, out, link, phase, members, owner, todo,
                 inviteVars, hs, claim, sweepVars>>

-----------------------------------------------------------------------------
(* StartJanitor and Shutdown: snapshot the rooms, then visit them one by one. *)

Snapshot(w) ==
  /\ spc[w] = "ready"
  /\ scan' = [scan EXCEPT ![w] = Registered]
  /\ spc' = [spc EXCEPT ![w] = "visit"]
  /\ UNCHANGED <<pc, localVars, out, link, roomVars, inviteVars, hs,
                 claim, sroom>>

\* The janitor looks at MemberCount, then at idleFor; Shutdown at neither.
Visit(w) ==
  /\ spc[w] = "visit"
  /\ \E r \in scan[w] :
       /\ scan' = [scan EXCEPT ![w] = @ \ {r}]
       /\ sroom' = [sroom EXCEPT ![w] = r]
       /\ spc' = [spc EXCEPT ![w] =
            CASE w = "shutdown" -> "close"
              [] w = "janitor" /\ members[r] = {} -> "idle"
              [] OTHER -> "visit"]
  /\ UNCHANGED <<pc, localVars, out, link, roomVars, inviteVars, hs,
                 claim>>

IdleFor(w) ==
  /\ spc[w] = "idle"
  /\ spc' = [spc EXCEPT ![w] = IF sroom[w] \in idle THEN "close" ELSE "visit"]
  /\ UNCHANGED <<pc, localVars, out, link, roomVars, inviteVars, hs,
                 claim, scan, sroom>>

SweepClose(w) ==
  /\ spc[w] = "close"
  /\ IF Closed(sroom[w])
       THEN UNCHANGED roomVars /\ spc' = [spc EXCEPT ![w] = "visit"]
       ELSE Detach(sroom[w]) /\ spc' = [spc EXCEPT ![w] = "closing"]
  /\ UNCHANGED <<pc, localVars, out, link, inviteVars, hs, claim, scan,
                 sroom>>

SweepClosed(w) ==
  /\ spc[w] = "closing" /\ phase[sroom[w]] = "closed"
  /\ spc' = [spc EXCEPT ![w] = "visit"]
  /\ UNCHANGED <<pc, localVars, out, link, roomVars, inviteVars, hs,
                 claim, scan, sroom>>

\* Shutdown runs once; the janitor drops expired tokens and waits for its tick.
SweepEnd(w) ==
  /\ spc[w] = "visit" /\ scan[w] = {}
  /\ sroom' = [sroom EXCEPT ![w] = None]
  /\ spc' = [spc EXCEPT ![w] = IF w = "shutdown" THEN "done" ELSE "ready"]
  /\ SetInvites(GcInvites(w))
  /\ UNCHANGED <<pc, localVars, out, link, roomVars, minted, hs, claim,
                 scan>>

-----------------------------------------------------------------------------
Frame(c) ==
  \/ ReceiveHello(c) \/ BadHello(c) \/ JoinerFrame(c) \/ Enter(c)
  \/ Chat(c) \/ OwnerRequest(c) \/ RequestRefused(c) \/ OwnerFrame(c)

\* Steps a handler takes by itself.  A failed read is one of them: it ends the
\* loops.  NoHello is the hello timeout, so it happens even on a live link.
Handler(c) ==
  \/ NoHello(c) \/ RateLimited(c) \/ ClaimSession(c) \/ ClaimRefused(c)
  \/ CreateRoom(c) \/ AddCreator(c) \/ Welcome(c)
  \/ Redeem(c) \/ JoinRefused(c) \/ GetRoom(c) \/ HasCapacity(c)
  \/ OwnerClient(c) \/ NewHandshake(c) \/ NotifyOwner(c) \/ RelayToPeer(c)
  \/ EndHandshake(c) \/ QuitHandshake(c) \/ CreateInvite(c) \/ SendInvite(c)
  \/ SetOwner(c) \/ Kick(c) \/ KickClear(c) \/ Leave(c) \/ OwnerClose(c)
  \/ OwnerClosed(c) \/ FreeSession(c) \/ PumpDone(c) \/ Deferred(c)

LoopEnds(c) == AbandonHandshake(c) \/ EndLoop(c)
CloseStep(r) == RemoveRoom(r) \/ DropInvites(r) \/ CloseMember(r) \/ CloseDone(r)
Sweep(w) == Visit(w) \/ IdleFor(w) \/ SweepClose(w) \/ SweepClosed(w) \/ SweepEnd(w)

\* Nobody is connected any more and no room is being torn down.
Quiescent ==
  /\ \A c \in Conn : pc[c] = "done" /\ link[c] = "closed"
  /\ \A r \in Room : phase[r] \in {"absent", "open", "closed"}
  /\ UNCHANGED vars

Next ==
  \/ \E c \in Conn : \/ Frame(c) \/ Handler(c) \/ LoopEnds(c)
                     \/ PumpDrains(c) \/ PumpFails(c) \/ PeerDrops(c)
  \/ \E r \in Room : CloseStep(r) \/ BecomeIdle(r)
  \/ \E t \in Token : Expire(t)
  \/ \E w \in Sweeper : Snapshot(w) \/ Sweep(w)
  \/ Quiescent

Spec == Init /\ [][Next]_vars

\* Go schedules every runnable goroutine; the heartbeat (WS_PING_INTERVAL > 0,
\* the default) turns a dead link into a failed read and a stopped pump.  No
\* fairness is assumed of the peers' frames, the clock or the janitor's ticks.
Fairness ==
  /\ \A c \in Conn : /\ WF_vars(Handler(c))
                     /\ WF_vars(link[c] # "up" /\ LoopEnds(c))
                     /\ WF_vars(PumpDrains(c)) /\ WF_vars(PumpFails(c))
  /\ \A r \in Room : WF_vars(CloseStep(r))
  /\ \A w \in Sweeper : WF_vars(Sweep(w))

FairSpec == Spec /\ Fairness

-----------------------------------------------------------------------------
(* Safety. *)

\* No nil dereference: at every location that uses the local variable room, or
\* the owner, peer or target looked up before, the variable has a value.
Dereferenced ==
  /\ \A c \in Conn :
       /\ pc[c] \in {"addC", "getroom", "cap", "getowner", "newhs", "notify",
                     "handshake", "hsSend", "leave", "close", "closing"} \cup Serving
            => rm[c] \in Room
       /\ pc[c] \in {"newhs", "notify", "hsSend", "mbSend", "setowner", "kick",
                     "kickclr"} => arg[c] \in Conn
  /\ \A w \in Sweeper : spc[w] \in {"idle", "close", "closing"} => sroom[w] \in Room

\* Type invariant: every variable has its type and nothing nil is used.
TypeInv == TypeOK /\ Dereferenced

\* An open room that has members is owned by one of them, and a room that was
\* destroyed has neither (Room.Add, SetOwner, RemoveMember, Leave, Close): the
\* room always has somebody whose leaving destroys it.
OwnerIsMember ==
  \A r \in Room :
    /\ phase[r] = "open" /\ members[r] # {} => owner[r] \in members[r]
    /\ phase[r] # "open" => members[r] = {}

\* However many joiners pass HasCapacity before any of them enters, a room
\* never exceeds MaxRoomSize (Room.Add checks again under the lock).
RoomBound == \A r \in Room : Cardinality(members[r]) <= MaxRoomSize

\* Client.out is closed exactly once although four goroutines may close it:
\* its own (Leave, CloseOut), a kicking owner, whoever runs Room.Close.
ChannelClosedOnce == \A c \in Conn : out[c] # "broken"

\* Every channel that a broadcast or a teardown sends on is open, so neither
\* can panic (broadcastLocked and RemoveMember send under the room lock, and a
\* panic there would leave the lock taken).
MembersReachable ==
  \A r \in Room : \A c \in members[r] \cup todo[r] : out[c] = "open"

\* One room per session (TryClaimSession): two connections with the same
\* session id are never members at the same time, whatever cleanup of an
\* earlier connection is still running.  A handler that panicked is excluded,
\* its entry outlives it (see NoGhostMember).
OneRoomPerSession ==
  \A c, d \in Conn :
    /\ sess[c] = sess[d] /\ sess[c] # None
    /\ \E r \in Room : c \in members[r]
    /\ \E r \in Room : d \in members[r]
    /\ pc[c] \notin {"defer", "done"} /\ pc[d] \notin {"defer", "done"}
    => c = d

\* A claim is held by a connection that asked for that session and is still
\* being served: no exit path of the handler leaves a session locked out.
NoStaleClaim ==
  \A s \in Session : claim[s] # None =>
    /\ sess[claim[s]] = s
    /\ pc[claim[s]] \notin {"new", "claimC", "claimJ", "done"}

\* handleInvite, handleTransfer and handleKick check ownership in one critical
\* section and act in a later one.  In between the check stays true unless the
\* room was destroyed: only the owner itself can give ownership away.
OwnerGuardStable ==
  \A c \in Conn : pc[c] \in {"mint", "setowner", "kick"} =>
    \/ phase[rm[c]] \notin {"absent", "open"}
    \/ owner[rm[c]] = c /\ c \in members[rm[c]]

\* RedeemInvite: a token admits at most one joiner past redemption.
SingleUse ==
  \A c, d \in Conn :
    tok[c] # None /\ tok[c] = tok[d] /\ rm[c] # None /\ rm[d] # None => c = d

\* A registered handshake belongs to a joiner that has not entered yet (or is
\* just about to deregister it) and pairs it with a connection of the room its
\* token was for, so relayed frames never cross rooms.
HandshakeOwned ==
  \A j \in Conn : hs[j] # None =>
    /\ pc[j] \in {"notify", "handshake", "hsSend", "endhs", "quit", "defer"}
    /\ rm[hs[j]] = rm[j]

\* Destroying a room drops its outstanding invites, also one that its owner is
\* just minting: as long as only the owner itself can destroy the room, none is
\* registered after dropInvitesForRoom.
NoInviteForDeadRoom ==
  \A t \in Token : inv[t] # None => phase[inv[t]] \notin {"members", "closed"}

-----------------------------------------------------------------------------
(* Action properties. *)

\* An invite token disappears only by a redemption of a connection that holds
\* its session claim (a blocked attempt does not consume it), with its room, or
\* after its expiry.
TokenConsumption ==
  [][\A t \in Token : inv[t] # None /\ inv'[t] # inv[t] =>
       \/ \E c \in Conn : /\ pc[c] = "redeem" /\ pc'[c] # "redeem" /\ tok[c] = t
                          /\ sess[c] # None => claim[sess[c]] = c
       \/ Closed(inv[t])
       \/ t \in expired]_vars

\* The server implements the abstract room, with the whole of Close as one step.
RoomStatus ==
  [r \in Room |-> IF phase[r] \in {"absent", "open"} THEN phase[r] ELSE "closed"]
RoomAbstract == INSTANCE RoomSpec WITH status <- RoomStatus
RefinesRoomSpec == RoomAbstract!Spec

-----------------------------------------------------------------------------
(* Liveness. *)

\* A creator that is in no room: a sweeper closed its fresh room before Add, and
\* runOwner goes on as if Add had succeeded.  Nobody will close its channel.
Unadmitted(c) ==
  /\ rm[c] # None /\ tok[c] = None /\ out[c] = "open"
  /\ phase[rm[c]] \notin {"absent", "open"}
  /\ c \notin todo[rm[c]]

\* Once the peer is gone or the handler is on its way out, the handler ends,
\* whoever destroys the room meanwhile.  An unadmitted creator waits at
\* <-client.Done() until its peer is gone.
ExitCompletes ==
  \A c \in Conn :
    (link[c] # "up" \/ (pc[c] \in Exiting \cup {"quit"} /\ ~Unadmitted(c)))
      ~> (pc[c] = "done")

\* Destroying a room ends the connection of everybody who was in it, even of a
\* peer that keeps its end open and sends nothing.
TeardownEndsMembers ==
  \A c \in Conn, r \in Room : (c \in todo[r]) ~> (pc[c] = "done")

-----------------------------------------------------------------------------
(* What documents of the repository say, refuted by runs. *)

\* PROTOCOL.md: a dead connection runs the full normal teardown, so a finished
\* handler is in no room.
NoGhostMember ==
  \A c \in Conn, r \in Room : pc[c] = "done" => c \notin members[r]
=============================================================================
