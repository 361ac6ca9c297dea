# E2EAnon, verified: TLA+ models of the relay and of the browser client

E2EAnon is an anonymous chat.  A Go server relays opaque frames between the
members of short-lived rooms and keeps everything in memory; the browser
client encrypts everything under a room key that the owner's browser rotates
whenever somebody joins or leaves.  This directory models the parts of the
program where concurrency, ordering or failure decide correctness, checks them
with TLC on small instances and proves their safety properties with
TLAPS for instances of every size.

## The system

| Component | State | Operations | Talks to |
|---|---|---|---|
| Handler goroutines (`httpapi/server.go`) | local variables `client`, `room`, the session id, `FileTransfers` | `session`, `runOwner`, `runJoiner`, `handshakeLoop`, `memberLoop` and the handlers of the frames | hub and room methods, each under its own lock; `Send` on any client it has a pointer to |
| Hub (`relay/hub.go`, `relay/invites.go`) | `rooms`, `invites`, `handshakes`, `sessions` under `hub.mu`; atomic `inflight`, `online` | create / get / remove a room, claim and clear a session, create / redeem / drop invites, register and end handshakes | rooms (`StartJanitor`, `Shutdown` call `Room.Close`) |
| Room (`relay/room.go`) | `members`, `ownerID`, `closed`, `lastActivity` under `room.mu` | `Add`, `Leave`, `RemoveMember`, `SetOwner`, `Close`, the broadcasts | every member's channel; `hub` after releasing its own lock |
| Client (`relay/client.go`) | the channel `out` (32 frames), the socket | `trySend`, `CloseOut`, `WritePump` | the peer |
| File relay (`handleFile` ...) | bytes per transfer, `Hub.inflight` | start, chunk, end, abort, release on disconnect | `BroadcastExcept` |
| Janitor and shutdown (`hub.go`, `cmd/anonchat/main.go`) | a snapshot of the rooms | close idle rooms, drop expired invites, close all rooms | `Room.Close` |
| Browser keys (`web/src/main.ts`) | `keys`, `memberPubs`, `knownMembers`, `ownerId`, `role`, `firstOwnerPub` | `rotateForJoin`, `onPresence` (rotation on leave, roster), `onRekey`, `applyRoster`, `onWelcome`, `finishJoin` | frames through the relay |
| Browser handshake (`web/src/handshake.ts`) | SPAKE2 state, a pending confirmation | `onData`, `verify`, `fail` | the peer's browser through `relayHandshake` |
| Browser tab (`main.ts`) | `session`, `pendingJoin`, `intentionalClose`, the view, the leave dialog | `connect`, `closeCurrentSession`, `teardown`, `onClose`, `handleError`, `doLeave`, `recoverIfSocketDead` | the WebSocket |
| Browser files (`main.ts`) | `staged`, the activation of `sendFile`, `incoming`, `fileMsgs` | `sendFile`, `onFileStart`, `onFileChunk`, `onFileEnd`, abort and rejection | the file relay; `keys` |
| Rate limiter (`ratelimit.go`) | a bucket per address | `Allow`, `Cleanup` | `runOwner`, `runJoiner` |

What is hard here.  A handler releases a lock and acts later on what it saw:
the owner it looked up, the ownership it checked, the free place it saw.  A
client's channel may be closed by four different goroutines, and a send on a
closed channel panics in the *sender's* goroutine, where `net/http` recovers it
after the deferred calls.  Teardown of a room is five separate critical
sections.  Queues are bounded and overflow.  Keys travel as ordinary frames, so
a rotation races the membership change it reacts to.  In the browser one task
runs at a time, but `connect` and `sendFile` give up the event loop in the
middle and go on with variables that other tasks have changed since, and key
arrays are zeroed in place under whoever still refers to them.  `PROJECT.json` lists each
hazard at its line with the properties that would show it going wrong, and says
why for the few that no property covers.

## Modules

| Module | Models |
|---|---|
| `Relay` | handlers, hub, rooms, invites, handshakes, session claims, janitor, shutdown |
| `RoomSpec` | what a room promises: the abstract specification that `Relay` implements |
| `RelayInv` | the inductive invariant of `Relay` |
| `MCRelay` | casts of connections for TLC |
| `RelayRoomProofs`, `RelayHubProofs` | proofs about `Relay` |
| `FileRelay`, `MCFileRelay` | accounting of file transfers |
| `Outbound`, `MCOutbound` | contents of the outbound queues of one room, write pumps |
| `KeyRotation`, `MCKeyRotation` | room key, roster and ownership in the browsers, over the relay |
| `Spake2` | the algebra of SPAKE2: messages, shared element, transcript, confirmation |
| `Handshake`, `MCHandshake` | from an invite to a place in the room: `HandshakeSession` of both roles and the handlers around it |
| `TabSession` | one browser tab: sockets, session, flags, view, leave dialog |
| `FileShare` | a file from the sender's input to the receivers' screens |
| `FileRelayProofs`, `OutboundProofs`, `KeyRotationProofs`, `HandshakeProofs`, `TabSessionProofs`, `FileShareProofs` | proofs about the module of that name |

How they fit.  `Handshake` and `KeyRotation` stand on the FIFO channels that
`Outbound` shows for broadcasts and on the pairing of joiner and owner that
`Relay` shows (`HandshakeOwned`).  `Handshake` resolves into messages what
`KeyRotation` takes as the single step of a successful join; `TabSession`
abstracts it to its outcome (`HandshakeOver`).  `FileShare` uses of the relay
what `FileRelay` shows (chunks only inside a transfer) and of the keys only
that they rotate.

### Relay

A step is one critical section (of `hub.mu` or of one `room.mu`) or one channel
operation, so handlers interleave wherever Go can interleave them.  `pc[c]` is
the place of connection `c`'s handler between two such steps; `rm`, `arg`,
`sess`, `tok` are its local variables.  `phase[r]` walks a room through the
steps of `Room.Close` (`unregister`, `invites`, `members`, `closed`), with
`todo[r]` the private copy of the member map that `Close` works through.
`out[c]` is the channel; a second close makes it `broken` and a send on a closed
one sends the handler to `defer` (`AfterSend`), which is where a recovered panic
continues: the deferred calls of `session` run and nothing else, in particular
not `Room.Leave`.  Frame contents are left out; `Chat` is there because it
refreshes `lastActivity`.  A token expires and a room becomes idle at any
moment, so no property depends on a clock.  The verdict of the rate limiter is
arbitrary.  Ids are drawn without repetition (64 and more random bits in the
code), and a handshake is named by its joiner, because each joiner opens one.
In two places neighbouring sections are one step since no other step reads both
of what they write: the two deferred calls of `session`, and releasing a
member's session together with closing its channel in `Close`.

`RoomSpec` is the same room with every critical section as one atomic step:
open, join, depart, transfer, destroy.  The refinement mapping is the identity
on `members` and `owner` and collapses the teardown phases of `phase` into
`closed`.

### FileRelay

Each connection's goroutine alone uses its map `transfers[c]`; `inflight` is
shared.  A step is one atomic addition with the private work around it.  A
rejected chunk is three steps (reserve, roll back, abort), and `abort` of a
kicked sender panics after the release and before the broadcast.  `leaked` is
history: what running transfers had counted when their `file_start` was
repeated.  The web client never does that (it draws a fresh id).

### Outbound

One room whose queues hold `Buffer` frames.  A broadcast is one step (it holds
the room lock); entering is `Add`, `SnapshotMembers`, `Send(welcome)`,
`BroadcastPresence` as separate steps; the pump takes a frame and writes it in
two steps, so a queue can overflow while a write is in progress.  `due[c]` is
history: the set of frames addressed to `c` and not received, each with its
number in the order of sending.  `Stream(c)` is what `c` has still to receive:
the frame being written, then the queue.  The creator may hand the room over and
leave like anybody else; whoever owns the room by then goes on inviting, so
others enter at any later time.

### KeyRotation

The browsers' handlers and the relay's, over one FIFO per direction and client.
FIFO without gaps is what `NoGap` of `Outbound` shows for broadcasts; a direct
frame lost to a full queue is not modelled here.  Keys are numbered in
order of generation; sealing is by name (`by`, `for`), and a frame opens only
with the matching names, as `openRoomKey` does.  SPAKE2 is one successful step,
which `Handshake` takes apart.  The room has `MaxRoomSize` places, asked for when
an invite is redeemed and again when the joiner enters; a joiner that is refused
then has got a room key already, which the room goes on using until the next
presence list makes its owner rotate.
`overlap` is history: it becomes true when a membership change starts before an
earlier one has settled everywhere.

### Spake2 and Handshake

The group of P-256 is cyclic of prime order, so a point is written as its
logarithm: addition and multiplication modulo `Order`.  `Start`, `Unblinded`,
`SharedK` and `Finish` are the formulas of `spake2.ts` in that notation.  Hash,
HKDF and HMAC are injective, so the transcript itself stands for `Ke` and the
confirmation keys; byte encodings (`lv`, base64, JSON) are injective records.
In a group of seven elements coincidences happen that have a probability of
2^-256 in the real one; `RandomScalar` leaves out those that make a message or
a shared element the identity, which the curve library refuses to encode, and
`MhfAssumption` collisions of two codes.

`Handshake` has one record per role with the fields of `HsRecord` and
`HandshakeSession` (`result`, `early` for `pendingPeerConfirm`, `done`, `ke`,
`deliver` for `pendingKeyDeliver`).  Frames travel in one FIFO per direction.
When a party disappears any suffix of what it had sent is lost and the server
forgets the handshake without a word (`EndHandshakesFor`).  A joiner's `teardown`
is `TornDown`.  An invite names the browser that generated its code; after a
transfer the new owner is paired with the joiner and does not know it.

### TabSession

One action is one task of the event loop.  The tab's variables are one record,
and each function of `main.ts` that changes them is an operator from record to
record, so an action composes them as the code calls them.  Sockets are
numbered as they are opened; a closing socket delivers its close event at any
later time, to whatever session is there then.  `waiting` holds the calls of
`connect` that await the close of an old socket; they go on with that event or
with the safety timeout.  The server answers a hello in any way `Relay` may.
`behind`, `hasty` and `late` are history: they name the interleavings in which
a property does not hold, and TLC refutes the property when one of them is left
out.

### FileShare

`upload[x]` is the activation of `sendFile`: it refers to a key, and what it
seals with is the content of that array at the time (`Content`), zero once
`pushKey` or `teardown` has wiped it.  The relay may reject any chunk (the caps
are in `FileRelay`).  Receivers rotate independently of the sender, keep
`MaxKeptKeys` keys, and show a message as a file or as a failure, once.  What
the sender sends after it has entered another room goes there and is lost.  A
receiver that leaves is not modelled: its transfers end with its session.

## Runs

| Run | Instance | Shows |
|---|---|---|
| `join` | 1 creator, 2 joiners, 1 room of size 2, 2 tokens | the safety of membership, ownership, channels, tokens and handshakes |
| `session` | 3 connections of one session id, 3 rooms, 1 token | one room per session, claims released, tokens not wasted, no invite for a destroyed room |
| `sweep` | 1 creator, 1 joiner, janitor and shutdown | the inductive invariant, tokens, and that `Relay` implements `RoomSpec`, while somebody else closes rooms |
| `live` | 1 creator, 1 joiner, a shutdown | handlers end (below) |
| `caps` | 2 senders, 2 transfers each, chunks of 1 and 2, caps 3 and 4 | exact accounting but for repeated starts, and both caps |
| `room` | queues of 2, 4 frames of traffic; creator and joiner, or also a third client once the creator has handed over and left | ordered, gapless delivery of broadcasts; the notice comes last; views converge |
| `rotate` | creator and 2 joiners, 2 kept keys, 1 kick or transfer; or 3 joiners for 2 places | no pre-join key; agreement, forward secrecy and a full roster after changes that do not overlap |
| `handshake` | 1 invite, 2 members, 2 codes, a group of order 7 | the code alone decides who gets a key; no frame comes before what it needs; a joiner gets an answer but in two named cases |
| `tab` | 3 sockets | old sessions are closed and wiped; which joins keep their code; a dead room view ends |
| `files` | 1 file of 2 chunks, 2 receivers, 3 keys of which 2 are kept | a file is shown whole or not at all; one key per file; every message settles |
| `ghost`, `overlap` | 1 creator, 1 joiner; creator and 2 joiners | two disagreements between code and documentation, below |

Bounds.  Two joiners and one free place are what the race past `HasCapacity`
needs; two tokens let both get that far.  Three connections of one session are
what a stale cleanup needs: the old connection, the one that took the session
over, and the one the mistake would let in.  Each connection lives once; a
reconnection is another connection.  `MintBound` stops an owner from asking for
more tokens than there are, `MaxFrames` ends new traffic in `Outbound`,
`MaxRequests` bounds kicks and transfers.  Queues of two frames overflow with
three sends.  Two runs join two instances by a constraint, because the full one
is too large.  `room` (`PairOrSuccession`): two clients without restriction, or
three whose third enters after the creator left, with membership frames only,
connections that hold, and an owner that stays.  `rotate` (`LastPlace`): two
joiners without restriction, or three of which one is in and the two others race
for the last place, until somebody leaves or is refused.  In `live` the only
sweeper is the shutdown, which closes any room; the janitor closes empty ones
only.  In `FileRelay` one sender alone can fill the global cap and two can
exceed it together.  Three clients are what a departure during somebody
else's handshake needs.  One handshake is enough because handshakes share
nothing but the owner, who may be handed over or gone in between; one of its two
codes has the scalar zero.  Three sockets are an abandoned one, its successor
and one more behind that.  Two rotations wipe a key that is used for an upload,
and two receivers may disagree on which keys they hold.  Connections, rooms and
tokens that the instance treats alike are permuted by symmetry; no liveness run
uses symmetry.

Deadlock is checked in `Relay` and `FileRelay`, whose only stopping states
are those where everybody is gone.  The other modules stop when their bounded
traffic, invites, sockets or files are used up.

Fairness (`FairSpec` of `Relay`).  Weak fairness of a handler's own steps, of
the pumps, of a teardown and of a sweep in progress: Go runs every runnable
goroutine.  A read that fails because the link is down is fair, because the
heartbeat turns a dead link into a closed one (`WS_PING_INTERVAL` is positive
by default; with 0 this assumption does not hold).  Nothing is assumed of
frames a peer may send, of a live peer leaving, of expiry or of the janitor's
ticks.  `TeardownEndsMembers` holds under that, and so does `ExitCompletes`, with
a shutdown at any moment, but for one connection: a creator whose fresh room was
closed before it entered it (`Unadmitted`) is served
outside any room and ends only when its peer goes away.

In the browser modules fairness is that of an event loop.  `Handshake`: frames
are delivered and handled, and the server serves `enter`; nobody has to create
or redeem, to leave or to hand over.  `TabSession`: a closing socket delivers its
close event and a timer fires; neither an answer nor a click is promised.
`FileShare`: timers fire, promises resolve, frames are handled.

Every property of a passing run has a mutant of the code (a dropped guard, a
forgotten reset, an off-by-one; the definitions marked `mutant`) that violates
it on the same instance.

## What the code does differently from its documentation

* `ghost`.  `relayHandshake` looks a peer up and sends to it later.  If the
  peer quit in between, the send panics, the sender's own `room.Leave` is
  skipped and its entry stays in an open room, for an owner with the ownership.
  `PROTOCOL.md` promises the full teardown of every dropped connection.
* `overlap`.  A member that leaves while a joiner is still in its handshake
  makes the owner take the joiner for removed as well: it enters with an old
  key and is not rekeyed.

The others are exceptions that a passing property has to make; `PROJECT.json`
quotes the lines they contradict.

* `ExitCompletes`.  The first `Add` of a fresh room "cannot fail"
  (`server.go:169`), but a shutdown or the janitor can close the room before it.
  The error is dropped, the creator is served for a room it is not in, `Leave`
  finds nothing to leave, and nobody closes the channel that its handler waits for.
* `JoinResolves`.  A joiner whose owner vanished, or whose invite came from a
  former owner, waits for ever; the comment in `invites.go` speaks of a timeout
  that does not exist.
* `ExactAccounting`.  A second `file_start` for a running transfer forgets the
  bytes counted for it; they are never released.
* `NoGap`.  `Send` and `SendTo` ignore the result of `trySend`: a direct frame
  for a full queue is lost and the client is not disconnected.
* `JoinArmed`.  The join form sets `pendingJoin` before `connect`, which tears
  an older session down and clears it: the join is never answered.
* `OldSessionsEnded`.  A click while `connect` is waiting opens a second socket
  beside the first.
* `DeadRoomEnds`.  A leave dialog that outlives its room and is answered then
  leaves `intentionalClose` set, and the next room's drop shows a dead room.
* `OneEpoch`.  A key wiped under a running upload makes the rest of the file be
  sealed under the zero key, which no receiver that still holds the real one
  can open.

## Proofs

Every theorem is listed in `PROJECT.json`; here are the assumptions and the
arguments.  In each module the properties are not inductive by themselves, and
the proofs turn on what has to be added.

Assumed of the constants everywhere: `None` is distinct from everything, and
bounds are natural numbers.  `Relay` and `KeyRotation` assume a positive room
size, `Relay` also well-typed first frames and no sweeper other than the two,
`FileRelay` that sizes are natural numbers; `Outbound` and `KeyRotation` name a
creator.
`Relay` and `FileRelay` assume finitely many connections and `KeyRotation`
finitely many browsers, which a running process has.  All other sets may be
infinite.

### Relay

`RelayInv` adds where a goroutine must be when somebody else refers to it, in
layers, each preserved by every action given the ones before:

1. `TypeInv` (`RelayRoomProofs`): types, and a handler at a location that uses
   its room, peer or target has one.
2. `RoomInv` (also there): a member's handler is past its admission and
   works for that room (`MemberInv`); what `Close` has still to shut belongs to
   that closed room and cannot return (`TodoInv`); a channel is open as long as
   its handler has not been admitted (`OutInv`).  With these, each of the four
   goroutines that may close a channel finds it open, so
   `ChannelClosedOnce` and `MembersReachable` hold, and `OwnerIsMember` with
   them.  `Refinement` follows step by step from `RoomInv`, and `NeverOverfull`
   from what a step of the abstract room may do.
3. `ClaimInv` (`RelayHubProofs`): whoever is on its way in, or in a room and not
   panicked, holds its session's claim (`HoldInv`), and the target of a kick
   whose session is about to be freed is in no room (`KickInv`).
   `OneRoomPerSession` follows: two such connections would hold one claim.
4. `TokenInv`, `HandshakeInv`: a redeemed token was minted and is gone for
   good; the partner of a handshake is past its admission and of the same room.

`Inductive` combines them: `Spec => []IndInv`.  The run `sweep` checks the same
`IndInv` with TLC.

`InvitesDieWithRoom` has a hypothesis on the behaviour: no sweeper is about to
close a room (`SweepersHoldOff`).  The run `session` has no sweeper at all; the
theorem allows a janitor that finds nothing to close, and everything up to a
shutdown.  Then only an owner destroys its room, and it cannot be minting an
invite while it does (`InviteInv`).  Without the hypothesis the property is
false, which `PROJECT.json` lists as a hazard.

### FileRelay

`Hub.inflight` is a sum over connections and transfers, so `InflightIsExact`
needs induction over finite sets.  The library's induction theorems take an
operator and cannot be used; instead induction is stated as a fact about a *set*
of sets (`SubsetInduction`), from the existence of a smallest number
(`WFMin`).  From it follow the existence of the fold behind `SumFunction`, its
independence of the order of summation, and what changing one value does to a
sum.  The invariant is `ExactAccounting` and the cap with `MapsOK` (maps are finite
and within the file cap; only a chunk on its way to a rollback holds a
reservation) and `Announced` (the last frame relayed of a running transfer is
its start or a chunk), which gives `ChunksInsideTransfers`.  Corollaries:
`inflight` is never negative (`InflightNotNegative`), and once every sender's
goroutine has ended it is what repeated starts leaked and nothing else
(`AllGivenBack`).

### Outbound

All of it is about one sequence per client: `Stream(c)`, extended by a send and
consumed by the pump.  The lemmas are about any sequence of frames (`Gapless`,
`ByeLast`, `Newest`) and one append or one head, and the actions use them
through `Sending` and `Sent`.  The invariant adds that a channel is closed once,
when its client is no member any more (`Channels`); that the creator is alone
until it is welcomed (`Alone`), so that its first list is the true one; and that
whenever a member's newest list is not the true one somebody is still going to
announce it (`Pending` in `Views`), unless the connection is failing.

### KeyRotation

`JoinersLearnNoOldKey` is about who can name whom.  A browser that never joined
has shown its public key to nobody, so no frame in either direction is sealed to
it and nobody has it in `pubs` (`UpOK`, `DownOK`, `Acquainted`).  From its join
on, a key sealed to it is one generated after the join (`born`), which every
frame on its way keeps because numbers of keys only grow (`Grows`).
`KeyHolders` says that a member has a key, so the code never takes the head of
an empty list.

What a settled room agrees on is about how a change completes.  `Settled` looks
only at empty queues, so agreement is not inductive: the invariant has to say,
while a change is under way, that what is on its way will bring agreement about.
`Orderly` says it for a room whose changes have not overlapped (`overlap`, the
hypothesis of the three properties; the run `overlap` shows that it is needed).
Such a room is closed or at one stage of one change:

- `Join1`: the joiner's and the owner's `member_key` frames cross.  `Join2`: the
  owner has rotated, and its public key, the sealed room key and the rekeys for
  the others follow each other in that order (`Queued`, `Divided`, `Delivered`,
  `Ready`).  The place found at redemption is still free in both, so `enter` is
  not refused.  `Join3`: the joiner is in and not announced.
- `Asked`: the owner has asked for a kick or a transfer, or is leaving, and
  everything else is at rest (`Rest`).  `Handed`: it has handed over, and nobody
  has been told.
- `Flow(L, U)`: the server's news and the owner's frames spread; the browsers in
  `L` are about to leave, and those in `U` have left without a rotation yet.

In `Flow` each member follows (`Follows`): it holds the newest key or the rekey
for it is on its way; it knows the owner or a presence list is coming; it has
everybody's public key, or a roster is coming, or the owner has still to notice
the change that makes it send one.  A roster opens only with the key it was
sealed with and a rekey only from the owner the receiver knows, so `Foreseen`
and `Posted` add that each frame can be used when its turn comes.  `Awaits` says
the same of the owner: whoever left while it does not know is in its stale
`known` list, so that the next presence makes it rotate.  `SettledStage` then
shows that a settled room is closed or at rest (`AtRest`), which gives
agreement, forward secrecy and a full roster (`SettledGoals`); every step of the
relay or of a browser leads from stage to stage (`StageMoves`), and a user can
start an unmarked change only at rest (`UserMarks`, `ChangeStarts`).

### Handshake

Each direction of a handshake is a stream of at most five frames: the server's
opening, the point, the confirmation, the public key and, to the joiner, the
room key; `Turn` numbers them.  The invariant says which turn a side expects
(`Expect`), that the frames on their way to it carry exactly the turns from
there on (`InTurn`), and that as long as both sides take part nothing is missing
between them (`Balance`).  The content of a frame is what its sender's session
holds (`UpToDate`), and a session holds what `finish` computes from the point of
the other one (`SessionOK`).  Then `SameTranscript` (unblinding with the same `w`
gives the other side's scalar back) and `SameCode` (different codes give
different `w`, which is part of the transcript) decide every confirmation: it
verifies if and only if the codes agree.  `CodeAlwaysDecides` and `AlwaysUsable`
follow, and so does `NothingKeptForLater`: `pendingPeerConfirm` and
`pendingKeyDeliver` are never set.  When one side is gone or has failed,
`LeftOver` says what may still be on its way to the other.

Assumed: `Order` is a natural number above 2 (it need not be prime), the
blinding points are two different nonzero elements, every code hashes with every
handshake id and two codes never to the same scalar.

### TabSession

Each function of `main.ts` gets a lemma that it keeps the promise `Kept(T, U)`
from record to record: no new socket, ended sessions stay ended, and the session
and the typed code survive together or not at all.  The induction sees functions
only through these.  The invariant is that of the properties with
`OneConnect`: but for a hasty click, at most one `connect` waits, and then there
is no session and no code; `Fresh` says that the server knows no socket that has
not opened.

### FileShare

`FilesAreWhole` rests on `file_start` being the first frame of its transfer and
the only one of its kind (`StartsOnce`): a receiver then starts from nothing and
counts every chunk it opened.  `FilesKeepTheirKey` rests on keys never coming
back: an upload's key is never newer than the newest key (`Epochs`), and every
frame with content is sealed with it, or with the zeros of its wiped array once
it is no longer held (`Sealed`).

### Only model-checked

Liveness and everything about `ENABLED`, which the prover does not support:
`ExitCompletes` and `TeardownEndsMembers` of `Relay`, `JoinResolves` of
`Handshake`, `DeadRoomEnds` of `TabSession` and `TransfersSettle` of
`FileShare`.  Every other property of a passing run is stated by a theorem.

## Not modelled

The arithmetic of curve, hash and cipher (`spake2.ts`, `crypto.ts`), whose
guarantees appear as injectivity and "opens only with the matching keys", and
malformed frames, which a correct relay does not produce; configuration parsing,
static files, health and statistics; rendering; `sessionClaim.roomID`, which
nothing reads.  The counting of the rate limiter: `Relay` lets it admit or refuse
any attempt, so nothing rests on it.  The zeroing of `Ke`: `finishJoin` wipes the
joiner's copy, the owner's record is dropped unwiped (`main.ts:410`) although
`PROTOCOL.md` says that any handshake `Ke` is zeroed; no behaviour depends on it.

## Plan

All modules of the plan are built and every safety property the runs check is
proved.  The liveness properties stay with TLC.  The hazards of `PROJECT.json`
without a property say there why they have none.
