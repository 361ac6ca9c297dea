------------------------------ MODULE Outbound ------------------------------
(***************************************************************************)
(* What the members of one room see: the bounded outbound queue of every   *)
(* client, its write pump, the broadcasts made under the room lock and the *)
(* direct sends made without it.                                           *)
(*                                                                         *)
(* A broadcast is one step (it holds Room.mu); taking a frame off a queue  *)
(* and writing it to the socket are two.  A frame carries its number, in   *)
(* the order the sends happened, and a membership frame (welcome,          *)
(* presence) the member list and owner it was built from.                  *)
(***************************************************************************)
EXTENDS Naturals, Sequences

CONSTANTS
  Client,     \* the connections that enter the room
  Creator,    \* the one that created it; the others enter from a handshake
  Buffer,     \* outboundBuffer
  MaxFrames,  \* bound of the model: no new traffic after so many frames
  None        \* no client, no frame, no view

ASSUME CreatorAssumption == Creator \in Client
ASSUME BufferAssumption == Buffer \in Nat \ {0}
ASSUME BoundAssumption == MaxFrames \in Nat

VARIABLES
  members, owner,  \* Room.members, Room.ownerID
  closed,          \* Room.closed
  todo,            \* members Close has still to notify
  hpc,             \* hpc[c]: where the handler of c is
  snap,            \* snap[c]: the snapshot its welcome is built from
  chan,            \* chan[c]: the channel Client.out, "open" or "closed"
  q,               \* q[c]: frames queued in it
  wr,              \* wr[c]: the frame its pump is writing
  pump,            \* pump[c]: "run" or "done"
  conn,            \* conn[c]: "up", "closing" (policy close), "down" (failed),
                   \*          "ended" (closed by the pump after draining)
  got,             \* got[c]: newest member list and room_closed, if received
  n,               \* number of frames sent so far
  due              \* due[c]: the frames addressed to c and not received yet

roomVars == <<members, owner, closed, todo>>
handVars == <<hpc, snap>>
sockVars == <<wr, pump, got>>
vars == <<roomVars, handVars, chan, q, sockVars, conn, n, due>>

Kind == {"chat", "direct", "welcome", "presence", "bye"}
View == [m : SUBSET Client, o : Client \cup {None}]
Frame == [k : Kind, i : Nat, v : View \cup {None}]

ASSUME NoneAssumption == None \notin Client \cup View \cup Frame

Init ==
  /\ members = {} /\ owner = None /\ closed = FALSE /\ todo = {}
  /\ hpc = [c \in Client |-> "enter"]
  /\ snap = [c \in Client |-> None]
  /\ chan = [c \in Client |-> "open"]
  /\ q = [c \in Client |-> <<>>]
  /\ wr = [c \in Client |-> None]
  /\ pump = [c \in Client |-> "run"]
  /\ conn = [c \in Client |-> "up"]
  /\ got = [c \in Client |-> [view |-> None, bye |-> FALSE]]
  /\ n = 0
  /\ due = [c \in Client |-> {}]

-----------------------------------------------------------------------------
(* trySend and broadcastLocked. *)

HasRoomOff(c) == Len(q[c]) <= Buffer  \* mutant: off by one
HasRoom(c) == Len(q[c]) < Buffer
Goto(c, l) == hpc' = [hpc EXCEPT ![c] = l]
Bounded == n < MaxFrames

NewFrame(k, v) == [k |-> k, i |-> n + 1, v |-> v]
MembersInfo(M, o) == [m |-> M, o |-> o]

\* The clients of B get f by a broadcast, the clients of D get g by a direct
\* send; nobody is in both.  trySend drops the frame when the queue is full;
\* broadcastLocked then closes the connection, a direct send does nothing.
\* What is queued for a closed connection is never read and not followed.
Addressed(c, B, D) == c \in B \cup D /\ pump[c] = "run" /\ conn[c] = "up"
Enqueue(B, f, D, g) ==
  LET frame(c) == IF c \in B THEN f ELSE g IN
  /\ n' = n + 1
  /\ q' = [c \in Client |-> IF Addressed(c, B, D) /\ HasRoom(c)
                              THEN Append(q[c], frame(c)) ELSE q[c]]
  /\ due' = [c \in Client |-> IF Addressed(c, B, D)
                                THEN due[c] \cup {frame(c)} ELSE due[c]]
DeliverSilent(B, f, D, g) ==  \* mutant: a slow consumer is only skipped
  Enqueue(B, f, D, g) /\ UNCHANGED conn
Deliver(B, f, D, g) ==
  /\ Enqueue(B, f, D, g)
  /\ conn' = [c \in Client |-> IF c \in B /\ ~HasRoom(c) /\ conn[c] = "up"
                                 THEN "closing" ELSE conn[c]]

\* The pump returns; what was queued is never read.
StopPump(c, how) ==
  /\ pump' = [pump EXCEPT ![c] = "done"]
  /\ conn' = [conn EXCEPT ![c] = IF pump[c] = "run" THEN how ELSE @]
  /\ wr' = [wr EXCEPT ![c] = None]
  /\ q' = [q EXCEPT ![c] = <<>>]
  /\ due' = [due EXCEPT ![c] = {}]

Broadcast(S, f) == Deliver(S, f, {}, f)
Send(c, f) == Deliver({}, f, {c}, f)
NoSend == UNCHANGED <<q, conn, n, due>>

-----------------------------------------------------------------------------
(* Entering: Room.Add, SnapshotMembers, Send(welcome), BroadcastPresence. *)

\* A joiner comes with an invite and from a handshake with an owner, of which
\* there is none before the creator serves; by now that owner may be gone.
Invited == hpc[Creator] \in {"presence", "member", "gone"}

Add(c) ==
  /\ hpc[c] = "enter" /\ ~closed
  /\ c = Creator \/ Invited
  /\ members' = members \cup {c}
  /\ owner' = IF members = {} THEN c ELSE owner
  /\ Goto(c, "snapshot")
  /\ NoSend
  /\ UNCHANGED <<closed, todo, snap, chan, sockVars>>

SnapshotMembers(c) ==
  /\ hpc[c] = "snapshot"
  /\ snap' = [snap EXCEPT ![c] = MembersInfo(members, owner)]
  /\ Goto(c, "welcome")
  /\ NoSend
  /\ UNCHANGED <<roomVars, chan, sockVars>>

\* If the room or a kick closed the channel since, the send panics and the
\* connection is cancelled.  Only a joiner announces itself.
Welcome(c) ==
  /\ hpc[c] = "welcome"
  /\ IF chan[c] = "open"
       THEN /\ Send(c, NewFrame("welcome", snap[c]))
            /\ Goto(c, IF c = Creator THEN "member" ELSE "presence")
            /\ UNCHANGED <<wr, pump>>
       ELSE StopPump(c, "down") /\ Goto(c, "gone") /\ UNCHANGED n
  /\ snap' = [snap EXCEPT ![c] = None]
  /\ UNCHANGED <<roomVars, chan, got>>

BroadcastPresence(c) ==
  /\ hpc[c] = "presence"
  /\ IF closed THEN NoSend
     ELSE Broadcast(members, NewFrame("presence", MembersInfo(members, owner)))
  /\ Goto(c, "member")
  /\ UNCHANGED <<roomVars, snap, chan, sockVars>>

-----------------------------------------------------------------------------
(* memberLoop. *)

\* A chat, roster or file frame of c for the others.  File frames are relayed
\* even for a sender that was kicked and whose handler has not noticed yet.
Chat(c) ==
  /\ hpc[c] = "member" /\ ~closed /\ Bounded
  /\ Broadcast(members \ {c}, NewFrame("chat", None))
  /\ UNCHANGED <<roomVars, handVars, chan, sockVars>>

\* Frames for one client: rekey from the owner, invite_created or error to the
\* sender itself, handshake frames between a member and a client that has not
\* entered.  A send on a closed channel panics, which ends the sender: the same
\* as ConnFails and Leave, or as a joiner that never enters.
Direct(s, c) ==
  /\ Bounded /\ chan[c] = "open"
  /\ \/ hpc[s] = "member" /\ s \in members /\ c = s
     \/ hpc[s] = "member" /\ s = owner /\ c \in members
     \/ hpc[s] = "member" /\ hpc[c] = "enter"
     \/ hpc[s] = "enter" /\ hpc[c] = "member"
  /\ Send(c, NewFrame("direct", None))
  /\ UNCHANGED <<roomVars, handVars, chan, sockVars>>

TransferSilent(c, d) ==  \* mutant: presence is not broadcast again
  /\ hpc[c] = "member" /\ owner = c /\ d \in members /\ Bounded
  /\ owner' = d
  /\ NoSend
  /\ UNCHANGED <<members, closed, todo, handVars, chan, sockVars>>
Transfer(c, d) ==
  /\ hpc[c] = "member" /\ owner = c /\ d \in members /\ Bounded
  /\ owner' = d
  /\ Goto(c, "presence")
  /\ NoSend
  /\ UNCHANGED <<members, closed, todo, snap, chan, sockVars>>

\* Out of the room with the channel closed; presence for the rest, and for a
\* kicked member the notice first.
DetachOpen(d, D) ==  \* mutant: the channel and the map entry stay
  /\ Deliver(members \ {d}, NewFrame("presence", MembersInfo(members \ {d}, owner)),
             D, NewFrame("bye", None))
  /\ UNCHANGED <<members, owner, closed, todo, chan>>
Detach(d, D) ==
  /\ members' = members \ {d}
  /\ chan' = [chan EXCEPT ![d] = "closed"]
  /\ Deliver(members \ {d}, NewFrame("presence", MembersInfo(members \ {d}, owner)),
             D, NewFrame("bye", None))
  /\ UNCHANGED <<owner, closed, todo>>

Kick(c, d) ==
  /\ hpc[c] = "member" /\ owner = c /\ d \in members \ {c} /\ Bounded
  /\ Detach(d, {d})
  /\ UNCHANGED <<handVars, sockVars>>

\* memberLoop ends, then Room.Leave; for the owner Room.Close begins.
Leave(c) ==
  /\ hpc[c] = "member"
  /\ \/ /\ c \notin members
        /\ NoSend
        /\ UNCHANGED <<roomVars, chan>>
     \/ /\ c \in members /\ c # owner
        /\ Detach(c, {})
     \/ /\ c \in members /\ c = owner
        /\ closed' = TRUE
        /\ todo' = members /\ members' = {} /\ owner' = None
        /\ NoSend
        /\ UNCHANGED chan
  /\ Goto(c, "gone")
  /\ UNCHANGED <<snap, sockVars>>

\* The loop of Room.Close: the notice if it fits, then close(out).
CloseMember(c) ==
  /\ c \in todo
  /\ todo' = todo \ {c}
  /\ Send(c, NewFrame("bye", None))
  /\ chan' = [chan EXCEPT ![c] = "closed"]
  /\ UNCHANGED <<members, owner, closed, handVars, sockVars>>

-----------------------------------------------------------------------------
(* WritePump and the network. *)

Take(c) ==
  /\ pump[c] = "run" /\ wr[c] = None /\ q[c] # <<>> /\ conn[c] = "up"
  /\ wr' = [wr EXCEPT ![c] = Head(q[c])]
  /\ q' = [q EXCEPT ![c] = Tail(@)]
  /\ UNCHANGED <<roomVars, handVars, chan, pump, got, conn, n, due>>

\* A policy close lets the write in progress finish.
Write(c) ==
  /\ pump[c] = "run" /\ wr[c] # None /\ conn[c] \in {"up", "closing"}
  /\ got' = [got EXCEPT ![c] = [view |-> IF wr[c].v # None THEN wr[c].v ELSE @.view,
                                bye |-> @.bye \/ wr[c].k = "bye"]]
  /\ due' = [due EXCEPT ![c] = {f \in @ : f.i > wr[c].i}]
  /\ wr' = [wr EXCEPT ![c] = None]
  /\ UNCHANGED <<roomVars, handVars, chan, q, pump, conn, n>>

\* After a policy close the next write fails.
PumpFails(c) ==
  /\ pump[c] = "run" /\ conn[c] = "closing"
  /\ StopPump(c, "down")
  /\ UNCHANGED <<roomVars, handVars, chan, got, n>>

\* The peer is gone, a write exceeds writeTimeout, or the heartbeat cancels.
ConnFails(c) ==
  /\ pump[c] = "run" /\ conn[c] = "up"
  /\ StopPump(c, "down")
  /\ UNCHANGED <<roomVars, handVars, chan, got, n>>

PumpEndsEarly(c) ==  \* mutant: close(out) discards what is queued
  /\ pump[c] = "run" /\ wr[c] = None /\ chan[c] = "closed" /\ conn[c] = "up"
  /\ StopPump(c, "ended")
  /\ UNCHANGED <<roomVars, handVars, chan, got, n>>
PumpEnds(c) ==
  /\ pump[c] = "run" /\ wr[c] = None /\ chan[c] = "closed" /\ conn[c] = "up"
  /\ q[c] = <<>>
  /\ StopPump(c, "ended")
  /\ UNCHANGED <<roomVars, handVars, chan, got, n>>

-----------------------------------------------------------------------------
Handler(c) == SnapshotMembers(c) \/ Welcome(c) \/ BroadcastPresence(c)
Pump(c) == Take(c) \/ Write(c) \/ PumpFails(c) \/ PumpEnds(c) \/ ConnFails(c)

Next ==
  \E c \in Client :
    \/ Add(c) \/ Handler(c) \/ Chat(c) \/ Leave(c) \/ CloseMember(c)
    \/ Pump(c)
    \/ \E d \in Client : Direct(c, d) \/ Transfer(c, d) \/ Kick(c, d)

Spec == Init /\ [][Next]_vars

-----------------------------------------------------------------------------
IsBroadcast(f) == f.k \in {"chat", "presence"}

\* What c's pump is writing, then what is queued behind it.
Stream(c) == IF wr[c] = None THEN q[c] ELSE <<wr[c]>> \o q[c]

\* Type invariant; the queue never exceeds its capacity.
TypeInv ==
  /\ members \subseteq Client /\ todo \subseteq Client
  /\ owner \in Client \cup {None} /\ closed \in BOOLEAN /\ n \in Nat
  /\ hpc \in [Client -> {"enter", "snapshot", "welcome", "presence", "member", "gone"}]
  /\ snap \in [Client -> View \cup {None}]
  /\ chan \in [Client -> {"open", "closed"}]
  /\ pump \in [Client -> {"run", "done"}]
  /\ conn \in [Client -> {"up", "closing", "down", "ended"}]
  /\ got \in [Client -> [view : View \cup {None}, bye : BOOLEAN]]
  /\ \A c \in Client :
       /\ Len(q[c]) <= Buffer
       /\ \A i \in DOMAIN Stream(c) : Stream(c)[i] \in Frame
       /\ due[c] \subseteq Frame

\* The next broadcast a member receives is the oldest one addressed to it that
\* it has not received yet: no gap and no reordering, although a broadcast that
\* finds the queue full is dropped while the pump is still writing.  Hence any
\* two members agree on the order of the conversation.  Whoever stays connected
\* misses no broadcast at all; a frame for one client alone (Send, SendTo) that
\* finds the queue full is lost and its client stays.
NoGap ==
  \A c \in Client :
    LET s == Stream(c) IN
    /\ \A j \in DOMAIN s :
         /\ s[j] \in due[c]
         /\ \A h \in 1 .. j - 1 : s[h].i < s[j].i
         /\ \A f \in due[c] : IsBroadcast(f) /\ f.i < s[j].i => \E h \in 1 .. j - 1 : s[h] = f
    /\ conn[c] = "up" => \A f \in due[c] : IsBroadcast(f) => \E h \in DOMAIN s : s[h] = f

\* close(out) loses nothing: the pump ends the connection by itself only when
\* every broadcast addressed to the client was received.
DrainedAtEnd ==
  [][\A c \in Client : conn[c] # "ended" /\ conn'[c] = "ended" =>
       ~\E f \in due[c] : IsBroadcast(f)]_vars

\* room_closed is the last frame a peer sees: nothing is queued behind it.
ByeIsLast ==
  \A c \in Client :
    /\ got[c].bye => Stream(c) = <<>>
    /\ \A i \in DOMAIN Stream(c) : Stream(c)[i].k = "bye" => i = Len(Stream(c))

\* v is the newest member list on its way to c or, if none is, the one c has.
NewestView(c, v) ==
  LET s == Stream(c) IN
  \/ got[c].view = v /\ \A j \in DOMAIN s : s[j].v = None
  \/ v # None /\ \E j \in DOMAIN s : s[j].v = v /\ \A h \in j + 1 .. Len(s) : s[h].v = None

\* Once nobody is between a change of the room and the presence broadcast that
\* follows it, the newest member list on its way to a connected member is the
\* current one, although snapshots are taken before they are sent.
ViewConverges ==
  (\A c \in Client : hpc[c] \in {"enter", "member", "gone"}) =>
    \A c \in members : conn[c] = "up" => NewestView(c, MembersInfo(members, owner))
=============================================================================
