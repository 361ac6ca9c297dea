------------------------------ MODULE RelayInv ------------------------------
(***************************************************************************)
(* The inductive invariant of Relay: the safety properties strengthened    *)
(* with where a goroutine must be when somebody else refers to it.         *)
(***************************************************************************)
EXTENDS Relay

\* A member's handler is serving it, about to leave, or has panicked.
InRoom == Serving \cup {"leave", "close", "defer", "done"}

\* Handlers that passed TryClaimSession and have not been admitted yet.
Claiming == PreJoin \ {"new", "claimC", "claimJ"}

\* A member entry is in the one room its handler works for.
MemberInv ==
  \A r \in Room : \A c \in members[r] : rm[c] = r /\ pc[c] \in InRoom

\* What Close still has to shut belongs to that closed room and never returns.
TodoInv ==
  \A r \in Room : \A c \in todo[r] :
    rm[c] = r /\ phase[r] \notin {"absent", "open"} /\ pc[c] \notin PreJoin

\* Until a connection is admitted only its own handler closes its channel.
OutInv == \A c \in Conn : pc[c] \in PreJoin => out[c] = "open"

\* Membership, ownership and channels.
RoomInv ==
  /\ MemberInv /\ TodoInv /\ OutInv
  /\ OwnerIsMember /\ MembersReachable /\ ChannelClosedOnce

\* A connection on its way into a room, or in one and not panicked, holds the
\* claim of its session.
HoldInv ==
  \A c \in Conn :
    /\ sess[c] # None
    /\ \/ pc[c] \in Claiming
       \/ pc[c] \notin {"defer", "done"} /\ \E r \in Room : c \in members[r]
    => claim[sess[c]] = c

\* The member a kick is about to release the session of is out of every room
\* and stays out.
KickInv ==
  \A c \in Conn : pc[c] = "kickclr" =>
    /\ pc[arg[c]] \notin PreJoin
    /\ \A r \in Room : arg[c] \notin members[r]

ClaimInv == NoStaleClaim /\ HoldInv /\ KickInv

\* A token that admitted somebody is gone for good.
TokenInv ==
  /\ \A c \in Conn :
       /\ pc[c] \in {"new", "claimC", "claimJ", "mkroom", "redeem"} => rm[c] = None
       /\ pc[c] \in {"claimC", "mkroom"} => tok[c] = None
       /\ tok[c] # None /\ rm[c] # None => tok[c] \in minted /\ inv[tok[c]] = None
  /\ \A t \in Token : inv[t] # None => t \in minted
  /\ SingleUse

\* The owner a joiner is paired with, or about to be, is past its admission.
HandshakeInv ==
  /\ HandshakeOwned
  /\ \A j \in Conn : hs[j] # None => pc[hs[j]] \notin PreJoin
  /\ \A j \in Conn : pc[j] = "newhs" =>
       rm[arg[j]] = rm[j] /\ pc[arg[j]] \notin PreJoin

\* While no sweeper is about to close a room, a room is closed by its owner
\* alone: who mints still owns an open room, and who is about to close an open
\* room is its owner, so nobody is minting in the room it closes.
SweepersHoldOff == \A w \in Sweeper : spc[w] # "close"
InviteInv ==
  /\ \A c \in Conn :
       \/ pc[c] = "mint"
       \/ pc[c] = "close" /\ phase[rm[c]] \in {"absent", "open"}
       => phase[rm[c]] = "open" /\ owner[rm[c]] = c /\ c \in members[rm[c]]
  /\ NoInviteForDeadRoom

\* The inductive invariant: together with the types, what every reachable state
\* of the server satisfies and every step of it preserves.
IndInv ==
  /\ TypeInv /\ RoomInv /\ RoomBound /\ OwnerGuardStable
  /\ ClaimInv /\ TokenInv /\ HandshakeInv
=============================================================================
