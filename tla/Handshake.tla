----------------------------- MODULE Handshake -----------------------------
(***************************************************************************)
(* From an invite to a place in the room: HandshakeSession on both sides,  *)
(* the exchange of public keys under Ke, the delivery of the room key, and *)
(* what happens when the code is wrong, the owner has handed the room over *)
(* since the invite, or a party disappears.                                *)
(*                                                                         *)
(* An invite names its token, its joiner and its handshake.  net[j][r] are *)
(* the frames on their way to role r of handshake j, in order: each        *)
(* direction is a FIFO, and runJoiner queues redeem_ok and invite_redeemed *)
(* before it relays the first frame.  What rotateForJoin does to the other *)
(* members is in KeyRotation; the capacity of the room is Relay's subject, *)
(* here there is a place for everybody.                                    *)
(***************************************************************************)
EXTENDS Spake2, Sequences

CONSTANTS
  Invite,  \* single-use invites, each redeemed by a browser of its own
  Member,  \* members of the room, each able to own it
  Creator  \* the first owner

ASSUME CreatorAssumption == Creator \in Member

Code == DOMAIN Mhf

\* Every code can be hashed with every handshake id.
ASSUME TableAssumption == \A c \in Code : Mhf[c] \in [Invite -> Nat]

\* HandshakeSession: w, x and own from the constructor, the transcript once the
\* point is there, a confirmation and a sealed room key that came too early.
Transcript == [id : Invite, pA : Point, pB : Point, K : Point, w : Point]
Session ==
  [w : Point, x : Point, own : Point, result : Transcript \cup {None},
   early : [by : Role, tt : Transcript] \cup {None}, done : BOOLEAN,
   ke : Transcript \cup {None},
   deliver : [t : {"key_deliver"}, by : Member, for : Invite] \cup {None}]

ASSUME NoneAssumption == None \notin Member \cup Code \cup Transcript \cup Session

VARIABLES
  owner,    \* of the room; None once it is destroyed
  gone,     \* members that left
  issuer,   \* issuer[j]: the member with j in its pendingInvites
  code,     \* code[j]: the code it generated for j
  with,     \* with[j]: the owner the server paired j with
  live,     \* live: handshakes the server relays for
  typed,    \* typed[j]: the code of the joiner's pendingJoin
  phase,    \* phase[j]: where the joiner is
  first,    \* first[j]: its firstOwnerPub
  rec,      \* rec[j][r]: the HsRecord of role r, with its HandshakeSession
  net       \* net[j][r]: frames on their way to role r

roomVars == <<owner, gone, issuer, code>>
vars == <<roomVars, with, live, typed, phase, first, rec, net>>

Waiting == {"redeeming", "handshake", "keyed"}

Init ==
  /\ owner = Creator /\ gone = {}
  /\ issuer = [j \in Invite |-> None]
  /\ code = [j \in Invite |-> None]
  /\ with = [j \in Invite |-> None]
  /\ live = {}
  /\ typed = [j \in Invite |-> None]
  /\ phase = [j \in Invite |-> "out"]
  /\ first = [j \in Invite |-> None]
  /\ rec = [j \in Invite |-> [r \in Role |-> None]]
  /\ net = [j \in Invite |-> [r \in Role |-> <<>>]]

-----------------------------------------------------------------------------
(* Members and the server. *)

\* invite_created: the owner's browser draws a code for the token.
OnInviteCreated(j, c) ==
  /\ owner # None /\ code[j] = None
  /\ code' = [code EXCEPT ![j] = c]
  /\ issuer' = [issuer EXCEPT ![j] = owner]
  /\ UNCHANGED <<owner, gone, with, live, typed, phase, first, rec, net>>

Transfer(m) ==
  /\ owner # None /\ m \notin gone \cup {owner}
  /\ owner' = m
  /\ UNCHANGED <<gone, issuer, code, with, live, typed, phase, first, rec, net>>

\* The first frame to each role comes from the server.
Opening(r) == IF r = "A" THEN "invite_redeemed" ELSE "redeem_ok"

\* The server pairs the joiner with the present owner, or refuses the invite.
Redeem(j, c) ==
  /\ phase[j] = "out" /\ code[j] # None
  /\ typed' = [typed EXCEPT ![j] = c]
  /\ IF owner = None
       THEN /\ phase' = [phase EXCEPT ![j] = "failed"]
            /\ UNCHANGED <<with, live, net>>
       ELSE /\ phase' = [phase EXCEPT ![j] = "redeeming"]
            /\ with' = [with EXCEPT ![j] = owner]
            /\ live' = live \cup {j}
            /\ net' = [net EXCEPT ![j] = [r \in Role |-> <<[t |-> Opening(r)]>>]]
  /\ UNCHANGED <<roomVars, first, rec>>

\* What is left of the frames q when their sender's connection breaks: redeem_ok
\* comes from the server itself.
Prefixes(q) ==
  {SubSeq(q, 1, n) : n \in {n \in 0 .. Len(q) :
     q # <<>> /\ Head(q).t = "redeem_ok" => n > 0}}

\* A member leaves or its connection breaks, which takes its last frames along;
\* EndHandshakesFor drops its handshakes and tells nobody.
MemberGone(m) ==
  /\ m \notin gone
  /\ gone' = gone \cup {m}
  /\ owner' = IF m = owner THEN None ELSE owner
  /\ LET lost == {j \in live : with[j] = m} IN
       /\ live' = live \ lost
       /\ \E left \in [lost -> UNION {Prefixes(net[j]["B"]) : j \in lost}] :
            /\ \A j \in lost : left[j] \in Prefixes(net[j]["B"])
            /\ net' = [j \in Invite |-> IF j \in lost
                                          THEN [net[j] EXCEPT !["A"] = <<>>, !["B"] = left[j]]
                                          ELSE net[j]]
  /\ UNCHANGED <<issuer, code, with, typed, phase, first, rec>>

\* teardown of the joiner: it fails, or it leaves on its own.
TornDown(j, p) ==
  /\ phase' = [phase EXCEPT ![j] = p]
  /\ live' = live \ {j}
  /\ rec' = [rec EXCEPT ![j]["B"] = None]
  /\ net' = [net EXCEPT ![j]["A"] = IF j \in live THEN @ ELSE <<>>, ![j]["B"] = <<>>]

JoinerGone(j) ==
  /\ phase[j] \in Waiting
  /\ TornDown(j, "gone")
  /\ UNCHANGED <<roomVars, with, typed, first>>

\* runJoiner, on enter: a place in the room, or the room is closed.
Enter(j) ==
  /\ phase[j] = "keyed"
  /\ phase' = [phase EXCEPT ![j] = IF owner = None THEN "failed" ELSE "in"]
  /\ live' = live \ {j}
  /\ UNCHANGED <<roomVars, with, typed, first, rec, net>>

-----------------------------------------------------------------------------
(* HandshakeSession, the same code for both roles. *)

Online(j, r) == IF r = "A" THEN with[j] \notin gone
                           ELSE phase[j] \in {"redeeming", "handshake"}

NextFrame(j, r, t) == Online(j, r) /\ net[j][r] # <<>> /\ Head(net[j][r]).t = t

\* One frame handled, the frames out sent; the relay drops those of a handshake
\* that it no longer knows.
Handled(j, r, out) ==
  net' = [net EXCEPT ![j][r] = Tail(@),
                     ![j][Other(r)] = IF j \in live THEN @ \o out ELSE @]

\* A pake frame: a point "m" or a confirmation "c".
Frame(t, d) == [t |-> t, d |-> d]

\* The constructor derives w and sends our message.
NewSession(j, r, c) ==
  \E x \in RandomScalar(r, DeriveW(c, j), j) :
    LET w == DeriveW(c, j)
        own == Start(r, w, x)
    IN /\ rec' = [rec EXCEPT ![j][r] =
                    [w |-> w, x |-> x, own |-> own, result |-> None, early |-> None,
                     done |-> FALSE, ke |-> None, deliver |-> None]]
       /\ Handled(j, r, <<Frame("m", own)>>)

\* The public key, sealed under Ke (sealUnderKe); sent by onConfirmed.
MemberKey(j, r, ke) ==
  [t |-> "member_key", ke |-> ke, pub |-> IF r = "A" THEN with[j] ELSE j]

\* fail: the owner forgets the record, the joiner tears its session down.
FailSilently(j, r, out) ==  \* mutant: a joiner ignores the failure
  /\ Handled(j, r, out)
  /\ UNCHANGED <<rec, phase, live>>
Fail(j, r, out) ==
  IF r = "A" THEN /\ rec' = [rec EXCEPT ![j]["A"] = None]
                  /\ Handled(j, r, out)
                  /\ UNCHANGED <<phase, live>>
             ELSE TornDown(j, "failed")

\* verify, after the frames out.
Verify(j, r, s, c, out) ==
  IF VerifyPeer(r, s.result, c)
    THEN /\ rec' = [rec EXCEPT ![j][r] = [s EXCEPT !.done = TRUE, !.ke = s.result]]
         /\ Handled(j, r, out \o <<MemberKey(j, r, s.result)>>)
         /\ UNCHANGED <<phase, live>>
    ELSE Fail(j, r, out)

\* What handlePoint sends: our confirmation.
ConfirmBehindKey(j, r, tt) ==  \* mutant: the public key goes out before it
  <<MemberKey(j, r, tt), Frame("c", Confirm(r, tt))>>
ConfirmFrame(j, r, tt) == <<Frame("c", Confirm(r, tt))>>

HandlePoint(j, r) ==
  /\ NextFrame(j, r, "m") /\ rec[j][r] # None
  /\ ~rec[j][r].done /\ rec[j][r].result = None
  /\ LET R == rec[j][r]
         tt == Finish(r, j, R.w, R.x, R.own, Head(net[j][r]).d)
         s == [R EXCEPT !.result = tt, !.early = None]
         out == ConfirmFrame(j, r, tt)
     IN IF R.early # None
          THEN Verify(j, r, s, R.early, out)
          ELSE /\ rec' = [rec EXCEPT ![j][r] = s]
               /\ Handled(j, r, out)
               /\ UNCHANGED <<phase, live>>
  /\ UNCHANGED <<roomVars, with, typed, first>>

\* handleConfirm: kept for later when the peer's message is still missing.
HandleConfirm(j, r) ==
  /\ NextFrame(j, r, "c") /\ rec[j][r] # None /\ ~rec[j][r].done
  /\ IF rec[j][r].result # None
       THEN Verify(j, r, rec[j][r], Head(net[j][r]).d, <<>>)
       ELSE /\ rec' = [rec EXCEPT ![j][r].early = Head(net[j][r]).d]
            /\ Handled(j, r, <<>>)
            /\ UNCHANGED <<phase, live>>
  /\ UNCHANGED <<roomVars, with, typed, first>>

\* Frames of a handshake that this browser has no record of.
IgnorePake(j, r) ==
  /\ NextFrame(j, r, "m") \/ NextFrame(j, r, "c")
  /\ rec[j][r] = None
  /\ Handled(j, r, <<>>)
  /\ UNCHANGED <<roomVars, with, live, typed, phase, first, rec>>

-----------------------------------------------------------------------------
(* The handlers of main.ts. *)

OnRedeemOk(j) ==
  /\ NextFrame(j, "B", "redeem_ok")
  /\ NewSession(j, "B", typed[j])
  /\ phase' = [phase EXCEPT ![j] = "handshake"]
  /\ UNCHANGED <<roomVars, with, live, typed, first>>

\* Only the browser that issued the invite knows its code.
OnInviteRedeemed(j) ==
  /\ NextFrame(j, "A", "invite_redeemed")
  /\ IF issuer[j] = with[j] THEN NewSession(j, "A", code[j])
                            ELSE Handled(j, "A", <<>>) /\ UNCHANGED rec
  /\ UNCHANGED <<roomVars, with, live, typed, phase, first>>

\* openUnderKe works with the same Ke only; without one the frame is ignored.
CanOpen(j, r) ==
  rec[j][r] # None /\ rec[j][r].ke # None /\ rec[j][r].ke = Head(net[j][r]).ke

\* onMemberKey of the owner: rotateForJoin delivers the new key, sealed to both
\* public keys, and the record is done with.
OwnerOnMemberKey(j) ==
  /\ NextFrame(j, "A", "member_key")
  /\ IF CanOpen(j, "A")
       THEN /\ rec' = [rec EXCEPT ![j]["A"] = None]
            /\ Handled(j, "A", <<[t |-> "key_deliver", by |-> with[j],
                                  for |-> Head(net[j]["A"]).pub]>>)
       ELSE Handled(j, "A", <<>>) /\ UNCHANGED rec
  /\ UNCHANGED <<roomVars, with, live, typed, phase, first>>

\* openRoomKey works for the pair of keys that sealRoomKey used.
OpenRoomKey(j, pub, f) == f.by = pub /\ f.for = j

FinishJoin(j, pub, f) ==
  IF OpenRoomKey(j, pub, f)
    THEN /\ phase' = [phase EXCEPT ![j] = "keyed"]
         /\ rec' = [rec EXCEPT ![j]["B"] = None]
         /\ Handled(j, "B", <<>>)
         /\ UNCHANGED live
    ELSE TornDown(j, "failed")

JoinerOnMemberKey(j) ==
  /\ NextFrame(j, "B", "member_key")
  /\ IF CanOpen(j, "B")
       THEN LET pub == Head(net[j]["B"]).pub IN
            /\ first' = [first EXCEPT ![j] = pub]
            /\ IF rec[j]["B"].deliver # None
                 THEN FinishJoin(j, pub, rec[j]["B"].deliver)
                 ELSE Handled(j, "B", <<>>) /\ UNCHANGED <<phase, live, rec>>
       ELSE Handled(j, "B", <<>>) /\ UNCHANGED <<phase, live, first, rec>>
  /\ UNCHANGED <<roomVars, with, typed>>

\* onKeyDeliver: kept for later when the owner's public key is still missing.
OnKeyDeliver(j) ==
  /\ NextFrame(j, "B", "key_deliver")
  /\ IF first[j] # None
       THEN FinishJoin(j, first[j], Head(net[j]["B"]))
       ELSE /\ rec' = [rec EXCEPT ![j]["B"].deliver = Head(net[j]["B"])]
            /\ Handled(j, "B", <<>>)
            /\ UNCHANGED <<phase, live>>
  /\ UNCHANGED <<roomVars, with, typed, first>>

-----------------------------------------------------------------------------
Browser(j) ==
  \/ \E r \in Role : HandlePoint(j, r) \/ HandleConfirm(j, r) \/ IgnorePake(j, r)
  \/ OnRedeemOk(j) \/ OnInviteRedeemed(j)
  \/ OwnerOnMemberKey(j) \/ JoinerOnMemberKey(j) \/ OnKeyDeliver(j)

Next ==
  \/ \E j \in Invite :
       \/ Browser(j) \/ Enter(j) \/ JoinerGone(j)
       \/ \E c \in Code : OnInviteCreated(j, c) \/ Redeem(j, c)
  \/ \E m \in Member : Transfer(m) \/ MemberGone(m)

\* Frames are delivered and handled, the server serves enter.  Nobody has to
\* create or redeem an invite, to leave or to hand over.
Spec == Init /\ [][Next]_vars /\ \A j \in Invite : WF_vars(Browser(j)) /\ WF_vars(Enter(j))

-----------------------------------------------------------------------------
\* The code decides.  Whoever holds a confirmed Ke shares it with the other side,
\* which typed the same code (mutual key confirmation); with the right code a
\* joiner is never turned away while the room exists, whatever scalars are drawn,
\* also for a code whose scalar is zero; with a wrong one it gets no room key.
CodeDecides ==
  \A j \in Invite :
    /\ \A r \in Role : rec[j][r] # None /\ rec[j][r].ke # None =>
         /\ typed[j] = code[j]
         /\ rec[j][Other(r)] # None => rec[j][Other(r)].ke \in {None, rec[j][r].ke}
    /\ phase[j] = "failed" => typed[j] # code[j] \/ owner = None
    /\ phase[j] \in {"keyed", "in"} => typed[j] = code[j] /\ first[j] = with[j]

\* No frame comes too early to be used: a point finds a session, a confirmation
\* the transcript, a public key Ke, and a room key the owner's public key, so the
\* silent returns of onMemberKey never lose a join.
UsableOnArrival ==
  \A j \in Invite : \A r \in Role :
    Online(j, r) /\ net[j][r] # <<>> =>
      CASE Head(net[j][r]).t = "c" -> rec[j][r] # None => rec[j][r].result # None
        [] Head(net[j][r]).t = "member_key" -> CanOpen(j, r)
        [] Head(net[j][r]).t = "key_deliver" -> first[j] # None
        [] OTHER -> TRUE

\* A joiner gets in or is told, unless the owner it was paired with has gone or
\* never knew the code: those two are the only ways to wait for ever.
JoinResolves ==
  \A j \in Invite :
    phase[j] \in Waiting ~>
      (phase[j] \notin Waiting \/ with[j] \in gone \/ with[j] # issuer[j])
=============================================================================
