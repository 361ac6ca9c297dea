-------------------------- MODULE HandshakeProofs --------------------------
(***************************************************************************)
(* Why the code decides: the proof that CodeDecides and UsableOnArrival    *)
(* hold for any group, codes, members and number of invites.               *)
(*                                                                         *)
(* Each direction of a handshake is a stream of at most five frames, and   *)
(* the turn of a frame is its place in that stream.  The invariant says    *)
(* which turn each side waits for, that the frames on their way to it      *)
(* carry just the turns from there on, and that their content is the       *)
(* state of the sender.  Both sides then hold the same transcript exactly  *)
(* when their codes are the same.                                          *)
(***************************************************************************)
EXTENDS Handshake, TLAPS

Wire ==
  [t : {"redeem_ok", "invite_redeemed"}] \cup [t : {"m"}, d : Point]
    \cup [t : {"c"}, d : [by : Role, tt : Transcript]]
    \cup [t : {"member_key"}, ke : Transcript, pub : Member \cup Invite]
    \cup [t : {"key_deliver"}, by : Member, for : Invite]

Phase == {"out", "redeeming", "handshake", "keyed", "in", "gone", "failed"}

TypeOK ==
  /\ owner \in (Member \ gone) \cup {None} /\ gone \subseteq Member
  /\ issuer \in [Invite -> Member \cup {None}]
  /\ code \in [Invite -> Code \cup {None}]
  /\ with \in [Invite -> Member \cup {None}]
  /\ live \subseteq Invite
  /\ typed \in [Invite -> Code \cup {None}]
  /\ phase \in [Invite -> Phase]
  /\ first \in [Invite -> Member \cup {None}]
  /\ rec \in [Invite -> [Role -> Session \cup {None}]]
  /\ net \in [Invite -> [Role -> Seq(Wire)]]

\* The code that role r works with.
CodeOf(j, r) == IF r = "A" THEN code[j] ELSE typed[j]

\* Where the frames of a direction come in it.
Turn(t) ==
  CASE t \in {"redeem_ok", "invite_redeemed"} -> 1
    [] t = "m" -> 2
    [] t = "c" -> 3
    [] t = "member_key" -> 4
    [] OTHER -> 5

\* How far a side has come: the turn of the last frame that it has sent, and
\* the turn of the next one it expects.
Place(s) == IF s = None THEN 1
              ELSE IF s.result = None THEN 2 ELSE IF ~s.done THEN 3 ELSE 4
Expect(j, r) ==
  Place(rec[j][r]) + (IF r = "B" /\ first[j] # None THEN 1 ELSE 0)

\* A side that still takes part: the owner also before it learns of the redemption.
Listens(j, r) ==
  /\ Online(j, r)
  /\ r = "A" => rec[j]["A"] # None \/ (net[j]["A"] # <<>> /\ Head(net[j]["A"]).t = "invite_redeemed")

\* A frame to role r says what the server or the other role can have sent.
Genuine(j, r, f) ==
  CASE f.t = "redeem_ok" -> r = "B"
    [] f.t = "invite_redeemed" -> r = "A"
    [] f.t = "m" -> TRUE
    [] f.t = "c" -> /\ f.d.by = Other(r) /\ f.d.tt.id = j
                    /\ f.d.tt.w = DeriveW(CodeOf(j, Other(r)), j)
    [] f.t = "member_key" -> f.pub = IF r = "B" THEN with[j] ELSE j
    [] f.t = "key_deliver" -> r = "B" /\ f.by = with[j] /\ f.for = j

\* It is up to date with the session that sent it.
Current(j, r, f) ==
  LET S == rec[j][Other(r)]
      R == rec[j][r]
  IN /\ f.t = "m" /\ S # None => f.d = S.own
     /\ f.t = "c" /\ S # None => S.result = f.d.tt
     /\ f.t = "c" /\ S = None /\ r = "B" =>
          R # None /\ R.result \notin {None, f.d.tt} /\ typed[j] # code[j]
     /\ f.t = "member_key" =>
          /\ R # None /\ R.result = f.ke
          /\ \A i \in DOMAIN net[j][r] : net[j][r][i].t = "c" => net[j][r][i].d.tt = f.ke

Said(j, r) == \A i \in DOMAIN net[j][r] : Genuine(j, r, net[j][r][i])
InTurn(j, r) ==
  Listens(j, r) => \A i \in DOMAIN net[j][r] : Turn(net[j][r][i].t) = Expect(j, r) + i - 1
UpToDate(j, r) ==
  Listens(j, r) => \A i \in DOMAIN net[j][r] : Current(j, r, net[j][r][i])
LeftOver(j, r) ==
  Online(j, r) /\ ~Listens(j, r) => \A i \in DOMAIN net[j][r] : net[j][r][i].t \in {"m", "c"}

Queues(j) ==
  \A r \in Role : Said(j, r) /\ InTurn(j, r) /\ UpToDate(j, r) /\ LeftOver(j, r)

\* Nothing is lost or sent twice between two sides that take part.
Balance(j) ==
  Listens(j, "A") /\ Listens(j, "B") =>
    \A r \in Role : Expect(j, r) + Len(net[j][r]) = Place(rec[j][Other(r)]) + 1

\* A session knows its own messages and holds what finish computes from those of
\* the other side; neither early nor deliver is ever used.
SessionOK(j, r) ==
  LET R == rec[j][r]
      S == rec[j][Other(r)]
  IN R # None =>
       /\ R.w = DeriveW(CodeOf(j, r), j) /\ R.x \in RandomScalar(r, R.w, j)
       /\ R.own = Start(r, R.w, R.x)
       /\ R.early = None /\ R.deliver = None
       /\ R.result # None => R.result.id = j /\ R.result.w = R.w
       /\ R.result # None /\ S # None => R.result = Finish(r, j, R.w, R.x, R.own, S.own)
       /\ R.done = (R.ke # None) /\ R.ke \in {None, R.result}
       /\ R.ke # None => typed[j] = code[j] /\ (S # None => S.result = R.ke)

Sessions(j) == \A r \in Role : SessionOK(j, r)

Life(j) ==
  /\ (phase[j] = "handshake") = (rec[j]["B"] # None)
  /\ (j \in live) = (phase[j] \in Waiting /\ with[j] \notin gone)
  /\ phase[j] \in Waiting => with[j] # None
  /\ phase[j] = "out" => /\ \A r \in Role : rec[j][r] = None /\ net[j][r] = <<>>
                         /\ with[j] = None /\ first[j] = None
  /\ phase[j] # "out" => code[j] # None /\ typed[j] # None
  /\ with[j] = None => rec[j]["A"] = None /\ net[j]["A"] = <<>>
  /\ phase[j] = "redeeming" => rec[j]["A"] = None \/ rec[j]["A"].result = None
  /\ first[j] # None => /\ first[j] = with[j] /\ phase[j] \notin {"out", "redeeming"}
                        /\ phase[j] = "handshake" => rec[j]["B"].done
  /\ phase[j] = "failed" => typed[j] # code[j] \/ owner = None
  /\ phase[j] \in {"keyed", "in"} => typed[j] = code[j] /\ first[j] = with[j]

Good(j) == Life(j) /\ Sessions(j) /\ Queues(j) /\ Balance(j)

HandshakeInv == TypeOK /\ \A j \in Invite : Good(j)

-----------------------------------------------------------------------------
(* The group: what start and finish compute on the two sides.  *)

\* Points, scalars and transcripts stay in their sets.
LEMMA PointArithmetic ==
  ASSUME NEW a \in Int, NEW b \in Int
  PROVE  a % Order \in Point /\ Mul(a, b) \in Point /\ Mul(a, b) = Mul(b, a)
BY OrderAssumption DEF Point, Mul

LEMMA DeriveWType ==
  ASSUME NEW c \in Code, NEW j \in Invite PROVE DeriveW(c, j) \in Point
BY TableAssumption, OrderAssumption DEF DeriveW, Point

LEMMA StartType ==
  ASSUME NEW r \in Role, NEW w \in Point, NEW x \in Point PROVE Start(r, w, x) \in Point
<1>1. Seed(r) \in Int /\ w \in Int /\ x \in Int
  BY SeedAssumption, OrderAssumption DEF Seed, Point
<1>2. Mul(Seed(r), w) \in Int
  BY <1>1, PointArithmetic DEF Point
<1> QED BY <1>1, <1>2, PointArithmetic DEF Start

LEMMA FinishType ==
  ASSUME NEW r \in Role, NEW j \in Invite, NEW w \in Point, NEW x \in Point,
         NEW own \in Point, NEW peer \in Point
  PROVE  /\ Finish(r, j, w, x, own, peer) \in Transcript
         /\ Finish(r, j, w, x, own, peer).id = j /\ Finish(r, j, w, x, own, peer).w = w
<1>1. Seed(Other(r)) \in Int /\ w \in Int /\ x \in Int /\ peer \in Int
  BY SeedAssumption, OrderAssumption DEF Seed, Point
<1>2. Mul(Seed(Other(r)), w) \in Int
  BY <1>1, PointArithmetic DEF Point
<1>3. Unblinded(r, w, peer) \in Int
  BY <1>1, <1>2, PointArithmetic DEF Unblinded, Point
<1>4. SharedK(r, w, x, peer) \in Point
  BY <1>1, <1>3, PointArithmetic DEF SharedK
<1> QED BY <1>4 DEF Finish, TT, Transcript

\* Unblinding the message of the other role gives its scalar back.
LEMMA Unblind ==
  ASSUME NEW r \in Role, NEW w \in Point, NEW x \in Point
  PROVE  Unblinded(Other(r), w, Start(r, w, x)) = x
<1>1. Seed(r) \in Int /\ w \in Int /\ Other(Other(r)) = r
  BY SeedAssumption, OrderAssumption DEF Seed, Point, Role, Other
<1>2. Mul(Seed(r), w) \in 0 .. Order - 1 /\ x \in 0 .. Order - 1
  BY <1>1, PointArithmetic DEF Point
<1>3. \A a \in 0 .. Order - 1 : (((a + x) % Order) - a) % Order = x
  BY <1>2, OrderAssumption
<1> QED BY <1>1, <1>2, <1>3 DEF Unblinded, Start

\* With the same code both sides finish with the same transcript.
LEMMA SameTranscript ==
  ASSUME NEW j \in Invite, NEW w \in Point, NEW x \in Point, NEW y \in Point
  PROVE  Finish("A", j, w, x, Start("A", w, x), Start("B", w, y))
           = Finish("B", j, w, y, Start("B", w, y), Start("A", w, x))
<1>1. Unblinded("A", w, Start("B", w, y)) = y /\ Unblinded("B", w, Start("A", w, x)) = x
  BY Unblind DEF Role, Other
<1>2. Mul(y, x) = Mul(x, y)
  BY PointArithmetic DEF Point
<1> QED BY <1>1, <1>2 DEF Finish, TT, SharedK

\* Different codes give different scalars, so equal scalars mean equal codes.
LEMMA SameCode ==
  ASSUME NEW c \in Code, NEW d \in Code, NEW j \in Invite, DeriveW(c, j) = DeriveW(d, j)
  PROVE  c = d
BY MhfAssumption, TableAssumption DEF Code

-----------------------------------------------------------------------------
(* The queues. *)

LEMMA TailFacts ==
  ASSUME NEW S, NEW q \in Seq(S), q # <<>>
  PROVE  /\ Tail(q) \in Seq(S) /\ Len(Tail(q)) = Len(q) - 1
         /\ Head(q) = q[1] /\ 1 \in DOMAIN q /\ Head(q) \in S
         /\ \A i \in DOMAIN Tail(q) : i + 1 \in DOMAIN q /\ Tail(q)[i] = q[i + 1]
OBVIOUS

LEMMA AppendFacts ==
  ASSUME NEW S, NEW q \in Seq(S), NEW e \in S
  PROVE  /\ q \o <<e>> \in Seq(S) /\ Len(q \o <<e>>) = Len(q) + 1
         /\ \A i \in DOMAIN (q \o <<e>>) :
              \/ i \in DOMAIN q /\ (q \o <<e>>)[i] = q[i]
              \/ i = Len(q) + 1 /\ (q \o <<e>>)[i] = e
OBVIOUS

\* What Handled does to the queues of its handshake and of the others.
Moved(j, r, out) ==
  /\ net' \in [Invite -> [Role -> Seq(Wire)]]
  /\ \A i \in Invite \ {j} : net'[i] = net[i]
  /\ Len(net'[j][r]) = Len(net[j][r]) - 1
  /\ \A i \in DOMAIN net'[j][r] :
       i + 1 \in DOMAIN net[j][r] /\ net'[j][r][i] = net[j][r][i + 1]
  /\ j \in live => Len(net'[j][Other(r)]) = Len(net[j][Other(r)]) + Len(out)
  /\ j \notin live \/ out = <<>> => net'[j][Other(r)] = net[j][Other(r)]
  /\ \A i \in DOMAIN net'[j][Other(r)] :
       \/ /\ i \in DOMAIN net[j][Other(r)]
          /\ net'[j][Other(r)][i] = net[j][Other(r)][i]
       \/ /\ j \in live /\ out # <<>> /\ i = Len(net[j][Other(r)]) + 1
          /\ net'[j][Other(r)][i] = out[1]

LEMMA HandledMoves ==
  ASSUME net \in [Invite -> [Role -> Seq(Wire)]], NEW j \in Invite, NEW r \in Role,
         net[j][r] # <<>>, NEW out, out = <<>> \/ \E e \in Wire : out = <<e>>,
         Handled(j, r, out)
  PROVE  Moved(j, r, out)
<1>1. Other(r) \in Role /\ Other(r) # r /\ \A q \in Role : q \in {r, Other(r)}
  BY DEF Role, Other
<1>2. net[j][r] \in Seq(Wire) /\ net[j][Other(r)] \in Seq(Wire)
  BY <1>1
<1>3. net'[j][r] = Tail(net[j][r]) /\ \A i \in Invite \ {j} : net'[i] = net[i]
  BY <1>1 DEF Handled
<1>4. net'[j][Other(r)] = IF j \in live THEN net[j][Other(r)] \o out ELSE net[j][Other(r)]
  BY <1>1 DEF Handled
<1>5. net'[j][Other(r)] \in Seq(Wire)
  <2>1. \A e \in Wire : <<e>> \in Seq(Wire)
    OBVIOUS
  <2>2. <<>> \in Seq(Wire)
    OBVIOUS
  <2>3. out \in Seq(Wire)
    BY <2>1, <2>2
  <2> QED BY <1>2, <1>4, <2>3
<1>6. Tail(net[j][r]) \in Seq(Wire)
  BY <1>2, TailFacts
<1>7. net' \in [Invite -> [Role -> Seq(Wire)]]
  <2>1. DOMAIN net' = Invite /\ \A i \in Invite : DOMAIN net'[i] = Role
    BY <1>1 DEF Handled
  <2>2. \A i \in Invite : \A q \in Role : net'[i][q] \in Seq(Wire)
    <3>1. \A q \in Role : net'[j][q] \in Seq(Wire)
      BY <1>1, <1>3, <1>5, <1>6
    <3>2. \A i \in Invite \ {j} : \A q \in Role : net'[i][q] \in Seq(Wire)
      BY <1>3
    <3> QED BY <3>1, <3>2
  <2>3. \A i \in Invite : net'[i] = [q \in Role |-> net'[i][q]]
    BY <1>1 DEF Handled
  <2>4. net' = [i \in Invite |-> net'[i]]
    BY DEF Handled
  <2>5. \A i \in Invite : net'[i] \in [Role -> Seq(Wire)]
    BY <2>2, <2>3
  <2> QED BY <2>4, <2>5
<1>8. CASE out = <<>>
  <2>1. net'[j][Other(r)] = net[j][Other(r)]
    BY <1>2, <1>4, <1>8
  <2> QED BY <1>2, <1>3, <1>7, <1>8, <2>1, TailFacts DEF Moved
<1>9. CASE \E e \in Wire : out = <<e>>
  <2>1. PICK e \in Wire : out = <<e>>
    BY <1>9
  <2>2. out # <<>> /\ out[1] = e /\ Len(out) = 1
    BY <2>1
  <2>3. CASE j \in live
    <3>1. net'[j][Other(r)] = net[j][Other(r)] \o <<e>>
      BY <1>4, <2>1, <2>3
    <3>2. Len(net'[j][Other(r)]) = Len(net[j][Other(r)]) + 1
      BY <1>2, <3>1, AppendFacts
    <3>3. \A i \in DOMAIN net'[j][Other(r)] :
            \/ /\ i \in DOMAIN net[j][Other(r)]
               /\ net'[j][Other(r)][i] = net[j][Other(r)][i]
            \/ i = Len(net[j][Other(r)]) + 1 /\ net'[j][Other(r)][i] = e
      BY <1>2, <3>1, AppendFacts
    <3> QED BY <1>2, <1>3, <1>7, <2>2, <2>3, <3>2, <3>3, TailFacts DEF Moved
  <2>4. CASE j \notin live
    <3>1. net'[j][Other(r)] = net[j][Other(r)]
      BY <1>4, <2>4
    <3> QED BY <1>2, <1>3, <1>7, <2>2, <2>4, <3>1, TailFacts DEF Moved
  <2> QED BY <2>3, <2>4
<1> QED BY <1>8, <1>9

-----------------------------------------------------------------------------
(* The other handshakes: a step of one of them does not touch the rest. *)

Same(j) ==
  /\ with'[j] = with[j] /\ (j \in live') = (j \in live)
  /\ typed'[j] = typed[j] /\ code'[j] = code[j] /\ phase'[j] = phase[j]
  /\ first'[j] = first[j] /\ rec'[j] = rec[j] /\ net'[j] = net[j]
  /\ (with[j] \in gone') = (with[j] \in gone) /\ (owner = None => owner' = None)

LEMMA SameGood ==
  ASSUME NEW j \in Invite, Good(j), Same(j) PROVE Good(j)'
<1>1. \A r \in Role : /\ Online(j, r)' = Online(j, r) /\ Listens(j, r)' = Listens(j, r)
                      /\ CodeOf(j, r)' = CodeOf(j, r) /\ Expect(j, r)' = Expect(j, r)
  BY DEF Same, Online, Listens, CodeOf, Expect, Role
<1>2. Life(j)'
  BY DEF Good, Life, Same
<1>3. Sessions(j)'
  BY <1>1 DEF Good, Sessions, SessionOK, Same
<1>4. Queues(j)'
  <2>1. \A r \in Role : \A f : Genuine(j, r, f)' = Genuine(j, r, f)
    BY <1>1 DEF Same, Genuine, CodeOf, Role, Other
  <2>2. \A r \in Role : \A f : Current(j, r, f)' = Current(j, r, f)
    BY DEF Same, Current
  <2> QED
    BY <1>1, <2>1, <2>2 DEF Good, Queues, Same, Said, InTurn, UpToDate, LeftOver
<1>5. Balance(j)'
  BY <1>1 DEF Good, Balance, Same, Role
<1> QED BY <1>2, <1>3, <1>4, <1>5 DEF Good

-----------------------------------------------------------------------------
(* One frame handled, in four parts. *)

\* The parties of j and their codes stay.
Steady(j) ==
  /\ with' = with /\ typed' = typed /\ code' = code /\ gone' = gone /\ owner' = owner

LEMMA HeadFacts ==
  ASSUME TypeOK, NEW j \in Invite, Good(j), NEW r \in Role, NEW t, NextFrame(j, r, t)
  PROVE  /\ Head(net[j][r]) = net[j][r][1] /\ Head(net[j][r]) \in Wire
         /\ Head(net[j][r]).t = t /\ net[j][r] # <<>> /\ Len(net[j][r]) \in Nat \ {0}
         /\ Online(j, r) /\ Genuine(j, r, Head(net[j][r]))
         /\ Listens(j, r) => Turn(t) = Expect(j, r) /\ Current(j, r, Head(net[j][r]))
         /\ ~Listens(j, r) => t \in {"m", "c"}
<1>1. net[j][r] \in Seq(Wire) /\ net[j][r] # <<>>
  BY DEF TypeOK, NextFrame
<1>2. Head(net[j][r]) = net[j][r][1] /\ 1 \in DOMAIN net[j][r] /\ Head(net[j][r]) \in Wire
  BY <1>1, TailFacts
<1>3. Said(j, r) /\ InTurn(j, r) /\ UpToDate(j, r) /\ LeftOver(j, r)
  BY DEF Good, Queues
<1>4. Expect(j, r) \in Int
  BY DEF Expect, Place
<1>5. Len(net[j][r]) \in Nat \ {0}
  BY <1>1
<1> QED
  BY <1>1, <1>2, <1>3, <1>4, <1>5 DEF NextFrame, Said, InTurn, UpToDate, LeftOver

\* Two sides that take part are known to the relay.
LEMMA BothLive ==
  ASSUME NEW j \in Invite, Life(j), Listens(j, "A"), Listens(j, "B") PROVE j \in live
BY DEF Life, Listens, Online, Waiting

LEMMA SaidStep ==
  ASSUME NEW j \in Invite, NEW r \in Role, NEW out, Moved(j, r, out), Queues(j), Steady(j),
         out # <<>> => Genuine(j, Other(r), out[1])
  PROVE  Said(j, r)' /\ Said(j, Other(r))'
<1>1. \A q \in Role : \A f : Genuine(j, q, f)' = Genuine(j, q, f)
  BY DEF Steady, Genuine, CodeOf, Role, Other
<1>2. Said(j, r) /\ Said(j, Other(r)) /\ Other(r) \in Role
  BY DEF Queues, Role, Other
<1>3. Said(j, r)'
  BY <1>1, <1>2 DEF Said, Moved
<1>4. Said(j, Other(r))'
  BY <1>1, <1>2 DEF Said, Moved
<1> QED BY <1>3, <1>4

LEMMA InTurnStep ==
  ASSUME NEW j \in Invite, NEW r \in Role, NEW out, Moved(j, r, out),
         InTurn(j, r), InTurn(j, Other(r)), net[j][r] \in Seq(Wire),
         Listens(j, r)' => Listens(j, r) /\ Expect(j, r)' = Expect(j, r) + 1,
         Listens(j, Other(r))' =>
           /\ Listens(j, Other(r)) /\ Expect(j, Other(r))' = Expect(j, Other(r))
           /\ j \in live /\ out # <<>> =>
                Turn(out[1].t) = Expect(j, Other(r)) + Len(net[j][Other(r)])
  PROVE  InTurn(j, r)' /\ InTurn(j, Other(r))'
<1>1. Expect(j, r) \in Int /\ Expect(j, Other(r)) \in Int
  BY DEF Expect, Place
<1>2. InTurn(j, r)'
  <2> SUFFICES ASSUME Listens(j, r)', NEW i \in DOMAIN net'[j][r]
               PROVE  Turn(net'[j][r][i].t) = Expect(j, r)' + i - 1
    BY DEF InTurn
  <2>1. i + 1 \in DOMAIN net[j][r] /\ net'[j][r][i] = net[j][r][i + 1]
    BY DEF Moved
  <2>2. Turn(net[j][r][i + 1].t) = Expect(j, r) + (i + 1) - 1
    BY <2>1 DEF InTurn
  <2>3. i \in Int
    <3>1. net'[j][r] \in Seq(Wire)
      BY DEF Moved
    <3> QED BY <3>1
  <2> QED BY <1>1, <2>1, <2>2, <2>3
<1>3. InTurn(j, Other(r))'
  <2> SUFFICES ASSUME Listens(j, Other(r))', NEW i \in DOMAIN net'[j][Other(r)]
               PROVE  Turn(net'[j][Other(r)][i].t) = Expect(j, Other(r))' + i - 1
    BY DEF InTurn
  <2>1. CASE i \in DOMAIN net[j][Other(r)] /\ net'[j][Other(r)][i] = net[j][Other(r)][i]
    BY <2>1 DEF InTurn
  <2>2. CASE /\ j \in live /\ out # <<>> /\ i = Len(net[j][Other(r)]) + 1
             /\ net'[j][Other(r)][i] = out[1]
    BY <1>1, <2>2
  <2> QED BY <2>1, <2>2 DEF Moved
<1> QED BY <1>2, <1>3

\* The other side goes on listening, or not, as before.
LEMMA OtherListens ==
  ASSUME NEW j \in Invite, NEW r \in Role, NEW out, Moved(j, r, out),
         net[j][Other(r)] \in Seq(Wire), out = <<>> \/ Len(out) = 1,
         rec'[j][Other(r)] = rec[j][Other(r)], Online(j, Other(r))' = Online(j, Other(r)),
         out # <<>> => out[1].t # "invite_redeemed"
  PROVE  Listens(j, Other(r))' = Listens(j, Other(r))
<1>1. CASE r = "A"
  BY <1>1 DEF Listens, Other
<1>2. CASE r = "B"
  <2>1. net'[j]["A"] \in Seq(Wire) /\ net[j]["A"] \in Seq(Wire)
    BY <1>2 DEF Moved, Role, Other
  <2>2. net[j]["A"] # <<>> => /\ 1 \in DOMAIN net[j]["A"] /\ net'[j]["A"] # <<>>
                             /\ Head(net[j]["A"]) = net[j]["A"][1]
    BY <1>2, <2>1, TailFacts DEF Moved, Other
  <2>3. net'[j]["A"] # <<>> => /\ 1 \in DOMAIN net'[j]["A"]
                              /\ Head(net'[j]["A"]) = net'[j]["A"][1]
    BY <2>1, TailFacts
  <2>4. 1 \in DOMAIN net'[j]["A"] =>
          \/ 1 \in DOMAIN net[j]["A"] /\ net'[j]["A"][1] = net[j]["A"][1]
          \/ net[j]["A"] = <<>> /\ net'[j]["A"][1].t # "invite_redeemed"
    BY <1>2, <2>1 DEF Moved, Other
  <2> QED BY <1>2, <2>2, <2>3, <2>4 DEF Listens, Other
<1> QED BY <1>1, <1>2 DEF Role

Others(j) == \A i \in Invite \ {j} : Same(i)

\* A side that listens handles a frame, comes one place further and sends e.
Advances(j, r, e) ==
  /\ Moved(j, r, <<e>>) /\ e \in Wire /\ Genuine(j, Other(r), e)
  /\ Listens(j, r) /\ Online(j, r)' /\ Online(j, Other(r))' = Online(j, Other(r))
  /\ Steady(j) /\ live' = live /\ first' = first
  /\ rec'[j][Other(r)] = rec[j][Other(r)] /\ rec'[j][r] # None
  /\ Place(rec'[j][r]) = Place(rec[j][r]) + 1 /\ Turn(e.t) = Place(rec'[j][r])
  /\ Online(j, Other(r)) /\ ~Listens(j, Other(r)) => e.t \in {"m", "c"}

Ordered(j) ==
  Balance(j) /\ \A q \in Role : Said(j, q) /\ InTurn(j, q) /\ LeftOver(j, q)

LEMMA AdvanceStep ==
  ASSUME TypeOK, NEW j \in Invite, Good(j), NEW r \in Role, NEW e, Advances(j, r, e)
  PROVE  /\ Ordered(j)'
         /\ Listens(j, r)' /\ Listens(j, Other(r))' = Listens(j, Other(r))
         /\ Listens(j, Other(r)) => \A i \in DOMAIN net[j][Other(r)] :
              Turn(net[j][Other(r)][i].t) < Place(rec'[j][r])
<1> DEFINE o == Other(r)
           out == <<e>>
<1>1. o \in Role /\ o # r /\ Other(o) = r /\ \A q \in Role : q \in {r, o}
  BY DEF Role, Other
<1>2. Moved(j, r, out) /\ out # <<>> /\ out[1] = e /\ Len(out) = 1
  BY DEF Advances
<1> HIDE DEF out
<1>3. \A s : Place(s) \in Int /\ Place(s) >= 1
  BY DEF Place
<1>4. /\ net[j][o] \in Seq(Wire) /\ net[j][r] \in Seq(Wire)
      /\ Expect(j, o) \in Int /\ Expect(j, r) \in Int
      /\ Place(rec[j][r]) \in Int /\ Place(rec[j][o]) \in Int /\ Place(rec'[j][r]) \in Int
  BY <1>1, <1>3 DEF TypeOK, Expect
<1>5. Listens(j, r) /\ Listens(j, r)'
  BY DEF Advances, Listens, Role
<1>6. Listens(j, o)' = Listens(j, o)
  <2>1. e.t # "invite_redeemed"
    BY <1>3 DEF Advances, Turn
  <2> QED BY <1>1, <1>2, <1>4, <2>1, OtherListens DEF Advances
<1>7. Expect(j, r)' = Expect(j, r) + 1 /\ Expect(j, o)' = Expect(j, o)
  BY <1>3 DEF Advances, Expect
<1>8. Listens(j, o) => /\ j \in live
                       /\ Expect(j, o) + Len(net[j][o]) = Place(rec[j][r]) + 1
                       /\ Expect(j, r) + Len(net[j][r]) = Place(rec[j][o]) + 1
  <2> SUFFICES ASSUME Listens(j, o)
               PROVE  /\ j \in live
                      /\ Expect(j, o) + Len(net[j][o]) = Place(rec[j][r]) + 1
                      /\ Expect(j, r) + Len(net[j][r]) = Place(rec[j][o]) + 1
    OBVIOUS
  <2>1. Listens(j, "A") /\ Listens(j, "B")
    BY <1>5 DEF Role, Other
  <2> QED BY <1>1, <2>1, BothLive DEF Good, Balance
<1>9. Said(j, r)' /\ Said(j, o)'
  BY <1>2, SaidStep DEF Good, Advances
<1>10. InTurn(j, r)' /\ InTurn(j, o)'
  <2>1. Listens(j, o) => Turn(e.t) = Expect(j, o) + Len(net[j][o])
    BY <1>8 DEF Advances
  <2> QED
    BY <1>1, <1>2, <1>4, <1>5, <1>6, <1>7, <2>1, InTurnStep DEF Good, Queues
<1>11. LeftOver(j, r)' /\ LeftOver(j, o)'
  <2>1. LeftOver(j, r)'
    BY <1>5 DEF LeftOver
  <2>2. LeftOver(j, o)
    BY <1>1 DEF Good, Queues
  <2> QED BY <1>1, <1>2, <1>6, <2>1, <2>2 DEF LeftOver, Moved, Advances
<1>12. Balance(j)'
  <2> SUFFICES ASSUME Listens(j, o)
               PROVE  /\ Expect(j, r)' + Len(net'[j][r]) = Place(rec'[j][o]) + 1
                      /\ Expect(j, o)' + Len(net'[j][o]) = Place(rec'[j][r]) + 1
    BY <1>1, <1>6 DEF Balance, Role
  <2>1. Len(net'[j][o]) = Len(net[j][o]) + 1 /\ Len(net'[j][r]) = Len(net[j][r]) - 1
    BY <1>2, <1>8 DEF Moved
  <2>2. Len(net[j][r]) \in Int /\ Len(net[j][o]) \in Int
    BY <1>4
  <2>3. Expect(j, r)' + Len(net'[j][r]) = Place(rec[j][o]) + 1
    <3>1. Expect(j, r) + Len(net[j][r]) = Place(rec[j][o]) + 1
      BY <1>8
    <3>2. Expect(j, r)' + Len(net'[j][r]) = Expect(j, r) + Len(net[j][r])
      <4>1. \A a, b, c, d : a \in Int /\ b \in Int /\ c = a + 1 /\ d = b - 1 => c + d = a + b
        OBVIOUS
      <4> QED BY <1>4, <1>7, <2>1, <2>2, <4>1
    <3> QED BY <3>1, <3>2
  <2>4. Expect(j, o)' + Len(net'[j][o]) = Place(rec[j][r]) + 1 + 1
    BY <1>4, <1>7, <1>8, <2>1, <2>2
  <2> QED BY <2>3, <2>4, <1>4 DEF Advances
<1>13. ASSUME Listens(j, o), NEW i \in DOMAIN net[j][o]
       PROVE  Turn(net[j][o][i].t) < Place(rec'[j][r])
  <2>1. Turn(net[j][o][i].t) = Expect(j, o) + i - 1
    BY <1>1, <1>13 DEF Good, Queues, InTurn
  <2>2. Place(rec'[j][r]) = Place(rec[j][r]) + 1
    BY DEF Advances
  <2> QED BY <1>4, <1>8, <1>13, <2>1, <2>2
<1> QED BY <1>1, <1>5, <1>6, <1>9, <1>10, <1>11, <1>12, <1>13 DEF Ordered

\* The owner's side handles a frame and is left without a session, with its last
\* words or none; what follows in its queue are pake frames that it will ignore.
OwnerStops(j, out) ==
  /\ Moved(j, "A", out) /\ rec'[j]["A"] = None /\ rec'[j]["B"] = rec[j]["B"]
  /\ Steady(j) /\ live' = live /\ first' = first /\ phase' = phase
  /\ \A i \in DOMAIN net[j]["A"] : i # 1 => net[j]["A"][i].t \in {"m", "c"}
  /\ out # <<>> => /\ Len(out) = 1 /\ Genuine(j, "B", out[1]) /\ Listens(j, "A")
                   /\ Turn(out[1].t) = Place(rec[j]["A"]) + 1

LEMMA OwnerStopsStep ==
  ASSUME TypeOK, NEW j \in Invite, Good(j), NEW out, OwnerStops(j, out)
  PROVE  Ordered(j)' /\ ~Listens(j, "A")' /\ Listens(j, "B")' = Listens(j, "B")
<1>1. /\ Moved(j, "A", out) /\ Steady(j) /\ Other("A") = "B"
      /\ net[j]["A"] \in Seq(Wire) /\ net[j]["B"] \in Seq(Wire) /\ net'[j]["A"] \in Seq(Wire)
  BY DEF OwnerStops, TypeOK, Role, Other, Moved
<1>2. Listens(j, "B")' = Listens(j, "B") /\ Expect(j, "B")' = Expect(j, "B")
  BY DEF Listens, Online, OwnerStops, Expect
<1>3. \A i \in DOMAIN net'[j]["A"] : net'[j]["A"][i].t \in {"m", "c"}
  BY <1>1 DEF Moved, OwnerStops
<1>4. ~Listens(j, "A")'
  <2>1. net'[j]["A"] # <<>> => 1 \in DOMAIN net'[j]["A"] /\ Head(net'[j]["A"]) = net'[j]["A"][1]
    BY <1>1, TailFacts
  <2> QED BY <1>3, <2>1 DEF Listens, OwnerStops
<1>5. Said(j, "A")' /\ Said(j, "B")'
  BY <1>1, SaidStep DEF Good, Role, OwnerStops
<1>6. Listens(j, "B") /\ out # <<>> =>
        Turn(out[1].t) = Expect(j, "B") + Len(net[j]["B"])
  <2> SUFFICES ASSUME Listens(j, "B"), out # <<>>
               PROVE  Turn(out[1].t) = Expect(j, "B") + Len(net[j]["B"])
    OBVIOUS
  <2>1. Other("B") = "A" /\ "B" \in Role
    BY DEF Other, Role
  <2>2. Expect(j, "B") + Len(net[j]["B"]) = Place(rec[j]["A"]) + 1
    BY <2>1 DEF Good, Balance, OwnerStops
  <2> QED BY <2>2 DEF OwnerStops
<1>7. InTurn(j, "A")' /\ InTurn(j, "B")'
  <2>1. InTurn(j, "A") /\ InTurn(j, "B")
    BY DEF Good, Queues, Role
  <2> QED BY <1>1, <1>2, <1>4, <1>6, <2>1, InTurnStep DEF Role
<1>8. LeftOver(j, "A")' /\ LeftOver(j, "B")'
  BY <1>3 DEF LeftOver, Listens
<1>9. Balance(j)'
  BY <1>4 DEF Balance
<1> QED BY <1>2, <1>4, <1>5, <1>7, <1>8, <1>9 DEF Ordered, Role

\* A joiner that tears its session down.
LEMMA TornDownStep ==
  ASSUME TypeOK, NEW j \in Invite, Good(j), NEW p \in {"gone", "failed"},
         phase[j] \in Waiting, p = "failed" => typed[j] # code[j],
         TornDown(j, p), UNCHANGED <<owner, gone, issuer, code, with, typed, first>>
  PROVE  TypeOK' /\ Good(j)' /\ Others(j)
<1>1. /\ phase' = [phase EXCEPT ![j] = p] /\ live' = live \ {j}
      /\ rec' = [rec EXCEPT ![j]["B"] = None]
      /\ net' = [net EXCEPT ![j]["A"] = IF j \in live THEN @ ELSE <<>>, ![j]["B"] = <<>>]
  BY DEF TornDown
<1>2. /\ net' \in [Invite -> [Role -> Seq(Wire)]] /\ \A i \in Invite \ {j} : net'[i] = net[i]
      /\ net'[j]["B"] = <<>> /\ (j \in live => net'[j]["A"] = net[j]["A"])
      /\ j \notin live => net'[j]["A"] = <<>>
  <2>1. net[j]["A"] \in Seq(Wire) /\ <<>> \in Seq(Wire)
    BY DEF TypeOK, Role
  <2> QED BY <1>1, <2>1 DEF TypeOK, Role
<1>3. /\ rec' \in [Invite -> [Role -> Session \cup {None}]]
      /\ \A i \in Invite \ {j} : rec'[i] = rec[i]
      /\ rec'[j]["B"] = None /\ rec'[j]["A"] = rec[j]["A"]
  BY <1>1 DEF TypeOK, Role
<1>4. phase' \in [Invite -> Phase] /\ phase'[j] = p /\ \A i \in Invite \ {j} : phase'[i] = phase[i]
  BY <1>1 DEF TypeOK, Phase
<1>5. TypeOK'
  BY <1>1, <1>2, <1>3, <1>4 DEF TypeOK
<1>6. Others(j)
  BY <1>1, <1>2, <1>3, <1>4 DEF Others, Same
<1>7. Life(j)'
  BY <1>1, <1>2, <1>3, <1>4 DEF Good, Life, Waiting, Role
<1>8. Sessions(j)'
  BY <1>3 DEF Good, Sessions, SessionOK, CodeOf, Role, Other
<1>9. ~Online(j, "B")' /\ ~Listens(j, "B")'
  BY <1>4 DEF Online, Listens
<1>10. Balance(j)'
  BY <1>9 DEF Balance
<1>11. Said(j, "B")' /\ InTurn(j, "B")' /\ UpToDate(j, "B")' /\ LeftOver(j, "B")'
  BY <1>2, <1>9 DEF Said, InTurn, UpToDate, LeftOver
<1>12. Said(j, "A")' /\ InTurn(j, "A")' /\ UpToDate(j, "A")' /\ LeftOver(j, "A")'
  <2>1. CASE j \notin live
    <3>1. ~Online(j, "A")' /\ ~Listens(j, "A")'
      BY <2>1 DEF Good, Life, Online, Listens
    <3> QED BY <1>2, <2>1, <3>1 DEF Said, InTurn, UpToDate, LeftOver
  <2>2. CASE j \in live
    <3>1. /\ net'[j]["A"] = net[j]["A"] /\ Listens(j, "A")' = Listens(j, "A")
          /\ Online(j, "A")' = Online(j, "A") /\ Expect(j, "A")' = Expect(j, "A")
      BY <1>2, <1>3, <2>2 DEF Listens, Online, Expect
    <3>2. \A f : Genuine(j, "A", f)' = Genuine(j, "A", f)
      BY DEF Genuine, CodeOf, Other
    <3>3. \A f : Current(j, "A", f) => Current(j, "A", f)'
      BY <1>3, <3>1 DEF Current, Other
    <3>4. Said(j, "A") /\ InTurn(j, "A") /\ UpToDate(j, "A") /\ LeftOver(j, "A")
      BY DEF Good, Queues, Role
    <3> QED BY <3>1, <3>2, <3>3, <3>4 DEF Said, InTurn, UpToDate, LeftOver
  <2> QED BY <2>1, <2>2
<1> QED BY <1>5, <1>6, <1>7, <1>8, <1>10, <1>11, <1>12 DEF Good, Queues, Role

\* A point: the session finishes with what its sender started with.
LEMMA HandlePointStep ==
  ASSUME TypeOK, NEW j \in Invite, Good(j), NEW r \in Role, HandlePoint(j, r)
  PROVE  TypeOK' /\ Good(j)' /\ Others(j)
<1> DEFINE o == Other(r)
           R == rec[j][r]
           S == rec[j][o]
           f == Head(net[j][r])
           tt == Finish(r, j, R.w, R.x, R.own, f.d)
           s == [R EXCEPT !.result = tt, !.early = None]
           out == ConfirmFrame(j, r, tt)
<1>1. o \in Role /\ o # r /\ Other(o) = r /\ \A q \in Role : q \in {r, o}
  BY DEF Role, Other
<1>2. /\ NextFrame(j, r, "m") /\ R # None /\ ~R.done /\ R.result = None
  BY DEF HandlePoint
<1>3. R \in Session /\ S \in Session \cup {None}
  BY <1>1, <1>2 DEF TypeOK
<1>4. /\ R.w = DeriveW(CodeOf(j, r), j) /\ R.own = Start(r, R.w, R.x)
      /\ R.x \in RandomScalar(r, R.w, j) /\ R.early = None /\ R.deliver = None /\ R.ke = None
  BY <1>2, <1>3 DEF Good, Sessions, SessionOK, Session
<1>5. f \in Wire /\ f.t = "m" /\ net[j][r] # <<>> /\ Len(net[j][r]) \in Nat \ {0} /\ Online(j, r)
  BY <1>2, HeadFacts
<1>6. Listens(j, r)
  BY <1>2, <1>5 DEF Listens
<1>7. Current(j, r, f) /\ Expect(j, r) = 2
  BY <1>2, <1>6, HeadFacts DEF Turn
<1>8. f.d \in Point
  BY <1>5 DEF Wire
<1>9. tt \in Transcript /\ tt.id = j /\ tt.w = R.w
  <2>1. R.w \in Point /\ R.x \in Point /\ R.own \in Point
    BY <1>3 DEF Session
  <2>2. \A w, x, own, peer \in Point :
          /\ Finish(r, j, w, x, own, peer) \in Transcript
          /\ Finish(r, j, w, x, own, peer).id = j /\ Finish(r, j, w, x, own, peer).w = w
    BY FinishType
  <2>3. PICK w \in Point, x \in Point, own \in Point, d \in Point :
          w = R.w /\ x = R.x /\ own = R.own /\ d = f.d
    BY <1>8, <2>1
  <2>4. tt = Finish(r, j, w, x, own, d)
    BY <2>3
  <2>5. tt \in Transcript /\ tt.id = j /\ tt.w = w
    BY <2>2, <2>4
  <2> QED BY <2>3, <2>5
<1>10. s \in Session /\ s = [R EXCEPT !.result = tt]
  BY <1>3, <1>4, <1>9 DEF Session
<1>11. /\ rec' = [rec EXCEPT ![j][r] = s] /\ Handled(j, r, out)
       /\ UNCHANGED <<owner, gone, issuer, code, with, live, typed, phase, first>>
  BY <1>4 DEF HandlePoint, roomVars
<1>12. out = <<[t |-> "c", d |-> [by |-> r, tt |-> tt]]>> /\ out[1].t = "c" /\ out[1].d.tt = tt
       /\ out[1] \in Wire /\ out = <<out[1]>> /\ Len(out) = 1 /\ out # <<>> /\ out[1].d.by = r
  BY <1>9 DEF ConfirmFrame, Frame, Confirm, Wire
<1> HIDE DEF tt, s, out
<1>13. Moved(j, r, out)
  BY <1>5, <1>11, <1>12, HandledMoves DEF TypeOK
<1>14. /\ rec'[j][r] = s /\ rec'[j][o] = S /\ \A i \in Invite \ {j} : rec'[i] = rec[i]
       /\ rec' \in [Invite -> [Role -> Session \cup {None}]]
  BY <1>1, <1>10, <1>11 DEF TypeOK
<1>15. TypeOK'
  BY <1>11, <1>13, <1>14 DEF TypeOK, Moved
<1>16. Others(j)
  BY <1>11, <1>13, <1>14 DEF Others, Same, Moved
<1>17. Steady(j) /\ \A q \in Role : Online(j, q)' = Online(j, q)
  BY <1>11 DEF Steady, Online
<1>18. R.result = None /\ s.result = tt /\ s.result # None /\ ~s.done /\ s # None
       /\ s.w = R.w /\ s.x = R.x /\ s.own = R.own /\ s.early = None /\ s.ke = None
       /\ s.deliver = None
  BY <1>2, <1>3, <1>4, <1>9, <1>10, NoneAssumption DEF Session
<1>19. Advances(j, r, out[1])
  <2>1. Place(rec'[j][r]) = Place(rec[j][r]) + 1 /\ Turn(out[1].t) = Place(rec'[j][r])
    BY <1>2, <1>12, <1>14, <1>18 DEF Place, Turn
  <2>2. Genuine(j, o, out[1])
    BY <1>1, <1>4, <1>9, <1>12 DEF Genuine
  <2> QED BY <1>1, <1>5, <1>6, <1>11, <1>12, <1>13, <1>14, <1>17, <1>18, <2>1, <2>2 DEF Advances
<1>20. Place(rec'[j][r]) = 3
  BY <1>14, <1>18 DEF Place
<1>21. /\ Ordered(j)' /\ Listens(j, o)' = Listens(j, o)
       /\ Listens(j, o) => \A i \in DOMAIN net[j][o] : Turn(net[j][o][i].t) < 3
  BY <1>19, <1>20, AdvanceStep
<1>23. Sessions(j)'
  <2>1. CodeOf(j, r)' = CodeOf(j, r) /\ CodeOf(j, o)' = CodeOf(j, o)
    BY <1>11 DEF CodeOf
  <2>2. S # None => f.d = S.own
    BY <1>5, <1>7 DEF Current
  <2>3. S # None => S.ke = None
    <3> SUFFICES ASSUME S # None, S.ke # None PROVE FALSE
      OBVIOUS
    <3>1. R.result = S.ke
      BY <1>1, <1>2 DEF Good, Sessions, SessionOK
    <3> QED BY <1>2, <3>1
  <2>4. S # None =>
          /\ S.w = DeriveW(CodeOf(j, o), j) /\ S.x \in RandomScalar(o, S.w, j)
          /\ S.own = Start(o, S.w, S.x) /\ S.early = None /\ S.deliver = None
          /\ S.result # None => S.result.id = j /\ S.result.w = S.w
          /\ S.result # None => S.result = Finish(o, j, S.w, S.x, S.own, R.own)
          /\ S.done = (S.ke # None) /\ S.ke \in {None, S.result}
    BY <1>1, <1>2 DEF Good, Sessions, SessionOK
  <2>5. s.done = (s.ke # None)
    BY <1>10, <1>18, <1>3 DEF Session
  <2>6. S # None => tt = Finish(r, j, s.w, s.x, s.own, S.own)
    BY <1>18, <2>2 DEF tt
  <2>7. SessionOK(j, r)'
    BY <1>1, <1>4, <1>9, <1>14, <1>18, <2>1, <2>5, <2>6 DEF SessionOK
  <2>8. SessionOK(j, o)'
    BY <1>1, <1>14, <1>18, <2>1, <2>3, <2>4 DEF SessionOK
  <2> QED BY <1>1, <2>7, <2>8 DEF Sessions
<1>24. UpToDate(j, r)'
  <2> SUFFICES ASSUME NEW i \in DOMAIN net'[j][r] PROVE Current(j, r, net[j][r][i])'
    BY DEF UpToDate
  <2>1. i + 1 \in DOMAIN net[j][r] /\ net'[j][r][i] = net[j][r][i + 1]
    BY <1>13 DEF Moved
  <2>2. Current(j, r, net[j][r][i + 1]) /\ net[j][r][i + 1] \in Wire
    BY <1>6, <2>1 DEF Good, Queues, UpToDate, TypeOK
  <2>3. net[j][r][i + 1].t # "member_key"
    BY <1>18, <2>2, NoneAssumption DEF Current, Wire
  <2> QED BY <1>1, <1>14, <1>17, <1>18, <2>1, <2>2, <2>3 DEF Current, Steady
<1>25. UpToDate(j, o)'
  <2> SUFFICES ASSUME Listens(j, o), NEW i \in DOMAIN net'[j][o]
               PROVE  Current(j, o, net[j][o][i])'
    BY <1>21 DEF UpToDate
  <2>1. CASE net'[j][o][i] = out[1]
    BY <1>1, <1>12, <1>14, <1>18, <2>1 DEF Current
  <2>2. CASE i \in DOMAIN net[j][o] /\ net'[j][o][i] = net[j][o][i]
    <3>1. Turn(net[j][o][i].t) < 3
      BY <1>21, <2>2
    <3>2. net[j][o][i].t \notin {"c", "member_key"}
      BY <3>1 DEF Turn
    <3>3. Current(j, o, net[j][o][i])
      BY <1>1, <2>2 DEF Good, Queues, UpToDate
    <3> QED BY <1>1, <1>2, <1>14, <1>18, <2>2, <3>2, <3>3 DEF Current
  <2> QED BY <1>13, <2>1, <2>2 DEF Moved
<1>26. Life(j)'
  <2>1. ~(phase[j] = "redeeming" /\ r = "A")
    <3> SUFFICES ASSUME phase[j] = "redeeming", r = "A" PROVE FALSE
      OBVIOUS
    <3>1. Listens(j, o) /\ S = None
      BY <1>3 DEF Listens, Online, Other, Good, Life
    <3>2. Expect(j, r) + Len(net[j][r]) = 2
      <4>1. r = "A" /\ o = "B" /\ Listens(j, "A") /\ Listens(j, "B")
        BY <1>6, <3>1 DEF Other
      <4> QED BY <1>1, <3>1, <4>1 DEF Good, Balance, Place
    <3> QED BY <1>5, <1>7, <3>2
  <2>2. r = "B" => first[j] = None
    BY <1>2, <1>5 DEF Good, Life, Online
  <2>3. with[j] # None
    BY <1>1, <1>2 DEF Good, Life, Waiting, Role
  <2> QED BY <1>1, <1>2, <1>11, <1>14, <1>18, <2>1, <2>2, <2>3 DEF Good, Life, Role
<1> QED
  BY <1>1, <1>15, <1>16, <1>21, <1>23, <1>24, <1>25, <1>26 DEF Good, Queues, Ordered

\* Where a session handles a confirmation, it has finished; the confirmation is of
\* its own transcript exactly when the codes are the same.
ConfirmMeans(j, r) ==
  LET f == Head(net[j][r])
      R == rec[j][r]
      S == rec[j][Other(r)]
  IN /\ Listens(j, r) /\ Place(R) = 3 /\ R.result \in Transcript /\ R.ke = None
     /\ f.d \in [by : Role, tt : Transcript] /\ f.d.by = Other(r)
     /\ S # None => S.result = f.d.tt
     /\ Listens(j, Other(r)) /\ r = "A" => S # None
     /\ f.d = Confirm(Other(r), R.result) => typed[j] = code[j] /\ (r = "B" => S # None)
     /\ f.d # Confirm(Other(r), R.result) =>
          f.d.tt # R.result /\ (S # None \/ r = "B" => typed[j] # code[j])

LEMMA ConfirmArrives ==
  ASSUME TypeOK, NEW j \in Invite, Good(j), NEW r \in Role, NextFrame(j, r, "c"),
         rec[j][r] # None, ~rec[j][r].done
  PROVE  ConfirmMeans(j, r)
<1> DEFINE o == Other(r)
           R == rec[j][r]
           S == rec[j][o]
           f == Head(net[j][r])
<1>1. o \in Role /\ o # r /\ Other(o) = r /\ \A q \in Role : q \in {r, o}
  BY DEF Role, Other
<1>2. R \in Session /\ S \in Session \cup {None}
  BY <1>1 DEF TypeOK
<1>3. SessionOK(j, r) /\ SessionOK(j, o) /\ Life(j)
  BY <1>1 DEF Good, Sessions
<1>4. f \in Wire /\ f.t = "c" /\ Online(j, r) /\ Genuine(j, r, f)
  BY HeadFacts
<1>5. Listens(j, r)
  BY <1>4 DEF Listens
<1>6. Current(j, r, f) /\ Expect(j, r) = 3
  BY <1>5, HeadFacts DEF Turn
<1>7. Place(R) = 3 /\ R.result # None /\ R.ke = None
  <2>1. r = "B" => first[j] = None
    BY <1>3, <1>4 DEF Life, Online
  <2>2. Expect(j, r) = Place(R)
    BY <2>1 DEF Expect, Place
  <2> QED BY <1>2, <1>3, <1>6, <2>2 DEF Place, SessionOK, Session
<1>8. R.result \in Transcript /\ f.d \in [by : Role, tt : Transcript] /\ f.d.by = o
  BY <1>2, <1>4, <1>7 DEF Session, Wire, Genuine
<1>9. S # None => S.result = f.d.tt
  BY <1>4, <1>6 DEF Current
<1>10. Listens(j, o) /\ r = "A" => S # None
  <2> SUFFICES ASSUME Listens(j, o), r = "A", S = None PROVE FALSE
    OBVIOUS
  <2>1. o = "B" /\ Listens(j, "A") /\ Listens(j, "B")
    BY <1>5 DEF Other
  <2>2. Expect(j, "A") + Len(net[j]["A"]) = Place(S) + 1
    BY <1>1, <2>1 DEF Good, Balance
  <2>3. Len(net[j]["A"]) \in Nat \ {0} /\ Place(S) = 1
    BY HeadFacts DEF Place
  <2> QED BY <1>6, <2>2, <2>3
<1>11. R.w = DeriveW(CodeOf(j, r), j) /\ f.d.tt.w = DeriveW(CodeOf(j, o), j) /\ R.result.w = R.w
  BY <1>3, <1>4, <1>7 DEF SessionOK, Genuine
<1>12. code[j] \in Code /\ typed[j] \in Code
  BY <1>3 DEF Life, TypeOK
<1>13. ASSUME f.d = Confirm(o, R.result) PROVE typed[j] = code[j] /\ (r = "B" => S # None)
  <2>1. f.d.tt = R.result
    BY <1>13 DEF Confirm
  <2>2. DeriveW(code[j], j) = DeriveW(typed[j], j)
    BY <1>11, <2>1 DEF CodeOf, Other, Role
  <2> QED BY <1>4, <1>6, <1>12, <2>1, <2>2, SameCode DEF Current
<1>14. ASSUME f.d # Confirm(o, R.result)
       PROVE  f.d.tt # R.result /\ (S # None \/ r = "B" => typed[j] # code[j])
  <2>1. f.d.tt # R.result
    BY <1>8, <1>14 DEF Confirm
  <2>2. S = None /\ r = "B" => typed[j] # code[j]
    BY <1>4, <1>6 DEF Current
  <2>3. ASSUME S # None, typed[j] = code[j] PROVE FALSE
    <3>1. S.result # None /\ S.result = f.d.tt
      BY <1>8, <1>9, <2>3, NoneAssumption
    <3>2. /\ R.result = Finish(r, j, R.w, R.x, R.own, S.own) /\ R.own = Start(r, R.w, R.x)
          /\ S.result = Finish(o, j, S.w, S.x, S.own, R.own) /\ S.own = Start(o, S.w, S.x)
          /\ S.w = DeriveW(CodeOf(j, o), j)
      BY <1>1, <1>3, <1>7, <2>3, <3>1 DEF SessionOK
    <3>3. S.w = R.w
      BY <1>11, <2>3, <3>2 DEF CodeOf
    <3>4. R.w \in Point /\ R.x \in Point /\ S.x \in Point
      BY <1>2, <2>3 DEF Session
    <3>5. PICK w \in Point, x \in Point, y \in Point : w = R.w /\ x = R.x /\ y = S.x
      BY <3>4
    <3>6. /\ R.result = Finish(r, j, w, x, Start(r, w, x), Start(o, w, y))
          /\ S.result = Finish(o, j, w, y, Start(o, w, y), Start(r, w, x))
      BY <3>2, <3>3, <3>5
    <3>7. R.result = S.result
      BY <3>6, SameTranscript DEF Role, Other
    <3> QED BY <2>1, <3>1, <3>7
  <2> QED BY <2>1, <2>2, <2>3
<1> QED
  BY <1>5, <1>7, <1>8, <1>9, <1>10, <1>13, <1>14 DEF ConfirmMeans

\* The right confirmation: the session is done, and sends the public key under Ke.
LEMMA ConfirmedStep ==
  ASSUME TypeOK, NEW j \in Invite, Good(j), NEW r \in Role, NextFrame(j, r, "c"),
         rec[j][r] # None, ~rec[j][r].done,
         Head(net[j][r]).d = Confirm(Other(r), rec[j][r].result),
         rec' = [rec EXCEPT ![j][r] = [rec[j][r] EXCEPT !.done = TRUE, !.ke = rec[j][r].result]],
         Handled(j, r, <<MemberKey(j, r, rec[j][r].result)>>),
         UNCHANGED <<owner, gone, issuer, code, with, live, typed, phase, first>>
  PROVE  TypeOK' /\ Good(j)' /\ Others(j)
<1> DEFINE o == Other(r)
           R == rec[j][r]
           S == rec[j][o]
           f == Head(net[j][r])
           s == [R EXCEPT !.done = TRUE, !.ke = R.result]
           e == MemberKey(j, r, R.result)
<1>1. o \in Role /\ o # r /\ Other(o) = r /\ \A q \in Role : q \in {r, o}
  BY DEF Role, Other
<1>2. /\ Listens(j, r) /\ Place(R) = 3 /\ R.result \in Transcript /\ R.ke = None
      /\ typed[j] = code[j] /\ (r = "B" => S # None)
      /\ (S # None => S.result = R.result) /\ (Listens(j, o) /\ r = "A" => S # None)
  <2>1. f.d.tt = R.result
    BY DEF Confirm
  <2>2. /\ Listens(j, r) /\ Place(R) = 3 /\ R.result \in Transcript /\ R.ke = None
        /\ S # None => S.result = f.d.tt
        /\ Listens(j, o) /\ r = "A" => S # None
        /\ f.d = Confirm(o, R.result) => typed[j] = code[j] /\ (r = "B" => S # None)
    <3>1. ConfirmMeans(j, r)
      BY ConfirmArrives
    <3> QED BY <3>1 DEF ConfirmMeans
  <2> QED BY <2>1, <2>2
<1>3. R \in Session /\ S \in Session \cup {None} /\ R # None
  BY <1>1 DEF TypeOK
<1>4. /\ s \in Session /\ s # None /\ s.result = R.result /\ s.done /\ s.ke = R.result /\ s.w = R.w
      /\ s.x = R.x /\ s.own = R.own /\ s.early = R.early /\ s.deliver = R.deliver
  <2>1. s \in Session
    BY <1>2, <1>3 DEF Session
  <2>2. s # None
    BY <2>1, NoneAssumption
  <2> QED BY <1>3, <2>1, <2>2 DEF Session
<1>5. /\ SessionOK(j, r) /\ SessionOK(j, o) /\ Life(j) /\ R.result # None
      /\ Head(net[j][r]).t = "c" /\ net[j][r] # <<>> /\ Online(j, r)
  BY <1>1, <1>2, HeadFacts, NoneAssumption DEF Good, Sessions
<1>6. e \in Wire /\ e.t = "member_key" /\ e.ke = R.result /\ e.pub = IF r = "A" THEN with[j] ELSE j
  <2>1. with[j] \in Member \cup {None}
    BY DEF TypeOK
  <2>2. r = "A" => with[j] \in Member
    BY <1>3, <1>5, <2>1 DEF Life
  <2> QED BY <1>2, <2>2 DEF MemberKey, Wire
<1> HIDE DEF s, e
<1>7. Moved(j, r, <<e>>)
  BY <1>5, <1>6, HandledMoves DEF e, TypeOK
<1>8. /\ rec'[j][r] = s /\ rec'[j][o] = S /\ \A i \in Invite \ {j} : rec'[i] = rec[i]
      /\ rec' \in [Invite -> [Role -> Session \cup {None}]]
  BY <1>1, <1>4 DEF s, TypeOK
<1>9. TypeOK' /\ Others(j)
  BY <1>7, <1>8 DEF TypeOK, Moved, Others, Same
<1>10. Steady(j) /\ \A q \in Role : Online(j, q)' = Online(j, q)
  BY DEF Steady, Online
<1>11. Place(s) = 4
  BY <1>4, <1>5 DEF Place
<1>12. Advances(j, r, e)
  <2>1. Turn(e.t) = 4
    BY <1>6 DEF Turn
  <2>2. Genuine(j, o, e)
    BY <1>1, <1>6 DEF Genuine, Role
  <2>3. ~(Online(j, o) /\ ~Listens(j, o))
    BY <1>1, <1>2 DEF Listens, Role
  <2> QED BY <1>1, <1>2, <1>4, <1>5, <1>6, <1>7, <1>8, <1>10, <1>11, <2>1, <2>2, <2>3 DEF Advances
<1>13. /\ Ordered(j)' /\ Listens(j, o)' = Listens(j, o)
       /\ Listens(j, o) => \A i \in DOMAIN net[j][o] : Turn(net[j][o][i].t) < 4
  BY <1>8, <1>11, <1>12, AdvanceStep
<1>14. Sessions(j)'
  <2>1. SessionOK(j, r)'
    <3>1. CodeOf(j, r)' = CodeOf(j, r)
      BY DEF CodeOf
    <3>2. /\ R.w = DeriveW(CodeOf(j, r), j) /\ R.x \in RandomScalar(r, R.w, j)
          /\ R.own = Start(r, R.w, R.x) /\ R.early = None /\ R.deliver = None
          /\ R.result.id = j /\ R.result.w = R.w
          /\ S # None => R.result = Finish(r, j, R.w, R.x, R.own, S.own)
      BY <1>3, <1>5 DEF SessionOK
    <3>3. /\ s.result # None /\ s.done = (s.ke # None) /\ s.ke \in {None, s.result}
          /\ typed[j] = code[j] /\ (S # None => S.result = s.ke)
      BY <1>2, <1>4, <1>5
    <3> QED BY <1>1, <1>4, <1>8, <3>1, <3>2, <3>3 DEF SessionOK
  <2>2. SessionOK(j, o)'
    <3>1. CodeOf(j, o)' = CodeOf(j, o)
      BY DEF CodeOf
    <3> QED BY <1>1, <1>3, <1>4, <1>5, <1>8, <3>1 DEF SessionOK
  <2> QED BY <1>1, <2>1, <2>2 DEF Sessions
<1>15. UpToDate(j, r)'
  <2> SUFFICES ASSUME NEW i \in DOMAIN net'[j][r] PROVE Current(j, r, net[j][r][i])'
    BY DEF UpToDate
  <2>1. i + 1 \in DOMAIN net[j][r] /\ net'[j][r][i] = net[j][r][i + 1]
    BY <1>7 DEF Moved
  <2>2. Current(j, r, net[j][r][i + 1])
    BY <1>2, <2>1 DEF Good, Queues, UpToDate
  <2>3. \A k \in DOMAIN net'[j][r] :
          k + 1 \in DOMAIN net[j][r] /\ net'[j][r][k] = net[j][r][k + 1]
    BY <1>7 DEF Moved
  <2> DEFINE g == net[j][r][i + 1]
  <2>4. /\ g.t = "m" /\ S # None => g.d = S.own
        /\ g.t = "c" /\ S # None => S.result = g.d.tt
        /\ g.t = "c" /\ S = None /\ r = "B" =>
             R # None /\ R.result \notin {None, g.d.tt} /\ typed[j] # code[j]
        /\ g.t = "member_key" =>
             /\ R # None /\ R.result = g.ke
             /\ \A k \in DOMAIN net[j][r] : net[j][r][k].t = "c" => net[j][r][k].d.tt = g.ke
    BY <2>2 DEF Current
  <2> HIDE DEF g
  <2>5. g.t = "member_key" =>
          \A k \in DOMAIN net'[j][r] : net'[j][r][k].t = "c" => net'[j][r][k].d.tt = g.ke
    BY <2>3, <2>4
  <2>6. net'[j][r][i] = g /\ rec'[j][r] = s /\ rec'[j][o] = S /\ s # None /\ s.result = R.result
    BY <1>4, <1>8, <2>1 DEF g
  <2>7. /\ g.t = "m" /\ rec'[j][o] # None => g.d = rec'[j][o].own
        /\ g.t = "c" /\ rec'[j][o] # None => rec'[j][o].result = g.d.tt
        /\ g.t = "c" /\ rec'[j][o] = None /\ r = "B" =>
             /\ rec'[j][r] # None /\ rec'[j][r].result \notin {None, g.d.tt}
             /\ typed'[j] # code'[j]
        /\ g.t = "member_key" => rec'[j][r] # None /\ rec'[j][r].result = g.ke
    BY <2>4, <2>6
  <2> QED BY <2>5, <2>6, <2>7 DEF Current
<1>16. UpToDate(j, o)'
  <2> SUFFICES ASSUME Listens(j, o), NEW i \in DOMAIN net'[j][o]
               PROVE  Current(j, o, net[j][o][i])'
    BY <1>13 DEF UpToDate
  <2>1. S # None /\ S.result = R.result
    BY <1>1, <1>2 DEF Role
  <2>2. \A k \in DOMAIN net'[j][o] : \/ k \in DOMAIN net[j][o] /\ net'[j][o][k] = net[j][o][k]
                                     \/ net'[j][o][k] = e
    BY <1>7 DEF Moved
  <2>3. \A k \in DOMAIN net[j][o] : net[j][o][k].t = "c" => net[j][o][k].d.tt = R.result
    <3>1. \A k \in DOMAIN net[j][o] : Current(j, o, net[j][o][k])
      BY <1>1 DEF Good, Queues, UpToDate
    <3>2. R # None /\ rec[j][Other(o)] = R
      BY <1>1, <1>3
    <3>3. ASSUME NEW k \in DOMAIN net[j][o], net[j][o][k].t = "c"
          PROVE  net[j][o][k].d.tt = R.result
      BY <3>1, <3>2, <3>3 DEF Current
    <3> QED BY <3>3
  <2>4. \A k \in DOMAIN net'[j][o] : net'[j][o][k].t = "c" => net'[j][o][k].d.tt = R.result
    BY <1>6, <2>2, <2>3
  <2>5. CASE net'[j][o][i] = e
    BY <1>1, <1>6, <1>8, <2>1, <2>4, <2>5 DEF Current
  <2>6. CASE i \in DOMAIN net[j][o] /\ net'[j][o][i] = net[j][o][i]
    <3>1. Turn(net[j][o][i].t) < 4
      BY <1>13, <2>6
    <3>2. net[j][o][i].t # "member_key"
      BY <3>1 DEF Turn
    <3>3. Current(j, o, net[j][o][i])
      BY <1>1, <2>6 DEF Good, Queues, UpToDate
    <3> DEFINE g == net[j][o][i]
    <3>4. /\ g.t = "m" => g.d = R.own
          /\ g.t = "c" => R.result = g.d.tt
      BY <1>1, <1>3, <3>3 DEF Current
    <3>5. g.t # "member_key"
      BY <3>2
    <3> HIDE DEF g
    <3>6. /\ net'[j][o][i] = g /\ Other(o) = r
          /\ rec'[j][r] # None /\ rec'[j][r].own = R.own /\ rec'[j][r].result = R.result
      BY <1>1, <1>4, <1>8, <2>6 DEF g
    <3>7. /\ g.t = "m" => g.d = rec'[j][r].own
          /\ g.t = "c" => rec'[j][r].result = g.d.tt
      BY <3>4, <3>6
    <3> QED BY <3>5, <3>6, <3>7 DEF Current
  <2> QED BY <2>2, <2>5, <2>6
<1>17. Life(j)'
  <2>1. with[j] # None
    BY <1>1, <1>3, <1>5 DEF Life, Waiting, Role
  <2> QED BY <1>1, <1>3, <1>4, <1>5, <1>8, <2>1 DEF Life, Role
<1> QED
  BY <1>1, <1>9, <1>13, <1>14, <1>15, <1>16, <1>17 DEF Good, Queues, Ordered

\* The wrong one, at the owner: it forgets the record.
LEMMA OwnerFailsStep ==
  ASSUME TypeOK, NEW j \in Invite, Good(j), NextFrame(j, "A", "c"),
         rec[j]["A"] # None, ~rec[j]["A"].done,
         Head(net[j]["A"]).d # Confirm("B", rec[j]["A"].result),
         rec' = [rec EXCEPT ![j]["A"] = None], Handled(j, "A", <<>>),
         UNCHANGED <<owner, gone, issuer, code, with, live, typed, phase, first>>
  PROVE  TypeOK' /\ Good(j)' /\ Others(j)
<1> DEFINE R == rec[j]["A"]
           S == rec[j]["B"]
           f == Head(net[j]["A"])
<1>1. "A" \in Role /\ "B" \in Role /\ Role = {"A", "B"} /\ Other("A") = "B" /\ Other("B") = "A"
  BY DEF Role, Other
<1>2. /\ Listens(j, "A") /\ Place(R) = 3 /\ R.result \in Transcript
      /\ S # None => S.result = f.d.tt /\ typed[j] # code[j]
      /\ f.d \in [by : Role, tt : Transcript] /\ f.d.tt # R.result
      /\ Listens(j, "B") => S # None
  <2>1. ConfirmMeans(j, "A")
    BY <1>1, ConfirmArrives
  <2> QED BY <1>1, <2>1 DEF ConfirmMeans
<1>3. /\ Head(net[j]["A"]) = net[j]["A"][1] /\ 1 \in DOMAIN net[j]["A"] /\ f.t = "c"
      /\ net[j]["A"] # <<>> /\ Expect(j, "A") = 3 /\ net[j]["A"] \in Seq(Wire)
  <2>1. net[j]["A"] \in Seq(Wire) /\ net[j]["A"] # <<>> /\ f.t = "c"
    BY <1>1 DEF TypeOK, NextFrame
  <2> QED BY <1>1, <1>2, <2>1, TailFacts DEF Expect
<1>4. /\ Said(j, "A") /\ InTurn(j, "A") /\ UpToDate(j, "A") /\ UpToDate(j, "B")
      /\ SessionOK(j, "B") /\ Life(j)
  BY <1>1 DEF Good, Queues, Sessions
<1>5. Moved(j, "A", <<>>)
  BY <1>1, <1>3, HandledMoves DEF TypeOK
<1>6. /\ rec'[j]["A"] = None /\ rec'[j]["B"] = S /\ \A i \in Invite \ {j} : rec'[i] = rec[i]
      /\ rec' \in [Invite -> [Role -> Session \cup {None}]]
  BY <1>1 DEF TypeOK
<1>7. TypeOK' /\ Others(j)
  BY <1>5, <1>6 DEF TypeOK, Moved, Others, Same
<1>8. \A i \in DOMAIN net[j]["A"] : i # 1 => net[j]["A"][i].t \in {"m", "c"}
  <2> SUFFICES ASSUME NEW i \in DOMAIN net[j]["A"], i # 1, net[j]["A"][i].t \notin {"m", "c"}
               PROVE  FALSE
    OBVIOUS
  <2>1. net[j]["A"][i] \in Wire /\ i \in Nat /\ i > 1
    BY <1>3
  <2>2. Turn(net[j]["A"][i].t) = 3 + i - 1
    BY <1>2, <1>3, <1>4 DEF InTurn
  <2>3. net[j]["A"][i].t \notin {"invite_redeemed", "redeem_ok"}
    BY <2>1, <2>2 DEF Turn
  <2>4. net[j]["A"][i].t # "key_deliver"
    BY <1>4 DEF Said, Genuine
  <2>5. net[j]["A"][i].t = "member_key"
    BY <2>1, <2>3, <2>4 DEF Wire
  <2>6. Current(j, "A", net[j]["A"][i])
    BY <1>2, <1>4 DEF UpToDate
  <2>7. R.result = net[j]["A"][i].ke /\ f.d.tt = net[j]["A"][i].ke
    BY <1>3, <2>5, <2>6 DEF Current
  <2> QED BY <1>2, <2>7
<1>9. OwnerStops(j, <<>>)
  BY <1>5, <1>6, <1>8 DEF OwnerStops, Steady
<1>10. Ordered(j)' /\ ~Listens(j, "A")' /\ Listens(j, "B")' = Listens(j, "B")
  BY <1>7, <1>9, OwnerStopsStep
<1>11. Sessions(j)'
  BY <1>1, <1>4, <1>6 DEF Sessions, SessionOK, CodeOf
<1>12. UpToDate(j, "B")'
  <2> SUFFICES ASSUME Listens(j, "B"), NEW i \in DOMAIN net'[j]["B"]
               PROVE  Current(j, "B", net[j]["B"][i])'
    BY <1>10 DEF UpToDate
  <2>1. net'[j]["B"] = net[j]["B"] /\ Current(j, "B", net[j]["B"][i])
    BY <1>1, <1>4, <1>5 DEF Moved, UpToDate
  <2>2. S # None /\ S.result = f.d.tt /\ typed[j] # code[j] /\ S.result # None
    BY <1>2, NoneAssumption
  <2> DEFINE g == net[j]["B"][i]
  <2>3. /\ rec'[j]["A"] = None /\ rec'[j]["B"] = S /\ net'[j]["B"][i] = g
        /\ Other("B") = "A" /\ S.result \in Transcript
    BY <1>1, <1>6, <2>1, <2>2 DEF TypeOK, Session
  <2>4. g.t = "c" => g.d.tt = R.result
    BY <1>1, <1>2, <2>1 DEF Current
  <2>5. g.t = "member_key" =>
          /\ S.result = g.ke
          /\ \A k \in DOMAIN net[j]["B"] : net[j]["B"][k].t = "c" => net[j]["B"][k].d.tt = g.ke
    BY <2>1 DEF Current
  <2> HIDE DEF g
  <2>6. g.t = "c" => rec'[j]["B"].result \notin {None, g.d.tt} /\ typed'[j] # code'[j]
    BY <1>2, <2>2, <2>3, <2>4
  <2>7. g.t = "member_key" =>
          /\ rec'[j]["B"].result = g.ke
          /\ \A k \in DOMAIN net'[j]["B"] : net'[j]["B"][k].t = "c" => net'[j]["B"][k].d.tt = g.ke
    BY <2>1, <2>3, <2>5
  <2> QED BY <2>2, <2>3, <2>6, <2>7 DEF Current
<1>13. UpToDate(j, "A")'
  BY <1>10 DEF UpToDate
<1>14. Life(j)'
  <2>1. net'[j]["A"] = <<>> \/ with[j] # None
    BY <1>4 DEF Life
  <2>2. phase[j] # "out"
    BY <1>1, <1>4 DEF Life
  <2> QED BY <1>1, <1>4, <1>6, <2>1, <2>2 DEF Life
<1> QED
  BY <1>1, <1>7, <1>10, <1>11, <1>12, <1>13, <1>14 DEF Good, Queues, Ordered

LEMMA HandleConfirmStep ==
  ASSUME TypeOK, NEW j \in Invite, Good(j), NEW r \in Role, HandleConfirm(j, r)
  PROVE  TypeOK' /\ Good(j)' /\ Others(j)
<1> DEFINE R == rec[j][r]
           f == Head(net[j][r])
<1>1. NextFrame(j, r, "c") /\ R # None /\ ~R.done
  BY DEF HandleConfirm
<1>2. ConfirmMeans(j, r)
  BY <1>1, ConfirmArrives
<1>3. R.result # None
  BY <1>2, NoneAssumption DEF ConfirmMeans
<1>4. /\ Verify(j, r, R, f.d, <<>>)
      /\ UNCHANGED <<owner, gone, issuer, code, with, typed, first>>
  BY <1>3 DEF HandleConfirm, roomVars
<1>5. CASE f.d = Confirm(Other(r), R.result)
  <2> DEFINE e == MemberKey(j, r, R.result)
  <2>1. <<>> \o <<e>> = <<e>>
    <3> HIDE DEF e
    <3> QED OBVIOUS
  <2>2. /\ rec' = [rec EXCEPT ![j][r] = [R EXCEPT !.done = TRUE, !.ke = R.result]]
        /\ Handled(j, r, <<>> \o <<e>>) /\ UNCHANGED <<phase, live>>
    BY <1>4, <1>5 DEF Verify, VerifyPeer
  <2>3. Handled(j, r, <<e>>)
    BY <2>1, <2>2
  <2> QED BY <1>1, <1>4, <1>5, <2>2, <2>3, ConfirmedStep
<1>6. CASE f.d # Confirm(Other(r), R.result)
  <2>1. Fail(j, r, <<>>)
    BY <1>4, <1>6 DEF Verify, VerifyPeer
  <2>2. CASE r = "A"
    BY <1>1, <1>4, <1>6, <2>1, <2>2, OwnerFailsStep DEF Fail, Other
  <2>3. CASE r = "B"
    <3>1. typed[j] # code[j]
      BY <1>2, <1>6, <2>3 DEF ConfirmMeans
    <3>2. phase[j] \in Waiting
      BY <1>1, <2>3 DEF Good, Life, Waiting
    <3>3. TornDown(j, "failed")
      BY <2>1, <2>3 DEF Fail
    <3> QED BY <1>4, <3>1, <3>2, <3>3, TornDownStep
  <2> QED BY <2>2, <2>3 DEF Role
<1> QED BY <1>5, <1>6

-----------------------------------------------------------------------------
(* The handlers of main.ts. *)

\* A new session on the frame of the server.
LEMMA NewSessionStep ==
  ASSUME TypeOK, NEW j \in Invite, Good(j), NEW r \in Role, NextFrame(j, r, Opening(r)),
         NewSession(j, r, CodeOf(j, r)),
         UNCHANGED <<owner, gone, issuer, code, with, live, typed, first>>,
         phase' = IF r = "B" THEN [phase EXCEPT ![j] = "handshake"] ELSE phase
  PROVE  TypeOK' /\ Good(j)' /\ Others(j)
<1> DEFINE o == Other(r)
           S == rec[j][o]
           w == DeriveW(CodeOf(j, r), j)
<1>1. o \in Role /\ o # r /\ Other(o) = r /\ \A q \in Role : q \in {r, o}
  BY DEF Role, Other
<1>2. PICK x \in RandomScalar(r, w, j) :
        /\ rec' = [rec EXCEPT ![j][r] =
                    [w |-> w, x |-> x, own |-> Start(r, w, x), result |-> None, early |-> None,
                     done |-> FALSE, ke |-> None, deliver |-> None]]
        /\ Handled(j, r, <<Frame("m", Start(r, w, x))>>)
  BY DEF NewSession
<1> DEFINE s == [w |-> w, x |-> x, own |-> Start(r, w, x), result |-> None, early |-> None,
                 done |-> FALSE, ke |-> None, deliver |-> None]
           e == Frame("m", Start(r, w, x))
<1>3. /\ net[j][r] # <<>> /\ Online(j, r) /\ Listens(j, r) /\ Expect(j, r) = 1
      /\ SessionOK(j, o) /\ Life(j) /\ phase[j] # "out" /\ with[j] # None
  <2>1. Turn(Opening(r)) = 1 /\ Opening(r) \notin {"m", "c"}
    BY DEF Opening, Turn
  <2>2. net[j][r] # <<>> /\ Online(j, r) /\ Listens(j, r) /\ Expect(j, r) = 1
    BY <2>1, HeadFacts
  <2>3. SessionOK(j, o) /\ Life(j)
    BY <1>1 DEF Good, Sessions
  <2>4. phase[j] # "out" /\ with[j] # None
    BY <2>2, <2>3 DEF Life, Online, Waiting, Role
  <2> QED BY <2>2, <2>3, <2>4
<1>4. CodeOf(j, r) \in Code /\ w \in Point /\ x \in Point
  <2>1. CodeOf(j, r) \in Code
    BY <1>3 DEF CodeOf, Life, TypeOK
  <2>2. x \in Point
    BY OrderAssumption DEF RandomScalar, Point
  <2> QED BY <2>1, <2>2, DeriveWType
<1> HIDE DEF w
<1>5. rec[j][r] = None /\ (r = "B" => phase[j] = "redeeming" /\ first[j] = None)
  BY <1>3 DEF Expect, Place, Online, Life
<1>6. S # None => S.result = None /\ S.ke = None
  <2> SUFFICES ASSUME S # None PROVE S.result = None
    BY <1>3 DEF SessionOK
  <2>1. CASE r = "B"
    BY <1>3, <1>5, <2>1 DEF Other, Life
  <2>2. CASE r = "A"
    <3>1. o = "B" /\ Listens(j, "A") /\ Listens(j, "B")
      BY <1>3, <2>2 DEF Life, Listens, Online, Other
    <3>2. Expect(j, o) + Len(net[j][o]) = Place(rec[j]["A"]) + 1 /\ Place(rec[j]["A"]) = 1
      BY <1>1, <1>5, <2>2, <3>1 DEF Good, Balance, Place
    <3>3. net[j][o] \in Seq(Wire)
      BY <1>1 DEF TypeOK
    <3>4. Len(net[j][o]) \in Nat /\ Expect(j, o) \in Int
      BY <3>3 DEF Expect, Place
    <3>5. Expect(j, o) <= 2
      BY <3>2, <3>4
    <3> QED BY <3>5 DEF Expect, Place
  <2> QED BY <2>1, <2>2 DEF Role
<1>7. /\ s \in Session /\ s # None /\ s.result = None /\ s.own = Start(r, w, x) /\ s.w = w /\ s.x = x
      /\ s.early = None /\ s.deliver = None /\ s.ke = None /\ s.done = FALSE /\ Place(s) = 2
  <2>1. Start(r, w, x) \in Point
    BY <1>4, StartType
  <2>2. s \in Session
    BY <1>4, <2>1 DEF Session
  <2>3. s # None
    BY <2>2, NoneAssumption
  <2> QED BY <2>2, <2>3 DEF Place
<1>8. e \in Wire /\ e.t = "m" /\ e.d = s.own
  BY <1>4, StartType DEF Frame, Wire
<1> HIDE DEF s, e
<1>9. Moved(j, r, <<e>>)
  BY <1>2, <1>3, <1>8, HandledMoves DEF e, TypeOK
<1>10. /\ rec'[j][r] = s /\ rec'[j][o] = S /\ \A i \in Invite \ {j} : rec'[i] = rec[i]
       /\ rec' \in [Invite -> [Role -> Session \cup {None}]]
  BY <1>1, <1>2, <1>7 DEF s, TypeOK
<1>11. /\ phase' \in [Invite -> Phase] /\ \A i \in Invite \ {j} : phase'[i] = phase[i]
       /\ phase'[j] = IF r = "B" THEN "handshake" ELSE phase[j]
  BY DEF TypeOK, Phase
<1>12. TypeOK' /\ Others(j)
  BY <1>9, <1>10, <1>11 DEF TypeOK, Moved, Others, Same
<1>13. Steady(j) /\ \A q \in Role : Online(j, q)' = Online(j, q)
  BY <1>5, <1>11 DEF Steady, Online
<1>14. Advances(j, r, e)
  <2>1. Turn(e.t) = 2 /\ Place(rec[j][r]) = 1
    BY <1>5, <1>8 DEF Turn, Place
  <2>2. Genuine(j, o, e)
    BY <1>8 DEF Genuine
  <2> QED BY <1>1, <1>3, <1>7, <1>8, <1>9, <1>10, <1>13, <2>1, <2>2 DEF Advances
<1>15. /\ Ordered(j)' /\ Listens(j, o)' = Listens(j, o)
       /\ Listens(j, o) => \A i \in DOMAIN net[j][o] : Turn(net[j][o][i].t) < 2
  BY <1>7, <1>10, <1>14, AdvanceStep
<1>16. Sessions(j)'
  <2>1. CodeOf(j, r)' = CodeOf(j, r) /\ CodeOf(j, o)' = CodeOf(j, o)
    BY DEF CodeOf
  <2>2. SessionOK(j, r)'
    BY <1>7, <1>10, <2>1 DEF SessionOK, w
  <2>3. SessionOK(j, o)'
    BY <1>1, <1>3, <1>6, <1>7, <1>10, <2>1 DEF SessionOK
  <2> QED BY <1>1, <2>2, <2>3 DEF Sessions
<1>17. UpToDate(j, r)'
  <2> SUFFICES ASSUME NEW i \in DOMAIN net'[j][r] PROVE Current(j, r, net[j][r][i])'
    BY DEF UpToDate
  <2>1. i + 1 \in DOMAIN net[j][r] /\ net'[j][r][i] = net[j][r][i + 1]
    BY <1>9 DEF Moved
  <2>2. Current(j, r, net[j][r][i + 1])
    BY <1>3, <2>1 DEF Good, Queues, UpToDate
  <2> QED BY <1>1, <1>5, <1>10, <2>1, <2>2 DEF Current
<1>18. UpToDate(j, o)'
  <2> SUFFICES ASSUME Listens(j, o), NEW i \in DOMAIN net'[j][o]
               PROVE  Current(j, o, net[j][o][i])'
    BY <1>15 DEF UpToDate
  <2>1. CASE net'[j][o][i] = e
    BY <1>1, <1>8, <1>10, <2>1 DEF Current
  <2>2. CASE i \in DOMAIN net[j][o] /\ net'[j][o][i] = net[j][o][i]
    <3>1. Turn(net[j][o][i].t) < 2
      BY <1>15, <2>2
    <3>2. net[j][o][i].t \notin {"m", "c", "member_key"}
      BY <3>1 DEF Turn
    <3> QED BY <2>2, <3>2 DEF Current
  <2>3. \/ i \in DOMAIN net[j][o] /\ net'[j][o][i] = net[j][o][i]
        \/ net'[j][o][i] = e
    BY <1>9 DEF Moved
  <2> QED BY <2>1, <2>2, <2>3
<1>19. Life(j)'
  BY <1>1, <1>3, <1>5, <1>7, <1>10, <1>11 DEF Life, Role, Waiting
<1> QED
  BY <1>1, <1>12, <1>15, <1>16, <1>17, <1>18, <1>19 DEF Good, Queues, Ordered

LEMMA OnRedeemOkStep ==
  ASSUME TypeOK, NEW j \in Invite, Good(j), OnRedeemOk(j)
  PROVE  TypeOK' /\ Good(j)' /\ Others(j)
<1>1. Opening("B") = "redeem_ok" /\ CodeOf(j, "B") = typed[j] /\ "B" \in Role
  BY DEF Opening, CodeOf, Role
<1>2. /\ NextFrame(j, "B", "redeem_ok") /\ NewSession(j, "B", typed[j])
      /\ phase' = [phase EXCEPT ![j] = "handshake"]
      /\ UNCHANGED <<owner, gone, issuer, code, with, live, typed, first>>
  BY DEF OnRedeemOk, roomVars
<1> QED BY <1>1, <1>2, NewSessionStep

\* What an owner without a session leaves in its queue.
LEMMA OwnerWithout ==
  ASSUME TypeOK, NEW j \in Invite, Good(j), rec[j]["A"] = None
  PROVE  \A i \in DOMAIN net[j]["A"] : Online(j, "A") /\ i # 1 => net[j]["A"][i].t \in {"m", "c"}
<1> SUFFICES ASSUME NEW i \in DOMAIN net[j]["A"], Online(j, "A"), i # 1
             PROVE  net[j]["A"][i].t \in {"m", "c"}
  OBVIOUS
<1>1. /\ "A" \in Role /\ net[j]["A"] \in Seq(Wire)
      /\ Said(j, "A") /\ InTurn(j, "A") /\ UpToDate(j, "A") /\ LeftOver(j, "A")
  BY DEF TypeOK, Good, Queues, Role
<1>2. CASE ~Listens(j, "A")
  BY <1>1, <1>2 DEF LeftOver
<1>3. CASE Listens(j, "A")
  <2>1. i \in Nat /\ i > 1 /\ net[j]["A"][i] \in Wire
    BY <1>1
  <2>2. Expect(j, "A") = 1
    BY DEF Expect, Place
  <2>3. Turn(net[j]["A"][i].t) > 1
    BY <1>1, <1>3, <2>1, <2>2 DEF InTurn
  <2>4. net[j]["A"][i].t \notin {"redeem_ok", "invite_redeemed"}
    BY <2>3 DEF Turn
  <2>5. net[j]["A"][i].t # "member_key"
    BY <1>1, <1>3 DEF UpToDate, Current
  <2>6. net[j]["A"][i].t # "key_deliver"
    BY <1>1 DEF Said, Genuine
  <2> QED BY <2>1, <2>4, <2>5, <2>6 DEF Wire
<1> QED BY <1>2, <1>3

\* The owner has no session and passes over a frame.
LEMMA OwnerIgnores ==
  ASSUME TypeOK, NEW j \in Invite, Good(j), NEW t, NextFrame(j, "A", t), rec[j]["A"] = None,
         Handled(j, "A", <<>>),
         UNCHANGED <<owner, gone, issuer, code, with, live, typed, phase, first, rec>>
  PROVE  TypeOK' /\ Good(j)' /\ Others(j)
<1>1. "A" \in Role /\ "B" \in Role /\ Role = {"A", "B"} /\ Other("A") = "B" /\ Other("B") = "A"
  BY DEF Role, Other
<1>2. net[j]["A"] # <<>> /\ Online(j, "A")
  BY DEF NextFrame
<1>3. Moved(j, "A", <<>>)
  BY <1>1, <1>2, HandledMoves DEF TypeOK
<1>4. TypeOK' /\ Others(j)
  BY <1>3 DEF TypeOK, Moved, Others, Same
<1>5. OwnerStops(j, <<>>)
  BY <1>2, <1>3, OwnerWithout DEF OwnerStops, Steady
<1>6. Ordered(j)' /\ ~Listens(j, "A")' /\ Listens(j, "B")' = Listens(j, "B")
  BY <1>5, OwnerStopsStep
<1>7. Sessions(j)'
  BY DEF Good, Sessions, SessionOK, CodeOf
<1>8. UpToDate(j, "A")' /\ UpToDate(j, "B")'
  <2>1. net'[j]["B"] = net[j]["B"] /\ UpToDate(j, "B")
    BY <1>1, <1>3 DEF Moved, Good, Queues
  <2>2. \A i \in DOMAIN net[j]["B"] :
          Listens(j, "B") => Current(j, "B", net[j]["B"][i])
    BY <2>1 DEF UpToDate
  <2>3. ASSUME NEW i \in DOMAIN net'[j]["B"], Listens(j, "B")
        PROVE  Current(j, "B", net[j]["B"][i])'
    <3>1. Current(j, "B", net[j]["B"][i])
      BY <2>1, <2>2, <2>3
    <3> QED BY <2>1, <3>1 DEF Current
  <2>4. UpToDate(j, "B")'
    BY <1>6, <2>3 DEF UpToDate
  <2> QED BY <1>6, <2>4 DEF UpToDate
<1>9. Life(j)'
  <2>1. with[j] # None /\ phase[j] # "out"
    BY <1>1, <1>2 DEF Good, Life
  <2> QED BY <2>1 DEF Good, Life
<1> QED BY <1>1, <1>4, <1>6, <1>7, <1>8, <1>9 DEF Good, Queues, Ordered

LEMMA OnInviteRedeemedStep ==
  ASSUME TypeOK, NEW j \in Invite, Good(j), OnInviteRedeemed(j)
  PROVE  TypeOK' /\ Good(j)' /\ Others(j)
<1>1. Opening("A") = "invite_redeemed" /\ CodeOf(j, "A") = code[j] /\ "A" \in Role
  BY DEF Opening, CodeOf, Role
<1>2. NextFrame(j, "A", "invite_redeemed")
      /\ UNCHANGED <<owner, gone, issuer, code, with, live, typed, phase, first>>
  BY DEF OnInviteRedeemed, roomVars
<1>3. CASE issuer[j] = with[j]
  <2>1. NewSession(j, "A", code[j])
    BY <1>3 DEF OnInviteRedeemed
  <2>2. phase' = IF "A" = "B" THEN [phase EXCEPT ![j] = "handshake"] ELSE phase
    BY <1>2
  <2> QED BY <1>1, <1>2, <2>1, <2>2, NewSessionStep
<1>4. CASE issuer[j] # with[j]
  <2>1. rec[j]["A"] = None
    <3>1. Turn("invite_redeemed") = 1 /\ "invite_redeemed" \notin {"m", "c"}
      BY DEF Turn
    <3>2. Expect(j, "A") = 1
      BY <1>1, <1>2, <3>1, HeadFacts
    <3> QED BY <3>2 DEF Expect, Place
  <2> QED BY <1>2, <1>4, <2>1, OwnerIgnores DEF OnInviteRedeemed
<1> QED BY <1>3, <1>4

LEMMA IgnorePakeStep ==
  ASSUME TypeOK, NEW j \in Invite, Good(j), NEW r \in Role, IgnorePake(j, r)
  PROVE  TypeOK' /\ Good(j)' /\ Others(j)
<1>1. PICK t \in {"m", "c"} : NextFrame(j, r, t)
  BY DEF IgnorePake
<1>2. /\ rec[j][r] = None /\ Handled(j, r, <<>>)
      /\ UNCHANGED <<owner, gone, issuer, code, with, live, typed, phase, first, rec>>
  BY DEF IgnorePake, roomVars
<1>3. r = "A"
  <2> SUFFICES ASSUME r = "B" PROVE FALSE
    BY DEF Role
  <2>1. Listens(j, "B")
    BY <1>1 DEF NextFrame, Listens
  <2>2. Turn(t) = Expect(j, "B") /\ Turn(t) # 1
    BY <1>1, <2>1, HeadFacts DEF Turn
  <2>3. Expect(j, "B") = 1
    BY <1>2, <2>1 DEF Good, Life, Listens, Online, Expect, Place
  <2> QED BY <2>2, <2>3
<1> QED BY <1>1, <1>2, <1>3, OwnerIgnores

\* A public key finds Ke.
LEMMA MemberKeyArrives ==
  ASSUME TypeOK, NEW j \in Invite, Good(j), NEW r \in Role, NextFrame(j, r, "member_key")
  PROVE  /\ Listens(j, r) /\ CanOpen(j, r) /\ rec[j][r] # None /\ rec[j][r].done
         /\ Place(rec[j][r]) = 4 /\ Expect(j, r) = 4 /\ (r = "B" => first[j] = None)
<1> DEFINE R == rec[j][r]
           f == Head(net[j][r])
<1>1. /\ f \in Wire /\ f.t = "member_key" /\ Listens(j, r) /\ Expect(j, r) = 4
      /\ Current(j, r, f) /\ Online(j, r)
  BY HeadFacts DEF Turn
<1>2. R # None /\ R.result = f.ke /\ f.ke \in Transcript
  BY <1>1 DEF Current, Wire
<1>3. /\ r = "B" /\ first[j] # None => R.done
  BY <1>1, <1>2 DEF Good, Life, Online
<1>4. R.done /\ Place(R) = 4 /\ (r = "B" => first[j] = None)
  BY <1>1, <1>2, <1>3, NoneAssumption DEF Expect, Place
<1>5. R.ke # None /\ R.ke = R.result
  BY <1>2, <1>4 DEF Good, Sessions, SessionOK
<1> QED BY <1>1, <1>2, <1>4, <1>5 DEF CanOpen

LEMMA OwnerOnMemberKeyStep ==
  ASSUME TypeOK, NEW j \in Invite, Good(j), OwnerOnMemberKey(j)
  PROVE  TypeOK' /\ Good(j)' /\ Others(j)
<1> DEFINE e == [t |-> "key_deliver", by |-> with[j], for |-> Head(net[j]["A"]).pub]
<1>1. "A" \in Role /\ "B" \in Role /\ Role = {"A", "B"} /\ Other("A") = "B" /\ Other("B") = "A"
  BY DEF Role, Other
<1>2. NextFrame(j, "A", "member_key")
  BY DEF OwnerOnMemberKey
<1>3. /\ Listens(j, "A") /\ CanOpen(j, "A") /\ rec[j]["A"] # None
      /\ Place(rec[j]["A"]) = 4 /\ Expect(j, "A") = 4
  BY <1>1, <1>2, MemberKeyArrives
<1>4. /\ rec' = [rec EXCEPT ![j]["A"] = None] /\ Handled(j, "A", <<e>>)
      /\ UNCHANGED <<owner, gone, issuer, code, with, live, typed, phase, first>>
  BY <1>3 DEF OwnerOnMemberKey, roomVars
<1>5. /\ SessionOK(j, "B") /\ Life(j) /\ Said(j, "A") /\ InTurn(j, "A") /\ InTurn(j, "B")
      /\ UpToDate(j, "B") /\ net[j]["A"] \in Seq(Wire) /\ net[j]["B"] \in Seq(Wire)
  BY <1>1 DEF Good, Sessions, Queues, TypeOK
<1>6. /\ net[j]["A"] # <<>> /\ Head(net[j]["A"]).pub = j
  <2>1. Head(net[j]["A"]).t = "member_key" /\ Genuine(j, "A", Head(net[j]["A"]))
    BY <1>1, <1>2, HeadFacts
  <2> QED BY <1>2, <2>1 DEF Genuine, NextFrame
<1>7. with[j] \in Member /\ with[j] # None /\ phase[j] # "out"
  <2>1. with[j] # None /\ phase[j] # "out"
    BY <1>1, <1>3, <1>5 DEF Life
  <2> QED BY <2>1 DEF TypeOK
<1>8. e \in Wire /\ e.t = "key_deliver" /\ e.by = with[j] /\ e.for = j
  BY <1>6, <1>7 DEF Wire
<1> HIDE DEF e
<1>9. Moved(j, "A", <<e>>)
  BY <1>1, <1>4, <1>6, <1>8, HandledMoves DEF TypeOK
<1>10. /\ rec'[j]["A"] = None /\ rec'[j]["B"] = rec[j]["B"]
       /\ \A i \in Invite \ {j} : rec'[i] = rec[i]
       /\ rec' \in [Invite -> [Role -> Session \cup {None}]]
  BY <1>1, <1>4 DEF TypeOK
<1>11. TypeOK' /\ Others(j)
  BY <1>4, <1>9, <1>10 DEF TypeOK, Moved, Others, Same
<1>12. OwnerStops(j, <<e>>)
  <2>1. ASSUME NEW i \in DOMAIN net[j]["A"], i # 1 PROVE net[j]["A"][i].t \in {"m", "c"}
    <3>1. i \in Nat /\ i > 1 /\ net[j]["A"][i] \in Wire
      BY <1>5, <2>1
    <3>2. Turn(net[j]["A"][i].t) = 4 + i - 1
      BY <1>3, <1>5 DEF InTurn
    <3>3. net[j]["A"][i].t = "key_deliver"
      BY <3>1, <3>2 DEF Turn, Wire
    <3> QED BY <1>5, <3>3 DEF Said, Genuine
  <2>2. Turn(e.t) = 5 /\ Genuine(j, "B", e)
    BY <1>8 DEF Turn, Genuine
  <2> QED BY <1>3, <1>4, <1>9, <1>10, <2>1, <2>2 DEF OwnerStops, Steady
<1>13. Ordered(j)' /\ ~Listens(j, "A")' /\ Listens(j, "B")' = Listens(j, "B")
  BY <1>11, <1>12, OwnerStopsStep
<1>14. Sessions(j)'
  BY <1>1, <1>4, <1>5, <1>10 DEF Sessions, SessionOK, CodeOf
<1>15. UpToDate(j, "A")'
  BY <1>13 DEF UpToDate
<1>16. UpToDate(j, "B")'
  <2> SUFFICES ASSUME Listens(j, "B"), NEW i \in DOMAIN net'[j]["B"]
               PROVE  Current(j, "B", net[j]["B"][i])'
    BY <1>13 DEF UpToDate
  <2>1. \A k \in DOMAIN net'[j]["B"] :
          \/ k \in DOMAIN net[j]["B"] /\ net'[j]["B"][k] = net[j]["B"][k]
          \/ net'[j]["B"][k] = e
    BY <1>1, <1>9 DEF Moved
  <2>2. \A k \in DOMAIN net[j]["B"] : net[j]["B"][k].t # "c"
    <3> SUFFICES ASSUME NEW k \in DOMAIN net[j]["B"], net[j]["B"][k].t = "c" PROVE FALSE
      OBVIOUS
    <3>1. Expect(j, "B") + Len(net[j]["B"]) = 5 /\ 4 + Len(net[j]["A"]) = Place(rec[j]["B"]) + 1
      BY <1>1, <1>3 DEF Good, Balance
    <3>2. Len(net[j]["A"]) \in Nat \ {0}
      BY <1>5, <1>6
    <3>3. Expect(j, "B") \in Int /\ Expect(j, "B") >= 4
      BY <3>1, <3>2 DEF Expect, Place
    <3>4. Turn(net[j]["B"][k].t) = Expect(j, "B") + k - 1 /\ k \in Nat /\ k >= 1
      BY <1>5 DEF InTurn
    <3>5. Turn(net[j]["B"][k].t) = 3
      BY DEF Turn
    <3> QED BY <3>3, <3>4, <3>5
  <2>3. CASE net'[j]["B"][i] = e
    BY <1>8, <2>3 DEF Current
  <2>4. CASE i \in DOMAIN net[j]["B"] /\ net'[j]["B"][i] = net[j]["B"][i]
    <3>1. Current(j, "B", net[j]["B"][i])
      BY <1>5, <2>4 DEF UpToDate
    <3>2. \A k \in DOMAIN net'[j]["B"] : net'[j]["B"][k].t # "c"
      BY <1>8, <2>1, <2>2
    <3> QED BY <1>1, <1>10, <2>4, <3>1, <3>2 DEF Current
  <2> QED BY <2>1, <2>3, <2>4
<1>17. Life(j)'
  BY <1>1, <1>4, <1>5, <1>7, <1>10 DEF Life
<1> QED
  BY <1>1, <1>11, <1>13, <1>14, <1>15, <1>16, <1>17 DEF Good, Queues, Ordered

LEMMA JoinerOnMemberKeyStep ==
  ASSUME TypeOK, NEW j \in Invite, Good(j), JoinerOnMemberKey(j)
  PROVE  TypeOK' /\ Good(j)' /\ Others(j)
<1> DEFINE f == Head(net[j]["B"])
<1>1. "A" \in Role /\ "B" \in Role /\ Role = {"A", "B"} /\ Other("A") = "B" /\ Other("B") = "A"
  BY DEF Role, Other
<1>2. NextFrame(j, "B", "member_key")
  BY DEF JoinerOnMemberKey
<1>3. /\ Listens(j, "B") /\ CanOpen(j, "B") /\ rec[j]["B"] # None /\ rec[j]["B"].done
      /\ Expect(j, "B") = 4 /\ Place(rec[j]["B"]) = 4 /\ first[j] = None
  BY <1>1, <1>2, MemberKeyArrives
<1>4. /\ SessionOK(j, "B") /\ Life(j) /\ InTurn(j, "A") /\ InTurn(j, "B")
      /\ UpToDate(j, "A") /\ UpToDate(j, "B") /\ LeftOver(j, "A")
      /\ net[j]["A"] \in Seq(Wire) /\ net[j]["B"] \in Seq(Wire)
  BY <1>1 DEF Good, Sessions, Queues, TypeOK
<1>5. /\ net[j]["B"] # <<>> /\ f.pub = with[j] /\ with[j] \in Member /\ with[j] # None
      /\ phase[j] = "handshake"
  <2>1. f.t = "member_key" /\ Genuine(j, "B", f) /\ net[j]["B"] # <<>>
    BY <1>1, <1>2, HeadFacts
  <2>2. phase[j] = "handshake" /\ with[j] # None
    BY <1>3, <1>4 DEF Life, Waiting
  <2> QED BY <2>1, <2>2 DEF Genuine, TypeOK
<1>6. rec[j]["B"].deliver = None
  BY <1>3, <1>4 DEF SessionOK
<1>7. /\ first' = [first EXCEPT ![j] = with[j]] /\ Handled(j, "B", <<>>)
      /\ UNCHANGED <<owner, gone, issuer, code, with, live, typed, phase, rec>>
  BY <1>3, <1>5, <1>6 DEF JoinerOnMemberKey, roomVars
<1>8. Moved(j, "B", <<>>)
  BY <1>1, <1>5, <1>7, HandledMoves DEF TypeOK
<1>9. /\ first' \in [Invite -> Member \cup {None}] /\ first'[j] = with[j]
      /\ \A i \in Invite \ {j} : first'[i] = first[i]
  BY <1>5, <1>7 DEF TypeOK
<1>10. TypeOK' /\ Others(j)
  BY <1>7, <1>8, <1>9 DEF TypeOK, Moved, Others, Same
<1>11. /\ Steady(j) /\ Online(j, "A")' = Online(j, "A") /\ Online(j, "B")' = Online(j, "B")
       /\ net'[j]["A"] = net[j]["A"] /\ Listens(j, "A")' = Listens(j, "A")
       /\ Listens(j, "B")' = Listens(j, "B")
  BY <1>1, <1>7, <1>8 DEF Steady, Online, Listens, Moved
<1>12. /\ Expect(j, "A")' = Expect(j, "A") /\ Expect(j, "A") \in Int
       /\ Expect(j, "B")' = Expect(j, "B") + 1
  BY <1>3, <1>5, <1>7, <1>9 DEF Expect, Place
<1>13. Said(j, "A")' /\ Said(j, "B")'
  BY <1>1, <1>8, <1>11, SaidStep DEF Good
<1>14. InTurn(j, "A")' /\ InTurn(j, "B")'
  BY <1>1, <1>4, <1>8, <1>11, <1>12, InTurnStep
<1>15. LeftOver(j, "A")' /\ LeftOver(j, "B")'
  BY <1>4, <1>11 DEF LeftOver, Listens
<1>16. UpToDate(j, "A")'
  BY <1>4, <1>7, <1>11 DEF UpToDate, Current
<1>17. UpToDate(j, "B")'
  <2> SUFFICES ASSUME NEW i \in DOMAIN net'[j]["B"] PROVE Current(j, "B", net[j]["B"][i])'
    BY DEF UpToDate
  <2>1. \A k \in DOMAIN net'[j]["B"] :
          k + 1 \in DOMAIN net[j]["B"] /\ net'[j]["B"][k] = net[j]["B"][k + 1]
    BY <1>8 DEF Moved
  <2>2. Current(j, "B", net[j]["B"][i + 1])
    BY <1>3, <1>4, <2>1 DEF UpToDate
  <2> QED BY <1>7, <2>1, <2>2 DEF Current
<1>18. Balance(j)'
  <2> SUFFICES ASSUME Listens(j, "A")
               PROVE  /\ Expect(j, "A")' + Len(net'[j]["A"]) = Place(rec[j]["B"]) + 1
                      /\ Expect(j, "B")' + Len(net'[j]["B"]) = Place(rec[j]["A"]) + 1
    BY <1>1, <1>7, <1>11 DEF Balance
  <2>1. /\ Expect(j, "A") + Len(net[j]["A"]) = Place(rec[j]["B"]) + 1
        /\ Expect(j, "B") + Len(net[j]["B"]) = Place(rec[j]["A"]) + 1
    BY <1>1, <1>3 DEF Good, Balance
  <2>2. Len(net'[j]["B"]) = Len(net[j]["B"]) - 1 /\ Len(net[j]["B"]) \in Int
    BY <1>4, <1>8 DEF Moved
  <2>3. Expect(j, "B")' = 5
    BY <1>3, <1>12
  <2>4. Expect(j, "B")' + Len(net'[j]["B"]) = Place(rec[j]["A"]) + 1
    BY <1>3, <2>1, <2>2, <2>3
  <2> QED BY <1>11, <1>12, <2>1, <2>4
<1>19. Sessions(j)'
  BY <1>7 DEF Good, Sessions, SessionOK, CodeOf
<1>20. Life(j)'
  BY <1>3, <1>4, <1>5, <1>7, <1>9, <1>11 DEF Life
<1> QED
  BY <1>1, <1>10, <1>13, <1>14, <1>15, <1>16, <1>17, <1>18, <1>19, <1>20 DEF Good, Queues

LEMMA OnKeyDeliverStep ==
  ASSUME TypeOK, NEW j \in Invite, Good(j), OnKeyDeliver(j)
  PROVE  TypeOK' /\ Good(j)' /\ Others(j)
<1> DEFINE f == Head(net[j]["B"])
<1>1. "A" \in Role /\ "B" \in Role /\ Role = {"A", "B"} /\ Other("A") = "B" /\ Other("B") = "A"
  BY DEF Role, Other
<1>2. NextFrame(j, "B", "key_deliver")
  BY DEF OnKeyDeliver
<1>3. /\ f.t = "key_deliver" /\ Genuine(j, "B", f) /\ Listens(j, "B") /\ Expect(j, "B") = 5
      /\ net[j]["B"] # <<>>
  <2>1. Turn("key_deliver") = 5
    BY DEF Turn
  <2> QED BY <1>1, <1>2, <2>1, HeadFacts
<1>4. /\ SessionOK(j, "A") /\ SessionOK(j, "B") /\ Life(j) /\ Said(j, "A") /\ Said(j, "B")
      /\ InTurn(j, "A") /\ UpToDate(j, "A") /\ LeftOver(j, "A")
  BY <1>1 DEF Good, Sessions, Queues
<1>5. first[j] # None /\ rec[j]["B"] # None
  BY <1>3 DEF Expect, Place
<1>6. /\ first[j] = with[j] /\ phase[j] = "handshake" /\ typed[j] = code[j]
      /\ f.by = with[j] /\ f.for = j
  <2>1. first[j] = with[j] /\ phase[j] = "handshake" /\ rec[j]["B"].done
    BY <1>4, <1>5 DEF Life
  <2> QED BY <1>3, <1>4, <1>5, <2>1 DEF SessionOK, Genuine
<1>7. /\ phase' = [phase EXCEPT ![j] = "keyed"] /\ rec' = [rec EXCEPT ![j]["B"] = None]
      /\ Handled(j, "B", <<>>)
      /\ UNCHANGED <<owner, gone, issuer, code, with, live, typed, first>>
  BY <1>5, <1>6 DEF OnKeyDeliver, FinishJoin, OpenRoomKey, roomVars
<1>8. Moved(j, "B", <<>>)
  BY <1>1, <1>3, <1>7, HandledMoves DEF TypeOK
<1>9. /\ rec'[j]["B"] = None /\ rec'[j]["A"] = rec[j]["A"]
      /\ \A i \in Invite \ {j} : rec'[i] = rec[i]
      /\ rec' \in [Invite -> [Role -> Session \cup {None}]]
  BY <1>1, <1>7 DEF TypeOK
<1>10. phase' \in [Invite -> Phase] /\ phase'[j] = "keyed" /\ \A i \in Invite \ {j} : phase'[i] = phase[i]
  BY <1>7 DEF TypeOK, Phase
<1>11. TypeOK' /\ Others(j)
  BY <1>7, <1>8, <1>9, <1>10 DEF TypeOK, Moved, Others, Same
<1>12. /\ Steady(j) /\ Online(j, "A")' = Online(j, "A") /\ net'[j]["A"] = net[j]["A"]
       /\ Listens(j, "A")' = Listens(j, "A") /\ Expect(j, "A")' = Expect(j, "A")
       /\ ~Online(j, "B")' /\ ~Listens(j, "B")'
  BY <1>1, <1>7, <1>8, <1>9, <1>10 DEF Steady, Online, Listens, Moved, Expect
<1>13. Said(j, "A")' /\ Said(j, "B")'
  BY <1>1, <1>8, <1>12, SaidStep DEF Good
<1>14. InTurn(j, "A")' /\ InTurn(j, "B")' /\ LeftOver(j, "A")' /\ LeftOver(j, "B")'
  BY <1>4, <1>12 DEF InTurn, LeftOver
<1>15. UpToDate(j, "A")' /\ UpToDate(j, "B")'
  <2>1. \A q : Current(j, "A", q) => Current(j, "A", q)'
    BY <1>1, <1>9, <1>12 DEF Current
  <2> QED BY <1>4, <1>12, <2>1 DEF UpToDate
<1>16. Balance(j)'
  BY <1>12 DEF Balance
<1>17. Sessions(j)'
  BY <1>1, <1>4, <1>7, <1>9 DEF Sessions, SessionOK, CodeOf
<1>18. Life(j)'
  BY <1>1, <1>4, <1>5, <1>6, <1>7, <1>9, <1>10, <1>12 DEF Life, Waiting
<1> QED
  BY <1>1, <1>11, <1>13, <1>14, <1>15, <1>16, <1>17, <1>18 DEF Good, Queues

-----------------------------------------------------------------------------
(* Members, the server, and parties that disappear. *)

\* Nothing is under way before the invite is redeemed.
LEMMA CreateStep ==
  ASSUME TypeOK, NEW j \in Invite, Good(j), NEW c \in Code, OnInviteCreated(j, c)
  PROVE  TypeOK' /\ Good(j)' /\ Others(j)
<1>1. /\ code' = [code EXCEPT ![j] = c] /\ issuer' = [issuer EXCEPT ![j] = owner]
      /\ UNCHANGED <<owner, gone, with, live, typed, phase, first, rec, net>>
  BY DEF OnInviteCreated
<1>2. /\ code' \in [Invite -> Code \cup {None}] /\ \A i \in Invite \ {j} : code'[i] = code[i]
      /\ issuer' \in [Invite -> Member \cup {None}]
  BY <1>1 DEF TypeOK
<1>3. phase[j] = "out" /\ Life(j)
  BY DEF OnInviteCreated, Good, Life
<1>4. (\A r \in Role : rec[j][r] = None /\ net[j][r] = <<>>) /\ with[j] = None /\ first[j] = None
  BY <1>3 DEF Life
<1>5. TypeOK' /\ Others(j)
  BY <1>1, <1>2 DEF TypeOK, Others, Same
<1>6. Life(j)'
  BY <1>1, <1>3, <1>4 DEF Life, Waiting
<1>7. Sessions(j)' /\ Balance(j)'
  BY <1>1, <1>3, <1>4 DEF Sessions, SessionOK, Balance, Listens, Online
<1>8. \A r \in Role : DOMAIN net'[j][r] = {}
  BY <1>1, <1>4
<1>9. \A r \in Role : Said(j, r)' /\ InTurn(j, r)' /\ UpToDate(j, r)' /\ LeftOver(j, r)'
  BY <1>8 DEF Said, InTurn, UpToDate, LeftOver
<1> QED BY <1>5, <1>6, <1>7, <1>9 DEF Good, Queues

LEMMA RedeemStep ==
  ASSUME TypeOK, NEW j \in Invite, Good(j), NEW c \in Code, Redeem(j, c)
  PROVE  TypeOK' /\ Good(j)' /\ Others(j)
<1>1. /\ typed' = [typed EXCEPT ![j] = c] /\ c # None /\ phase[j] = "out" /\ code[j] # None
      /\ UNCHANGED <<owner, gone, issuer, code, first, rec>>
  BY NoneAssumption DEF Redeem, roomVars
<1>2. /\ typed' \in [Invite -> Code \cup {None}] /\ typed'[j] = c
      /\ \A i \in Invite \ {j} : typed'[i] = typed[i]
  BY <1>1 DEF TypeOK
<1>3. /\ \A r \in Role : rec[j][r] = None /\ net[j][r] = <<>>
      /\ with[j] = None /\ first[j] = None /\ j \notin live
  BY <1>1 DEF Good, Life, Waiting
<1>4. Sessions(j)'
  BY <1>1, <1>3 DEF Sessions, SessionOK
<1>5. CASE owner = None
  <2>1. phase' = [phase EXCEPT ![j] = "failed"] /\ UNCHANGED <<with, live, net>>
    BY <1>5 DEF Redeem
  <2>2. /\ phase' \in [Invite -> Phase] /\ phase'[j] = "failed"
        /\ \A i \in Invite \ {j} : phase'[i] = phase[i]
    BY <2>1 DEF TypeOK, Phase
  <2>3. TypeOK' /\ Others(j)
    BY <1>1, <1>2, <2>1, <2>2 DEF TypeOK, Others, Same
  <2>4. Life(j)'
    BY <1>1, <1>2, <1>3, <1>5, <2>1, <2>2 DEF Life, Waiting, Role
  <2>5. Balance(j)'
    BY <2>2 DEF Balance, Listens, Online
  <2>6. \A r \in Role : DOMAIN net'[j][r] = {}
    BY <1>3, <2>1
  <2>7. \A r \in Role : Said(j, r)' /\ InTurn(j, r)' /\ UpToDate(j, r)' /\ LeftOver(j, r)'
    BY <2>6 DEF Said, InTurn, UpToDate, LeftOver
  <2> QED BY <1>4, <2>3, <2>4, <2>5, <2>7 DEF Good, Queues
<1>6. CASE owner # None
  <2>1. /\ phase' = [phase EXCEPT ![j] = "redeeming"] /\ with' = [with EXCEPT ![j] = owner]
        /\ live' = live \cup {j}
        /\ net' = [net EXCEPT ![j] = [r \in Role |-> <<[t |-> Opening(r)]>>]]
    BY <1>6 DEF Redeem
  <2>2. /\ phase' \in [Invite -> Phase] /\ phase'[j] = "redeeming"
        /\ \A i \in Invite \ {j} : phase'[i] = phase[i]
    BY <2>1 DEF TypeOK, Phase
  <2>3. /\ with' \in [Invite -> Member \cup {None}] /\ with'[j] = owner
        /\ \A i \in Invite \ {j} : with'[i] = with[i]
    BY <2>1 DEF TypeOK
  <2>4. \A r \in Role : [t |-> Opening(r)] \in Wire
    BY DEF Opening, Wire
  <2>5. [r \in Role |-> <<[t |-> Opening(r)]>>] \in [Role -> Seq(Wire)]
    <3>1. \A r \in Role : <<[t |-> Opening(r)]>> \in Seq(Wire)
      <4>1. \A e \in Wire : <<e>> \in Seq(Wire)
        OBVIOUS
      <4> QED BY <2>4, <4>1
    <3> QED BY <3>1
  <2>6. /\ net' \in [Invite -> [Role -> Seq(Wire)]]
        /\ \A i \in Invite \ {j} : net'[i] = net[i]
    BY <2>1, <2>5 DEF TypeOK
  <2>7. \A r \in Role : net'[j][r] = <<[t |-> Opening(r)]>>
    BY <2>1 DEF TypeOK
  <2>8. TypeOK' /\ Others(j)
    BY <1>1, <1>2, <2>1, <2>2, <2>3, <2>6 DEF TypeOK, Others, Same
  <2>9. owner \notin gone
    BY <1>6 DEF TypeOK
  <2>10. Life(j)'
    BY <1>1, <1>2, <1>3, <1>6, <2>1, <2>2, <2>3, <2>9 DEF Life, Waiting, Role
  <2>11. \A r \in Role : /\ Expect(j, r)' = 1 /\ Place(rec'[j][r]) = 1 /\ DOMAIN net'[j][r] = {1}
                         /\ Len(net'[j][r]) = 1 /\ net'[j][r][1] = [t |-> Opening(r)]
    <3>1. \A e : Len(<<e>>) = 1 /\ DOMAIN <<e>> = {1} /\ <<e>>[1] = e
      OBVIOUS
    <3>2. \A r \in Role : rec'[j][r] = None /\ first'[j] = None
      BY <1>1, <1>3
    <3> QED BY <2>7, <3>1, <3>2 DEF Expect, Place
  <2>12. Listens(j, "A")' /\ Listens(j, "B")'
    <3>1. Online(j, "A")' /\ Online(j, "B")'
      BY <1>1, <2>2, <2>3, <2>9 DEF Online
    <3>2. net'[j]["A"] # <<>> /\ Head(net'[j]["A"]) = [t |-> Opening("A")]
      BY <2>7 DEF Role
    <3> QED BY <3>1, <3>2 DEF Listens, Opening
  <2>13. Balance(j)'
    BY <2>11 DEF Balance, Role, Other
  <2>14. \A r \in Role : Said(j, r)' /\ InTurn(j, r)' /\ UpToDate(j, r)' /\ LeftOver(j, r)'
    <3> SUFFICES ASSUME NEW r \in Role
                 PROVE  Said(j, r)' /\ InTurn(j, r)' /\ UpToDate(j, r)' /\ LeftOver(j, r)'
      OBVIOUS
    <3> DEFINE f == [t |-> Opening(r)]
    <3>1. f.t = Opening(r)
      OBVIOUS
    <3>2. DOMAIN net'[j][r] = {1} /\ net'[j][r][1] = f /\ Expect(j, r)' = 1
      BY <2>11
    <3> HIDE DEF f
    <3>3. Said(j, r)'
      BY <3>1, <3>2 DEF Said, Genuine, Opening, Role
    <3>4. InTurn(j, r)'
      BY <3>1, <3>2 DEF InTurn, Opening, Turn
    <3>5. UpToDate(j, r)'
      BY <3>1, <3>2 DEF UpToDate, Current, Opening
    <3>6. LeftOver(j, r)'
      BY <2>12 DEF LeftOver, Role
    <3> QED BY <3>3, <3>4, <3>5, <3>6
  <2> QED BY <1>4, <2>8, <2>10, <2>13, <2>14 DEF Good, Queues
<1> QED BY <1>5, <1>6

LEMMA JoinerGoneStep ==
  ASSUME TypeOK, NEW j \in Invite, Good(j), JoinerGone(j)
  PROVE  TypeOK' /\ Good(j)' /\ Others(j)
BY TornDownStep DEF JoinerGone, roomVars

LEMMA EnterStep ==
  ASSUME TypeOK, NEW j \in Invite, Good(j), Enter(j)
  PROVE  TypeOK' /\ Good(j)' /\ Others(j)
<1>1. /\ phase[j] = "keyed" /\ live' = live \ {j}
      /\ phase' = [phase EXCEPT ![j] = IF owner = None THEN "failed" ELSE "in"]
      /\ UNCHANGED <<owner, gone, issuer, code, with, typed, first, rec, net>>
  BY DEF Enter, roomVars
<1>2. /\ phase' \in [Invite -> Phase] /\ phase'[j] = IF owner = None THEN "failed" ELSE "in"
      /\ \A i \in Invite \ {j} : phase'[i] = phase[i]
  BY <1>1 DEF TypeOK, Phase
<1>3. TypeOK' /\ Others(j)
  BY <1>1, <1>2 DEF TypeOK, Others, Same
<1>4. \A r \in Role : Listens(j, r)' = Listens(j, r) /\ Online(j, r)' = Online(j, r)
  BY <1>1, <1>2 DEF Listens, Online
<1>5. Life(j)'
  BY <1>1, <1>2 DEF Good, Life, Waiting, Role
<1>6. Sessions(j)'
  BY <1>1 DEF Good, Sessions, SessionOK, CodeOf
<1>7. Balance(j)'
  BY <1>1, <1>4 DEF Good, Balance, Role, Expect
<1>8. Queues(j)'
  <2>1. \A r \in Role : \A f : Genuine(j, r, f)' = Genuine(j, r, f) /\ Current(j, r, f)' = Current(j, r, f)
    BY <1>1 DEF Genuine, CodeOf, Current, Other, Role
  <2>2. \A r \in Role : Expect(j, r)' = Expect(j, r)
    BY <1>1 DEF Expect
  <2> QED BY <1>1, <1>4, <2>1, <2>2 DEF Good, Queues, Said, InTurn, UpToDate, LeftOver
<1> QED BY <1>3, <1>5, <1>6, <1>7, <1>8 DEF Good

\* A change of owner is nothing to a handshake.
LEMMA TransferStep ==
  ASSUME TypeOK, NEW m \in Member, Transfer(m)
  PROVE  TypeOK' /\ \A j \in Invite : Same(j)
<1>1. /\ owner # None /\ m \notin gone /\ owner' = m
      /\ UNCHANGED <<gone, issuer, code, with, live, typed, phase, first, rec, net>>
  BY DEF Transfer
<1>2. TypeOK'
  BY <1>1 DEF TypeOK
<1>3. \A j \in Invite : Same(j)
  BY <1>1 DEF Same
<1> QED BY <1>2, <1>3

\* The beginnings of a queue.
LEMMA PrefixFacts ==
  ASSUME NEW q \in Seq(Wire), NEW p \in Prefixes(q)
  PROVE  /\ p \in Seq(Wire) /\ Len(p) \in 0 .. Len(q)
         /\ \A i \in DOMAIN p : i \in DOMAIN q /\ p[i] = q[i]
<1>1. PICK n \in 0 .. Len(q) : p = SubSeq(q, 1, n)
  BY DEF Prefixes
<1> QED BY <1>1

\* The owner of a handshake has gone: its own queue does not matter any more, and
\* the joiner gets what was on its way, or less.
LEMMA OwnerGone ==
  ASSUME TypeOK, NEW j \in Invite, Good(j),
         with[j] \in gone', j \notin live',
         owner = None => owner' = None,
         UNCHANGED <<code, with, typed, phase, first, rec>>,
         net'[j]["A"] \in {net[j]["A"], <<>>},
         \A i \in DOMAIN net'[j]["B"] : i \in DOMAIN net[j]["B"] /\ net'[j]["B"][i] = net[j]["B"][i],
         phase[j] = "out" => net'[j]["B"] = <<>>
  PROVE  Good(j)'
<1>1. "A" \in Role /\ "B" \in Role /\ Role = {"A", "B"} /\ Other("A") = "B" /\ Other("B") = "A"
  BY DEF Role, Other
<1>2. /\ ~Online(j, "A")' /\ ~Listens(j, "A")' /\ (Listens(j, "B")' => Listens(j, "B"))
      /\ (Online(j, "B")' => Listens(j, "B")') /\ Expect(j, "B")' = Expect(j, "B")
  <2>1. ~Online(j, "A")' /\ ~Listens(j, "A")'
    BY DEF Online, Listens
  <2>2. Expect(j, "B")' = Expect(j, "B")
    BY DEF Expect
  <2>3. Online(j, "B")' => Listens(j, "B") /\ Listens(j, "B")'
    BY DEF Online, Listens
  <2>4. Listens(j, "B")' => Online(j, "B")'
    BY DEF Listens
  <2> QED BY <2>1, <2>2, <2>3, <2>4
<1>3. /\ Life(j) /\ Sessions(j) /\ Said(j, "A") /\ Said(j, "B") /\ InTurn(j, "B") /\ UpToDate(j, "B")
  BY <1>1 DEF Good, Queues
<1>4. Life(j)'
  <2>1. phase[j] = "out" => \A r \in Role : net'[j][r] = <<>>
    <3>1. phase[j] = "out" => net[j]["A"] = <<>>
      BY <1>1, <1>3 DEF Life
    <3> QED BY <1>1, <3>1
  <2>2. with[j] = None => net'[j]["A"] = <<>>
    BY <1>3 DEF Life
  <2> QED BY <1>3, <2>1, <2>2 DEF Life
<1>5. Sessions(j)'
  BY <1>3 DEF Sessions, SessionOK, CodeOf
<1>6. Balance(j)'
  BY <1>2 DEF Balance
<1>7. Said(j, "A")' /\ Said(j, "B")'
  <2>1. \A r \in Role : \A f : Genuine(j, r, f)' = Genuine(j, r, f)
    BY DEF Genuine, CodeOf, Other, Role
  <2>2. Said(j, "B")'
    BY <1>1, <1>3, <2>1 DEF Said
  <2>3. CASE net'[j]["A"] = net[j]["A"]
    BY <1>1, <1>3, <2>1, <2>2, <2>3 DEF Said
  <2>4. CASE net'[j]["A"] = <<>>
    BY <2>2, <2>4 DEF Said
  <2> QED BY <2>3, <2>4
<1>8. InTurn(j, "A")' /\ InTurn(j, "B")' /\ LeftOver(j, "A")' /\ LeftOver(j, "B")'
  BY <1>2, <1>3 DEF InTurn, LeftOver
<1>9. UpToDate(j, "A")' /\ UpToDate(j, "B")'
  <2>1. UpToDate(j, "A")'
    BY <1>2 DEF UpToDate
  <2>2. UpToDate(j, "B")'
    <3> SUFFICES ASSUME Listens(j, "B"), NEW i \in DOMAIN net'[j]["B"]
                 PROVE  Current(j, "B", net[j]["B"][i])'
      BY <1>2 DEF UpToDate
    <3>1. Current(j, "B", net[j]["B"][i])
      BY <1>3 DEF UpToDate
    <3> QED BY <3>1 DEF Current
  <2> QED BY <2>1, <2>2
<1> QED BY <1>1, <1>4, <1>5, <1>6, <1>7, <1>8, <1>9 DEF Good, Queues

LEMMA MemberGoneStep ==
  ASSUME TypeOK, \A j \in Invite : Good(j), NEW m \in Member, MemberGone(m)
  PROVE  TypeOK' /\ \A j \in Invite : Good(j)'
<1> DEFINE lost == {j \in live : with[j] = m}
<1>1. /\ gone' = gone \cup {m} /\ owner' = (IF m = owner THEN None ELSE owner)
      /\ live' = live \ lost
      /\ UNCHANGED <<issuer, code, with, typed, phase, first, rec>>
  BY DEF MemberGone
<1>2. PICK left \in [lost -> UNION {Prefixes(net[j]["B"]) : j \in lost}] :
        /\ \A j \in lost : left[j] \in Prefixes(net[j]["B"])
        /\ net' = [j \in Invite |-> IF j \in lost
                                      THEN [net[j] EXCEPT !["A"] = <<>>, !["B"] = left[j]]
                                      ELSE net[j]]
  BY DEF MemberGone
<1>3. \A j \in Invite : net[j] \in [Role -> Seq(Wire)] /\ net[j]["B"] \in Seq(Wire)
  BY DEF TypeOK, Role
<1>4. \A j \in lost : /\ left[j] \in Seq(Wire) /\ j \in Invite
                      /\ Len(left[j]) \in 0 .. Len(net[j]["B"])
                      /\ \A i \in DOMAIN left[j] :
                           i \in DOMAIN net[j]["B"] /\ left[j][i] = net[j]["B"][i]
  BY <1>2, <1>3, PrefixFacts DEF TypeOK
<1>5. \A j \in lost : net'[j]["A"] = <<>> /\ net'[j]["B"] = left[j]
                      /\ net'[j] \in [Role -> Seq(Wire)]
  <2> SUFFICES ASSUME NEW j \in lost
               PROVE  net'[j]["A"] = <<>> /\ net'[j]["B"] = left[j] /\ net'[j] \in [Role -> Seq(Wire)]
    OBVIOUS
  <2>1. net'[j] = [net[j] EXCEPT !["A"] = <<>>, !["B"] = left[j]] /\ left[j] \in Seq(Wire)
    BY <1>2, <1>4
  <2>2. <<>> \in Seq(Wire) /\ net[j] \in [Role -> Seq(Wire)]
    BY <1>3, <1>4
  <2> QED BY <2>1, <2>2 DEF Role
<1>6. \A j \in Invite \ lost : net'[j] = net[j]
  BY <1>2
<1>7. net' \in [Invite -> [Role -> Seq(Wire)]]
  <2>1. \A j \in Invite : net'[j] \in [Role -> Seq(Wire)]
    BY <1>3, <1>5, <1>6
  <2>2. net' = [j \in Invite |-> net'[j]]
    BY <1>2
  <2> QED BY <2>1, <2>2
<1>8. TypeOK'
  <2>1. owner' \in (Member \ gone') \cup {None} /\ gone' \subseteq Member /\ live' \subseteq Invite
    BY <1>1 DEF TypeOK
  <2> QED BY <1>1, <1>7, <2>1 DEF TypeOK
<1>9. ASSUME NEW j \in Invite PROVE Good(j)'
  <2>1. CASE with[j] # m
    <3>1. j \notin lost
      BY <2>1
    <3>2. net'[j] = net[j]
      BY <1>6, <3>1
    <3>3. Same(j)
      BY <1>1, <2>1, <3>1, <3>2 DEF Same, TypeOK
    <3> QED BY <3>3, SameGood
  <2>2. CASE with[j] = m
    <3>1. /\ with[j] \in gone' /\ j \notin live' /\ (owner = None => owner' = None)
          /\ UNCHANGED <<code, with, typed, phase, first, rec>>
      BY <1>1, <2>2, NoneAssumption
    <3>2. phase[j] # "out"
      BY <2>2, NoneAssumption DEF Good, Life
    <3>3. net'[j]["A"] \in {net[j]["A"], <<>>}
      BY <1>5, <1>6
    <3>4. \A i \in DOMAIN net'[j]["B"] : i \in DOMAIN net[j]["B"] /\ net'[j]["B"][i] = net[j]["B"][i]
      BY <1>4, <1>5, <1>6
    <3> QED BY <3>1, <3>2, <3>3, <3>4, OwnerGone
  <2> QED BY <2>1, <2>2
<1> QED BY <1>8, <1>9

-----------------------------------------------------------------------------
(* The theorems. *)

LEMMA InitGood == Init => HandshakeInv
<1> SUFFICES ASSUME Init PROVE HandshakeInv
  OBVIOUS
<1>1. /\ owner = Creator /\ gone = {} /\ live = {}
      /\ issuer = [j \in Invite |-> None] /\ code = [j \in Invite |-> None]
      /\ with = [j \in Invite |-> None] /\ typed = [j \in Invite |-> None]
      /\ phase = [j \in Invite |-> "out"] /\ first = [j \in Invite |-> None]
      /\ rec = [j \in Invite |-> [r \in Role |-> None]]
      /\ net = [j \in Invite |-> [r \in Role |-> <<>>]]
  BY DEF Init
<1>2. TypeOK
  <2>1. <<>> \in Seq(Wire)
    OBVIOUS
  <2>2. [r \in Role |-> None] \in [Role -> Session \cup {None}]
        /\ [r \in Role |-> <<>>] \in [Role -> Seq(Wire)]
    BY <2>1
  <2> QED BY <1>1, <2>2, CreatorAssumption DEF TypeOK, Phase
<1>3. ASSUME NEW j \in Invite PROVE Good(j)
  <2>1. /\ \A r \in Role : rec[j][r] = None /\ net[j][r] = <<>> /\ DOMAIN net[j][r] = {}
        /\ phase[j] = "out" /\ with[j] = None /\ first[j] = None /\ j \notin live
    BY <1>1
  <2>2. Life(j)
    BY <2>1 DEF Life, Waiting, Role
  <2>3. Sessions(j)
    BY <2>1 DEF Sessions, SessionOK
  <2>4. Queues(j)
    BY <2>1 DEF Queues, Said, InTurn, UpToDate, LeftOver
  <2>5. Balance(j)
    BY <2>1 DEF Balance, Listens, Online
  <2> QED BY <2>2, <2>3, <2>4, <2>5 DEF Good
<1> QED BY <1>2, <1>3 DEF HandshakeInv

\* A step of one handshake keeps the invariant when it keeps that handshake Good.
LEMMA OneHandshake ==
  ASSUME HandshakeInv, NEW j \in Invite, TypeOK' /\ Good(j)' /\ Others(j)
  PROVE  HandshakeInv'
<1>1. ASSUME NEW i \in Invite PROVE Good(i)'
  <2>1. CASE i = j
    BY <2>1
  <2>2. CASE i # j
    BY <2>2, SameGood DEF HandshakeInv, Others
  <2> QED BY <2>1, <2>2
<1> QED BY <1>1 DEF HandshakeInv

LEMMA StepGood == HandshakeInv /\ [Next]_vars => HandshakeInv'
<1> SUFFICES ASSUME HandshakeInv, [Next]_vars PROVE HandshakeInv'
  OBVIOUS
<1>1. TypeOK /\ \A j \in Invite : Good(j)
  BY DEF HandshakeInv
<1>2. ASSUME NEW j \in Invite, Browser(j) PROVE HandshakeInv'
  <2>1. ASSUME NEW r \in Role, HandlePoint(j, r) PROVE HandshakeInv'
    BY <1>1, <2>1, HandlePointStep, OneHandshake
  <2>2. ASSUME NEW r \in Role, HandleConfirm(j, r) PROVE HandshakeInv'
    BY <1>1, <2>2, HandleConfirmStep, OneHandshake
  <2>3. ASSUME NEW r \in Role, IgnorePake(j, r) PROVE HandshakeInv'
    BY <1>1, <2>3, IgnorePakeStep, OneHandshake
  <2>4. CASE OnRedeemOk(j)
    BY <1>1, <2>4, OnRedeemOkStep, OneHandshake
  <2>5. CASE OnInviteRedeemed(j)
    BY <1>1, <2>5, OnInviteRedeemedStep, OneHandshake
  <2>6. CASE OwnerOnMemberKey(j)
    BY <1>1, <2>6, OwnerOnMemberKeyStep, OneHandshake
  <2>7. CASE JoinerOnMemberKey(j)
    BY <1>1, <2>7, JoinerOnMemberKeyStep, OneHandshake
  <2>8. CASE OnKeyDeliver(j)
    BY <1>1, <2>8, OnKeyDeliverStep, OneHandshake
  <2> QED BY <1>2, <2>1, <2>2, <2>3, <2>4, <2>5, <2>6, <2>7, <2>8 DEF Browser
<1>3. ASSUME NEW j \in Invite, Enter(j) PROVE HandshakeInv'
  BY <1>1, <1>3, EnterStep, OneHandshake
<1>4. ASSUME NEW j \in Invite, JoinerGone(j) PROVE HandshakeInv'
  BY <1>1, <1>4, JoinerGoneStep, OneHandshake
<1>5. ASSUME NEW j \in Invite, NEW c \in Code, OnInviteCreated(j, c) PROVE HandshakeInv'
  BY <1>1, <1>5, CreateStep, OneHandshake
<1>6. ASSUME NEW j \in Invite, NEW c \in Code, Redeem(j, c) PROVE HandshakeInv'
  BY <1>1, <1>6, RedeemStep, OneHandshake
<1>7. ASSUME NEW m \in Member, Transfer(m) PROVE HandshakeInv'
  BY <1>1, <1>7, TransferStep, SameGood DEF HandshakeInv
<1>8. ASSUME NEW m \in Member, MemberGone(m) PROVE HandshakeInv'
  BY <1>1, <1>8, MemberGoneStep DEF HandshakeInv
<1>9. CASE UNCHANGED vars
  <2>1. /\ UNCHANGED <<owner, gone, issuer, code, with, live, typed, phase, first, rec, net>>
    BY <1>9 DEF vars, roomVars
  <2>2. TypeOK'
    BY <1>1, <2>1 DEF TypeOK
  <2>3. \A j \in Invite : Same(j)
    BY <2>1 DEF Same
  <2> QED BY <1>1, <2>2, <2>3, SameGood DEF HandshakeInv
<1> QED BY <1>2, <1>3, <1>4, <1>5, <1>6, <1>7, <1>8, <1>9 DEF Next

\* Each side waits for the turn that the frames on their way to it begin with, and
\* the sessions hold what finish computes from each other's messages: the
\* bookkeeping of handshake.ts and main.ts over every interleaving of the two
\* sides, hand-overs and disappearances.
THEOREM HandshakeInvariant == Spec => []HandshakeInv
<1>1. Spec => Init /\ [][Next]_vars
  BY PTL DEF Spec
<1> QED BY <1>1, InitGood, StepGood, PTL

\* The code decides, for every group, code table and number of invites: whoever
\* holds a confirmed Ke shares it with a side that typed the same code, the right
\* code is never turned away while the room exists, a wrong one gets no room key.
THEOREM CodeAlwaysDecides == Spec => []CodeDecides
<1>1. HandshakeInv => CodeDecides
  <2> SUFFICES ASSUME HandshakeInv, NEW j \in Invite
               PROVE  /\ \A r \in Role : rec[j][r] # None /\ rec[j][r].ke # None =>
                           /\ typed[j] = code[j]
                           /\ rec[j][Other(r)] # None =>
                                rec[j][Other(r)].ke \in {None, rec[j][r].ke}
                      /\ phase[j] = "failed" => typed[j] # code[j] \/ owner = None
                      /\ phase[j] \in {"keyed", "in"} =>
                           typed[j] = code[j] /\ first[j] = with[j]
    BY DEF CodeDecides
  <2>1. Life(j) /\ \A r \in Role : SessionOK(j, r)
    BY DEF HandshakeInv, Good, Sessions
  <2>2. \A r \in Role : Other(r) \in Role
    BY DEF Role, Other
  <2> QED BY <2>1, <2>2 DEF Life, SessionOK
<1> QED BY <1>1, HandshakeInvariant, PTL

\* No frame comes too early to be used: a confirmation finds the transcript, a
\* public key finds Ke, a room key the owner's public key.
THEOREM AlwaysUsable == Spec => []UsableOnArrival
<1>1. HandshakeInv => UsableOnArrival
  <2> SUFFICES ASSUME HandshakeInv, NEW j \in Invite, NEW r \in Role,
                      Online(j, r), net[j][r] # <<>>
               PROVE  CASE Head(net[j][r]).t = "c" ->
                             rec[j][r] # None => rec[j][r].result # None
                        [] Head(net[j][r]).t = "member_key" -> CanOpen(j, r)
                        [] Head(net[j][r]).t = "key_deliver" -> first[j] # None
                        [] OTHER -> TRUE
    BY DEF UsableOnArrival
  <2>1. TypeOK /\ Good(j)
    BY DEF HandshakeInv
  <2>2. NextFrame(j, r, Head(net[j][r]).t)
    BY DEF NextFrame
  <2>3. CASE Head(net[j][r]).t = "c"
    <3> SUFFICES ASSUME rec[j][r] # None PROVE rec[j][r].result # None
      BY <2>3
    <3>1. Listens(j, r)
      BY DEF Listens
    <3>2. Turn("c") = 3
      BY DEF Turn
    <3>3. Expect(j, r) = 3
      BY <2>1, <2>2, <2>3, <3>1, <3>2, HeadFacts
    <3>4. r = "B" /\ first[j] # None => rec[j][r].done
      BY <2>1 DEF Good, Life, Online
    <3>5. rec[j][r].done => rec[j][r].result # None
      BY <2>1 DEF Good, Sessions, SessionOK
    <3> QED BY <3>3, <3>4, <3>5 DEF Expect, Place
  <2>4. CASE Head(net[j][r]).t = "member_key"
    BY <2>1, <2>2, <2>4, MemberKeyArrives
  <2>5. CASE Head(net[j][r]).t = "key_deliver"
    <3>1. Turn("key_deliver") = 5
      BY DEF Turn
    <3>2. Expect(j, r) = 5
      BY <2>1, <2>2, <2>5, <3>1, HeadFacts
    <3> QED BY <2>5, <3>2 DEF Expect, Place
  <2> QED BY <2>3, <2>4, <2>5
<1> QED BY <1>1, HandshakeInvariant, PTL

\* So the confirmation that handleConfirm would keep for later and the room key
\* that onKeyDeliver would are never there: through a relay that keeps the order,
\* the two branches that pick them up again are not taken.
THEOREM NothingKeptForLater ==
  Spec => [](\A j \in Invite : \A r \in Role :
               rec[j][r] # None => rec[j][r].early = None /\ rec[j][r].deliver = None)
<1>1. HandshakeInv => \A j \in Invite : \A r \in Role :
        rec[j][r] # None => rec[j][r].early = None /\ rec[j][r].deliver = None
  BY DEF HandshakeInv, Good, Sessions, SessionOK
<1> QED BY <1>1, HandshakeInvariant, PTL
=============================================================================
