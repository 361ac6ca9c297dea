--------------------------- MODULE OutboundProofs ---------------------------
(***************************************************************************)
(* Proofs about Outbound: members receive broadcasts in order and without  *)
(* gap, room_closed comes last, a drained connection missed nothing, and   *)
(* member lists converge; for any number of clients, frames and any queue. *)
(*                                                                         *)
(* What a client receives is one sequence, Stream(c), that sends extend at *)
(* one end and the pump consumes at the other.  The lemmas about it are    *)
(* stated for any sequence of frames, then lifted to the actions.          *)
(***************************************************************************)
EXTENDS Outbound, SequenceTheorems, TLAPS

\* NoGap, ByeIsLast and NewestView of one client with the stream s, the frames
\* d due to it, the view w and perhaps the notice b received.
Gapless(s, d, up) ==
  /\ \A j \in DOMAIN s :
       /\ s[j] \in d
       /\ \A h \in 1 .. j - 1 : s[h].i < s[j].i
       /\ \A f \in d : IsBroadcast(f) /\ f.i < s[j].i => \E h \in 1 .. j - 1 : s[h] = f
  /\ up => \A f \in d : IsBroadcast(f) => \E h \in DOMAIN s : s[h] = f
NoBye(s) == \A j \in DOMAIN s : s[j].k # "bye"
ByeLast(s, b) == (b => s = <<>>) /\ \A j \in DOMAIN s : s[j].k = "bye" => j = Len(s)
Newest(s, w, v) ==
  \/ w = v /\ \A j \in DOMAIN s : s[j].v = None
  \/ v # None /\ \E j \in DOMAIN s : s[j].v = v /\ \A h \in j + 1 .. Len(s) : s[h].v = None

Types ==
  /\ members \subseteq Client /\ todo \subseteq Client
  /\ owner \in Client \cup {None} /\ closed \in BOOLEAN /\ n \in Nat
  /\ hpc \in [Client -> {"enter", "snapshot", "welcome", "presence", "member", "gone"}]
  /\ snap \in [Client -> View \cup {None}]
  /\ chan \in [Client -> {"open", "closed"}]
  /\ pump \in [Client -> {"run", "done"}]
  /\ conn \in [Client -> {"up", "closing", "down", "ended"}]
  /\ got \in [Client -> [view : View \cup {None}, bye : BOOLEAN]]
  /\ q \in [Client -> Seq(Frame)] /\ wr \in [Client -> Frame \cup {None}]
  /\ due \in [Client -> SUBSET Frame]

\* What one client has received and will receive.
Line(c) ==
  /\ Len(q[c]) <= Buffer /\ \A f \in due[c] : f.i <= n
  /\ pump[c] = "run" <=> conn[c] \in {"up", "closing"}
  /\ Gapless(Stream(c), due[c], conn[c] = "up")
  /\ ByeLast(Stream(c), got[c].bye)
  /\ chan[c] = "open" => ~got[c].bye /\ NoBye(Stream(c))
Lines == \A c \in Client : Line(c)

\* Who can still be sent something has an open channel: a channel is closed
\* once, when its client is no member any more.
Channels ==
  /\ closed => members = {}
  /\ todo # {} => closed
  /\ \A c \in members \cup todo : chan[c] = "open" /\ hpc[c] # "enter"
  /\ \A c \in Client : hpc[c] = "enter" => chan[c] = "open"

\* Until the creator has its welcome nobody else is there.
Alone ==
  hpc[Creator] \in {"enter", "snapshot", "welcome"} =>
    /\ \A c \in Client \ {Creator} : hpc[c] = "enter"
    /\ members = (IF hpc[Creator] = "enter" THEN {} ELSE {Creator}) /\ ~closed
    /\ hpc[Creator] # "enter" => owner = Creator
    /\ hpc[Creator] = "welcome" => snap[Creator] = MembersInfo(members, owner)
    /\ q[Creator] = <<>> /\ wr[Creator] = None

\* Somebody will announce the members of the room.
Pending ==
  \E d \in Client : hpc[d] = "presence" \/ (d \in members /\ hpc[d] \in {"snapshot", "welcome"})
Views ==
  \A c \in members :
    conn[c] = "up" => Pending \/ Newest(Stream(c), got[c].view, MembersInfo(members, owner))

Inv == Types /\ Lines /\ Channels /\ Alone /\ Views

-----------------------------------------------------------------------------
(* Sequences of frames. *)

\* What Append does, as the prover sees it.
LEMMA Appended ==
  ASSUME NEW s \in Seq(Frame), NEW e \in Frame
  PROVE  /\ Append(s, e) \in Seq(Frame) /\ Len(Append(s, e)) = Len(s) + 1 /\ Len(s) \in Nat
         /\ DOMAIN Append(s, e) = 1 .. Len(s) + 1 /\ DOMAIN s = 1 .. Len(s)
         /\ \A j \in 1 .. Len(s) : Append(s, e)[j] = s[j] /\ s[j] \in Frame
         /\ Append(s, e)[Len(s) + 1] = e
  BY AppendProperties, LenProperties, ElementOfSeq

\* Its counterpart at the other end.
LEMMA PrependedFrame ==
  ASSUME NEW s \in Seq(Frame), NEW e \in Frame
  PROVE  <<e>> \o s # <<>> /\ Head(<<e>> \o s) = e /\ Tail(<<e>> \o s) = s
<1> DEFINE t == <<e>> \o s
           k == Len(s)
<1>1. <<e>> \in Seq(Frame) /\ Len(<<e>>) = 1 /\ <<e>>[1] = e /\ <<e>> # <<>>
  OBVIOUS
<1>2. /\ t \in Seq(Frame) /\ Len(t) = 1 + k /\ k \in Nat
      /\ \A i \in 1 .. 1 + k : t[i] = IF i <= 1 THEN e ELSE s[i - 1]
  <2>1. /\ t \in Seq(Frame) /\ Len(t) = Len(<<e>>) + k
        /\ \A i \in 1 .. Len(<<e>>) + k :
             t[i] = IF i <= Len(<<e>>) THEN <<e>>[i] ELSE s[i - Len(<<e>>)]
    BY <1>1, ConcatProperties
  <2>2. QED BY <1>1, <2>1
<1> HIDE DEF t
<1>3. t # <<>>
  BY <1>2, EmptySeq
<1>4. /\ Head(t) = t[1] /\ Tail(t) \in Seq(Frame) /\ Len(Tail(t)) = Len(t) - 1
      /\ \A i \in 1 .. Len(t) - 1 : Tail(t)[i] = t[i + 1]
  BY <1>2, <1>3, HeadTailProperties
<1>5. Head(t) = e
  BY <1>2, <1>4
<1>6. Len(Tail(t)) = Len(s) /\ \A i \in 1 .. k : Tail(t)[i] = s[i]
  <2>1. ASSUME NEW i \in 1 .. k PROVE Tail(t)[i] = s[i]
    <3>1. i \in 1 .. Len(t) - 1 /\ i + 1 \in 1 .. 1 + k /\ ~(i + 1 <= 1) /\ i + 1 - 1 = i
      BY <1>2
    <3>2. QED BY <1>2, <1>4, <3>1
  <2>2. QED BY <1>2, <1>4, <2>1
<1>7. Tail(t) = s
  BY <1>4, <1>6, SeqEqual
<1>8. QED BY <1>3, <1>5, <1>7 DEF t

\* A number from 1 to k + 1.
LEMMA UpToNext ==
  ASSUME NEW k \in Nat, NEW j \in 1 .. k + 1
  PROVE  /\ j \in Nat \ {0} /\ (j \in 1 .. k \/ j = k + 1)
         /\ \A h \in 1 .. j - 1 : h \in 1 .. k
  OBVIOUS

LEMMA GaplessAppend ==
  ASSUME NEW s \in Seq(Frame), NEW d \in SUBSET Frame, Gapless(s, d, TRUE),
         NEW e \in Frame, \A f \in d : f.i < e.i
  PROVE  Gapless(Append(s, e), d \cup {e}, TRUE)
<1> DEFINE t == Append(s, e)
           k == Len(s)
<1>1. /\ k \in Nat /\ DOMAIN t = 1 .. k + 1 /\ DOMAIN s = 1 .. k /\ t[k + 1] = e
      /\ \A j \in 1 .. k : t[j] = s[j]
  BY Appended
<1>2. e.i \in Nat /\ \A f \in d : f.i \in Nat /\ f.i < e.i /\ ~(e.i < f.i) /\ ~(e.i < e.i)
  BY DEF Frame
<1> HIDE DEF t, k
<1>3. ASSUME NEW j \in 1 .. k + 1
      PROVE  /\ t[j] \in d \cup {e}
             /\ \A h \in 1 .. j - 1 : t[h].i < t[j].i
             /\ \A f \in d \cup {e} : IsBroadcast(f) /\ f.i < t[j].i =>
                                        \E h \in 1 .. j - 1 : t[h] = f
  <2>1. j \in Nat \ {0} /\ (j \in 1 .. k \/ j = k + 1) /\ \A h \in 1 .. j - 1 : h \in 1 .. k
    BY <1>1, UpToNext
  <2>2. CASE j \in 1 .. k
    <3>1. t[j] = s[j] /\ s[j] \in d /\ \A h \in 1 .. j - 1 : t[h] = s[h]
      BY <1>1, <2>1, <2>2 DEF Gapless
    <3>2. \A h \in 1 .. j - 1 : s[h].i < s[j].i
      BY <1>1, <2>2 DEF Gapless
    <3>3. \A f \in d : IsBroadcast(f) /\ f.i < s[j].i => \E h \in 1 .. j - 1 : s[h] = f
      BY <1>1, <2>2 DEF Gapless
    <3>4. \A h \in 1 .. j - 1 : t[h].i < t[j].i
      BY <3>1, <3>2
    <3>5. ASSUME NEW f \in d \cup {e}, IsBroadcast(f), f.i < t[j].i
          PROVE  \E h \in 1 .. j - 1 : t[h] = f
      <4>1. f \in d
        BY <1>2, <3>1, <3>5
      <4>2. PICK h \in 1 .. j - 1 : s[h] = f
        BY <3>1, <3>3, <3>5, <4>1
      <4>3. QED BY <3>1, <4>2
    <3>6. QED BY <3>1, <3>4, <3>5
  <2>3. CASE j = k + 1
    <3>1. t[j] = e /\ 1 .. j - 1 = 1 .. k
      BY <1>1, <2>1, <2>3
    <3>2. \A h \in 1 .. k : t[h] = s[h] /\ s[h] \in d
      BY <1>1 DEF Gapless
    <3>3. \A f \in d : IsBroadcast(f) => \E h \in 1 .. k : t[h] = f
      BY <1>1, <3>2 DEF Gapless
    <3>4. \A h \in 1 .. j - 1 : t[h].i < t[j].i
      BY <1>2, <3>1, <3>2
    <3>5. ASSUME NEW f \in d \cup {e}, IsBroadcast(f), f.i < t[j].i
          PROVE  \E h \in 1 .. j - 1 : t[h] = f
      <4>1. f \in d
        BY <1>2, <3>1, <3>5
      <4>2. PICK h \in 1 .. k : t[h] = f
        BY <3>3, <3>5, <4>1
      <4>3. QED BY <3>1, <4>2
    <3>6. QED BY <3>1, <3>4, <3>5
  <2>4. QED BY <2>1, <2>2, <2>3
<1>4. \A f \in d \cup {e} : IsBroadcast(f) => \E h \in 1 .. k + 1 : t[h] = f
  <2>1. k + 1 \in 1 .. k + 1 /\ \A h \in 1 .. k : h \in 1 .. k + 1
    BY <1>1
  <2>2. \A f \in d : IsBroadcast(f) => \E h \in 1 .. k : t[h] = f
    BY <1>1 DEF Gapless
  <2>3. QED BY <1>1, <2>1, <2>2
<1>5. QED BY <1>1, <1>3, <1>4 DEF Gapless, t

\* A frame that did not fit: the client is closed, or the frame is no broadcast.
LEMMA GaplessSkip ==
  ASSUME NEW s \in Seq(Frame), NEW d \in SUBSET Frame, NEW up \in BOOLEAN, Gapless(s, d, up),
         NEW e \in Frame, \A f \in d : f.i < e.i, NEW on \in BOOLEAN,
         on => up /\ ~IsBroadcast(e)
  PROVE  Gapless(s, d \cup {e}, on)
<1>1. \A j \in DOMAIN s : s[j] \in d /\ ~(e.i < s[j].i)
  <2>1. \A f \in d : ~(e.i < f.i)
    BY DEF Frame
  <2>2. QED BY <2>1 DEF Gapless
<1>2. QED BY <1>1 DEF Gapless

\* The pump wrote the first frame.
LEMMA GaplessTail ==
  ASSUME NEW s \in Seq(Frame), s # <<>>, NEW d \in SUBSET Frame, NEW up \in BOOLEAN,
         Gapless(s, d, up)
  PROVE  Gapless(Tail(s), {f \in d : f.i > Head(s).i}, up)
<1> DEFINE t == Tail(s)
           k == Len(s)
           c == {f \in d : f.i > Head(s).i}
<1>1. /\ k \in Nat \ {0} /\ DOMAIN t = 1 .. k - 1 /\ DOMAIN s = 1 .. k /\ Head(s) = s[1]
      /\ \A j \in 1 .. k - 1 : t[j] = s[j + 1]
  BY HeadTailProperties, LenProperties, EmptySeq
<1>2. \A f \in d : f.i \in Nat
  BY DEF Frame
<1>3. \A j \in 1 .. k - 1 : j + 1 \in 1 .. k /\ 1 \in 1 .. j + 1 - 1
  BY <1>1
<1>4. 1 \in 1 .. k /\ s[1] \in d
  BY <1>1 DEF Gapless
<1>5. \A j \in 1 .. k : /\ s[j] \in d /\ \A h \in 1 .. j - 1 : s[h].i < s[j].i
                        /\ \A f \in d : IsBroadcast(f) /\ f.i < s[j].i =>
                                          \E h \in 1 .. j - 1 : s[h] = f
  BY <1>1 DEF Gapless
<1> HIDE DEF t, k
<1>6. ASSUME NEW f \in c, NEW j \in 1 .. k, \E h \in 1 .. j : s[h] = f
      PROVE  \E h \in 1 .. j - 1 : t[h] = f
  <2>1. PICK h \in 1 .. j : s[h] = f
    BY <1>6
  <2>2. h # 1
    BY <1>1, <1>2, <1>4, <2>1
  <2>3. h - 1 \in 1 .. j - 1 /\ h - 1 \in 1 .. k - 1 /\ h - 1 + 1 = h
    BY <1>1, <2>1, <2>2
  <2>4. t[h - 1] = f
    BY <1>1, <2>1, <2>3
  <2>5. QED BY <2>3, <2>4
<1>7. ASSUME NEW j \in 1 .. k - 1
      PROVE  /\ t[j] \in c
             /\ \A h \in 1 .. j - 1 : t[h].i < t[j].i
             /\ \A f \in c : IsBroadcast(f) /\ f.i < t[j].i => \E h \in 1 .. j - 1 : t[h] = f
  <2>1. j \in Nat \ {0} /\ j \in 1 .. k /\ j + 1 - 1 = j /\ t[j] = s[j + 1]
    BY <1>1
  <2>2. t[j] \in c
    BY <1>1, <1>2, <1>3, <1>4, <1>5, <2>1
  <2>3. \A h \in 1 .. j - 1 : t[h].i < t[j].i
    <3>1. \A h \in 1 .. j - 1 : h + 1 \in 1 .. j + 1 - 1 /\ h \in 1 .. k - 1
      BY <1>1
    <3>2. \A h \in 1 .. j - 1 : t[h] = s[h + 1]
      BY <1>1, <3>1
    <3>3. QED BY <1>3, <1>5, <2>1, <3>1, <3>2
  <2>4. ASSUME NEW f \in c, IsBroadcast(f), f.i < t[j].i
        PROVE  \E h \in 1 .. j - 1 : t[h] = f
    <3>1. \E h \in 1 .. j + 1 - 1 : s[h] = f
      BY <1>3, <1>5, <2>1, <2>4
    <3>2. QED BY <1>6, <2>1, <3>1
  <2>5. QED BY <2>2, <2>3, <2>4
<1>8. ASSUME up PROVE \A f \in c : IsBroadcast(f) => \E h \in 1 .. k - 1 : t[h] = f
  <2>1. \A f \in c : IsBroadcast(f) => \E h \in 1 .. k : s[h] = f
    BY <1>1, <1>8 DEF Gapless
  <2>2. k \in 1 .. k
    BY <1>1
  <2>3. QED BY <1>6, <2>1, <2>2
<1> HIDE DEF c
<1>9. QED BY <1>1, <1>7, <1>8 DEF Gapless, t, c

LEMMA ByeAppend ==
  ASSUME NEW s \in Seq(Frame), NoBye(s), NEW e \in Frame
  PROVE  /\ ByeLast(Append(s, e), FALSE)
         /\ e.k # "bye" => NoBye(Append(s, e))
<1> DEFINE t == Append(s, e)
           k == Len(s)
<1>1. /\ k \in Nat /\ DOMAIN t = 1 .. k + 1 /\ DOMAIN s = 1 .. k /\ Len(t) = k + 1
      /\ t[k + 1] = e /\ \A j \in 1 .. k : t[j] = s[j]
  BY Appended
<1> HIDE DEF t, k
<1>2. \A j \in 1 .. k + 1 : j \in 1 .. k \/ j = k + 1
  BY <1>1
<1>3. \A j \in 1 .. k : s[j].k # "bye"
  BY <1>1 DEF NoBye
<1>4. QED BY <1>1, <1>2, <1>3 DEF ByeLast, NoBye, t

LEMMA ByeTail ==
  ASSUME NEW s \in Seq(Frame), s # <<>>
  PROVE  /\ NoBye(s) => NoBye(Tail(s)) /\ Head(s).k # "bye"
         /\ \A b : ByeLast(s, b) => ByeLast(Tail(s), b \/ Head(s).k = "bye")
<1> DEFINE t == Tail(s)
           k == Len(s)
<1>1. /\ k \in Nat \ {0} /\ DOMAIN t = 1 .. k - 1 /\ DOMAIN s = 1 .. k /\ Head(s) = s[1]
      /\ t \in Seq(Frame) /\ Len(t) = k - 1 /\ \A j \in 1 .. k - 1 : t[j] = s[j + 1]
  BY HeadTailProperties, LenProperties, EmptySeq
<1> HIDE DEF t, k
<1>2. \A j \in 1 .. k - 1 : j + 1 \in 1 .. k /\ (j + 1 = k => j = k - 1)
  BY <1>1
<1>3. 1 \in 1 .. k /\ (1 = k => t = <<>>)
  BY <1>1, EmptySeq
<1>4. NoBye(s) => NoBye(t) /\ Head(s).k # "bye"
  BY <1>1, <1>2, <1>3 DEF NoBye
<1>5. ASSUME NEW b, ByeLast(s, b) PROVE ByeLast(t, b \/ Head(s).k = "bye")
  <2>1. ~b /\ \A j \in 1 .. k : s[j].k = "bye" => j = k
    BY <1>1, <1>5 DEF ByeLast, k
  <2>2. \A j \in 1 .. k - 1 : t[j].k = "bye" => j = k - 1
    BY <1>1, <1>2, <2>1
  <2>3. Head(s).k = "bye" => t = <<>>
    BY <1>1, <1>3, <2>1
  <2>4. QED BY <1>1, <2>1, <2>2, <2>3 DEF ByeLast
<1>6. QED BY <1>4, <1>5 DEF t

LEMMA NewestAppend ==
  ASSUME NEW s \in Seq(Frame), NEW e \in Frame, NEW w, NEW v
  PROVE  /\ e.v = None /\ Newest(s, w, v) => Newest(Append(s, e), w, v)
         /\ v # None /\ e.v = v => Newest(Append(s, e), w, v)
<1> DEFINE t == Append(s, e)
           k == Len(s)
<1>1. /\ k \in Nat /\ DOMAIN t = 1 .. k + 1 /\ DOMAIN s = 1 .. k /\ Len(t) = k + 1
      /\ t[k + 1] = e /\ \A j \in 1 .. k : t[j] = s[j]
  BY Appended
<1> HIDE DEF t, k
<1>2. \A j \in 1 .. k + 1 : j \in Nat /\ (j \in 1 .. k \/ j = k + 1)
  BY <1>1
<1>3. ASSUME e.v = None, Newest(s, w, v) PROVE Newest(t, w, v)
  <2>1. CASE w = v /\ \A j \in DOMAIN s : s[j].v = None
    BY <1>1, <1>2, <1>3, <2>1 DEF Newest
  <2>2. CASE v # None /\ \E j \in DOMAIN s : s[j].v = v /\ \A h \in j + 1 .. Len(s) : s[h].v = None
    <3>1. PICK j \in 1 .. k : s[j].v = v /\ \A h \in j + 1 .. k : s[h].v = None
      BY <1>1, <2>2 DEF k
    <3>2. j \in 1 .. k + 1 /\ t[j].v = v
      BY <1>1, <3>1
    <3>3. ASSUME NEW h \in j + 1 .. k + 1 PROVE t[h].v = None
      <4>1. CASE h = k + 1
        BY <1>1, <1>3, <4>1
      <4>2. CASE h # k + 1
        <5>1. h \in j + 1 .. k /\ h \in 1 .. k
          BY <1>1, <4>2
        <5>2. QED BY <1>1, <3>1, <5>1
      <4>3. QED BY <4>1, <4>2
    <3>4. QED BY <1>1, <2>2, <3>2, <3>3 DEF Newest
  <2>3. QED BY <1>3, <2>1, <2>2 DEF Newest
<1>4. ASSUME v # None, e.v = v PROVE Newest(t, w, v)
  <2>1. k + 1 \in 1 .. k + 1 /\ ~\E h \in k + 1 + 1 .. k + 1 : TRUE
    BY <1>1
  <2>2. QED BY <1>1, <1>4, <2>1 DEF Newest
<1>5. QED BY <1>3, <1>4 DEF t

LEMMA NewestTail ==
  ASSUME NEW s \in Seq(Frame), s # <<>>, NEW w, NEW v, Newest(s, w, v)
  PROVE  Newest(Tail(s), IF Head(s).v # None THEN Head(s).v ELSE w, v)
<1> DEFINE t == Tail(s)
           k == Len(s)
           u == IF Head(s).v # None THEN Head(s).v ELSE w
<1>1. /\ k \in Nat \ {0} /\ DOMAIN t = 1 .. k - 1 /\ DOMAIN s = 1 .. k /\ Head(s) = s[1]
      /\ t \in Seq(Frame) /\ Len(t) = k - 1 /\ \A j \in 1 .. k - 1 : t[j] = s[j + 1]
  BY HeadTailProperties, LenProperties, EmptySeq
<1>2. u = IF s[1].v # None THEN s[1].v ELSE w
  BY <1>1
<1> HIDE DEF t, k, u
<1>3. \A j \in 1 .. k - 1 : j + 1 \in 1 .. k
  BY <1>1
<1>4. CASE w = v /\ \A j \in DOMAIN s : s[j].v = None
  <2>1. 1 \in 1 .. k
    BY <1>1
  <2>2. QED BY <1>1, <1>2, <1>3, <1>4, <2>1 DEF Newest, t, u
<1>5. CASE v # None /\ \E j \in DOMAIN s : s[j].v = v /\ \A h \in j + 1 .. Len(s) : s[h].v = None
  <2>1. PICK j \in 1 .. k : s[j].v = v /\ \A h \in j + 1 .. k : s[h].v = None
    BY <1>1, <1>5 DEF k
  <2>2. CASE j = 1
    <3>1. u = v
      BY <1>2, <1>5, <2>1, <2>2
    <3>2. ASSUME NEW h \in 1 .. k - 1 PROVE t[h].v = None
      <4>1. h + 1 \in j + 1 .. k /\ t[h] = s[h + 1]
        BY <1>1, <2>2
      <4>2. QED BY <2>1, <4>1
    <3>3. \A h \in DOMAIN t : t[h].v = None
      BY <1>1, <3>2
    <3>4. Newest(t, u, v)
      BY <3>1, <3>3 DEF Newest
    <3>5. QED BY <3>4 DEF t, u
  <2>3. CASE j # 1
    <3>1. j - 1 \in 1 .. k - 1 /\ j - 1 + 1 = j
      BY <1>1, <2>1, <2>3
    <3>2. t[j - 1].v = v
      BY <1>1, <2>1, <3>1
    <3>3. ASSUME NEW h \in j .. k - 1 PROVE t[h].v = None
      <4>1. h + 1 \in j + 1 .. k /\ h \in 1 .. k - 1
        BY <1>1, <2>1
      <4>2. QED BY <1>1, <2>1, <4>1
    <3>4. QED BY <1>1, <1>5, <3>1, <3>2, <3>3 DEF Newest, t, u
  <2>4. QED BY <2>2, <2>3
<1>6. QED BY <1>4, <1>5 DEF Newest

-----------------------------------------------------------------------------
(* One client. *)

LEMMA StreamType ==
  ASSUME Types, NEW c \in Client
  PROVE  /\ Stream(c) \in Seq(Frame) /\ q[c] \in Seq(Frame)
         /\ wr[c] \in Frame \cup {None} /\ due[c] \in SUBSET Frame
<1>1. q[c] \in Seq(Frame) /\ wr[c] \in Frame \cup {None} /\ due[c] \in SUBSET Frame
  BY DEF Types
<1>2. CASE wr[c] = None
  BY <1>1, <1>2 DEF Stream
<1>3. CASE wr[c] # None
  <2>1. <<wr[c]>> \in Seq(Frame)
    BY <1>1, <1>3
  <2>2. QED BY <1>1, <1>3, <2>1, ConcatProperties DEF Stream
<1>4. QED BY <1>1, <1>2, <1>3

\* Nothing was sent to c and its pump did nothing.
Same(c) == /\ q'[c] = q[c] /\ wr'[c] = wr[c] /\ due'[c] = due[c]
           /\ got'[c] = got[c] /\ pump'[c] = pump[c]
\* The connection and the channel only ever close.
Shut(c) == chan'[c] = chan[c] \/ chan'[c] = "closed"
Lower(c) == conn'[c] = conn[c] \/ (conn[c] = "up" /\ conn'[c] = "closing")

LEMMA LineSame ==
  ASSUME Types, n' \in Nat, n <= n', NEW c \in Client, Line(c), Same(c), Shut(c), Lower(c)
  PROVE  Line(c)' /\ Stream(c)' = Stream(c)
<1>1. Stream(c)' = Stream(c)
  BY DEF Same, Stream
<1>2. Len(q'[c]) <= Buffer /\ \A f \in due'[c] : f.i <= n'
  <2>1. \A f \in due[c] : f.i \in Nat /\ f.i <= n /\ n \in Nat
    BY DEF Types, Line, Frame
  <2>2. QED BY <2>1 DEF Same, Line
<1>3. pump'[c] = "run" <=> conn'[c] \in {"up", "closing"}
  BY DEF Same, Lower, Line
<1>4. Gapless(Stream(c), due[c], conn'[c] = "up")
  BY DEF Line, Lower, Gapless
<1>5. chan'[c] = "open" => ~got[c].bye /\ NoBye(Stream(c))
  BY DEF Line, Shut
<1>6. QED BY <1>1, <1>2, <1>3, <1>4, <1>5 DEF Line, Same

\* Frame e was sent to c.
LEMMA LineSent ==
  ASSUME Types, NEW c \in Client, Line(c), NEW e \in Frame, e.i = n + 1, n' = n + 1,
         pump[c] = "run", conn[c] = "up", chan[c] = "open",
         UNCHANGED <<wr[c], got[c], pump[c]>>, due'[c] = due[c] \cup {e},
         q'[c] = IF HasRoom(c) THEN Append(q[c], e) ELSE q[c],
         conn'[c] = "up" \/ (conn'[c] = "closing" /\ ~HasRoom(c)),
         conn'[c] = "up" => HasRoom(c) \/ ~IsBroadcast(e),
         Shut(c), e.k = "bye" => chan'[c] = "closed"
  PROVE  /\ Line(c)' /\ q'[c] \in Seq(Frame) /\ due'[c] \in SUBSET Frame
         /\ Stream(c)' = IF HasRoom(c) THEN Append(Stream(c), e) ELSE Stream(c)
<1>1. /\ Stream(c) \in Seq(Frame) /\ q[c] \in Seq(Frame)
      /\ wr[c] \in Frame \cup {None} /\ due[c] \in SUBSET Frame
  BY StreamType
<1>2. n \in Nat /\ \A f \in due[c] : f.i \in Nat /\ f.i <= n
  BY DEF Types, Line, Frame
<1>3. \A f \in due[c] : f.i < e.i
  BY <1>2
<1>4. \A f \in due'[c] : f.i <= n'
  BY <1>2
<1>5. CASE HasRoom(c)
  <2>1. Len(q'[c]) <= Buffer /\ q'[c] = Append(q[c], e) /\ q'[c] \in Seq(Frame)
    <3>1. Len(q[c]) \in Nat /\ Len(q[c]) < Buffer /\ Len(Append(q[c], e)) = Len(q[c]) + 1
      BY <1>1, <1>5, Appended DEF HasRoom
    <3>2. QED BY <1>1, <1>5, <3>1, Appended, BufferAssumption
  <2>2. Stream(c)' = Append(Stream(c), e)
    <3>1. CASE wr[c] = None
      BY <2>1, <3>1 DEF Stream
    <3>2. CASE wr[c] # None
      <4>1. <<wr[c]>> \in Seq(Frame) /\ <<e>> \in Seq(Frame)
        BY <1>1, <3>2
      <4>2. Append(q[c], e) = q[c] \o <<e>>
        BY <1>1, AppendIsConcat
      <4>3. Append(Stream(c), e) = (<<wr[c]>> \o q[c]) \o <<e>>
        <5>1. Stream(c) = <<wr[c]>> \o q[c]
          BY <3>2 DEF Stream
        <5>2. Append(Stream(c), e) = Stream(c) \o <<e>>
          BY <1>1, AppendIsConcat
        <5>3. QED BY <5>1, <5>2
      <4>4. (<<wr[c]>> \o q[c]) \o <<e>> = <<wr[c]>> \o (q[c] \o <<e>>)
        <5> DEFINE a == <<wr[c]>>
                   b == q[c]
                   d == <<e>>
        <5>1. a \in Seq(Frame) /\ b \in Seq(Frame) /\ d \in Seq(Frame)
          BY <1>1, <4>1
        <5> HIDE DEF a, b, d
        <5>2. (a \o b) \o d = a \o (b \o d)
          BY <5>1, ConcatAssociative
        <5>3. QED BY <5>2 DEF a, b, d
      <4>5. QED BY <2>1, <3>2, <4>2, <4>3, <4>4 DEF Stream
    <3>3. QED BY <3>1, <3>2
  <2>3. conn'[c] = "up"
    BY <1>5
  <2>4. Gapless(Stream(c), due[c], TRUE)
    BY DEF Line
  <2>5. Gapless(Append(Stream(c), e), due[c] \cup {e}, TRUE)
    BY <1>1, <1>3, <2>4, GaplessAppend
  <2>6. ~got[c].bye /\ NoBye(Stream(c))
    BY DEF Line
  <2>7. /\ ByeLast(Append(Stream(c), e), FALSE)
        /\ e.k # "bye" => NoBye(Append(Stream(c), e))
    BY <1>1, <2>6, ByeAppend
  <2>8. got'[c].bye = FALSE
    <3>1. got[c].bye \in BOOLEAN
      BY DEF Types
    <3>2. QED BY <2>6, <3>1
  <2>9. Line(c)'
    <3>1. Gapless(Stream(c)', due'[c], conn'[c] = "up")
      BY <2>2, <2>3, <2>5
    <3>2. ByeLast(Stream(c)', got'[c].bye)
      BY <2>2, <2>7, <2>8
    <3>3. chan'[c] = "open" => ~got'[c].bye /\ NoBye(Stream(c)')
      BY <2>2, <2>7, <2>8
    <3>4. QED BY <1>4, <2>1, <2>3, <3>1, <3>2, <3>3 DEF Line
  <2>10. QED BY <1>1, <1>5, <2>1, <2>2, <2>9
<1>6. CASE ~HasRoom(c)
  <2>1. Stream(c)' = Stream(c) /\ q'[c] = q[c]
    BY <1>6 DEF Stream
  <2>2. Gapless(Stream(c), due[c], TRUE) /\ ~got[c].bye /\ NoBye(Stream(c))
    BY DEF Line
  <2> DEFINE on == conn'[c] = "up"
  <2>3. on \in BOOLEAN /\ (on => TRUE /\ ~IsBroadcast(e))
    BY <1>6
  <2>4. Gapless(Stream(c), due[c] \cup {e}, on)
    <3> HIDE DEF on
    <3>1. QED BY <1>1, <1>3, <2>2, <2>3, GaplessSkip, ZenonT(60)
  <2>5. Line(c)'
    <3>1. ByeLast(Stream(c), FALSE) /\ got'[c].bye = FALSE
      <4>1. got[c].bye \in BOOLEAN
        BY DEF Types
      <4>2. ByeLast(Stream(c), got[c].bye)
        BY DEF Line
      <4>3. QED BY <2>2, <4>1, <4>2
    <3>2. Gapless(Stream(c)', due'[c], conn'[c] = "up")
      BY <2>1, <2>4
    <3>3. /\ Len(q'[c]) <= Buffer
          /\ pump'[c] = "run" <=> conn'[c] \in {"up", "closing"}
      BY <2>1 DEF Line
    <3>4. QED BY <1>4, <2>1, <2>2, <3>1, <3>2, <3>3 DEF Line
  <2>6. QED BY <1>1, <1>6, <2>1, <2>5
<1>7. QED BY <1>5, <1>6

\* The pump of c returned.
LEMMA LineStopped ==
  ASSUME Types, n' = n, NEW c \in Client, Line(c), pump'[c] = "done",
         conn'[c] \in {"down", "ended"}, q'[c] = <<>>, wr'[c] = None, due'[c] = {},
         got'[c] = got[c], chan'[c] = chan[c]
  PROVE  Line(c)'
<1>1. Stream(c)' = <<>> /\ Len(q'[c]) = 0 /\ DOMAIN <<>> = {}
  BY EmptySeq, LenProperties DEF Stream
<1>2. Len(q'[c]) <= Buffer
  BY <1>1, BufferAssumption
<1>3. Gapless(<<>>, {}, FALSE) /\ ByeLast(<<>>, got[c].bye) /\ NoBye(<<>>)
  BY <1>1 DEF Gapless, ByeLast, NoBye
<1>4. chan[c] = "open" => ~got[c].bye
  BY DEF Line
<1>5. QED BY <1>1, <1>2, <1>3, <1>4 DEF Line

-----------------------------------------------------------------------------
(* Sending. *)

\* A broadcast of f to B and a direct send of g to D; a channel is closed only
\* together with a notice.
Sending(B, f, D, g) ==
  /\ B \subseteq Client /\ D \subseteq Client /\ f \in Frame /\ g \in Frame
  /\ f.i = n + 1 /\ g.i = n + 1 /\ Deliver(B, f, D, g)
  /\ B # {} => f.k # "bye"
  /\ D # {} => ~IsBroadcast(g)
  /\ \A c \in B \cup D : chan[c] = "open"
  /\ \A c \in Client : Shut(c)
  /\ \A c \in D : g.k = "bye" => chan'[c] = "closed"
  /\ UNCHANGED <<wr, got, pump>>

\* Every client after it.
Sent(B, f, D, g) ==
  /\ n' \in Nat /\ conn' \in [Client -> {"up", "closing", "down", "ended"}]
  /\ q' \in [Client -> Seq(Frame)] /\ due' \in [Client -> SUBSET Frame]
  /\ \A c \in Client : conn'[c] = "up" =>
       /\ conn[c] = "up"
       /\ c \in B => Stream(c)' = Append(Stream(c), f)
       /\ c \notin B => \/ Stream(c)' = Stream(c)
                        \/ c \in D /\ Stream(c)' = Append(Stream(c), g)
       /\ c \in D \ B /\ HasRoom(c) => Stream(c)' = Append(Stream(c), g)

LEMMA DeliverMoves ==
  ASSUME Types, Lines, NEW B, NEW D, NEW f, NEW g, Sending(B, f, D, g)
  PROVE  Lines' /\ Sent(B, f, D, g)
<1> USE DEF Sending
<1> DEFINE e(c) == IF c \in B THEN f ELSE g
<1>1. /\ n' = n + 1 /\ n \in Nat
      /\ q' = [c \in Client |-> IF Addressed(c, B, D) /\ HasRoom(c) THEN Append(q[c], e(c)) ELSE q[c]]
      /\ due' = [c \in Client |-> IF Addressed(c, B, D) THEN due[c] \cup {e(c)} ELSE due[c]]
      /\ conn' = [c \in Client |-> IF c \in B /\ ~HasRoom(c) /\ conn[c] = "up"
                                     THEN "closing" ELSE conn[c]]
  BY DEF Deliver, Enqueue, Types
<1>2. \A c \in Client : e(c) \in Frame /\ e(c).i = n + 1
  OBVIOUS
<1> HIDE DEF e
<1>3. ASSUME NEW c \in Client
      PROVE  /\ Line(c)' /\ q'[c] \in Seq(Frame) /\ due'[c] \in SUBSET Frame
             /\ conn'[c] \in {"up", "closing", "down", "ended"}
             /\ conn'[c] = "up" =>
                  /\ conn[c] = "up"
                  /\ c \in B => Stream(c)' = Append(Stream(c), f)
                  /\ c \notin B => \/ Stream(c)' = Stream(c)
                                   \/ c \in D /\ Stream(c)' = Append(Stream(c), g)
                  /\ c \in D \ B /\ HasRoom(c) => Stream(c)' = Append(Stream(c), g)
  <2>1. Line(c) /\ conn[c] \in {"up", "closing", "down", "ended"} /\ pump[c] \in {"run", "done"}
    BY DEF Lines, Types
  <2>2. conn'[c] = IF c \in B /\ ~HasRoom(c) /\ conn[c] = "up" THEN "closing" ELSE conn[c]
    BY <1>1
  <2>3. CASE ~Addressed(c, B, D)
    <3>1. q'[c] = q[c] /\ due'[c] = due[c]
      BY <1>1, <2>3
    <3>2. Same(c) /\ Lower(c) /\ Shut(c)
      BY <2>2, <3>1 DEF Same, Lower
    <3>3. n' \in Nat /\ n <= n'
      BY <1>1
    <3>4. Line(c)' /\ Stream(c)' = Stream(c)
      BY <2>1, <3>2, <3>3, LineSame
    <3>5. q[c] \in Seq(Frame) /\ due[c] \in SUBSET Frame
      BY StreamType
    <3>6. conn[c] = "up" => c \notin B \cup D
      BY <2>1, <2>3 DEF Addressed, Line
    <3>7. QED BY <2>1, <2>2, <3>1, <3>4, <3>5, <3>6
  <2>4. CASE Addressed(c, B, D)
    <3>1. /\ q'[c] = IF HasRoom(c) THEN Append(q[c], e(c)) ELSE q[c]
          /\ due'[c] = due[c] \cup {e(c)}
      BY <1>1, <2>4
    <3>2. pump[c] = "run" /\ conn[c] = "up" /\ chan[c] = "open" /\ c \in B \cup D
      BY <2>4 DEF Addressed
    <3>3. conn'[c] = "up" \/ (conn'[c] = "closing" /\ ~HasRoom(c))
      BY <2>2, <3>2
    <3>4. conn'[c] = "up" => HasRoom(c) \/ ~IsBroadcast(e(c))
      BY <2>2, <3>2 DEF e
    <3>5. e(c).k = "bye" => chan'[c] = "closed"
      BY <3>2 DEF e
    <3>6. UNCHANGED <<wr[c], got[c], pump[c]>> /\ Shut(c)
      OBVIOUS
    <3>7. PICK d \in Frame : d = e(c)
      BY <1>2
    <3>8. /\ Line(c)' /\ q'[c] \in Seq(Frame) /\ due'[c] \in SUBSET Frame
          /\ Stream(c)' = IF HasRoom(c) THEN Append(Stream(c), d) ELSE Stream(c)
      BY <1>1, <1>2, <2>1, <3>1, <3>2, <3>3, <3>4, <3>5, <3>6, <3>7, LineSent
    <3>9. d = IF c \in B THEN f ELSE g
      BY <3>7 DEF e
    <3>10. conn'[c] = "up" /\ c \in B => HasRoom(c)
      BY <2>2, <3>2
    <3>11. QED BY <3>2, <3>3, <3>8, <3>9, <3>10
  <2>5. QED BY <2>3, <2>4
<1>4. QED BY <1>1, <1>3 DEF Lines, Sent

\* Nothing was sent and no pump did anything.
LEMMA QuietLines ==
  ASSUME Types, Lines, UNCHANGED <<q, wr, due, got, pump, conn, n>>, \A c \in Client : Shut(c)
  PROVE  Lines' /\ \A c \in Client : Stream(c)' = Stream(c)
<1>1. ASSUME NEW c \in Client PROVE Line(c)' /\ Stream(c)' = Stream(c)
  <2>1. Same(c) /\ Lower(c) /\ Shut(c) /\ Line(c)
    BY DEF Same, Lower, Lines
  <2>2. n' \in Nat /\ n <= n'
    BY DEF Types
  <2>3. QED BY <2>1, <2>2, LineSame
<1>2. QED BY <1>1 DEF Lines

\* The room did not change and no member list was sent.
LEMMA ViewsStay ==
  ASSUME Types, Views, UNCHANGED <<members, owner>>, Pending => Pending',
         \A c \in members : conn'[c] = "up" =>
           /\ conn[c] = "up" /\ got'[c].view = got[c].view
           /\ Stream(c)' = Stream(c) \/ \E e \in Frame : e.v = None /\ Stream(c)' = Append(Stream(c), e)
  PROVE  Views'
<1> SUFFICES ASSUME NEW c \in members, conn'[c] = "up", ~Pending'
             PROVE  Newest(Stream(c)', got'[c].view, MembersInfo(members, owner))
  BY DEF Views
<1> DEFINE v == MembersInfo(members, owner)
<1>1. Newest(Stream(c), got[c].view, v) /\ got'[c].view = got[c].view
  BY DEF Views
<1> HIDE DEF v
<1>2. CASE Stream(c)' = Stream(c)
  BY <1>1, <1>2 DEF v
<1>3. CASE \E e \in Frame : e.v = None /\ Stream(c)' = Append(Stream(c), e)
  <2>1. PICK e \in Frame : e.v = None /\ Stream(c)' = Append(Stream(c), e)
    BY <1>3
  <2>2. Stream(c) \in Seq(Frame)
    BY StreamType DEF Types
  <2>3. Newest(Append(Stream(c), e), got[c].view, v)
    BY <1>1, <2>1, <2>2, NewestAppend
  <2>4. QED BY <1>1, <2>1, <2>3 DEF v
<1>4. QED BY <1>2, <1>3

LEMMA FrameType ==
  ASSUME Types, NEW k \in Kind, NEW v \in View \cup {None}
  PROVE  /\ NewFrame(k, v) \in Frame /\ NewFrame(k, v).i = n + 1
         /\ NewFrame(k, v).k = k /\ NewFrame(k, v).v = v
  BY DEF Types, NewFrame, Frame

LEMMA InfoType ==
  ASSUME Types
  PROVE  /\ MembersInfo(members, owner) \in View /\ MembersInfo(members, owner) # None
         /\ \A d : MembersInfo(members \ {d}, owner) \in View /\ MembersInfo(members \ {d}, owner) # None
  BY NoneAssumption DEF Types, MembersInfo, View

\* Once anyone has got further, the creator has its welcome.
LEMMA NotAlone ==
  ASSUME Types, Alone, NEW c \in Client, hpc[c] \in {"presence", "member", "gone"}
  PROVE  hpc[Creator] \notin {"enter", "snapshot", "welcome"}
  BY DEF Alone

-----------------------------------------------------------------------------
(* Entering. *)

LEMMA AddInv ==
  ASSUME Inv, NEW c \in Client, Add(c)
  PROVE  Inv'
<1> USE DEF Inv
<1>1. /\ hpc[c] = "enter" /\ ~closed /\ (c = Creator \/ Invited)
      /\ members' = members \cup {c} /\ owner' = IF members = {} THEN c ELSE owner
      /\ hpc' = [hpc EXCEPT ![c] = "snapshot"]
      /\ UNCHANGED <<closed, todo, snap, chan, wr, pump, got, q, conn, n, due>>
  BY DEF Add, Goto, NoSend, sockVars
<1>2. Types'
  BY <1>1 DEF Types
<1>3. \A d \in Client : hpc'[d] = IF d = c THEN "snapshot" ELSE hpc[d]
  BY <1>1 DEF Types
<1>4. Lines'
  BY <1>1, QuietLines DEF Shut
<1>5. Channels'
  BY <1>1, <1>3 DEF Channels, Types
<1>6. Alone'
  <2>1. CASE c = Creator
    BY <1>1, <1>3, <2>1 DEF Alone
  <2>2. CASE c # Creator
    BY <1>1, <1>3, <2>2, CreatorAssumption DEF Invited, Alone
  <2>3. QED BY <2>1, <2>2
<1>7. Views'
  <2>1. Pending'
    BY <1>1, <1>3 DEF Pending
  <2>2. QED BY <2>1 DEF Views
<1>8. QED BY <1>2, <1>4, <1>5, <1>6, <1>7

LEMMA SnapshotInv ==
  ASSUME Inv, NEW c \in Client, SnapshotMembers(c)
  PROVE  Inv'
<1> USE DEF Inv
<1>1. /\ hpc[c] = "snapshot" /\ hpc' = [hpc EXCEPT ![c] = "welcome"]
      /\ snap' = [snap EXCEPT ![c] = MembersInfo(members, owner)]
      /\ UNCHANGED <<members, owner, closed, todo, chan, wr, pump, got, q, conn, n, due>>
  BY DEF SnapshotMembers, Goto, NoSend, sockVars, roomVars
<1>2. Types'
  BY <1>1, InfoType DEF Types
<1>3. \A d \in Client : hpc'[d] = IF d = c THEN "welcome" ELSE hpc[d]
  BY <1>1 DEF Types
<1>4. Lines' /\ \A d \in Client : Stream(d)' = Stream(d)
  BY <1>1, QuietLines DEF Shut
<1>5. Channels'
  BY <1>1, <1>3 DEF Channels, Types
<1>6. Alone'
  BY <1>1, <1>3 DEF Alone, Types
<1>7. Views'
  <2>1. Pending => Pending'
    BY <1>1, <1>3 DEF Pending
  <2>2. \A d \in members : d \in Client
    BY DEF Types
  <2>3. QED BY <1>1, <1>4, <2>1, <2>2, ViewsStay
<1>8. QED BY <1>2, <1>4, <1>5, <1>6, <1>7

\* The snapshot of a joiner is announced again; that of the creator is current.
LEMMA WelcomeInv ==
  ASSUME Inv, NEW c \in Client, Welcome(c), chan[c] = "open"
  PROVE  Inv'
<1> USE DEF Inv
<1> DEFINE next == IF c = Creator THEN "member" ELSE "presence"
<1>1. PICK g : g = NewFrame("welcome", snap[c])
  OBVIOUS
<1>2. /\ hpc[c] = "welcome" /\ Send(c, g) /\ hpc' = [hpc EXCEPT ![c] = next]
      /\ snap' = [snap EXCEPT ![c] = None]
      /\ UNCHANGED <<members, owner, closed, todo, chan, wr, pump, got>>
  BY <1>1 DEF Welcome, Goto, roomVars
<1>3. g \in Frame /\ g.i = n + 1 /\ g.k = "welcome" /\ g.v = snap[c]
  BY <1>1, FrameType DEF Types, Kind
<1>4. Lines' /\ Sent({}, g, {c}, g)
  <2>1. Sending({}, g, {c}, g)
    BY <1>2, <1>3 DEF Sending, Send, IsBroadcast, Shut
  <2>2. QED BY <2>1, DeliverMoves
<1>5. Types'
  BY <1>2, <1>4 DEF Types, Sent
<1>6. \A d \in Client : hpc'[d] = IF d = c THEN next ELSE hpc[d]
  BY <1>2 DEF Types
<1>7. Channels'
  BY <1>2, <1>6 DEF Channels, Types
<1>8. Alone'
  BY <1>2, <1>6, CreatorAssumption DEF Alone
<1>9. Views'
  <2>1. CASE c = Creator
    <3>1. /\ members = {c} /\ snap[c] = MembersInfo(members, owner) /\ q[c] = <<>> /\ wr[c] = None
      BY <1>2, <2>1 DEF Alone
    <3>2. HasRoom(c)
      BY <3>1, BufferAssumption, EmptySeq, LenProperties DEF HasRoom
    <3>3. conn'[c] = "up" => Stream(c)' = Append(Stream(c), g)
      BY <1>4, <3>2 DEF Sent
    <3>4. Stream(c) \in Seq(Frame)
      BY StreamType
    <3>5. PICK v : v = MembersInfo(members, owner)
      OBVIOUS
    <3>6. v # None /\ g.v = v
      BY <1>3, <3>1, <3>5, InfoType
    <3>7. Newest(Append(Stream(c), g), got[c].view, v)
      BY <1>3, <3>4, <3>6, NewestAppend
    <3>8. QED BY <1>2, <3>1, <3>3, <3>5, <3>7 DEF Views
  <2>2. CASE c # Creator
    <3>1. Pending'
      BY <1>6, <2>2 DEF Pending
    <3>2. QED BY <3>1 DEF Views
  <2>3. QED BY <2>1, <2>2
<1>10. QED BY <1>4, <1>5, <1>7, <1>8, <1>9

\* Everybody was told who the members are.
LEMMA AllTold ==
  ASSUME Types, NEW B, NEW D, NEW f \in Frame, NEW g, Sent(B, f, D, g), members' \subseteq B,
         B \subseteq Client, f.v = MembersInfo(members, owner)', f.v # None, got' = got
  PROVE  Views'
<1> SUFFICES ASSUME NEW c \in members', conn'[c] = "up"
             PROVE  Newest(Stream(c)', got[c].view, MembersInfo(members, owner)')
  BY DEF Views
<1>1. c \in Client /\ c \in B /\ Stream(c) \in Seq(Frame)
  BY StreamType
<1>2. Stream(c)' = Append(Stream(c), f)
  BY <1>1 DEF Sent
<1>3. Newest(Append(Stream(c), f), got[c].view, f.v)
  BY <1>1, NewestAppend
<1>4. QED BY <1>2, <1>3

\* Nobody was told anything about them, and they are the same.
LEMMA NobodyTold ==
  ASSUME Types, Views, NEW B, NEW D, NEW f \in Frame, NEW g \in Frame, Sent(B, f, D, g),
         f.v = None, g.v = None, UNCHANGED <<members, owner, got>>, Pending => Pending'
  PROVE  Views'
<1>1. \A c \in members : conn'[c] = "up" =>
        /\ conn[c] = "up" /\ got'[c].view = got[c].view
        /\ Stream(c)' = Stream(c) \/ \E e \in Frame : e.v = None /\ Stream(c)' = Append(Stream(c), e)
  BY DEF Sent, Types
<1>2. QED BY <1>1, ViewsStay

LEMMA StillNotAlone ==
  ASSUME Types, Alone, NEW c \in Client, hpc[c] \in {"presence", "member", "gone"},
         \A d \in Client : hpc'[d] = hpc[d] \/ hpc'[d] \in {"presence", "member", "gone"}
  PROVE  Alone'
  BY NotAlone, CreatorAssumption DEF Alone

LEMMA WelcomeLostInv ==
  ASSUME Inv, NEW c \in Client, Welcome(c), chan[c] # "open"
  PROVE  Inv'
<1> USE DEF Inv
<1>1. /\ hpc[c] = "welcome" /\ StopPump(c, "down") /\ hpc' = [hpc EXCEPT ![c] = "gone"]
      /\ snap' = [snap EXCEPT ![c] = None]
      /\ UNCHANGED <<members, owner, closed, todo, chan, got, n>>
  BY DEF Welcome, Goto, roomVars
<1>2. Types'
  BY <1>1, EmptySeq DEF Types, StopPump
<1>3. \A d \in Client : hpc'[d] = IF d = c THEN "gone" ELSE hpc[d]
  BY <1>1 DEF Types
<1>4. c \notin members \cup todo
  BY DEF Channels
<1>5. Lines'
  <2>1. ASSUME NEW d \in Client PROVE Line(d)'
    <3>1. Line(d)
      BY DEF Lines
    <3>2. CASE d = c
      <4>1. /\ pump'[d] = "done" /\ conn'[d] \in {"down", "ended"}
            /\ q'[d] = <<>> /\ wr'[d] = None /\ due'[d] = {}
        BY <1>1, <3>1, <3>2 DEF StopPump, Types, Line
      <4>2. QED BY <1>1, <3>1, <4>1, LineStopped
    <3>3. CASE d # c
      <4>1. q'[d] = q[d] /\ wr'[d] = wr[d] /\ due'[d] = due[d]
        BY <1>1, <3>3 DEF StopPump, Types
      <4>2. pump'[d] = pump[d] /\ conn'[d] = conn[d]
        BY <1>1, <3>3 DEF StopPump, Types
      <4>3. Same(d) /\ chan'[d] = chan[d]
        BY <1>1, <4>1, <4>2 DEF Same
      <4>4. n' \in Nat /\ n <= n'
        BY <1>1 DEF Types
      <4>5. QED BY <3>1, <4>2, <4>3, <4>4, LineSame DEF Shut, Lower
    <3>4. QED BY <3>2, <3>3
  <2>2. QED BY <2>1 DEF Lines
<1>6. Channels'
  BY <1>1, <1>3, <1>4 DEF Channels, Types
<1>7. Alone'
  <2>1. c # Creator
    BY <1>1, <1>4 DEF Alone
  <2>2. hpc[Creator] \notin {"enter", "snapshot", "welcome"}
    BY <1>1, <2>1 DEF Alone
  <2>3. QED BY <1>3, <2>1, <2>2, CreatorAssumption DEF Alone
<1>8. Views'
  <2>1. Pending => Pending'
    BY <1>1, <1>3, <1>4 DEF Pending
  <2>2. \A d \in members : d \in Client /\ d # c
    BY <1>4 DEF Types
  <2>3. \A d \in members : Stream(d)' = Stream(d) /\ conn'[d] = conn[d]
    BY <1>1, <2>2 DEF StopPump, Stream, Types
  <2>4. QED BY <1>1, <2>1, <2>3, ViewsStay
<1>9. QED BY <1>2, <1>5, <1>6, <1>7, <1>8

LEMMA PresenceInv ==
  ASSUME Inv, NEW c \in Client, BroadcastPresence(c)
  PROVE  Inv'
<1> USE DEF Inv
<1>1. /\ hpc[c] = "presence" /\ hpc' = [hpc EXCEPT ![c] = "member"]
      /\ UNCHANGED <<members, owner, closed, todo, snap, chan, wr, pump, got>>
  BY DEF BroadcastPresence, Goto, roomVars, sockVars
<1>2. \A d \in Client : hpc'[d] = IF d = c THEN "member" ELSE hpc[d]
  BY <1>1 DEF Types
<1>3. Channels' /\ Alone'
  <2>1. Channels'
    BY <1>1, <1>2 DEF Channels, Types
  <2>2. \A d \in Client : hpc'[d] = hpc[d] \/ hpc'[d] \in {"presence", "member", "gone"}
    BY <1>2
  <2>3. Alone'
    BY <1>1, <2>2, StillNotAlone
  <2>4. QED BY <2>1, <2>3
<1>4. CASE closed
  <2>1. UNCHANGED <<q, conn, n, due>> /\ members' = {}
    BY <1>1, <1>4 DEF BroadcastPresence, NoSend, Channels
  <2>2. Types'
    BY <1>1, <2>1 DEF Types
  <2>3. Lines'
    BY <1>1, <2>1, QuietLines DEF Shut
  <2>4. Views'
    BY <2>1 DEF Views
  <2>5. QED BY <1>3, <2>2, <2>3, <2>4
<1>5. CASE ~closed
  <2>1. PICK f : f = NewFrame("presence", MembersInfo(members, owner))
    OBVIOUS
  <2>2. /\ f \in Frame /\ f.i = n + 1 /\ f.k = "presence"
        /\ f.v = MembersInfo(members, owner) /\ f.v # None
    BY <2>1, FrameType, InfoType DEF Kind
  <2>3. Sending(members, f, {}, f)
    BY <1>1, <1>5, <2>1, <2>2
       DEF BroadcastPresence, Broadcast, Sending, Shut, Types, Channels
  <2>4. Lines' /\ Sent(members, f, {}, f)
    BY <2>3, DeliverMoves
  <2>5. Types'
    BY <1>1, <2>4 DEF Types, Sent
  <2>6. Views'
    <3>1. members' \subseteq members /\ members \subseteq Client /\ got' = got
      BY <1>1 DEF Types
    <3>2. f.v = MembersInfo(members, owner)'
      BY <1>1, <2>2 DEF MembersInfo
    <3>3. QED BY <2>2, <2>4, <3>1, <3>2, AllTold
  <2>7. QED BY <1>3, <2>4, <2>5, <2>6
<1>6. QED BY <1>4, <1>5

-----------------------------------------------------------------------------
(* memberLoop. *)

\* Frames without a member list, while nobody enters or leaves.
LEMMA TrafficInv ==
  ASSUME Inv, NEW B, NEW D, NEW f \in Frame, NEW g \in Frame, Sending(B, f, D, g),
         f.v = None, g.v = None, NEW c \in Client, hpc[c] = "member",
         UNCHANGED <<members, owner, closed, todo, hpc, snap, chan, wr, pump, got>>
  PROVE  Inv'
<1> USE DEF Inv
<1>1. Lines' /\ Sent(B, f, D, g)
  BY DeliverMoves
<1>2. Types'
  BY <1>1 DEF Types, Sent
<1>3. Channels'
  BY DEF Channels
<1>4. Alone'
  BY StillNotAlone
<1>5. Views'
  <2>1. Pending => Pending'
    BY DEF Pending
  <2>2. QED BY <1>1, <2>1, NobodyTold
<1>6. QED BY <1>1, <1>2, <1>3, <1>4, <1>5

LEMMA ChatInv ==
  ASSUME Inv, NEW c \in Client, Chat(c)
  PROVE  Inv'
<1>1. /\ hpc[c] = "member"
      /\ UNCHANGED <<members, owner, closed, todo, hpc, snap, chan, wr, pump, got>>
  BY DEF Chat, roomVars, handVars, sockVars
<1>2. PICK f : f = NewFrame("chat", None)
  OBVIOUS
<1>3. f \in Frame /\ f.i = n + 1 /\ f.k = "chat" /\ f.v = None
  BY <1>2, FrameType DEF Inv, Kind
<1>4. Sending(members \ {c}, f, {}, f)
  <2>1. Deliver(members \ {c}, f, {}, f)
    BY <1>2 DEF Chat, Broadcast
  <2>2. QED BY <1>1, <1>3, <2>1 DEF Inv, Sending, Shut, Types, Channels
<1>5. QED BY <1>1, <1>3, <1>4, TrafficInv

LEMMA DirectInv ==
  ASSUME Inv, NEW s \in Client, NEW c \in Client, Direct(s, c)
  PROVE  Inv'
<1>1. /\ chan[c] = "open" /\ (hpc[s] = "member" \/ hpc[c] = "member")
      /\ UNCHANGED <<members, owner, closed, todo, hpc, snap, chan, wr, pump, got>>
  BY DEF Direct, roomVars, handVars, sockVars
<1>2. PICK f : f = NewFrame("direct", None)
  OBVIOUS
<1>3. f \in Frame /\ f.i = n + 1 /\ f.k = "direct" /\ f.v = None
  BY <1>2, FrameType DEF Inv, Kind
<1>4. Sending({}, f, {c}, f)
  <2>1. Deliver({}, f, {c}, f)
    BY <1>2 DEF Direct, Send
  <2>2. QED BY <1>1, <1>3, <2>1 DEF Sending, Shut, IsBroadcast
<1>5. CASE hpc[s] = "member"
  BY <1>1, <1>3, <1>4, <1>5, TrafficInv
<1>6. CASE hpc[c] = "member"
  BY <1>1, <1>3, <1>4, <1>6, TrafficInv
<1>7. QED BY <1>1, <1>5, <1>6

LEMMA TransferInv ==
  ASSUME Inv, NEW c \in Client, NEW d \in Client, Transfer(c, d)
  PROVE  Inv'
<1> USE DEF Inv
<1>1. /\ hpc[c] = "member" /\ owner' = d /\ hpc' = [hpc EXCEPT ![c] = "presence"]
      /\ UNCHANGED <<members, closed, todo, snap, chan, wr, pump, got, q, conn, n, due>>
  BY DEF Transfer, Goto, NoSend, sockVars
<1>2. \A e \in Client : hpc'[e] = IF e = c THEN "presence" ELSE hpc[e]
  BY <1>1 DEF Types
<1>3. Types'
  BY <1>1 DEF Types
<1>4. Lines'
  BY <1>1, QuietLines DEF Shut
<1>5. Channels'
  BY <1>1, <1>2 DEF Channels, Types
<1>6. Alone'
  BY <1>1, <1>2, StillNotAlone
<1>7. Views'
  BY <1>2 DEF Views, Pending
<1>8. QED BY <1>3, <1>4, <1>5, <1>6, <1>7

\* RemoveMember and Leave: the rest are told, a kicked member gets the notice.
LEMMA DetachInv ==
  ASSUME Inv, NEW d \in members, NEW D \in SUBSET {d}, Detach(d, D),
         NEW c \in Client, hpc[c] = "member", UNCHANGED <<snap, wr, pump, got>>,
         \A e \in Client : hpc'[e] = hpc[e] \/ hpc'[e] = "gone",
         hpc' \in [Client -> {"enter", "snapshot", "welcome", "presence", "member", "gone"}]
  PROVE  Inv'
<1> USE DEF Inv
<1>1. PICK B : B = members \ {d}
  OBVIOUS
<1>2. PICK f : f = NewFrame("presence", MembersInfo(members \ {d}, owner))
  OBVIOUS
<1>3. PICK g : g = NewFrame("bye", None)
  OBVIOUS
<1>4. /\ members' = B /\ chan' = [chan EXCEPT ![d] = "closed"] /\ Deliver(B, f, D, g)
      /\ UNCHANGED <<owner, closed, todo>>
  BY <1>1, <1>2, <1>3 DEF Detach
<1>5. /\ f \in Frame /\ f.i = n + 1 /\ f.k = "presence"
      /\ f.v = MembersInfo(members \ {d}, owner) /\ f.v # None
  <2>1. PICK v : v = MembersInfo(members \ {d}, owner)
    OBVIOUS
  <2>2. v \in View \cup {None} /\ v # None
    BY <2>1, InfoType
  <2>3. f = NewFrame("presence", v) /\ "presence" \in Kind
    BY <1>2, <2>1 DEF Kind
  <2>4. QED BY <2>1, <2>2, <2>3, FrameType
<1>6. g \in Frame /\ g.i = n + 1 /\ g.k = "bye"
  BY <1>3, FrameType DEF Kind
<1>7. d \in Client /\ \A e \in Client : chan'[e] = IF e = d THEN "closed" ELSE chan[e]
  BY <1>4 DEF Types
<1>8. Sending(B, f, D, g)
  <2>1. B \subseteq Client /\ D \subseteq Client
    BY <1>1, <1>7 DEF Types
  <2>2. \A e \in B \cup D : chan[e] = "open"
    BY <1>1 DEF Channels
  <2>3. (\A e \in Client : Shut(e)) /\ \A e \in D : chan'[e] = "closed"
    BY <1>7 DEF Shut
  <2>4. ~IsBroadcast(g) /\ f.k # "bye"
    BY <1>5, <1>6 DEF IsBroadcast
  <2>5. QED BY <1>4, <1>5, <1>6, <2>1, <2>2, <2>3, <2>4 DEF Sending
<1>9. Lines' /\ Sent(B, f, D, g)
  BY <1>8, DeliverMoves
<1>10. Types'
  BY <1>1, <1>4, <1>9 DEF Types, Sent
<1>11. Channels'
  <2>1. closed' => members' = {}
    BY <1>1, <1>4 DEF Channels
  <2>2. todo = {}
    BY DEF Channels
  <2>3. \A e \in members' : chan'[e] = "open" /\ hpc'[e] # "enter"
    BY <1>1, <1>4, <1>7 DEF Channels, Types
  <2>4. \A e \in Client : hpc'[e] = "enter" => chan'[e] = "open"
    BY <1>7 DEF Channels
  <2>5. QED BY <1>4, <2>1, <2>2, <2>3, <2>4 DEF Channels
<1>12. Alone'
  BY StillNotAlone
<1>13. Views'
  <2>1. members' \subseteq B /\ B \subseteq Client /\ got' = got
    BY <1>1, <1>4 DEF Types
  <2>2. f.v = MembersInfo(members, owner)'
    BY <1>1, <1>4, <1>5 DEF MembersInfo
  <2>3. QED BY <1>5, <1>9, <2>1, <2>2, AllTold
<1>14. QED BY <1>9, <1>10, <1>11, <1>12, <1>13

LEMMA KickInv ==
  ASSUME Inv, NEW c \in Client, NEW d \in Client, Kick(c, d)
  PROVE  Inv'
<1>1. /\ hpc[c] = "member" /\ d \in members /\ Detach(d, {d})
      /\ UNCHANGED <<hpc, snap, wr, pump, got>>
  BY DEF Kick, handVars, sockVars
<1>2. QED BY <1>1, DetachInv DEF Inv, Types

LEMMA LeaveInv ==
  ASSUME Inv, NEW c \in Client, Leave(c)
  PROVE  Inv'
<1> USE DEF Inv
<1>1. /\ hpc[c] = "member" /\ hpc' = [hpc EXCEPT ![c] = "gone"]
      /\ UNCHANGED <<snap, wr, pump, got>>
  BY DEF Leave, Goto, sockVars
<1>2. /\ \A d \in Client : hpc'[d] = IF d = c THEN "gone" ELSE hpc[d]
      /\ hpc' \in [Client -> {"enter", "snapshot", "welcome", "presence", "member", "gone"}]
  BY <1>1 DEF Types
<1>3. Alone'
  BY <1>1, <1>2, StillNotAlone
<1>4. CASE c \notin members /\ NoSend /\ UNCHANGED <<roomVars, chan>>
  <2>1. UNCHANGED <<members, owner, closed, todo, chan, q, conn, n, due>>
    BY <1>4 DEF NoSend, roomVars
  <2>2. Types'
    BY <1>1, <1>2, <2>1 DEF Types
  <2>3. Lines' /\ \A d \in Client : Stream(d)' = Stream(d)
    BY <1>1, <2>1, QuietLines DEF Shut
  <2>4. Channels'
    BY <1>2, <2>1 DEF Channels, Types
  <2>5. Views'
    <3>1. Pending => Pending'
      BY <1>1, <1>2, <2>1 DEF Pending
    <3>2. members \subseteq Client
      BY DEF Types
    <3>3. QED BY <1>1, <2>1, <2>3, <3>1, <3>2, ViewsStay
  <2>6. QED BY <1>3, <2>2, <2>3, <2>4, <2>5
<1>5. CASE c \in members /\ Detach(c, {})
  <2>1. \A e \in Client : hpc'[e] = hpc[e] \/ hpc'[e] = "gone"
    BY <1>2
  <2>2. PICK D \in SUBSET {c} : D = {}
    OBVIOUS
  <2>3. Detach(c, D)
    BY <1>5, <2>2
  <2>4. QED BY <1>1, <1>2, <1>5, <2>1, <2>3, DetachInv
<1>6. CASE /\ c \in members /\ closed' = TRUE
           /\ todo' = members /\ members' = {} /\ owner' = None /\ NoSend /\ UNCHANGED chan
  <2>1. UNCHANGED <<q, conn, n, due>>
    BY <1>6 DEF NoSend
  <2>2. Types'
    BY <1>1, <1>2, <1>6, <2>1 DEF Types
  <2>3. Lines'
    BY <1>1, <1>6, <2>1, QuietLines DEF Shut
  <2>4. Channels'
    BY <1>2, <1>6 DEF Channels, Types
  <2>5. Views'
    BY <1>6 DEF Views
  <2>6. QED BY <1>3, <2>2, <2>3, <2>4, <2>5
<1>7. QED BY <1>4, <1>5, <1>6 DEF Leave

LEMMA CloseMemberInv ==
  ASSUME Inv, NEW c \in Client, CloseMember(c)
  PROVE  Inv'
<1> USE DEF Inv
<1>1. PICK g : g = NewFrame("bye", None)
  OBVIOUS
<1>2. /\ c \in todo /\ todo' = todo \ {c} /\ Deliver({}, g, {c}, g)
      /\ chan' = [chan EXCEPT ![c] = "closed"]
      /\ UNCHANGED <<members, owner, closed, hpc, snap, wr, pump, got>>
  BY <1>1 DEF CloseMember, Send, handVars, sockVars
<1>3. closed /\ members = {} /\ chan[c] = "open" /\ hpc[c] # "enter"
  BY <1>2 DEF Channels
<1>4. g \in Frame /\ g.i = n + 1 /\ g.k = "bye"
  BY <1>1, FrameType DEF Kind
<1>5. \A d \in Client : chan'[d] = IF d = c THEN "closed" ELSE chan[d]
  BY <1>2 DEF Types
<1>6. Sending({}, g, {c}, g)
  BY <1>2, <1>3, <1>4, <1>5 DEF Sending, Shut, IsBroadcast
<1>7. Lines' /\ Sent({}, g, {c}, g)
  BY <1>6, DeliverMoves
<1>8. Types'
  BY <1>2, <1>7 DEF Types, Sent
<1>9. Channels'
  BY <1>2, <1>3, <1>5 DEF Channels, Types
<1>10. Alone' /\ Views'
  BY <1>2, <1>3 DEF Alone, Views
<1>11. QED BY <1>7, <1>8, <1>9, <1>10

-----------------------------------------------------------------------------
(* WritePump. *)

\* A step of one pump changes nothing in the room.
LEMMA PumpInv ==
  ASSUME Inv, NEW c \in Client, Types', Line(c)', n' = n,
         UNCHANGED <<members, owner, closed, todo, hpc, snap, chan>>,
         \A d \in Client \ {c} : Same(d) /\ conn'[d] = conn[d],
         q[c] # <<>> \/ wr[c] # None \/ (q'[c] = <<>> /\ wr'[c] = None),
         conn'[c] = "up" =>
           /\ conn[c] = "up"
           /\ \A v : Newest(Stream(c), got[c].view, v) => Newest(Stream(c)', got'[c].view, v)
  PROVE  Inv'
<1> USE DEF Inv
<1>1. ASSUME NEW d \in Client \ {c} PROVE Line(d)' /\ Stream(d)' = Stream(d)
  <2>1. Line(d) /\ Same(d) /\ Shut(d) /\ Lower(d)
    BY DEF Lines, Shut, Lower
  <2>2. n' \in Nat /\ n <= n'
    BY DEF Types
  <2>3. QED BY <2>1, <2>2, LineSame
<1>2. Lines'
  BY <1>1 DEF Lines
<1>3. Channels'
  BY DEF Channels
<1>4. Alone'
  <2>1. CASE c = Creator
    BY <2>1 DEF Alone
  <2>2. CASE c # Creator
    BY <2>2, CreatorAssumption DEF Alone, Same
  <2>3. QED BY <2>1, <2>2
<1>5. Views'
  <2>1. Pending' = Pending
    BY DEF Pending
  <2>2. ASSUME NEW d \in members, conn'[d] = "up", ~Pending
        PROVE  Newest(Stream(d)', got'[d].view, MembersInfo(members, owner))
    <3>1. PICK v : v = MembersInfo(members, owner)
      OBVIOUS
    <3>2. d \in Client
      BY DEF Types
    <3>3. CASE d = c
      <4>1. conn[c] = "up" => Newest(Stream(c), got[c].view, v)
        BY <2>2, <3>1, <3>3 DEF Views
      <4>2. conn[c] = "up"
        BY <2>2, <3>3
      <4>3. QED BY <2>2, <3>1, <3>3, <4>1, <4>2
    <3>4. CASE d # c
      <4>1. conn[d] = "up" /\ got'[d].view = got[d].view /\ Stream(d)' = Stream(d)
        BY <1>1, <2>2, <3>2, <3>4 DEF Same
      <4>2. QED BY <2>2, <4>1 DEF Views
    <3>5. QED BY <3>3, <3>4
  <2>3. QED BY <2>1, <2>2 DEF Views
<1>6. QED BY <1>2, <1>3, <1>4, <1>5

LEMMA StopInv ==
  ASSUME Inv, NEW c \in Client, PumpFails(c) \/ ConnFails(c) \/ PumpEnds(c)
  PROVE  Inv'
<1> USE DEF Inv
<1>1. PICK how \in {"down", "ended"} : StopPump(c, how)
  BY DEF PumpFails, ConnFails, PumpEnds
<1>2. /\ pump[c] = "run" /\ n' = n
      /\ UNCHANGED <<members, owner, closed, todo, hpc, snap, chan, got>>
  BY DEF PumpFails, ConnFails, PumpEnds, roomVars, handVars
<1>3. Types'
  BY <1>1, <1>2, EmptySeq DEF StopPump, Types
<1>4. /\ pump'[c] = "done" /\ conn'[c] = how /\ q'[c] = <<>> /\ wr'[c] = None /\ due'[c] = {}
      /\ \A d \in Client \ {c} : Same(d) /\ conn'[d] = conn[d]
  BY <1>1, <1>2 DEF StopPump, Types, Same
<1>5. Line(c)'
  BY <1>2, <1>4, LineStopped DEF Lines
<1>6. conn'[c] # "up"
  BY <1>4
<1>7. QED BY <1>2, <1>3, <1>4, <1>5, <1>6, PumpInv

LEMMA TakeInv ==
  ASSUME Inv, NEW c \in Client, Take(c)
  PROVE  Inv'
<1> USE DEF Inv
<1>1. /\ pump[c] = "run" /\ wr[c] = None /\ q[c] # <<>> /\ conn[c] = "up"
      /\ wr' = [wr EXCEPT ![c] = Head(q[c])] /\ q' = [q EXCEPT ![c] = Tail(q[c])]
      /\ UNCHANGED <<members, owner, closed, todo, hpc, snap, chan, pump, got, conn, n, due>>
  BY DEF Take, roomVars, handVars
<1>2. /\ q[c] \in Seq(Frame) /\ Head(q[c]) \in Frame /\ Tail(q[c]) \in Seq(Frame)
      /\ Len(Tail(q[c])) <= Len(q[c]) /\ <<Head(q[c])>> \o Tail(q[c]) = q[c]
  <2>1. q[c] \in Seq(Frame)
    BY DEF Types
  <2>2. Len(q[c]) - 1 <= Len(q[c])
    BY <2>1
  <2>3. QED BY <1>1, <2>1, <2>2, HeadTailProperties
<1>3. Types'
  BY <1>1, <1>2 DEF Types
<1>4. /\ wr'[c] = Head(q[c]) /\ q'[c] = Tail(q[c])
      /\ \A d \in Client \ {c} : Same(d) /\ conn'[d] = conn[d]
  BY <1>1 DEF Types, Same
<1>5. Stream(c)' = Stream(c)
  BY <1>1, <1>2, <1>4, NoneAssumption DEF Stream
<1>6. Line(c)'
  <2>1. Line(c)
    BY DEF Lines
  <2>2. Len(q'[c]) <= Buffer
    <3>1. Len(Tail(q[c])) \in Nat /\ Len(q[c]) \in Nat /\ Len(q[c]) <= Buffer
      BY <1>2, <2>1, LenProperties DEF Line
    <3>2. QED BY <1>2, <1>4, <3>1, BufferAssumption
  <2>3. QED BY <1>1, <1>5, <2>1, <2>2 DEF Line
<1>7. QED BY <1>1, <1>3, <1>4, <1>5, <1>6, PumpInv

LEMMA WriteInv ==
  ASSUME Inv, NEW c \in Client, Write(c)
  PROVE  Inv'
<1> USE DEF Inv
<1> DEFINE w == wr[c]
           view == IF w.v # None THEN w.v ELSE got[c].view
           bye == got[c].bye \/ w.k = "bye"
           rest == {f \in due[c] : f.i > w.i}
<1>1. /\ pump[c] = "run" /\ wr[c] # None
      /\ got' = [got EXCEPT ![c] = [view |-> view, bye |-> bye]]
      /\ due' = [due EXCEPT ![c] = rest] /\ wr' = [wr EXCEPT ![c] = None]
      /\ UNCHANGED <<members, owner, closed, todo, hpc, snap, chan, q, pump, conn, n>>
  BY DEF Write, roomVars, handVars
<1>2. w \in Frame /\ q[c] \in Seq(Frame) /\ due[c] \in SUBSET Frame /\ Stream(c) \in Seq(Frame)
  BY <1>1, StreamType
<1>3. /\ view \in View \cup {None} /\ bye \in BOOLEAN /\ rest \in SUBSET Frame
  <2>1. got[c].view \in View \cup {None} /\ got[c].bye \in BOOLEAN
    BY DEF Types
  <2>2. w.v \in View \cup {None}
    BY <1>2 DEF Frame
  <2>3. QED BY <1>2, <2>1, <2>2
<1>4. Stream(c) # <<>> /\ Head(Stream(c)) = w /\ Tail(Stream(c)) = q[c]
  <2>1. Stream(c) = <<w>> \o q[c]
    BY <1>1 DEF Stream
  <2>2. <<w>> \o q[c] # <<>> /\ Head(<<w>> \o q[c]) = w /\ Tail(<<w>> \o q[c]) = q[c]
    BY <1>2, PrependedFrame
  <2>3. QED BY <2>1, <2>2
<1> HIDE DEF w, view, bye, rest
<1>5. Types'
  <2>1. got' \in [Client -> [view : View \cup {None}, bye : BOOLEAN]]
    BY <1>1, <1>3 DEF Types
  <2>2. due' \in [Client -> SUBSET Frame]
    BY <1>1, <1>3 DEF Types
  <2>3. wr' \in [Client -> Frame \cup {None}]
    BY <1>1 DEF Types
  <2>4. QED BY <1>1, <2>1, <2>2, <2>3 DEF Types
<1>6. /\ wr'[c] = None /\ due'[c] = rest /\ got'[c].view = view /\ got'[c].bye = bye
      /\ Stream(c)' = q[c]
      /\ \A d \in Client \ {c} : Same(d) /\ conn'[d] = conn[d]
  <2>1. got'[c] = [view |-> view, bye |-> bye]
    BY <1>1 DEF Types
  <2>2. wr'[c] = None /\ due'[c] = rest
    BY <1>1 DEF Types
  <2>3. \A d \in Client \ {c} : Same(d) /\ conn'[d] = conn[d]
    BY <1>1 DEF Types, Same
  <2>4. QED BY <1>1, <2>1, <2>2, <2>3 DEF Stream
<1>7. Line(c)'
  <2>1. Line(c)
    BY DEF Lines
  <2>2. Gapless(q[c], rest, conn[c] = "up")
    <3> DEFINE up == conn[c] = "up"
    <3>1. Gapless(Stream(c), due[c], up) /\ up \in BOOLEAN
      BY <2>1 DEF Line
    <3> HIDE DEF up
    <3>2. Gapless(Tail(Stream(c)), {f \in due[c] : f.i > Head(Stream(c)).i}, up)
      BY <1>2, <1>4, <3>1, GaplessTail
    <3>3. QED BY <1>4, <3>2 DEF rest, up
  <2>3. ByeLast(q[c], bye)
    <3>1. PICK b : b = got[c].bye
      OBVIOUS
    <3>2. ByeLast(Stream(c), b)
      BY <2>1, <3>1 DEF Line
    <3>3. ByeLast(Tail(Stream(c)), b \/ Head(Stream(c)).k = "bye")
      BY <1>2, <1>4, <3>2, ByeTail
    <3>4. QED BY <1>4, <3>1, <3>3 DEF bye
  <2>4. chan[c] = "open" => ~bye /\ NoBye(q[c])
    BY <1>2, <1>4, <2>1, ByeTail DEF Line, bye
  <2>5. Len(q[c]) <= Buffer /\ \A f \in rest : f.i <= n
    BY <2>1 DEF Line, rest
  <2>6. QED BY <1>1, <1>6, <2>1, <2>2, <2>3, <2>4, <2>5 DEF Line
<1>8. ASSUME NEW v, Newest(Stream(c), got[c].view, v) PROVE Newest(q[c], view, v)
  BY <1>2, <1>4, <1>8, NewestTail DEF view
<1>9. QED BY <1>1, <1>5, <1>6, <1>7, <1>8, PumpInv

-----------------------------------------------------------------------------
(* The whole. *)

LEMMA InitInv ==
  Init => Inv
<1> SUFFICES ASSUME Init PROVE Inv
  OBVIOUS
<1> USE DEF Init
<1>1. <<>> \in Seq(Frame) /\ Len(<<>>) = 0 /\ DOMAIN <<>> = {} /\ 0 <= Buffer
  BY EmptySeq, LenProperties, BufferAssumption
<1>2. Types
  BY <1>1 DEF Types
<1>3. Lines
  <2>1. Gapless(<<>>, {}, TRUE) /\ ByeLast(<<>>, FALSE) /\ NoBye(<<>>)
    BY <1>1 DEF Gapless, ByeLast, NoBye
  <2>2. ASSUME NEW c \in Client PROVE Line(c)
    <3>1. /\ Stream(c) = <<>> /\ due[c] = {} /\ got[c].bye = FALSE /\ conn[c] = "up"
          /\ q[c] = <<>> /\ pump[c] = "run"
      BY DEF Stream
    <3>2. QED BY <1>1, <2>1, <3>1 DEF Line
  <2>3. QED BY <2>2 DEF Lines
<1>4. Channels
  BY DEF Channels
<1>5. Alone
  BY CreatorAssumption DEF Alone
<1>6. Views
  BY DEF Views
<1>7. QED BY <1>2, <1>3, <1>4, <1>5, <1>6 DEF Inv

LEMMA StutterInv ==
  ASSUME Inv, UNCHANGED vars
  PROVE  Inv'
<1> USE DEF Inv
<1>1. UNCHANGED <<members, owner, closed, todo, hpc, snap, chan, q, wr, pump, got, conn, n, due>>
  BY DEF vars, roomVars, handVars, sockVars
<1>2. Types'
  BY <1>1 DEF Types
<1>3. Lines' /\ \A c \in Client : Stream(c)' = Stream(c)
  BY <1>1, QuietLines DEF Shut
<1>4. Channels' /\ Alone'
  BY <1>1 DEF Channels, Alone
<1>5. Views'
  <2>1. Pending => Pending'
    BY <1>1 DEF Pending
  <2>2. \A c \in members : c \in Client
    BY DEF Types
  <2>3. QED BY <1>1, <1>3, <2>1, <2>2, ViewsStay
<1>6. QED BY <1>2, <1>3, <1>4, <1>5

LEMMA NextInv ==
  ASSUME Inv, [Next]_vars
  PROVE  Inv'
<1>1. ASSUME NEW c \in Client, Add(c) \/ Handler(c) PROVE Inv'
  BY <1>1, AddInv, SnapshotInv, WelcomeInv, WelcomeLostInv, PresenceInv DEF Handler
<1>2. ASSUME NEW c \in Client, Chat(c) \/ Leave(c) \/ CloseMember(c) PROVE Inv'
  BY <1>2, ChatInv, LeaveInv, CloseMemberInv
<1>3. ASSUME NEW c \in Client, Pump(c) PROVE Inv'
  BY <1>3, TakeInv, WriteInv, StopInv DEF Pump
<1>4. ASSUME NEW c \in Client, NEW d \in Client, Direct(c, d) \/ Transfer(c, d) \/ Kick(c, d)
      PROVE  Inv'
  BY <1>4, DirectInv, TransferInv, KickInv
<1>5. CASE UNCHANGED vars
  BY <1>5, StutterInv
<1>6. QED BY <1>1, <1>2, <1>3, <1>4, <1>5 DEF Next

\* The inductive invariant: clients, queues and the room in every reachable state.
THEOREM OutboundInvariant == Spec => []Inv
<1>1. Inv /\ [Next]_vars => Inv'
  BY NextInv
<1>2. QED BY InitInv, <1>1, PTL DEF Spec

\* The make(chan, outboundBuffer) of NewClient: no queue exceeds its capacity, and
\* everything queued is a frame.
THEOREM QueuesBounded == Spec => []TypeInv
<1>1. ASSUME Inv PROVE TypeInv
  <2>1. ASSUME NEW c \in Client
        PROVE  /\ Len(q[c]) <= Buffer /\ due[c] \subseteq Frame
               /\ \A i \in DOMAIN Stream(c) : Stream(c)[i] \in Frame
    <3>1. Stream(c) \in Seq(Frame) /\ due[c] \in SUBSET Frame
      BY <1>1, StreamType DEF Inv
    <3>2. \A i \in DOMAIN Stream(c) : Stream(c)[i] \in Frame
      BY <3>1, LenProperties, ElementOfSeq
    <3>3. QED BY <1>1, <3>1, <3>2 DEF Inv, Lines, Line
  <2>2. QED BY <1>1, <2>1 DEF Inv, Types, TypeInv
<1>2. QED BY OutboundInvariant, <1>1, PTL

\* broadcastLocked and WritePump: no gap and no reordering for whoever stays.
THEOREM BroadcastsWithoutGap == Spec => []NoGap
<1>1. Inv => NoGap
  BY DEF Inv, Lines, Line, Gapless, NoGap
<1>2. QED BY OutboundInvariant, <1>1, PTL

\* RemoveMember and Room.Close: nothing is queued behind room_closed.
THEOREM NothingAfterBye == Spec => []ByeIsLast
<1>1. Inv => ByeIsLast
  BY DEF Inv, Lines, Line, ByeLast, ByeIsLast
<1>2. QED BY OutboundInvariant, <1>1, PTL

\* SnapshotMembers, BroadcastPresence and membersInfoLocked: member lists converge,
\* whatever entered, left or took over in between.
THEOREM ViewsConverge == Spec => []ViewConverges
<1>1. ASSUME Inv, \A c \in Client : hpc[c] \in {"enter", "member", "gone"},
             NEW c \in members, conn[c] = "up"
      PROVE  NewestView(c, MembersInfo(members, owner))
  <2>1. ~Pending
    BY <1>1 DEF Pending
  <2>2. Newest(Stream(c), got[c].view, MembersInfo(members, owner))
    BY <1>1, <2>1 DEF Inv, Views
  <2>3. QED BY <2>2 DEF Newest, NewestView
<1>2. Inv => ViewConverges
  BY <1>1 DEF ViewConverges
<1>3. QED BY OutboundInvariant, <1>2, PTL

\* Only a pump that has nothing left ends a connection by itself.
LEMMA EndedByPump ==
  ASSUME Types, [Next]_vars, NEW c \in Client, conn[c] # "ended", conn'[c] = "ended"
  PROVE  PumpEnds(c)
<1>1. conn \in [Client -> {"up", "closing", "down", "ended"}]
  BY DEF Types
<1>2. \A B, D, f, g : ~Deliver(B, f, D, g)
  BY DEF Deliver
<1>3. ~NoSend /\ conn' # conn
  BY DEF NoSend
<1>4. \A d \in Client : ~StopPump(d, "down")
  BY <1>1 DEF StopPump
<1>5. \A d \in Client : StopPump(d, "ended") => d = c
  BY <1>1 DEF StopPump
<1>6. ASSUME NEW d \in Client, Add(d) \/ Handler(d) PROVE FALSE
  BY <1>2, <1>3, <1>4, <1>6
     DEF Add, Handler, SnapshotMembers, Welcome, BroadcastPresence, Send, Broadcast
<1>7. ASSUME NEW d \in Client, Chat(d) \/ Leave(d) \/ CloseMember(d) PROVE FALSE
  BY <1>2, <1>3, <1>7 DEF Chat, Leave, CloseMember, Detach, Send, Broadcast
<1>8. ASSUME NEW d \in Client, NEW e \in Client, Direct(d, e) \/ Transfer(d, e) \/ Kick(d, e)
      PROVE  FALSE
  BY <1>2, <1>3, <1>8 DEF Direct, Transfer, Kick, Detach, Send
<1>9. ASSUME NEW d \in Client, Pump(d) PROVE PumpEnds(c)
  BY <1>3, <1>4, <1>5, <1>9 DEF Pump, Take, Write, PumpFails, ConnFails, PumpEnds
<1>10. QED BY <1>3, <1>6, <1>7, <1>8, <1>9 DEF Next, vars

\* close(out) loses nothing: a pump that ends the connection has written every
\* broadcast addressed to the client.
THEOREM NothingLostAtEnd == Spec => DrainedAtEnd
<1>1. ASSUME Inv, [Next]_vars, NEW c \in Client, conn[c] # "ended", conn'[c] = "ended",
             NEW f \in due[c], IsBroadcast(f)
      PROVE  FALSE
  <2>1. wr[c] = None /\ q[c] = <<>> /\ conn[c] = "up"
    BY <1>1, EndedByPump DEF Inv, PumpEnds
  <2>2. Gapless(<<>>, due[c], TRUE)
    BY <1>1, <2>1 DEF Inv, Lines, Line, Stream
  <2>3. QED BY <1>1, <2>2, EmptySeq, LenProperties DEF Gapless
<1>2. Inv /\ [Next]_vars =>
        [\A c \in Client : conn[c] # "ended" /\ conn'[c] = "ended" =>
           ~\E f \in due[c] : IsBroadcast(f)]_vars
  BY <1>1
<1>3. QED BY OutboundInvariant, <1>2, PTL DEF Spec, DrainedAtEnd
=============================================================================
