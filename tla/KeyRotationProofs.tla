------------------------- MODULE KeyRotationProofs -------------------------
(***************************************************************************)
(* Proofs about KeyRotation, for any number of browsers: the types of the  *)
(* browsers' state; that a joiner never learns a key older than its join,  *)
(* however joins, departures, kicks and transfers overlap; and what a      *)
(* settled room whose changes did not overlap has agreed on.               *)
(*                                                                         *)
(* The first argument is about who can name whom.  A browser that never    *)
(* joined has shown its public key to nobody, so no frame is sealed to it; *)
(* once it joins, every key generated from then on is newer than its join. *)
(* The invariant Inv says this of every frame on its way, both ways.       *)
(*                                                                         *)
(* The second is about how a change completes.  Orderly names the stages   *)
(* of one change: a join on its way in (Join1, Join2, Join3), a request of *)
(* the owner (Asked), an owner that has handed over (Handed), and Flow,    *)
(* where the server's news and the owner's frames spread.  Each says what  *)
(* is on its way to whom, so that a room with nothing under way agrees.    *)
(***************************************************************************)
EXTENDS KeyRotation, SequenceTheorems, FiniteSetTheorems, TLAPS

\* The browsers that ever joined: only their keys are known to anybody.
In == {c \in Client : phase[c] # "out"}

\* A browser that was given a key, and holds one unless it is gone.
Armed(c) == phase[c] = "gone" \/ keys[c] # <<>>

RekeyFrame ==
  {f \in [t : {"rekey"}, target : Client, by : Client, for : In, key : 1 .. nkeys] :
     f.key > born[f.for]}
RosterFrames == [t : {"roster"}, key : Nat, map : [Client -> In \cup {None}]]

\* What a browser c may have on its way to the server ...
UpFrame(c) ==
  {f \in [t : {"member_key"}, j : In, pub : In] : f.j = c \/ hs[f.j] \in {None, c}}
  \cup {f \in [t : {"key_deliver"}, j : In, by : Client, key : 1 .. nkeys] :
          f.j # c /\ hs[f.j] \in {None, c} /\ f.key > born[f.j]}
  \cup RekeyFrame \cup RosterFrames
  \cup {f \in [t : {"enter"}, j : {c}] : Armed(c)}
  \cup [t : {"kick", "transfer"}, target : Client]
  \cup [t : {"leave"}]

\* ... and from it.  Only a member that has a key is told of the membership.
DownFrame(c) ==
  {f \in [t : {"member_key"}, j : In, pub : In] : f.j = c \/ hs[f.j] \in {None, c}}
  \cup {f \in [t : {"key_deliver"}, j : In \cap {c}, by : Client, key : 1 .. nkeys] :
          f.key > born[c]}
  \cup RekeyFrame \cup RosterFrames
  \cup {f \in [t : {"welcome", "presence"}, m : SUBSET Client, o : Client \cup {None}] :
          Armed(c)}
  \cup [t : {"room_closed"}]

UpOK == up = [c \in Client |-> up[c]] /\ \A c \in Client : up[c] \in Seq(UpFrame(c))

DownOK ==
  /\ down = [c \in Client |-> down[c]]
  /\ \A c \in Client : down[c] \in Seq(DownFrame(c)) /\ (down[c] # <<>> => Online(c))

Counters ==
  /\ nkeys \in Nat /\ keys \in [Client -> Seq(Nat)] /\ born \in [Client -> Nat]
  /\ \A c \in Client : born[c] <= nkeys /\ (phase[c] = "out" => learned[c] = {})

Acquainted == \A c, d \in Client : {pubs[c][d], first[c]} \subseteq In \cup {None}

KeyHolders == \A c \in Client : c \in members \/ spc[c] = "welcome" => Armed(c)

Inv == /\ TypeInv /\ NoPreJoinKey /\ UpOK /\ DownOK
       /\ Counters /\ Acquainted /\ KeyHolders

-----------------------------------------------------------------------------
(* Frames stay good while their senders and receivers go on. *)

\* What no step undoes: who joined, when, and who was given a key; a handshake
\* of a browser that joined can only end.
Grows ==
  /\ In \subseteq In' /\ nkeys' \in Nat /\ nkeys <= nkeys'
  /\ \A d \in In : born'[d] = born[d] /\ hs'[d] \in {hs[d], None}
  /\ \A d \in Client : Armed(d) => Armed(d)'

LEMMA FramesStay ==
  ASSUME Counters, Grows, NEW c \in Client
  PROVE  UpFrame(c) \subseteq UpFrame(c)' /\ DownFrame(c) \subseteq DownFrame(c)'
<1>1. nkeys \in Nat /\ nkeys' \in Nat /\ 1 .. nkeys \subseteq 1 .. nkeys'
  BY DEF Counters, Grows
<1>2. RekeyFrame \subseteq RekeyFrame'
  BY <1>1 DEF RekeyFrame, Grows
<1>3. RosterFrames \subseteq RosterFrames'
  BY DEF RosterFrames, Grows
<1>4. \A d \in In : d \in In' /\ born'[d] = born[d] /\ (hs[d] \in {None, c} => hs'[d] \in {None, c})
  BY DEF Grows
<1>5. Armed(c) => Armed(c)'
  BY DEF Grows
<1>6. UpFrame(c) \subseteq UpFrame(c)'
  BY <1>1, <1>2, <1>3, <1>4, <1>5 DEF UpFrame
<1>7. DownFrame(c) \subseteq DownFrame(c)'
  BY <1>1, <1>2, <1>3, <1>4, <1>5 DEF DownFrame
<1>8. QED BY <1>6, <1>7

LEMMA QueuesStay ==
  ASSUME Counters, UpOK, DownOK, Grows, NEW c \in Client
  PROVE  up[c] \in Seq(UpFrame(c)') /\ down[c] \in Seq(DownFrame(c)')
  BY FramesStay, SeqMonotonic DEF UpOK, DownOK

\* What the type of a frame says about it.
LEMMA UpKinds ==
  ASSUME NEW c \in Client, NEW f \in UpFrame(c)
  PROVE  /\ f.t = "member_key" => /\ f \in [t : {"member_key"}, j : In, pub : In]
                                  /\ f.j = c \/ hs[f.j] \in {None, c}
         /\ f.t = "key_deliver" =>
              /\ f \in [t : {"key_deliver"}, j : In, by : Client, key : 1 .. nkeys]
              /\ f.j # c /\ hs[f.j] \in {None, c} /\ f.key > born[f.j]
         /\ f.t = "rekey" => f \in RekeyFrame
         /\ f.t = "roster" => f \in RosterFrames
         /\ f.t = "enter" => Armed(c)
         /\ f.t \in {"kick", "transfer"} => f.target \in Client
  BY DEF UpFrame, RekeyFrame, RosterFrames

LEMMA DownKinds ==
  ASSUME NEW c \in Client, NEW f \in DownFrame(c)
  PROVE  /\ f.t = "member_key" => /\ f.j \in In /\ f.pub \in In
                                  /\ f.j = c \/ hs[f.j] \in {None, c}
         /\ f.t = "key_deliver" => c \in In /\ f.key \in 1 .. nkeys /\ f.key > born[c]
         /\ f.t = "rekey" => f.for \in In /\ f.key \in 1 .. nkeys /\ f.key > born[f.for]
         /\ f.t = "roster" => f.map \in [Client -> In \cup {None}]
         /\ f.t \in {"welcome", "presence"} =>
              f.m \subseteq Client /\ f.o \in Client \cup {None} /\ Armed(c)
  BY DEF DownFrame, RekeyFrame, RosterFrames

\* The first frame of a queue, and the rest.
LEMMA Heads ==
  ASSUME UpOK, DownOK, NEW c \in Client
  PROVE  /\ up[c] # <<>> => Head(up[c]) \in UpFrame(c) /\ Tail(up[c]) \in Seq(UpFrame(c))
         /\ down[c] # <<>> => /\ Head(down[c]) \in DownFrame(c)
                              /\ Tail(down[c]) \in Seq(DownFrame(c))
<1>1. up[c] \in Seq(UpFrame(c)) /\ down[c] \in Seq(DownFrame(c))
  BY DEF UpOK, DownOK
<1>2. QED BY <1>1, HeadTailProperties

\* The server took a frame of c, or c sent s.
LEMMA ServedOK ==
  ASSUME Counters, UpOK, DownOK, Grows, NEW c \in Client, up[c] # <<>>, Served(c)
  PROVE  UpOK'
<1>1. up' = [up EXCEPT ![c] = Tail(up[c])]
  BY DEF Served
<1>2. Tail(up[c]) \in Seq(UpFrame(c)')
  BY QueuesStay, HeadTailProperties
<1>3. \A d \in Client : up'[d] = IF d = c THEN Tail(up[c]) ELSE up[d]
  BY <1>1 DEF UpOK
<1>4. up' = [d \in Client |-> up'[d]]
  BY <1>1 DEF UpOK
<1>5. QED BY <1>2, <1>3, <1>4, QueuesStay DEF UpOK

LEMMA SendsOK ==
  ASSUME Counters, UpOK, DownOK, Grows, NEW c \in Client, NEW s \in Seq(UpFrame(c)'),
         Sends(c, s)
  PROVE  UpOK'
<1>1. up' = [up EXCEPT ![c] = up[c] \o s]
  BY DEF Sends
<1>2. up[c] \o s \in Seq(UpFrame(c)')
  BY QueuesStay, ConcatProperties
<1>3. \A d \in Client : up'[d] = IF d = c THEN up[c] \o s ELSE up[d]
  BY <1>1 DEF UpOK
<1>4. up' = [d \in Client |-> up'[d]]
  BY <1>1 DEF UpOK
<1>5. QED BY <1>2, <1>3, <1>4, QueuesStay DEF UpOK

LEMMA UpStays ==
  ASSUME Counters, UpOK, DownOK, Grows, UNCHANGED up
  PROVE  UpOK'
  BY QueuesStay DEF UpOK

\* The browser c took a frame.
LEMMA HandledOK ==
  ASSUME Counters, UpOK, DownOK, Grows, NEW c \in Client, down[c] # <<>>, Handled(c),
         \A d \in Client : Online(d) => Online(d)'
  PROVE  DownOK'
<1>1. down' = [down EXCEPT ![c] = Tail(down[c])]
  BY DEF Handled
<1>2. Tail(down[c]) \in Seq(DownFrame(c)')
  BY QueuesStay, HeadTailProperties
<1>3. \A d \in Client : down'[d] = IF d = c THEN Tail(down[c]) ELSE down[d]
  BY <1>1 DEF DownOK
<1>4. down' = [d \in Client |-> down'[d]]
  BY <1>1 DEF DownOK
<1>5. QED BY <1>2, <1>3, <1>4, QueuesStay DEF DownOK

\* The server sent every browser d that is online the frames s[d].
LEMMA DeliveredOK ==
  ASSUME Counters, UpOK, DownOK, Grows, NEW s, UNCHANGED phase,
         down' = [d \in Client |-> down'[d]],
         \A d \in Client : \/ down'[d] = down[d]
                           \/ /\ Online(d) /\ s[d] \in Seq(DownFrame(d)')
                              /\ down'[d] = down[d] \o s[d]
  PROVE  DownOK'
<1> SUFFICES ASSUME NEW d \in Client
             PROVE  down'[d] \in Seq(DownFrame(d)') /\ (down'[d] # <<>> => Online(d)')
  BY DEF DownOK
<1>1. Online(d) => Online(d)'
  BY DEF Online
<1>2. down[d] \in Seq(DownFrame(d)') /\ (down[d] # <<>> => Online(d))
  BY QueuesStay DEF DownOK
<1>3. CASE down'[d] = down[d]
  BY <1>1, <1>2, <1>3
<1>4. CASE Online(d) /\ s[d] \in Seq(DownFrame(d)') /\ down'[d] = down[d] \o s[d]
  BY <1>1, <1>2, <1>4, ConcatProperties
<1>5. QED BY <1>3, <1>4

LEMMA ToEachOK ==
  ASSUME Counters, UpOK, DownOK, Grows, UNCHANGED phase, NEW S, NEW f, ToEach(S, f),
         \A d \in Client \cap S : f \in DownFrame(d)'
  PROVE  DownOK'
<1> DEFINE s == [d \in Client |-> <<f>>]
<1>1. down' = [d \in Client |-> down'[d]]
  BY DEF ToEach
<1>2. ASSUME NEW d \in Client
      PROVE  \/ down'[d] = down[d]
             \/ /\ Online(d) /\ s[d] \in Seq(DownFrame(d)')
                /\ down'[d] = down[d] \o s[d]
  <2>1. CASE d \in S /\ Online(d)
    <3>1. down'[d] = Append(down[d], f) /\ f \in DownFrame(d)'
      BY <2>1 DEF ToEach
    <3>2. down[d] \in Seq(DownFrame(d)')
      BY QueuesStay
    <3>3. Append(down[d], f) = down[d] \o <<f>>
      BY <3>1, <3>2, AppendIsConcat
    <3>4. QED BY <2>1, <3>1, <3>3
  <2>2. CASE ~(d \in S /\ Online(d))
    BY <2>2 DEF ToEach
  <2>3. QED BY <2>1, <2>2
<1> HIDE DEF s
<1>3. QED BY <1>1, <1>2, DeliveredOK

LEMMA DownStays ==
  ASSUME Counters, UpOK, DownOK, Grows, UNCHANGED <<down, phase>>
  PROVE  DownOK'
  BY QueuesStay DEF DownOK, Online

-----------------------------------------------------------------------------
(* The server. *)

\* No handler changes what the browsers hold; handshakes only end.
LEMMA ServerGrows ==
  ASSUME Inv, UNCHANGED <<clientVars, history>>,
         \A d \in Client : hs'[d] \in {hs[d], None}
  PROVE  Grows
  BY DEF Inv, Counters, Grows, In, Armed, clientVars, history

LEMMA ServerInv ==
  ASSUME Inv, UNCHANGED <<clientVars, history>>, UpOK', DownOK',
         members' \subseteq Client, owner' \in Client \cup {None},
         hs' \in [Client -> Client \cup {None}],
         spc' \in [Client -> {"read", "welcome", "presence"}],
         \A d \in Client : /\ d \in members' => d \in members \/ Armed(d)
                           /\ spc'[d] = "welcome" => spc[d] = "welcome" \/ Armed(d)
  PROVE  Inv'
<1> USE DEF clientVars, history
<1>1. TypeInv' /\ NoPreJoinKey' /\ Counters' /\ Acquainted'
  BY DEF Inv, TypeInv, NoPreJoinKey, Counters, Acquainted, In
<1>2. KeyHolders'
  BY DEF Inv, KeyHolders, Armed
<1>3. QED BY <1>1, <1>2 DEF Inv

LEMMA RelayHandshakeInv ==
  ASSUME Inv, NEW c \in Client, RelayHandshake(c)
  PROVE  Inv'
<1> USE DEF Inv
<1> DEFINE f == Head(up[c])
           j == f.j
           peer == IF hs[j] = None THEN {} ELSE {j, hs[j]} \ {c}
<1>1. /\ up[c] # <<>> /\ f.t \in {"member_key", "key_deliver"}
      /\ ToEach(peer, f) /\ Served(c) /\ UNCHANGED <<serverVars, clientVars, history>>
  BY DEF RelayHandshake, NextOf
<1>2. Grows
  BY <1>1, ServerGrows DEF serverVars, TypeInv
<1>3. f \in UpFrame(c)
  BY <1>1, Heads
<1>4. ASSUME NEW d \in Client \cap peer
      PROVE  f \in DownFrame(d)
  <2>1. hs[j] # None /\ d \in {j, hs[j]} /\ d # c
    OBVIOUS
  <2> HIDE DEF f, peer
  <2>2. CASE f.t = "member_key"
    <3>1. f \in [t : {"member_key"}, j : In, pub : In] /\ (f.j = c \/ hs[f.j] \in {None, c})
      BY <1>3, <2>2, UpKinds
    <3>2. f.j = d \/ hs[f.j] \in {None, d}
      BY <2>1, <3>1
    <3>3. QED BY <3>1, <3>2 DEF DownFrame
  <2>3. CASE f.t = "key_deliver"
    <3>1. /\ f \in [t : {"key_deliver"}, j : In, by : Client, key : 1 .. nkeys]
          /\ f.j # c /\ hs[f.j] \in {None, c} /\ f.key > born[f.j]
      BY <1>3, <2>3, UpKinds
    <3>2. f.j = d
      BY <2>1, <3>1
    <3>3. f \in [t : {"key_deliver"}, j : In \cap {d}, by : Client, key : 1 .. nkeys]
      BY <3>1, <3>2
    <3>4. QED BY <3>1, <3>2, <3>3 DEF DownFrame
  <2>4. QED BY <1>1, <2>2, <2>3
<1>5. \A d \in Client \cap peer : f \in DownFrame(d)'
  BY <1>2, <1>4, FramesStay
<1> HIDE DEF f, peer
<1>6. DownOK'
  BY <1>1, <1>2, <1>5, ToEachOK DEF clientVars
<1>7. UpOK'
  BY <1>1, <1>2, ServedOK
<1>8. QED BY <1>1, <1>6, <1>7, ServerInv DEF serverVars, TypeInv

LEMMA EnterInv ==
  ASSUME Inv, NEW j \in Client, Enter(j)
  PROVE  Inv'
<1> USE DEF Inv
<1>1. /\ up[j] # <<>> /\ Head(up[j]).t = "enter" /\ Served(j)
      /\ hs' = [hs EXCEPT ![j] = None] /\ UNCHANGED <<owner, clientVars, history>>
  BY DEF Enter, NextOf
<1>2. Armed(j)
  BY <1>1, Heads, UpKinds
<1>3. Grows
  BY <1>1, ServerGrows DEF TypeInv
<1>4. UpOK'
  BY <1>1, <1>3, ServedOK
<1>5. DownOK'
  <2>1. CASE ToEach({j}, RoomClosed)
    <3>1. \A d \in Client \cap {j} : RoomClosed \in DownFrame(d)'
      BY DEF RoomClosed, DownFrame
    <3>2. QED BY <1>1, <1>3, <2>1, <3>1, ToEachOK DEF clientVars
  <2>2. CASE UNCHANGED down
    BY <1>1, <1>3, <2>2, DownStays DEF clientVars
  <2>3. QED BY <2>1, <2>2 DEF Enter
<1>6. /\ members' \subseteq Client /\ \A d \in Client : d \in members' => d \in members \/ Armed(d)
      /\ spc' \in [Client -> {"read", "welcome", "presence"}]
      /\ \A d \in Client : spc'[d] = "welcome" => spc[d] = "welcome" \/ Armed(d)
  BY <1>2 DEF Enter, TypeInv
<1>7. owner' \in Client \cup {None} /\ hs' \in [Client -> Client \cup {None}]
  BY <1>1 DEF TypeInv
<1>8. QED BY <1>1, <1>4, <1>5, <1>6, <1>7, ServerInv

LEMMA AnnounceInv ==
  ASSUME Inv, NEW c \in Client, Announce(c)
  PROVE  Inv'
<1> USE DEF Inv
<1> DEFINE p == Presence(members, owner)
           w == [p EXCEPT !.t = "welcome"]
           s == [d \in Client |-> IF d = c /\ spc[c] = "welcome" THEN <<w, p>> ELSE <<p>>]
<1>1. /\ down' = [d \in Client |-> IF d \notin members \/ ~Online(d) THEN down[d]
                                   ELSE down[d] \o s[d]]
      /\ spc' = [spc EXCEPT ![c] = "read"]
      /\ UNCHANGED <<members, owner, hs, up, clientVars, history>>
  BY DEF Announce
<1>2. Grows
  BY <1>1, ServerGrows DEF TypeInv
<1>3. ASSUME NEW d \in members PROVE s[d] \in Seq(DownFrame(d))
  <2>1. d \in Client /\ Armed(d)
    BY DEF KeyHolders, TypeInv
  <2>2. p \in DownFrame(d) /\ w \in DownFrame(d)
    BY <2>1 DEF Presence, DownFrame, TypeInv
  <2> HIDE DEF p, w
  <2>3. QED BY <2>1, <2>2
<1> HIDE DEF s
<1>4. \A d \in members : s[d] \in Seq(DownFrame(d)')
  BY <1>2, <1>3, FramesStay, SeqMonotonic DEF TypeInv
<1>5. DownOK'
  <2>1. down' = [d \in Client |-> down'[d]]
    BY <1>1
  <2>2. \A d \in Client : \/ down'[d] = down[d]
                          \/ /\ Online(d) /\ s[d] \in Seq(DownFrame(d)')
                             /\ down'[d] = down[d] \o s[d]
    BY <1>1, <1>4
  <2>3. QED BY <1>1, <1>2, <2>1, <2>2, DeliveredOK DEF clientVars
<1>6. UpOK'
  BY <1>1, <1>2, UpStays
<1>7. QED BY <1>1, <1>5, <1>6, ServerInv DEF TypeInv

\* handleRekey and handleRoster: to some members, unchanged.
LEMMA RelayInv ==
  ASSUME Inv, NEW c \in Client, HandleRekey(c) \/ HandleRoster(c)
  PROVE  Inv'
<1> USE DEF Inv
<1> DEFINE f == Head(up[c])
<1>1. PICK S : /\ up[c] # <<>> /\ f.t \in {"rekey", "roster"} /\ ToEach(S, f) /\ Served(c)
               /\ UNCHANGED <<serverVars, clientVars, history>>
  BY DEF HandleRekey, HandleRoster, NextOf
<1>2. Grows
  BY <1>1, ServerGrows DEF serverVars, TypeInv
<1>3. f \in UpFrame(c)
  BY <1>1, Heads
<1> HIDE DEF f
<1>4. f \in RekeyFrame \cup RosterFrames
  BY <1>1, <1>3, UpKinds
<1>5. \A d \in Client \cap S : f \in DownFrame(d)'
  <2>1. \A d \in Client : f \in DownFrame(d)
    BY <1>4 DEF DownFrame
  <2>2. QED BY <1>2, <2>1, FramesStay
<1>6. DownOK'
  BY <1>1, <1>2, <1>5, ToEachOK DEF clientVars
<1>7. UpOK'
  BY <1>1, <1>2, ServedOK
<1>8. QED BY <1>1, <1>6, <1>7, ServerInv DEF serverVars, TypeInv

LEMMA HandleTransferInv ==
  ASSUME Inv, NEW c \in Client, HandleTransfer(c)
  PROVE  Inv'
<1> USE DEF Inv
<1>1. /\ up[c] # <<>> /\ Head(up[c]).t = "transfer" /\ Served(c)
      /\ UNCHANGED <<members, hs, down, clientVars, history>>
  BY DEF HandleTransfer, NextOf
<1>2. Grows
  BY <1>1, ServerGrows DEF TypeInv
<1>3. UpOK' /\ DownOK'
  BY <1>1, <1>2, ServedOK, DownStays DEF clientVars
<1>4. owner' \in Client \cup {None}
  BY DEF HandleTransfer, TypeInv
<1>5. /\ spc' \in [Client -> {"read", "welcome", "presence"}]
      /\ \A d \in Client : spc'[d] = "welcome" => spc[d] = "welcome"
  BY DEF HandleTransfer, TypeInv
<1>6. QED BY <1>1, <1>3, <1>4, <1>5, ServerInv DEF TypeInv

\* Whoever is taken out of the room, the others are told.
LEMMA RemovedOK ==
  ASSUME Inv, Grows, NEW d, NEW told, Removed(d, told), UNCHANGED <<clientVars, history>>
  PROVE  DownOK' /\ members' \subseteq members /\ owner' = owner
<1> USE DEF Inv
<1> DEFINE rest == members \ {d}
           p == Presence(rest, owner)
           s == [e \in Client |-> IF e \in told THEN <<RoomClosed>> ELSE <<p>>]
<1>1. /\ members' = rest /\ owner' = owner
      /\ down' = [e \in Client |-> IF ~Online(e) THEN down[e]
                                   ELSE IF e \in told THEN Append(down[e], RoomClosed)
                                   ELSE IF e \in rest THEN Append(down[e], p)
                                   ELSE down[e]]
  BY DEF Removed
<1>2. ASSUME NEW e \in Client
      PROVE  \/ down'[e] = down[e]
             \/ /\ Online(e) /\ s[e] \in Seq(DownFrame(e)')
                /\ down'[e] = down[e] \o s[e]
  <2>1. down[e] \in Seq(DownFrame(e)')
    BY QueuesStay
  <2>2. RoomClosed \in DownFrame(e)'
    BY DEF RoomClosed, DownFrame
  <2>3. e \in rest => p \in DownFrame(e)'
    <3>1. e \in rest => p \in DownFrame(e)
      BY DEF DownFrame, Presence, TypeInv, KeyHolders
    <3>2. QED BY <3>1, FramesStay
  <2> HIDE DEF p
  <2>4. CASE Online(e) /\ e \in told
    <3>1. down'[e] = Append(down[e], RoomClosed) /\ s[e] = <<RoomClosed>>
      BY <1>1, <2>4
    <3>2. QED BY <2>1, <2>2, <2>4, <3>1, AppendIsConcat
  <2>5. CASE Online(e) /\ e \notin told /\ e \in rest
    <3>1. down'[e] = Append(down[e], p) /\ s[e] = <<p>>
      BY <1>1, <2>5
    <3>2. QED BY <2>1, <2>3, <2>5, <3>1, AppendIsConcat
  <2>6. CASE ~Online(e) \/ (e \notin told /\ e \notin rest)
    BY <1>1, <2>6
  <2>7. QED BY <2>4, <2>5, <2>6
<1>3. down' = [e \in Client |-> down'[e]]
  BY <1>1
<1> HIDE DEF s, p
<1>4. DownOK'
  BY <1>2, <1>3, DeliveredOK DEF clientVars
<1>5. QED BY <1>1, <1>4

LEMMA HandleKickInv ==
  ASSUME Inv, NEW c \in Client, HandleKick(c)
  PROVE  Inv'
<1> USE DEF Inv
<1> DEFINE d == Head(up[c]).target
<1>1. up[c] # <<>> /\ Served(c) /\ UNCHANGED <<hs, spc, clientVars, history>>
  BY DEF HandleKick, NextOf
<1>2. Grows
  BY <1>1, ServerGrows DEF TypeInv
<1>3. UpOK'
  BY <1>1, <1>2, ServedOK
<1>4. Removed(d, {d}) \/ UNCHANGED <<members, owner, down>>
  BY DEF HandleKick
<1>5. DownOK' /\ members' \subseteq members /\ owner' = owner
  BY <1>1, <1>2, <1>4, RemovedOK, DownStays DEF clientVars
<1>6. QED BY <1>1, <1>3, <1>5, ServerInv DEF TypeInv

LEMMA LeaveInv ==
  ASSUME Inv, NEW c \in Client, Leave(c)
  PROVE  Inv'
<1> USE DEF Inv
<1>1. /\ up[c] # <<>> /\ Served(c) /\ UNCHANGED <<spc, clientVars, history>>
      /\ hs' = [j \in Client |-> IF c \in {j, hs[j]} THEN None ELSE hs[j]]
  BY DEF Leave, NextOf
<1>2. hs' \in [Client -> Client \cup {None}] /\ \A d \in Client : hs'[d] \in {hs[d], None}
  BY <1>1 DEF TypeInv
<1>3. Grows
  BY <1>1, <1>2, ServerGrows
<1>4. UpOK'
  BY <1>1, <1>3, ServedOK
<1>5. DownOK' /\ members' \subseteq members /\ owner' \in {owner, None}
  <2>1. CASE c = owner
    <3>1. members' = {} /\ owner' = None /\ ToEach(members \ {c}, RoomClosed)
      BY <2>1 DEF Leave
    <3>2. \A d \in Client \cap (members \ {c}) : RoomClosed \in DownFrame(d)'
      BY DEF RoomClosed, DownFrame
    <3>3. QED BY <1>1, <1>3, <3>1, <3>2, ToEachOK DEF clientVars
  <2>2. CASE c \in members /\ c # owner
    <3>1. Removed(c, {})
      BY <2>2 DEF Leave
    <3>2. QED BY <1>1, <1>3, <3>1, RemovedOK
  <2>3. CASE c \notin members /\ c # owner
    <3>1. UNCHANGED <<members, owner, down>>
      BY <2>3 DEF Leave
    <3>2. QED BY <1>1, <1>3, <3>1, DownStays DEF clientVars
  <2>4. QED BY <2>1, <2>2, <2>3
<1>6. QED BY <1>1, <1>2, <1>4, <1>5, ServerInv DEF TypeInv

-----------------------------------------------------------------------------
(* The browsers. *)

\* pushKey keeps at least the new key and at most MaxKeptKeys.
LEMMA PushedType ==
  ASSUME NEW c \in Client, NEW k \in Nat, keys[c] \in Seq(Nat), Len(keys[c]) <= MaxKeptKeys
  PROVE  Pushed(c, k) \in Seq(Nat) /\ Pushed(c, k) # <<>> /\ Len(Pushed(c, k)) <= MaxKeptKeys
<1> DEFINE s == <<k>> \o keys[c]
           n == IF Len(keys[c]) < MaxKeptKeys THEN Len(keys[c]) + 1 ELSE MaxKeptKeys
<1>1. <<k>> \in Seq(Nat) /\ Len(<<k>>) = 1
  OBVIOUS
<1>2. s \in Seq(Nat) /\ Len(s) = 1 + Len(keys[c])
  BY <1>1, ConcatProperties
<1>3. Len(keys[c]) \in Nat /\ n \in 1 .. MaxKeptKeys /\ n <= Len(s)
  BY <1>2, KeptAssumption
<1> HIDE DEF s, n
<1>4. SubSeq(s, 1, n) \in Seq(Nat) /\ Len(SubSeq(s, 1, n)) = n
  BY <1>2, <1>3, SubSeqProperties, KeptAssumption
<1>5. Pushed(c, k) = SubSeq(s, 1, n)
  BY DEF Pushed, s, n
<1>6. QED BY <1>3, <1>4, <1>5, KeptAssumption

\* What a browser's step may do to the keys: nothing, or add one that is newer
\* than the browser's join.
KeysMove ==
  /\ keys' \in [Client -> Seq(Nat)] /\ learned' \in [Client -> SUBSET (1 .. nkeys')]
  /\ nkeys' \in Nat /\ nkeys <= nkeys' /\ UNCHANGED born
  /\ \A d \in Client : /\ Len(keys'[d]) <= MaxKeptKeys
                       /\ keys'[d] = keys[d] \/ keys'[d] # <<>>
                       /\ learned'[d] = learned[d] \/ d \in In
                       /\ \A k \in learned'[d] : k > born[d]

LEMMA KeysStay ==
  ASSUME Inv, UNCHANGED <<keys, learned, born, nkeys>>
  PROVE  KeysMove
  BY DEF Inv, TypeInv, NoPreJoinKey, Counters, KeysMove

LEMMA PushMoves ==
  ASSUME Inv, NEW c \in In, NEW k, PushKey(c, k), k > born[c],
         nkeys' \in Nat, nkeys <= nkeys', k \in 1 .. nkeys', UNCHANGED born
  PROVE  KeysMove
<1> USE DEF Inv
<1>1. /\ keys' = [keys EXCEPT ![c] = Pushed(c, k)] /\ c \in Client /\ k \in Nat
      /\ learned' = [learned EXCEPT ![c] = learned[c] \cup {k}]
  BY DEF PushKey, In
<1>2. Pushed(c, k) \in Seq(Nat) /\ Pushed(c, k) # <<>> /\ Len(Pushed(c, k)) <= MaxKeptKeys
  BY <1>1, PushedType DEF TypeInv, Counters
<1>3. keys' \in [Client -> Seq(Nat)]
  BY <1>1, <1>2 DEF Counters
<1>4. \A d \in Client : keys'[d] = IF d = c THEN Pushed(c, k) ELSE keys[d]
  BY <1>1 DEF Counters
<1>5. 1 .. nkeys \subseteq 1 .. nkeys'
  BY DEF Counters
<1>6. learned' \in [Client -> SUBSET (1 .. nkeys')]
  BY <1>1, <1>5 DEF TypeInv
<1>7. \A d \in Client : learned'[d] = IF d = c THEN learned[c] \cup {k} ELSE learned[d]
  BY <1>1 DEF TypeInv
<1>8. \A d \in Client : Len(keys'[d]) <= MaxKeptKeys /\ (keys'[d] = keys[d] \/ keys'[d] # <<>>)
  BY <1>2, <1>4 DEF TypeInv
<1>9. \A d \in Client : /\ learned'[d] = learned[d] \/ d \in In
                        /\ \A i \in learned'[d] : i > born[d]
  BY <1>7 DEF NoPreJoinKey
<1>10. QED BY <1>3, <1>6, <1>8, <1>9 DEF KeysMove

\* A browser that handles a frame is online and joined.
LEMMA HandlerOnline ==
  ASSUME Inv, NEW c \in Client, NEW t, NextFor(c, t)
  PROVE  /\ down[c] # <<>> /\ Online(c) /\ c \in In
         /\ Head(down[c]) \in DownFrame(c) /\ Head(down[c]).t = t
<1>1. down[c] # <<>> /\ Head(down[c]).t = t
  BY DEF NextFor
<1>2. Head(down[c]) \in DownFrame(c)
  BY <1>1, Heads DEF Inv
<1>3. Online(c)
  BY <1>1 DEF Inv, DownOK
<1>4. QED BY <1>1, <1>2, <1>3 DEF Online, In

LEMMA BrowserGrows ==
  ASSUME Inv, UNCHANGED <<serverVars, phase>>, KeysMove
  PROVE  Grows
  BY DEF Inv, TypeInv, KeysMove, Grows, In, Armed, serverVars

\* A browser's step that leaves its phase alone.
LEMMA BrowserInv ==
  ASSUME Inv, UNCHANGED <<serverVars, phase>>, KeysMove, UpOK', DownOK',
         pubs' \in [Client -> [Client -> In \cup {None}]],
         first' \in [Client -> In \cup {None}], oid' \in [Client -> Client \cup {None}],
         known' \in [Client -> SUBSET Client], seen' \in [Client -> SUBSET Client]
  PROVE  Inv'
<1> USE DEF Inv
<1>1. In \subseteq Client /\ In' = In
  BY DEF In
<1>2. TypeInv'
  <2>1. \A d \in Client : /\ Len(keys'[d]) <= MaxKeptKeys
                          /\ phase'[d] = "member" => keys'[d] # <<>>
    BY DEF KeysMove, TypeInv
  <2>2. pubs' \in [Client -> [Client -> Client \cup {None}]] /\ first' \in [Client -> Client \cup {None}]
    BY <1>1
  <2>3. QED BY <2>1, <2>2 DEF TypeInv, KeysMove, serverVars
<1>3. NoPreJoinKey'
  BY DEF NoPreJoinKey, KeysMove
<1>4. Counters'
  <2>1. \A d \in Client : born'[d] \in Nat /\ born'[d] <= nkeys'
    BY DEF Counters, KeysMove
  <2>2. \A d \in Client : phase'[d] = "out" => learned'[d] = {}
    BY DEF Counters, KeysMove, In
  <2>3. QED BY <2>1, <2>2 DEF Counters, KeysMove
<1>5. Acquainted'
  BY <1>1 DEF Acquainted
<1>6. KeyHolders'
  BY DEF KeyHolders, Armed, KeysMove, serverVars
<1>7. QED BY <1>2, <1>3, <1>4, <1>5, <1>6

LEMMA OwnTypes ==
  ASSUME Inv
  PROVE  /\ pubs \in [Client -> [Client -> In \cup {None}]]
         /\ first \in [Client -> In \cup {None}]
         /\ oid \in [Client -> Client \cup {None}]
         /\ known \in [Client -> SUBSET Client] /\ seen \in [Client -> SUBSET Client]
  BY DEF Inv, TypeInv, Acquainted

\* The handlers that neither generate a key nor send.
LEMMA QuietInv ==
  ASSUME Inv, NEW c \in Client,
         OnOwnerKey(c) \/ ApplyRoster(c) \/ OnPresenceMember(c)
  PROVE  Inv'
<1> DEFINE f == Head(down[c])
<1>1. PICK t : NextFor(c, t)
  BY DEF OnOwnerKey, ApplyRoster, OnPresenceMember
<1>2. Handled(c) /\ UNCHANGED <<serverVars, up, phase, keys, known, history>>
  BY DEF OnOwnerKey, ApplyRoster, OnPresenceMember
<1>3. KeysMove
  BY <1>2, KeysStay DEF history
<1>4. Grows
  BY <1>2, <1>3, BrowserGrows
<1>5. down[c] # <<>> /\ f \in DownFrame(c)
  BY <1>1, HandlerOnline
<1>6. UpOK' /\ DownOK'
  BY <1>2, <1>4, <1>5, UpStays, HandledOK DEF Inv, Online
<1> HIDE DEF f
<1>7. first' \in [Client -> In \cup {None}]
  <2>1. OnOwnerKey(c) => f.pub \in In /\ first' = [first EXCEPT ![c] = f.pub]
    BY <1>5, DownKinds DEF OnOwnerKey, NextFor, f
  <2>2. ~OnOwnerKey(c) => UNCHANGED first
    BY DEF ApplyRoster, OnPresenceMember
  <2>3. QED BY <2>1, <2>2, OwnTypes
<1>8. pubs' \in [Client -> [Client -> In \cup {None}]]
  <2>1. CASE UNCHANGED pubs
    BY <2>1, OwnTypes
  <2>2. CASE ApplyRoster(c)
    <3> DEFINE q == [d \in Client |-> IF f.map[d] # None THEN f.map[d] ELSE pubs[c][d]]
    <3>1. f.map \in [Client -> In \cup {None}]
      BY <1>5, <2>2, DownKinds DEF ApplyRoster, NextFor, f
    <3>2. q \in [Client -> In \cup {None}]
      BY <3>1, OwnTypes
    <3>3. UNCHANGED pubs \/ pubs' = [pubs EXCEPT ![c] = q]
      BY <2>2 DEF ApplyRoster, f
    <3> HIDE DEF q
    <3>4. QED BY <3>2, <3>3, OwnTypes
  <2>3. QED BY <2>1, <2>2 DEF OnOwnerKey, OnPresenceMember
<1>9. seen' \in [Client -> SUBSET Client] /\ oid' \in [Client -> Client \cup {None}]
  <2>1. CASE UNCHANGED <<seen, oid>>
    BY <2>1, OwnTypes
  <2>2. CASE OnPresenceMember(c)
    <3>1. f.m \subseteq Client /\ f.o \in Client \cup {None}
      BY <1>5, <2>2, DownKinds DEF OnPresenceMember, NextFor, f
    <3>2. seen' = [seen EXCEPT ![c] = f.m] /\ oid' = [oid EXCEPT ![c] = f.o]
      BY <2>2 DEF OnPresenceMember, f
    <3>3. QED BY <3>1, <3>2, OwnTypes
  <2>3. QED BY <2>1, <2>2 DEF OnOwnerKey, ApplyRoster
<1>10. known' \in [Client -> SUBSET Client]
  BY <1>2, OwnTypes
<1>11. QED BY <1>2, <1>3, <1>6, <1>7, <1>8, <1>9, <1>10, BrowserInv

\* A new key arrives sealed to c: with the join, or from the owner.
LEMMA FinishJoinInv ==
  ASSUME Inv, NEW j \in Client, FinishJoin(j)
  PROVE  Inv'
<1> USE DEF Inv
<1> DEFINE f == Head(down[j])
<1>1. /\ NextFor(j, "key_deliver") /\ PushKey(j, f.key) /\ Handled(j)
      /\ Sends(j, <<[t |-> "enter", j |-> j]>>)
      /\ UNCHANGED <<serverVars, phase, pubs, known, seen, oid, first, nkeys, born>>
  BY DEF FinishJoin
<1>2. down[j] # <<>> /\ j \in In /\ f \in DownFrame(j) /\ f.t = "key_deliver"
  BY <1>1, HandlerOnline
<1> HIDE DEF f
<1>3. f.key \in 1 .. nkeys /\ f.key > born[j]
  BY <1>2, DownKinds
<1>4. KeysMove
  BY <1>1, <1>2, <1>3, PushMoves DEF Counters
<1>5. Grows
  BY <1>1, <1>4, BrowserGrows
<1>6. Armed(j)'
  <2>1. keys'[j] = Pushed(j, f.key)
    BY <1>1 DEF PushKey, Counters
  <2>2. Pushed(j, f.key) # <<>>
    BY <1>3, PushedType DEF TypeInv, Counters
  <2>3. QED BY <2>1, <2>2 DEF Armed
<1>7. <<[t |-> "enter", j |-> j]>> \in Seq(UpFrame(j)')
  <2>1. [t |-> "enter", j |-> j] \in UpFrame(j)'
    BY <1>6 DEF UpFrame
  <2>2. QED BY <2>1
<1>8. UpOK' /\ DownOK'
  BY <1>1, <1>2, <1>5, <1>7, SendsOK, HandledOK DEF Online
<1>9. QED BY <1>1, <1>4, <1>8, OwnTypes, BrowserInv

LEMMA OnRekeyInv ==
  ASSUME Inv, NEW c \in Client, OnRekey(c)
  PROVE  Inv'
<1> USE DEF Inv
<1> DEFINE f == Head(down[c])
<1>1. /\ NextFor(c, "rekey") /\ Handled(c)
      /\ UNCHANGED <<serverVars, up, phase, pubs, known, seen, oid, first, nkeys, born>>
      /\ (f.for = c /\ PushKey(c, f.key)) \/ UNCHANGED <<keys, learned>>
  BY DEF OnRekey
<1>2. down[c] # <<>> /\ c \in In /\ f \in DownFrame(c) /\ f.t = "rekey"
  BY <1>1, HandlerOnline
<1> HIDE DEF f
<1>3. f.key \in 1 .. nkeys /\ f.key > born[f.for]
  BY <1>2, DownKinds
<1>4. KeysMove
  BY <1>1, <1>2, <1>3, PushMoves, KeysStay DEF Counters
<1>5. Grows
  BY <1>1, <1>4, BrowserGrows
<1>6. UpOK' /\ DownOK'
  BY <1>1, <1>2, <1>5, UpStays, HandledOK DEF Online
<1>7. QED BY <1>1, <1>4, <1>6, OwnTypes, BrowserInv

\* The frames of a rotation are sealed to browsers that joined before it.
LEMMA RekeyFramesType ==
  ASSUME NEW c \in Client, NEW S, S \subseteq Client, NEW p \in [Client -> In \cup {None}],
         Counters, KeysMove, UNCHANGED phase, nkeys' = nkeys + 1,
         NEW s \in RekeyFrames(c, S, p, nkeys + 1)
  PROVE  s \in Seq(RekeyFrame')
<1> DEFINE T == {d \in S : p[d] # None}
<1>1. PICK r \in SetToSeqs(T) :
        s = [i \in DOMAIN r |-> [t |-> "rekey", target |-> r[i], by |-> c, for |-> p[r[i]],
                                 key |-> nkeys + 1]]
  BY DEF RekeyFrames
<1>2. r \in [1 .. Cardinality(T) -> T]
  BY DEF SetToSeqs
<1>3. IsFiniteSet(T) /\ Cardinality(T) \in Nat
  BY ClientAssumption, FS_Subset, FS_CardinalityType
<1>4. ASSUME NEW i \in 1 .. Cardinality(T) PROVE s[i] \in RekeyFrame'
  <2>1. r[i] \in Client /\ p[r[i]] \in In
    BY <1>2
  <2>2. s[i] = [t |-> "rekey", target |-> r[i], by |-> c, for |-> p[r[i]], key |-> nkeys + 1]
    BY <1>1, <1>2
  <2>3. In' = In /\ In \subseteq Client
    BY DEF In
  <2>4. nkeys + 1 \in 1 .. nkeys' /\ \A d \in In : nkeys + 1 > born'[d]
    BY <2>3 DEF Counters, KeysMove
  <2>5. QED BY <2>1, <2>2, <2>3, <2>4 DEF RekeyFrame
<1>5. s \in [1 .. Cardinality(T) -> RekeyFrame']
  BY <1>1, <1>2, <1>4
<1> HIDE DEF T
<1>6. QED BY <1>3, <1>5

LEMMA RosterType ==
  ASSUME NEW c \in In, NEW p \in [Client -> In \cup {None}], NEW k \in Nat, UNCHANGED phase
  PROVE  RosterFrame(c, p, k) \in UpFrame(c)'
<1>1. In' = In
  BY DEF In
<1>2. [p EXCEPT ![c] = c] \in [Client -> In' \cup {None}]
  BY <1>1
<1>3. RosterFrame(c, p, k) \in RosterFrames'
  BY <1>2 DEF RosterFrame, RosterFrames
<1>4. QED BY <1>3 DEF UpFrame

\* rotateForJoin: the joiner, and whoever else gets the key, joined before.
LEMMA RotateForJoinInv ==
  ASSUME Inv, NEW c \in Client, RotateForJoin(c)
  PROVE  Inv'
<1> USE DEF Inv
<1> DEFINE f == Head(down[c])
           j == f.j
           p == [pubs[c] EXCEPT ![j] = f.pub]
           k == nkeys + 1
           g == [t |-> "key_deliver", j |-> j, by |-> c, key |-> k]
<1>1. /\ NextFor(c, "member_key") /\ j # c /\ nkeys' = k /\ PushKey(c, k) /\ Handled(c)
      /\ pubs' = [pubs EXCEPT ![c] = p] /\ known' = [known EXCEPT ![c] = known[c] \cup {j}]
      /\ UNCHANGED <<serverVars, phase, seen, oid, first, born>>
  BY DEF RotateForJoin
<1>2. PICK s \in RekeyFrames(c, known[c] \ {c, j}, p, k) : Sends(c, <<g>> \o s)
  BY DEF RotateForJoin
<1>3. down[c] # <<>> /\ c \in In /\ f \in DownFrame(c) /\ f.t = "member_key"
  BY <1>1, HandlerOnline
<1>4. j \in In /\ f.pub \in In /\ hs[j] \in {None, c} /\ j \in Client
  BY <1>1, <1>3, DownKinds DEF In
<1>5. nkeys \in Nat /\ k \in Nat /\ k \in 1 .. nkeys' /\ nkeys <= nkeys' /\ \A d \in Client : k > born[d]
  BY <1>1 DEF Counters
<1>6. KeysMove
  BY <1>1, <1>3, <1>5, PushMoves
<1>7. Grows
  BY <1>1, <1>6, BrowserGrows
<1>8. p \in [Client -> In \cup {None}]
  BY <1>4, OwnTypes
<1>9. g \in UpFrame(c)'
  <2>1. j \in In' /\ hs'[j] \in {None, c} /\ born'[j] = born[j]
    BY <1>1, <1>4 DEF In, serverVars
  <2>2. g \in [t : {"key_deliver"}, j : In', by : Client, key : 1 .. nkeys']
    BY <1>5, <2>1
  <2>3. QED BY <1>1, <1>4, <1>5, <2>1, <2>2 DEF UpFrame
<1> HIDE DEF f, p, g
<1>10. s \in Seq(UpFrame(c)')
  <2>1. known[c] \ {c, j} \subseteq Client
    BY OwnTypes
  <2>2. s \in Seq(RekeyFrame')
    BY <1>1, <1>2, <1>6, <1>8, <2>1, RekeyFramesType
  <2>3. RekeyFrame' \subseteq UpFrame(c)'
    BY DEF UpFrame
  <2>4. QED BY <2>2, <2>3, SeqMonotonic
<1>11. <<g>> \o s \in Seq(UpFrame(c)')
  <2>1. <<g>> \in Seq(UpFrame(c)')
    BY <1>9
  <2>2. QED BY <1>10, <2>1, ConcatProperties
<1>12. UpOK'
  BY <1>2, <1>7, <1>11, SendsOK
<1>13. DownOK'
  BY <1>1, <1>3, <1>7, HandledOK DEF Online
<1>14. pubs' \in [Client -> [Client -> In \cup {None}]] /\ known' \in [Client -> SUBSET Client]
  BY <1>1, <1>4, <1>8, OwnTypes
<1>15. QED BY <1>1, <1>6, <1>12, <1>13, <1>14, OwnTypes, BrowserInv

\* onPresence of the owner, without and with a rotation.
LEMMA OnPresenceSameInv ==
  ASSUME Inv, NEW c \in Client, OnPresenceSame(c)
  PROVE  Inv'
<1> USE DEF Inv
<1> DEFINE f == Head(down[c])
           g == RosterFrame(c, pubs[c], Head(keys[c]))
<1>1. /\ NextFor(c, "presence") /\ Sends(c, <<g>>) /\ Handled(c)
      /\ oid' = [oid EXCEPT ![c] = c] /\ seen' = [seen EXCEPT ![c] = f.m]
      /\ known' = [known EXCEPT ![c] = f.m]
      /\ UNCHANGED <<serverVars, phase, keys, pubs, first, history>>
  BY DEF OnPresenceSame
<1>2. down[c] # <<>> /\ Online(c) /\ c \in In /\ f \in DownFrame(c) /\ f.t = "presence"
  BY <1>1, HandlerOnline
<1>3. f.m \subseteq Client /\ Armed(c)
  BY <1>2, DownKinds
<1>4. Head(keys[c]) \in Nat
  <2>1. keys[c] \in Seq(Nat) /\ keys[c] # <<>>
    BY <1>2, <1>3 DEF Armed, Online, Counters
  <2>2. QED BY <2>1, HeadTailProperties
<1>5. KeysMove
  BY <1>1, KeysStay DEF history
<1>6. Grows
  BY <1>1, <1>5, BrowserGrows
<1> HIDE DEF f
<1>7. <<g>> \in Seq(UpFrame(c)')
  <2>1. g \in UpFrame(c)'
    BY <1>1, <1>2, <1>4, OwnTypes, RosterType
  <2> HIDE DEF g
  <2>2. QED BY <2>1
<1> HIDE DEF g
<1>8. UpOK' /\ DownOK'
  BY <1>1, <1>2, <1>6, <1>7, SendsOK, HandledOK DEF Online
<1>9. /\ oid' \in [Client -> Client \cup {None}]
      /\ known' \in [Client -> SUBSET Client] /\ seen' \in [Client -> SUBSET Client]
  BY <1>1, <1>3, OwnTypes
<1>10. QED BY <1>1, <1>5, <1>8, <1>9, OwnTypes, BrowserInv

LEMMA RotateForLeaveInv ==
  ASSUME Inv, NEW c \in Client, RotateForLeave(c)
  PROVE  Inv'
<1> USE DEF Inv
<1> DEFINE f == Head(down[c])
           p == [d \in Client |-> IF d \in MissingFrom(c, f) THEN None ELSE pubs[c][d]]
           k == nkeys + 1
           g == RosterFrame(c, p, k)
<1>1. /\ NextFor(c, "presence") /\ nkeys' = k /\ PushKey(c, k) /\ Handled(c)
      /\ pubs' = [pubs EXCEPT ![c] = p] /\ known' = [known EXCEPT ![c] = f.m]
      /\ seen' = [seen EXCEPT ![c] = f.m]
      /\ UNCHANGED <<serverVars, phase, oid, first, born>>
  BY DEF RotateForLeave
<1>2. PICK s \in RekeyFrames(c, f.m \ {c}, p, k) : Sends(c, s \o <<g>>)
  BY DEF RotateForLeave
<1>3. down[c] # <<>> /\ c \in In /\ f \in DownFrame(c) /\ f.t = "presence"
  BY <1>1, HandlerOnline
<1> HIDE DEF f
<1>4. f.m \subseteq Client
  BY <1>3, DownKinds
<1>5. nkeys \in Nat /\ k \in Nat /\ k \in 1 .. nkeys' /\ nkeys <= nkeys' /\ \A d \in Client : k > born[d]
  BY <1>1 DEF Counters
<1>6. KeysMove
  <2>1. k > born[c]
    BY <1>5
  <2>2. QED BY <1>1, <1>3, <1>5, <2>1, PushMoves
<1>7. Grows
  BY <1>1, <1>6, BrowserGrows
<1>8. p \in [Client -> In \cup {None}]
  BY OwnTypes
<1> HIDE DEF p
<1>9. g \in UpFrame(c)'
  BY <1>1, <1>3, <1>5, <1>8, RosterType
<1> HIDE DEF g
<1>10. s \in Seq(UpFrame(c)')
  <2>1. f.m \ {c} \subseteq Client
    BY <1>4
  <2>2. s \in Seq(RekeyFrame')
    BY <1>1, <1>2, <1>6, <1>8, <2>1, RekeyFramesType
  <2>3. RekeyFrame' \subseteq UpFrame(c)'
    BY DEF UpFrame
  <2>4. QED BY <2>2, <2>3, SeqMonotonic
<1>11. s \o <<g>> \in Seq(UpFrame(c)')
  <2>1. <<g>> \in Seq(UpFrame(c)')
    BY <1>9
  <2>2. QED BY <1>10, <2>1, ConcatProperties
<1>12. UpOK'
  BY <1>2, <1>7, <1>11, SendsOK
<1>13. DownOK'
  BY <1>1, <1>3, <1>7, HandledOK DEF Online
<1>14. /\ pubs' \in [Client -> [Client -> In \cup {None}]]
       /\ known' \in [Client -> SUBSET Client] /\ seen' \in [Client -> SUBSET Client]
  BY <1>1, <1>4, <1>8, OwnTypes
<1>15. QED BY <1>1, <1>6, <1>12, <1>13, <1>14, OwnTypes, BrowserInv

\* The welcome: a browser with a key becomes a member.
LEMMA OnWelcomeInv ==
  ASSUME Inv, NEW c \in Client, OnWelcome(c)
  PROVE  Inv'
<1> USE DEF Inv
<1> DEFINE f == Head(down[c])
<1>1. /\ NextFor(c, "welcome") /\ Handled(c)
      /\ phase' = [phase EXCEPT ![c] = "member"]
      /\ oid' = [oid EXCEPT ![c] = f.o] /\ seen' = [seen EXCEPT ![c] = f.m]
      /\ known' = [known EXCEPT ![c] = IF f.o = c THEN f.m ELSE known[c]]
      /\ pubs' = [pubs EXCEPT ![c] = [pubs[c] EXCEPT ![f.o] =
                                        IF first[c] # None THEN first[c] ELSE pubs[c][f.o]]]
      /\ UNCHANGED <<serverVars, up, keys, first, history>>
  BY DEF OnWelcome
<1>2. down[c] # <<>> /\ Online(c) /\ c \in In /\ f \in DownFrame(c) /\ f.t = "welcome"
  BY <1>1, HandlerOnline
<1> HIDE DEF f
<1>3. f.m \subseteq Client /\ f.o \in Client \cup {None} /\ Armed(c)
  BY <1>2, DownKinds
<1>4. keys[c] # <<>>
  BY <1>2, <1>3 DEF Armed, Online
<1>5. /\ phase' \in [Client -> {"out", "joining", "member", "gone"}]
      /\ \A d \in Client : phase'[d] = IF d = c THEN "member" ELSE phase[d]
  BY <1>1 DEF TypeInv
<1>6. In' = In /\ \A d \in Client : (Armed(d) => Armed(d)') /\ (Online(d) => Online(d)')
  BY <1>1, <1>2, <1>4, <1>5 DEF In, Armed, Online
<1>7. Grows
  BY <1>1, <1>6 DEF Grows, Counters, history, serverVars
<1>8. UpOK' /\ DownOK'
  BY <1>1, <1>2, <1>6, <1>7, UpStays, HandledOK
<1>9. /\ pubs' \in [Client -> [Client -> In \cup {None}]] /\ oid' \in [Client -> Client \cup {None}]
      /\ known' \in [Client -> SUBSET Client] /\ seen' \in [Client -> SUBSET Client]
  <2>1. [pubs[c] EXCEPT ![f.o] = IF first[c] # None THEN first[c] ELSE pubs[c][f.o]]
          \in [Client -> In \cup {None}]
    <3> DEFINE v == IF first[c] # None THEN first[c] ELSE pubs[c][f.o]
    <3>1. pubs[c] \in [Client -> In \cup {None}] /\ (f.o \in Client => v \in In \cup {None})
      BY OwnTypes
    <3> HIDE DEF v
    <3>2. [pubs[c] EXCEPT ![f.o] = v] \in [Client -> In \cup {None}]
      BY <3>1
    <3>3. QED BY <3>2 DEF v
  <2>2. pubs' \in [Client -> [Client -> In \cup {None}]]
    BY <1>1, <2>1, OwnTypes
  <2>3. QED BY <1>1, <1>3, <2>2, OwnTypes
<1>10. TypeInv'
  <2>1. pubs' \in [Client -> [Client -> Client \cup {None}]]
    BY <1>9 DEF In
  <2>2. \A d \in Client : Len(keys'[d]) <= MaxKeptKeys /\ (phase'[d] = "member" => keys'[d] # <<>>)
    BY <1>1, <1>4, <1>5 DEF TypeInv
  <2>3. QED BY <1>1, <1>5, <1>9, <2>1, <2>2 DEF TypeInv, history, serverVars
<1>11. NoPreJoinKey' /\ KeyHolders'
  BY <1>1, <1>6 DEF NoPreJoinKey, KeyHolders, history, serverVars
<1>12. Counters'
  BY <1>1, <1>5 DEF Counters, history
<1>13. Acquainted'
  BY <1>1, <1>6, <1>9, OwnTypes DEF Acquainted
<1>14. QED BY <1>8, <1>10, <1>11, <1>12, <1>13

\* teardown
LEMMA GoneGrows ==
  ASSUME Inv, NEW c \in In, NEW s, Gone(c, s), UNCHANGED <<serverVars, nkeys, born, learned>>
  PROVE  Grows
<1>1. \A d \in Client : phase'[d] = IF d = c THEN "gone" ELSE phase[d]
  BY DEF Inv, TypeInv, Gone
<1>2. \A d \in Client : d # c => keys'[d] = keys[d]
  BY DEF Inv, Counters, Gone
<1>3. QED BY <1>1, <1>2, SMTT(30) DEF Inv, Counters, Grows, In, Armed, serverVars

LEMMA GoneInv ==
  ASSUME Inv, NEW c \in In, NEW s \in Seq(UpFrame(c)'), Gone(c, s),
         UNCHANGED <<serverVars, nkeys, born, learned>>
  PROVE  Inv'
<1> USE DEF Inv
<1>1. Grows
  BY GoneGrows
<1>2. c \in Client /\ In \subseteq Client
  BY DEF In
<1>3. \A d \in Client : /\ phase'[d] = IF d = c THEN "gone" ELSE phase[d]
                        /\ keys'[d] = IF d = c THEN <<>> ELSE keys[d]
                        /\ up'[d] = IF d = c THEN s ELSE up[d]
                        /\ down'[d] = IF d = c THEN <<>> ELSE down[d]
  BY DEF Gone, TypeInv, Counters, UpOK, DownOK
<1>4. In' = In
  BY <1>3 DEF In
<1>5. UpOK'
  <2>1. up' = [d \in Client |-> up'[d]]
    BY DEF Gone, UpOK
  <2>2. \A d \in Client : up'[d] \in Seq(UpFrame(d)')
    BY <1>1, <1>3, QueuesStay
  <2>3. QED BY <2>1, <2>2 DEF UpOK
<1>6. DownOK'
  <2>1. down' = [d \in Client |-> down'[d]]
    BY DEF Gone, DownOK
  <2>2. \A d \in Client : down'[d] \in Seq(DownFrame(d)')
    BY <1>1, <1>3, QueuesStay, EmptySeq
  <2>3. \A d \in Client : down'[d] # <<>> => Online(d)'
    BY <1>3 DEF DownOK, Online
  <2>4. QED BY <2>1, <2>2, <2>3 DEF DownOK
<1>7. /\ pubs' \in [Client -> [Client -> In \cup {None}]]
      /\ first' \in [Client -> In \cup {None}] /\ oid' \in [Client -> Client \cup {None}]
      /\ known' \in [Client -> SUBSET Client] /\ seen' \in [Client -> SUBSET Client]
  <2>1. NoPubs \in [Client -> In \cup {None}]
    BY DEF NoPubs
  <2>2. pubs' = [pubs EXCEPT ![c] = NoPubs] /\ first' = [first EXCEPT ![c] = None]
        /\ oid' = [oid EXCEPT ![c] = None] /\ known' = [known EXCEPT ![c] = {}]
        /\ seen' = [seen EXCEPT ![c] = {}]
    BY DEF Gone
  <2>3. QED BY <2>1, <2>2, OwnTypes
<1>8. TypeInv'
  <2>1. /\ pubs' \in [Client -> [Client -> Client \cup {None}]]
        /\ first' \in [Client -> Client \cup {None}]
    BY <1>2, <1>7
  <2>2. phase' \in [Client -> {"out", "joining", "member", "gone"}]
    BY DEF Gone, TypeInv
  <2>3. \A d \in Client : Len(keys'[d]) <= MaxKeptKeys /\ (phase'[d] = "member" => keys'[d] # <<>>)
    BY <1>3, KeptAssumption DEF TypeInv
  <2>4. QED BY <1>7, <2>1, <2>2, <2>3 DEF TypeInv, serverVars
<1>9. NoPreJoinKey'
  BY DEF NoPreJoinKey
<1>10. Counters'
  <2>1. keys' \in [Client -> Seq(Nat)]
    BY EmptySeq DEF Gone, Counters
  <2>2. QED BY <1>3, <2>1 DEF Counters
<1>11. Acquainted'
  BY <1>4, <1>7 DEF Acquainted
<1>12. KeyHolders'
  BY <1>1 DEF KeyHolders, Grows, serverVars
<1>13. QED BY <1>5, <1>6, <1>8, <1>9, <1>10, <1>11, <1>12

-----------------------------------------------------------------------------
(* The users. *)

LEMMA DepartInv ==
  ASSUME Inv, NEW c \in Client, Depart(c)
  PROVE  Inv'
<1>1. PICK i \in 0 .. Len(up[c]) : Gone(c, SubSeq(up[c], 1, i) \o <<[t |-> "leave"]>>)
  BY DEF Depart
<1>2. c \in In /\ UNCHANGED <<serverVars, nkeys, born, learned>>
  BY DEF Depart, Online, In
<1>3. up[c] \in Seq(UpFrame(c)')
  BY <1>1, <1>2, GoneGrows, QueuesStay DEF Inv
<1>4. SubSeq(up[c], 1, i) \in Seq(UpFrame(c)')
  <2>1. Len(up[c]) \in Nat /\ \A n \in 1 .. i : n \in 1 .. Len(up[c])
    BY <1>3
  <2>2. QED BY <1>3, <2>1, SubSeqProperties
<1>5. <<[t |-> "leave"]>> \in Seq(UpFrame(c)')
  <2>1. [t |-> "leave"] \in UpFrame(c)'
    BY DEF UpFrame
  <2>2. QED BY <2>1
<1>6. SubSeq(up[c], 1, i) \o <<[t |-> "leave"]>> \in Seq(UpFrame(c)')
  BY <1>4, <1>5, ConcatProperties
<1>7. QED BY <1>1, <1>2, <1>6, GoneInv

LEMMA OnRoomClosedInv ==
  ASSUME Inv, NEW c \in Client, OnRoomClosed(c)
  PROVE  Inv'
<1>1. c \in In
  BY HandlerOnline DEF OnRoomClosed
<1>2. <<[t |-> "leave"]>> \in Seq(UpFrame(c)')
  <2>1. [t |-> "leave"] \in UpFrame(c)'
    BY DEF UpFrame
  <2>2. QED BY <2>1
<1>3. Gone(c, <<[t |-> "leave"]>>) /\ UNCHANGED <<serverVars, nkeys, born, learned>>
  BY DEF OnRoomClosed, history
<1>4. QED BY <1>1, <1>2, <1>3, GoneInv

\* A request of a member that stays.
LEMMA RequestInv ==
  ASSUME Inv, NEW c \in Client, NEW g, g \in [t : {"kick", "transfer"}, target : Client],
         Sends(c, <<g>>), UNCHANGED <<serverVars, down, clientVars, nkeys, born, learned>>
  PROVE  Inv'
<1>1. KeysMove
  BY KeysStay DEF clientVars
<1>2. Grows
  BY <1>1, BrowserGrows DEF clientVars
<1>3. <<g>> \in Seq(UpFrame(c)')
  <2>1. g \in UpFrame(c)'
    BY DEF UpFrame
  <2>2. QED BY <2>1
<1>4. UpOK' /\ DownOK'
  BY <1>2, <1>3, SendsOK, DownStays DEF Inv, clientVars
<1>5. QED BY <1>1, <1>4, OwnTypes, BrowserInv DEF clientVars

LEMMA KickInv ==
  ASSUME Inv, NEW c \in Client, NEW d \in Client, Kick(c, d)
  PROVE  Inv'
<1> DEFINE g == [t |-> "kick", target |-> d]
<1>1. g \in [t : {"kick", "transfer"}, target : Client]
  OBVIOUS
<1>2. Sends(c, <<g>>) /\ UNCHANGED <<serverVars, down, clientVars, nkeys, born, learned>>
  BY DEF Kick
<1> HIDE DEF g
<1>3. QED BY <1>1, <1>2, RequestInv

LEMMA HandOverInv ==
  ASSUME Inv, NEW c \in Client, NEW d \in Client, NEW leave \in BOOLEAN, HandOver(c, d, leave)
  PROVE  Inv'
<1> DEFINE g == [t |-> "transfer", target |-> d]
           h == [t |-> "leave"]
<1>1. g \in [t : {"kick", "transfer"}, target : Client]
  OBVIOUS
<1>2. UNCHANGED <<serverVars, nkeys, born, learned>> /\ c \in In
  BY DEF HandOver, CanManage, In
<1>3. CASE leave
  <2>1. Gone(c, up[c] \o <<g, h>>)
    BY <1>3 DEF HandOver
  <2>2. up[c] \in Seq(UpFrame(c)')
    BY <1>2, <2>1, GoneGrows, QueuesStay DEF Inv
  <2>3. g \in UpFrame(c)' /\ h \in UpFrame(c)'
    BY <1>1 DEF UpFrame
  <2> HIDE DEF g, h
  <2>4. <<g, h>> \in Seq(UpFrame(c)')
    BY <2>3
  <2>5. up[c] \o <<g, h>> \in Seq(UpFrame(c)')
    BY <2>2, <2>4, ConcatProperties
  <2>6. QED BY <1>2, <2>1, <2>5, GoneInv
<1>4. CASE ~leave
  <2>1. Sends(c, <<g>>) /\ UNCHANGED <<down, clientVars>>
    BY <1>4 DEF HandOver
  <2> HIDE DEF g
  <2>2. QED BY <1>1, <1>2, <2>1, RequestInv
<1>5. QED BY <1>3, <1>4

\* A joiner appears: nobody has named it before, so its join can be the newest
\* event there is.
LEMMA JoinInv ==
  ASSUME Inv, NEW j \in Client, Join(j)
  PROVE  Inv'
<1> USE DEF Inv
<1>1. /\ phase[j] = "out" /\ owner \in Client /\ phase[owner] = "member"
      /\ phase' = [phase EXCEPT ![j] = "joining"] /\ hs' = [hs EXCEPT ![j] = owner]
      /\ born' = [born EXCEPT ![j] = nkeys]
      /\ UNCHANGED <<members, owner, spc, down, keys, pubs, known, seen, oid, first, nkeys,
                     learned>>
  BY DEF Join, TypeInv
<1>2. /\ \A d \in Client : /\ phase'[d] = IF d = j THEN "joining" ELSE phase[d]
                           /\ hs'[d] = IF d = j THEN owner ELSE hs[d]
                           /\ born'[d] = IF d = j THEN nkeys ELSE born[d]
      /\ phase' \in [Client -> {"out", "joining", "member", "gone"}]
      /\ hs' \in [Client -> Client \cup {None}] /\ born' \in [Client -> Nat]
  BY <1>1 DEF TypeInv, Counters
<1>3. In' = In \cup {j} /\ j \notin In /\ owner \in In /\ owner # j
  BY <1>1, <1>2 DEF In
<1>4. Grows
  <2>1. \A d \in In : born'[d] = born[d] /\ hs'[d] = hs[d]
    BY <1>2, <1>3 DEF In
  <2>2. \A d \in Client : Armed(d) => Armed(d)'
    BY <1>1, <1>2 DEF Armed
  <2>3. QED BY <1>1, <1>3, <2>1, <2>2 DEF Grows, Counters
<1>5. UpOK'
  <2>1. up' = [c \in Client |-> IF c \in {j, owner} THEN Append(up[c], MemberKey(j, c))
                                                    ELSE up[c]]
    BY DEF Join
  <2>2. ASSUME NEW c \in Client PROVE up'[c] \in Seq(UpFrame(c)')
    <3>1. up[c] \in Seq(UpFrame(c)')
      BY <1>4, QueuesStay
    <3>2. CASE c \in {j, owner}
      <4>1. hs'[j] = owner /\ c \in In' /\ j \in In'
        BY <1>2, <1>3, <3>2
      <4>2. MemberKey(j, c) \in UpFrame(c)'
        BY <3>2, <4>1 DEF MemberKey, UpFrame
      <4>3. up'[c] = Append(up[c], MemberKey(j, c))
        BY <2>1, <3>2
      <4>4. QED BY <3>1, <4>2, <4>3, AppendProperties
    <3>3. CASE c \notin {j, owner}
      BY <2>1, <3>1, <3>3
    <3>4. QED BY <3>2, <3>3
  <2>3. up' = [c \in Client |-> up'[c]]
    BY <2>1
  <2>4. QED BY <2>2, <2>3 DEF UpOK
<1>6. DownOK'
  <2>1. \A d \in Client : down[d] # <<>> => Online(d)'
    BY <1>2 DEF DownOK, Online
  <2>2. QED BY <1>1, <1>4, <2>1, QueuesStay DEF DownOK
<1>7. TypeInv'
  BY <1>1, <1>2 DEF TypeInv
<1>8. NoPreJoinKey'
  BY <1>1, <1>2 DEF NoPreJoinKey, Counters
<1>9. Counters'
  BY <1>1, <1>2 DEF Counters
<1>10. Acquainted'
  BY <1>1, <1>3 DEF Acquainted
<1>11. KeyHolders'
  BY <1>1, <1>4 DEF KeyHolders, Grows
<1>12. QED BY <1>5, <1>6, <1>7, <1>8, <1>9, <1>10, <1>11

-----------------------------------------------------------------------------
(* The theorems. *)

LEMMA InitInv == Init => Inv
<1> SUFFICES ASSUME Init PROVE Inv
  OBVIOUS
<1> USE CreatorAssumption
<1>1. TypeInv
  <2>1. /\ members \subseteq Client /\ owner \in Client \cup {None}
        /\ hs \in [Client -> Client \cup {None}]
        /\ spc \in [Client -> {"read", "welcome", "presence"}]
        /\ phase \in [Client -> {"out", "joining", "member", "gone"}]
        /\ pubs \in [Client -> [Client -> Client \cup {None}]]
        /\ known \in [Client -> SUBSET Client] /\ seen \in [Client -> SUBSET Client]
        /\ oid \in [Client -> Client \cup {None}] /\ first \in [Client -> Client \cup {None}]
    BY DEF Init, NoPubs
  <2>2. \A c \in Client : Len(keys[c]) <= MaxKeptKeys /\ (phase[c] = "member" => keys[c] # <<>>)
    BY KeptAssumption DEF Init
  <2>3. learned \in [Client -> SUBSET (1 .. nkeys)]
    BY DEF Init
  <2>4. QED BY <2>1, <2>2, <2>3 DEF TypeInv
<1>2. NoPreJoinKey
  BY DEF Init, NoPreJoinKey
<1>3. UpOK /\ DownOK
  BY EmptySeq DEF Init, UpOK, DownOK
<1>4. Counters
  <2>1. <<1>> \in Seq(Nat) /\ <<>> \in Seq(Nat)
    BY EmptySeq
  <2>2. keys \in [Client -> Seq(Nat)]
    BY <2>1 DEF Init
  <2>3. QED BY <2>2 DEF Init, Counters
<1>5. Acquainted /\ KeyHolders
  BY DEF Init, Acquainted, NoPubs, KeyHolders, Armed
<1>6. QED BY <1>1, <1>2, <1>3, <1>4, <1>5 DEF Inv

LEMMA StutterInv ==
  ASSUME Inv, UNCHANGED vars
  PROVE  Inv'
<1> USE DEF vars, serverVars, clientVars, history
<1>1. TypeInv' /\ NoPreJoinKey'
  BY DEF Inv, TypeInv, NoPreJoinKey
<1>2. UpOK' /\ DownOK'
  <2>1. Grows
    BY KeysStay, BrowserGrows
  <2>2. QED BY <2>1, UpStays, DownStays DEF Inv
<1>3. Counters' /\ Acquainted' /\ KeyHolders'
  BY DEF Inv, Counters, Acquainted, KeyHolders, In, Armed
<1>4. QED BY <1>1, <1>2, <1>3 DEF Inv

LEMMA NextInv ==
  ASSUME Inv, [Next]_vars
  PROVE  Inv'
<1>1. ASSUME NEW c \in Client, User(c) PROVE Inv'
  BY <1>1, JoinInv, DepartInv, KickInv, HandOverInv DEF User
<1>2. ASSUME NEW c \in Client, Server(c) PROVE Inv'
  BY <1>2, RelayHandshakeInv, EnterInv, AnnounceInv, RelayInv, HandleTransferInv,
     HandleKickInv, LeaveInv DEF Server
<1>3. ASSUME NEW c \in Client, Browser(c) PROVE Inv'
  BY <1>3, RotateForJoinInv, QuietInv, FinishJoinInv, OnWelcomeInv, OnRekeyInv,
     OnPresenceSameInv, RotateForLeaveInv, OnRoomClosedInv DEF Browser
<1>4. QED BY <1>1, <1>2, <1>3, StutterInv DEF Next

\* The inductive invariant: the keys in every ring and every frame, and who may
\* open them, whatever rotateForJoin, onPresence and onRekey interleave with.
THEOREM RotationInvariant == Spec => []Inv
<1>1. Init => Inv
  BY InitInv
<1>2. Inv /\ [Next]_vars => Inv'
  BY NextInv
<1>3. QED BY <1>1, <1>2, PTL DEF Spec

\* pushKey never keeps more than MAX_KEPT_KEYS keys, and a browser that entered
\* the room always has one to encrypt with.
THEOREM BrowsersTyped == Spec => []TypeInv
<1>1. Inv => TypeInv
  BY DEF Inv
<1>2. QED BY <1>1, RotationInvariant, PTL

\* No browser ever learns a room key that was generated before it started to
\* join, for any number of browsers and any overlap of joins, departures, kicks
\* and transfers: rotateForJoin generates the key after the joiner's member_key,
\* and rekeyMember seals only to public keys of browsers that had joined.
THEOREM JoinersLearnNoOldKey == Spec => []NoPreJoinKey
<1>1. Inv => NoPreJoinKey
  BY DEF Inv
<1>2. QED BY <1>1, RotationInvariant, PTL

-----------------------------------------------------------------------------
(* One membership change at a time: what is on its way completes it. *)

\* The newest key, and the members other than the owner whose browser is there.
Newest == keys[owner][1]
Fellows == {c \in members \ {owner} : Online(c)}
Full(c) == \A d \in members \ {c} : pubs[c][d] = d

Has(q, W) == \E i \in DOMAIN q : q[i] \in W
Before(q, i, W) == \E h \in 1 .. i - 1 : q[h] \in W

\* The frames of a change: the key sealed to c, news of the membership, and a
\* roster that names every member right.
Rekey(c) == [t |-> "rekey", target |-> c, by |-> owner, for |-> c, key |-> Newest]
News == [t : {"presence", "welcome"}, m : SUBSET Client, o : {owner}]
Rosters ==
  {f \in [t : {"roster"}, key : Nat, map : [Client -> Client \cup {None}]] :
     \A d \in Client : f.map[d] \in {None, d} /\ (d \in members => f.map[d] = d)}
LeaveFrame == [t |-> "leave"]

\* Public keys are filed under their owners, and whoever never joined has nothing.
Named == /\ \A c, d \in Client : pubs[c][d] \in {None, d}
         /\ \A c \in Client : phase[c] = "out" => keys[c] = <<>> /\ first[c] = None

\* Is the newest key on its way to c?
Coming(c) == Has(up[owner], {Rekey(c)}) \/ Has(down[c], {Rekey(c)})

\* Frame i on its way to c can be used when it arrives.
Foreseen(c, i) ==
  LET f == down[c][i] IN
  \/ f \in News /\ (f.t = "welcome" => first[c] = owner)
  \/ f = Rekey(c) /\ (oid[c] = owner \/ Before(down[c], i, News))
  \/ /\ f \in Rosters
     /\ f.key = IF Before(down[c], i, {Rekey(c)}) THEN Newest ELSE keys[c][1]

\* Frame i that the owner has sent will be, wherever it goes.
Posted(i) ==
  LET f == up[owner][i] IN
  \/ \E c \in Fellows : f = Rekey(c)
  \/ /\ f \in Rosters
     /\ \A c \in Fellows :
          f.key = IF Has(down[c], {Rekey(c)}) \/ Before(up[owner], i, {Rekey(c)})
                    THEN Newest ELSE keys[c][1]

Follows(c) ==
  /\ keys[c] # <<>> /\ \A i \in DOMAIN down[c] : Foreseen(c, i)
  /\ phase[c] = "member" => pubs[c][owner] = owner
  /\ Coming(c) => phase[c] = "member"
  /\ ~Coming(c) => keys[c][1] = Newest
  /\ Full(c) \/ Has(up[owner], Rosters) \/ Has(down[c], Rosters) \/ down[owner] # <<>>
  /\ oid[c] = owner \/ Has(down[c], News)

Leads == /\ owner \in members /\ phase[owner] = "member"
         /\ keys[owner] # <<>> /\ Full(owner)

\* A browser that is no member: one that was kicked may have to learn it yet.
Outside(c) ==
  \/ phase[c] = "out" /\ down[c] = <<>> /\ up[c] = <<>>
  \/ phase[c] = "gone" /\ down[c] = <<>> /\ up[c] \in {<<>>, <<LeaveFrame>>}
  \/ phase[c] = "member" /\ down[c] = <<RoomClosed>> /\ up[c] = <<>>

\* What the owner's browser knows, and what will tell it the rest: that it is
\* the owner, and that those in U have left.
Awaits(L, U) ==
  \/ down[owner] = <<>> /\ oid[owner] = owner /\ known[owner] = members /\ U = {}
  \/ /\ down[owner] = <<Presence(members, owner)>> /\ oid[owner] = owner
     /\ known[owner] = members \cup U /\ L = {}
  \/ down[owner] = <<Presence(members, owner)>> /\ oid[owner] # owner /\ U = {}
  \/ /\ down[owner] = <<Presence(members \cup U, owner), Presence(members, owner)>>
     /\ oid[owner] # owner /\ U # {}

\* The room while the owner's frames spread: those in L are about to leave, and
\* those in U have left and still know the newest key.
Flow(L, U) ==
  /\ Leads /\ U \cap members = {}
  /\ L = {} \/ (U = {} /\ \E p \in members \ {owner} : L = {p})
  /\ \A c \in members \ {owner} :
       IF c \in L THEN phase[c] = "gone" /\ up[c] = <<LeaveFrame>>
                  ELSE Online(c) /\ up[c] = <<>>
  /\ \A c \in Fellows : Follows(c)
  /\ \A i \in DOMAIN up[owner] : Posted(i)
  /\ \A c \in Client \ members : Outside(c) /\ (c \in U \/ Newest \notin learned[c])
  /\ \A c \in Client : spc[c] = "read" /\ hs[c] = None
  /\ Awaits(L, U)
  /\ (L = {} /\ U = {}) \/ \A c \in Fellows : ~Coming(c) /\ phase[c] = "member"

\* A room at rest, but for what x has asked for: everybody who is there holds k.
Rest(x, k) ==
  /\ owner \in members
  /\ \A c \in members : /\ c # x => phase[c] = "member"
                        /\ phase[c] \in {"member", "gone"}
                        /\ phase[c] = "member" => keys[c] # <<>> /\ keys[c][1] = k /\ Full(c)
  /\ \A c \in Client \ members : phase[c] \in {"out", "gone"} /\ k \notin learned[c]
  /\ \A c \in Client : down[c] = <<>> /\ hs[c] = None /\ (c # x => spc[c] = "read" /\ up[c] = <<>>)

\* The owner has asked for a kick or a transfer, or it is leaving, or both.
Asks(d) ==
  \/ /\ phase[owner] = "member"
     /\ up[owner] \in {<<[t |-> "kick", target |-> d]>>, <<[t |-> "transfer", target |-> d]>>}
  \/ /\ phase[owner] = "gone"
     /\ up[owner] = <<[t |-> "transfer", target |-> d], LeaveFrame>>
Asked ==
  /\ \E k \in Nat : Rest(owner, k)
  /\ spc[owner] = "read"
  /\ \A c \in members : phase[c] = "member" => oid[c] = owner
  /\ phase[owner] = "member" => known[owner] = members
  /\ \/ phase[owner] = "gone" /\ up[owner] = <<LeaveFrame>>
     \/ \E d \in Client \ {owner} : Asks(d)

\* The former owner p has handed over, and the server has not told anybody.
Handed(p) ==
  /\ Rest(p, Newest) /\ p \in members \ {owner} /\ spc[p] = "presence"
  /\ oid[owner] # owner
  /\ up[p] = IF phase[p] = "member" THEN <<>> ELSE <<LeaveFrame>>

\* A joiner j on its way in; the rest of the room follows the owner.
Peer(c, j) ==
  /\ phase[c] = "member" /\ oid[c] = owner /\ keys[c] # <<>>
  /\ \A d \in members \ {c, j} : pubs[c][d] = d
  /\ \A i \in DOMAIN down[c] : down[c][i] = Rekey(c)
  /\ Coming(c) \/ keys[c][1] = Newest
Arrives(j) ==
  /\ Leads /\ oid[owner] = owner /\ j # owner /\ phase[j] = "joining"
  /\ \A c \in members \ {owner, j} : Peer(c, j)
  /\ \A c \in Client \ (members \cup {j}) :
       phase[c] \in {"out", "gone"} /\ down[c] = <<>> /\ Newest \notin learned[c]
  /\ \A c \in Client \ {j} : spc[c] = "read" /\ hs[c] = None /\ (c # owner => up[c] = <<>>)

\* Before the owner has rotated: the two member_key frames.
Join1(j) ==
  /\ Arrives(j) /\ j \notin members /\ spc[j] = "read" /\ hs[j] = owner
  /\ HasSpace(members) /\ known[owner] = members /\ keys[j] = <<>>
  /\ \A c \in members \ {owner} : down[c] = <<>>
  /\ \/ up[j] = <<MemberKey(j, j)>> /\ down[owner] = <<>>
     \/ up[j] = <<>> /\ down[owner] = <<MemberKey(j, j)>>
  /\ \/ up[owner] = <<MemberKey(j, owner)>> /\ down[j] = <<>> /\ first[j] = None
     \/ up[owner] = <<>> /\ down[j] = <<MemberKey(j, owner)>> /\ first[j] = None
     \/ up[owner] = <<>> /\ down[j] = <<>> /\ first[j] = owner

\* After it, until the joiner enters: the key, behind the owner's public key.
KeyDeliver(j) == [t |-> "key_deliver", j |-> j, by |-> owner, key |-> Newest]
RekeysFrom(n, j) ==
  \A i \in DOMAIN up[owner] : i >= n => \E c \in members \ {owner, j} : up[owner][i] = Rekey(c)
Queued(j) ==
  /\ up[owner] # <<>> /\ up[owner][1] = MemberKey(j, owner)
  /\ Len(up[owner]) >= 2 /\ up[owner][2] = KeyDeliver(j) /\ RekeysFrom(3, j)
  /\ down[j] = <<>> /\ first[j] = None
Divided(j) ==
  /\ up[owner] # <<>> /\ up[owner][1] = KeyDeliver(j) /\ RekeysFrom(2, j)
  /\ \/ down[j] = <<MemberKey(j, owner)>> /\ first[j] = None
     \/ down[j] = <<>> /\ first[j] = owner
Delivered(j) ==
  /\ RekeysFrom(1, j)
  /\ \/ down[j] = <<MemberKey(j, owner), KeyDeliver(j)>> /\ first[j] = None
     \/ down[j] = <<KeyDeliver(j)>> /\ first[j] = owner
Ready(j) ==
  /\ RekeysFrom(1, j) /\ down[j] = <<>> /\ first[j] = owner
  /\ keys[j] # <<>> /\ keys[j][1] = Newest /\ up[j] = <<[t |-> "enter", j |-> j]>>
Join2(j) ==
  /\ Arrives(j) /\ j \notin members /\ spc[j] = "read" /\ hs[j] = owner
  /\ HasSpace(members)
  /\ known[owner] = members \cup {j} /\ down[owner] = <<>> /\ pubs[owner][j] = j
  /\ \/ (Queued(j) \/ Divided(j) \/ Delivered(j)) /\ keys[j] = <<>> /\ up[j] = <<>>
     \/ Ready(j)

\* Inside, and not announced yet.
Join3(j) ==
  /\ Arrives(j) /\ j \in members /\ spc[j] = "welcome" /\ hs[j] = None
  /\ known[owner] = members /\ down[owner] = <<>>
  /\ RekeysFrom(1, j) /\ down[j] = <<>> /\ up[j] = <<>> /\ first[j] = owner
  /\ keys[j] # <<>> /\ keys[j][1] = Newest

Stage ==
  \/ \E L, U \in SUBSET Client : Flow(L, U)
  \/ Asked
  \/ \E x \in Client : Handed(x) \/ Join1(x) \/ Join2(x) \/ Join3(x)
Closed == owner = None /\ members = {}
Orderly == ~overlap => Closed \/ (owner \in Client /\ Named /\ Stage)

-----------------------------------------------------------------------------
(* Queues: what a step to the next frame, or a frame more, does to Has and Before. *)

LEMMA TailHas ==
  ASSUME NEW S, NEW q \in Seq(S), q # <<>>, NEW W
  PROVE  /\ Tail(q) \in Seq(S) /\ Head(q) = q[1] /\ 1 \in DOMAIN q /\ ~Before(q, 1, W)
         /\ Has(q, W) => Head(q) \in W \/ Has(Tail(q), W)
         /\ Has(Tail(q), W) \/ Head(q) \in W => Has(q, W)
         /\ \A i \in DOMAIN Tail(q) :
              /\ i + 1 \in DOMAIN q /\ Tail(q)[i] = q[i + 1]
              /\ Before(q, i + 1, W) => Head(q) \in W \/ Before(Tail(q), i, W)
              /\ Before(Tail(q), i, W) \/ Head(q) \in W => Before(q, i + 1, W)
<1>1. /\ Tail(q) \in Seq(S) /\ Head(q) = q[1] /\ Len(q) \in Nat /\ Len(q) > 0
      /\ Len(Tail(q)) = Len(q) - 1 /\ DOMAIN q = 1 .. Len(q) /\ DOMAIN Tail(q) = 1 .. Len(q) - 1
      /\ \A i \in 1 .. Len(q) - 1 : Tail(q)[i] = q[i + 1]
  OBVIOUS
<1>2. ASSUME NEW i \in 1 .. Len(q) - 1, Before(q, i + 1, W), Head(q) \notin W
      PROVE  Before(Tail(q), i, W)
  <2>1. PICK h \in 1 .. (i + 1) - 1 : q[h] \in W
    BY <1>2 DEF Before
  <2>2. h # 1 /\ h - 1 \in 1 .. i - 1 /\ Tail(q)[h - 1] = q[h]
    BY <1>1, <1>2, <2>1
  <2> QED BY <2>1, <2>2 DEF Before
<1>3. ASSUME NEW i \in 1 .. Len(q) - 1, Before(Tail(q), i, W) PROVE Before(q, i + 1, W)
  <2>1. PICK h \in 1 .. i - 1 : Tail(q)[h] \in W
    BY <1>3 DEF Before
  <2>2. h + 1 \in 1 .. (i + 1) - 1 /\ q[h + 1] \in W
    BY <1>1, <2>1
  <2> QED BY <2>2 DEF Before
<1>4. ASSUME NEW i \in 1 .. Len(q) - 1, Head(q) \in W PROVE Before(q, i + 1, W)
  <2>1. 1 \in 1 .. (i + 1) - 1 /\ q[1] \in W
    BY <1>1, <1>4
  <2> QED BY <2>1 DEF Before
<1>5. ASSUME Has(q, W), Head(q) \notin W PROVE Has(Tail(q), W)
  <2>1. PICK h \in 1 .. Len(q) : q[h] \in W
    BY <1>1, <1>5 DEF Has
  <2>2. h # 1 /\ h - 1 \in 1 .. Len(q) - 1 /\ Tail(q)[h - 1] = q[h]
    BY <1>1, <1>5, <2>1
  <2> QED BY <1>1, <2>1, <2>2 DEF Has
<1>6. ASSUME Has(Tail(q), W) PROVE Has(q, W)
  <2>1. PICK h \in 1 .. Len(q) - 1 : Tail(q)[h] \in W
    BY <1>1, <1>6 DEF Has
  <2>2. h + 1 \in 1 .. Len(q) /\ q[h + 1] \in W
    BY <1>1, <2>1
  <2> QED BY <1>1, <2>2 DEF Has
<1>7. 1 \in DOMAIN q /\ ~Before(q, 1, W) /\ (Head(q) \in W => Has(q, W))
  BY <1>1 DEF Before, Has
<1> QED BY <1>1, <1>2, <1>3, <1>4, <1>5, <1>6, <1>7

LEMMA ConcatHas ==
  ASSUME NEW S, NEW q \in Seq(S), NEW s \in Seq(S), NEW W
  PROVE  /\ q \o s \in Seq(S)
         /\ Has(q \o s, W) => Has(q, W) \/ Has(s, W)
         /\ Has(q, W) \/ Has(s, W) => Has(q \o s, W)
         /\ \A i \in DOMAIN (q \o s) :
              \/ /\ i \in DOMAIN q /\ (q \o s)[i] = q[i]
                 /\ Before(q \o s, i, W) => Before(q, i, W)
                 /\ Before(q, i, W) => Before(q \o s, i, W)
              \/ i \notin DOMAIN q /\ \E h \in DOMAIN s :
                   /\ i = Len(q) + h /\ (q \o s)[i] = s[h]
                   /\ Before(q \o s, i, W) => Has(q, W) \/ Before(s, h, W)
                   /\ Has(q, W) \/ Before(s, h, W) => Before(q \o s, i, W)
<1> DEFINE z == q \o s
           m == Len(q)
           n == Len(s)
<1>1. /\ z \in Seq(S) /\ m \in Nat /\ n \in Nat /\ DOMAIN q = 1 .. m /\ DOMAIN s = 1 .. n
      /\ DOMAIN z = 1 .. m + n
      /\ \A i \in 1 .. m : z[i] = q[i]
      /\ \A i \in 1 .. n : z[m + i] = s[i]
  BY ConcatProperties
<1> HIDE DEF z, m, n
<1>2. ASSUME NEW i \in 1 .. m
      PROVE  /\ Before(z, i, W) => Before(q, i, W)
             /\ Before(q, i, W) => Before(z, i, W)
  <2>1. \A h \in 1 .. i - 1 : h \in 1 .. m /\ z[h] = q[h]
    BY <1>1
  <2> QED BY <2>1 DEF Before
<1>3. ASSUME NEW h \in 1 .. n, Before(z, m + h, W) PROVE Has(q, W) \/ Before(s, h, W)
  <2>1. PICK g \in 1 .. (m + h) - 1 : z[g] \in W
    BY <1>3 DEF Before
  <2>2. CASE g <= m
    BY <1>1, <2>1, <2>2 DEF Has
  <2>3. CASE g > m
    <3>1. g - m \in 1 .. h - 1 /\ g - m \in 1 .. n /\ g = m + (g - m)
      BY <1>1, <2>1, <2>3
    <3>2. s[g - m] = z[g]
      BY <1>1, <3>1
    <3> QED BY <2>1, <3>1, <3>2 DEF Before
  <2> QED BY <1>1, <2>1, <2>2, <2>3
<1>4. ASSUME NEW h \in 1 .. n, Has(q, W) PROVE Before(z, m + h, W)
  <2>1. PICK g \in 1 .. m : q[g] \in W
    BY <1>1, <1>4 DEF Has
  <2>2. g \in 1 .. (m + h) - 1 /\ z[g] \in W
    BY <1>1, <2>1
  <2> QED BY <2>2 DEF Before
<1>5. ASSUME NEW h \in 1 .. n, Before(s, h, W) PROVE Before(z, m + h, W)
  <2>1. PICK g \in 1 .. h - 1 : s[g] \in W
    BY <1>5 DEF Before
  <2>2. m + g \in 1 .. (m + h) - 1 /\ g \in 1 .. n
    BY <1>1, <2>1
  <2>3. z[m + g] \in W
    BY <1>1, <2>1, <2>2
  <2> QED BY <2>2, <2>3 DEF Before
<1>6. ASSUME NEW i \in 1 .. m + n, i \notin 1 .. m
      PROVE  \E h \in 1 .. n : i = m + h
  <2>1. i - m \in 1 .. n /\ i = m + (i - m)
    BY <1>1, <1>6
  <2> QED BY <2>1
<1>7. Has(z, W) => Has(q, W) \/ Has(s, W)
  <2> SUFFICES ASSUME Has(z, W) PROVE Has(q, W) \/ Has(s, W)
    OBVIOUS
  <2>1. PICK g \in 1 .. m + n : z[g] \in W
    BY <1>1 DEF Has
  <2>2. CASE g \in 1 .. m
    BY <1>1, <2>1, <2>2 DEF Has
  <2>3. CASE g \notin 1 .. m
    <3>1. PICK h \in 1 .. n : g = m + h
      BY <2>3, <1>6
    <3>2. s[h] \in W
      BY <1>1, <2>1, <3>1
    <3> QED BY <1>1, <3>2 DEF Has
  <2> QED BY <2>2, <2>3
<1>8. Has(q, W) => Has(z, W)
  <2>1. 1 .. m \subseteq 1 .. m + n
    BY <1>1
  <2> QED BY <1>1, <2>1 DEF Has
<1>9. Has(s, W) => Has(z, W)
  <2>1. \A h \in 1 .. n : m + h \in 1 .. m + n
    BY <1>1
  <2> QED BY <1>1, <2>1 DEF Has
<1>10. \A i \in DOMAIN z :
         \/ /\ i \in DOMAIN q /\ z[i] = q[i]
            /\ Before(z, i, W) => Before(q, i, W)
            /\ Before(q, i, W) => Before(z, i, W)
         \/ i \notin DOMAIN q /\ \E h \in DOMAIN s :
              /\ i = m + h /\ z[i] = s[h]
              /\ Before(z, i, W) => Has(q, W) \/ Before(s, h, W)
              /\ Has(q, W) \/ Before(s, h, W) => Before(z, i, W)
  <2> SUFFICES ASSUME NEW i \in 1 .. m + n, i \notin 1 .. m
               PROVE  \E h \in DOMAIN s :
                        /\ i = m + h /\ z[i] = s[h]
                        /\ Before(z, i, W) => Has(q, W) \/ Before(s, h, W)
                        /\ Has(q, W) \/ Before(s, h, W) => Before(z, i, W)
    BY <1>1, <1>2
  <2>1. PICK h \in 1 .. n : i = m + h
    BY <1>6
  <2>2. z[i] = s[h]
    BY <1>1, <2>1
  <2> QED BY <1>1, <1>3, <1>4, <1>5, <2>1, <2>2
<1> QED BY <1>1, <1>7, <1>8, <1>9, <1>10 DEF z, m

\* One frame more.
LEMMA AppendHas ==
  ASSUME NEW S, NEW q \in Seq(S), NEW f, NEW W
  PROVE  /\ Append(q, f) = q \o <<f>>
         /\ Has(Append(q, f), W) => Has(q, W) \/ f \in W
         /\ Has(q, W) \/ f \in W => Has(Append(q, f), W)
         /\ \A i \in DOMAIN Append(q, f) :
              \/ /\ i \in DOMAIN q /\ Append(q, f)[i] = q[i]
                 /\ Before(Append(q, f), i, W) => Before(q, i, W)
                 /\ Before(q, i, W) => Before(Append(q, f), i, W)
              \/ /\ i \notin DOMAIN q /\ Append(q, f)[i] = f
                 /\ Before(Append(q, f), i, W) => Has(q, W)
                 /\ Has(q, W) => Before(Append(q, f), i, W)
<1> DEFINE T == S \cup {f}
<1>0. q \in Seq(T)
  BY SeqMonotonic
<1>1. <<f>> \in Seq(T) /\ DOMAIN <<f>> = {1} /\ <<f>>[1] = f /\ Append(q, f) = q \o <<f>>
  OBVIOUS
<1>2. (Has(<<f>>, W) => f \in W) /\ (f \in W => Has(<<f>>, W)) /\ ~Before(<<f>>, 1, W)
  BY <1>1 DEF Has, Before
<1> DEFINE z == q \o <<f>>
<1>3. /\ Has(z, W) => Has(q, W) \/ Has(<<f>>, W)
      /\ Has(q, W) \/ Has(<<f>>, W) => Has(z, W)
  BY <1>0, <1>1, ConcatHas
<1>4. ASSUME NEW i \in DOMAIN z
      PROVE  \/ /\ i \in DOMAIN q /\ z[i] = q[i]
                /\ Before(z, i, W) => Before(q, i, W)
                /\ Before(q, i, W) => Before(z, i, W)
             \/ /\ i \notin DOMAIN q /\ z[i] = f
                /\ Before(z, i, W) => Has(q, W)
                /\ Has(q, W) => Before(z, i, W)
  <2>1. \/ /\ i \in DOMAIN q /\ z[i] = q[i]
           /\ Before(z, i, W) => Before(q, i, W)
           /\ Before(q, i, W) => Before(z, i, W)
        \/ i \notin DOMAIN q /\ \E h \in DOMAIN <<f>> :
             /\ i = Len(q) + h /\ z[i] = <<f>>[h]
             /\ Before(z, i, W) => Has(q, W) \/ Before(<<f>>, h, W)
             /\ Has(q, W) \/ Before(<<f>>, h, W) => Before(z, i, W)
    BY <1>0, <1>1, ConcatHas
  <2> QED BY <1>1, <1>2, <2>1
<1> HIDE DEF z, T
<1>5. Append(q, f) = z
  BY <1>1 DEF z
<1> QED BY <1>2, <1>3, <1>4, <1>5 DEF z

\* The queue r is q without its first frame.
Loses(q, r) == q # <<>> /\ r = Tail(q)

LEMMA LosesHas ==
  ASSUME NEW S, NEW q \in Seq(S), NEW r, Loses(q, r)
  PROVE  /\ q # <<>> /\ Head(q) = q[1] /\ 1 \in DOMAIN q
         /\ \A W : /\ ~Before(q, 1, W)
                   /\ Has(q, W) => Head(q) \in W \/ Has(r, W)
                   /\ Has(r, W) => Has(q, W)
                   /\ Head(q) \in W => Has(q, W)
         /\ \A i \in DOMAIN r :
              /\ i + 1 \in DOMAIN q /\ r[i] = q[i + 1]
              /\ \A W : /\ Before(q, i + 1, W) => Head(q) \in W \/ Before(r, i, W)
                        /\ Before(r, i, W) => Before(q, i + 1, W)
                        /\ Head(q) \in W => Before(q, i + 1, W)
<1>1. r = Tail(q) /\ q # <<>>
  BY DEF Loses
<1>2. ASSUME NEW W
      PROVE  /\ Head(q) = q[1] /\ 1 \in DOMAIN q /\ ~Before(q, 1, W)
             /\ Has(q, W) => Head(q) \in W \/ Has(Tail(q), W)
             /\ Has(Tail(q), W) \/ Head(q) \in W => Has(q, W)
             /\ \A i \in DOMAIN Tail(q) :
                  /\ i + 1 \in DOMAIN q /\ Tail(q)[i] = q[i + 1]
                  /\ Before(q, i + 1, W) => Head(q) \in W \/ Before(Tail(q), i, W)
                  /\ Before(Tail(q), i, W) \/ Head(q) \in W => Before(q, i + 1, W)
  BY <1>1, TailHas
<1>3. ASSUME NEW W
      PROVE  /\ Head(q) = q[1] /\ 1 \in DOMAIN q /\ ~Before(q, 1, W)
             /\ Has(q, W) => Head(q) \in W \/ Has(r, W)
             /\ Has(r, W) \/ Head(q) \in W => Has(q, W)
             /\ \A i \in DOMAIN r :
                  /\ i + 1 \in DOMAIN q /\ r[i] = q[i + 1]
                  /\ Before(q, i + 1, W) => Head(q) \in W \/ Before(r, i, W)
                  /\ Before(r, i, W) \/ Head(q) \in W => Before(q, i + 1, W)
  BY ONLY <1>1, <1>2, Zenon
<1> QED BY ONLY <1>1, <1>3

\* The queue r is q with the frame f behind it.
Gains(q, f, r) == r = Append(q, f)

LEMMA GainsHas ==
  ASSUME NEW S, NEW q \in Seq(S), NEW f, NEW r, Gains(q, f, r)
  PROVE  /\ \A W : /\ Has(r, W) => Has(q, W) \/ f \in W
                   /\ Has(q, W) => Has(r, W)
                   /\ f \in W => Has(r, W)
         /\ \A i \in DOMAIN r :
              \/ /\ i \in DOMAIN q /\ r[i] = q[i]
                 /\ \A W : /\ Before(r, i, W) => Before(q, i, W)
                           /\ Before(q, i, W) => Before(r, i, W)
              \/ /\ i \notin DOMAIN q /\ r[i] = f
                 /\ \A W : /\ Before(r, i, W) => Has(q, W)
                           /\ Has(q, W) => Before(r, i, W)
<1>1. r = Append(q, f)
  BY DEF Gains
<1>2. ASSUME NEW W
      PROVE  /\ Has(Append(q, f), W) => Has(q, W) \/ f \in W
             /\ Has(q, W) \/ f \in W => Has(Append(q, f), W)
             /\ \A i \in DOMAIN Append(q, f) :
                  \/ /\ i \in DOMAIN q /\ Append(q, f)[i] = q[i]
                     /\ Before(Append(q, f), i, W) => Before(q, i, W)
                     /\ Before(q, i, W) => Before(Append(q, f), i, W)
                  \/ /\ i \notin DOMAIN q /\ Append(q, f)[i] = f
                     /\ Before(Append(q, f), i, W) => Has(q, W)
                     /\ Has(q, W) => Before(Append(q, f), i, W)
  BY AppendHas
<1>3. ASSUME NEW W
      PROVE  /\ Has(r, W) => Has(q, W) \/ f \in W
             /\ Has(q, W) \/ f \in W => Has(r, W)
             /\ \A i \in DOMAIN r :
                  \/ /\ i \in DOMAIN q /\ r[i] = q[i]
                     /\ Before(r, i, W) => Before(q, i, W)
                     /\ Before(q, i, W) => Before(r, i, W)
                  \/ /\ i \notin DOMAIN q /\ r[i] = f
                     /\ Before(r, i, W) => Has(q, W)
                     /\ Has(q, W) => Before(r, i, W)
  BY ONLY <1>1, <1>2, Zenon
<1> QED BY ONLY <1>3

\* The queue r is q with the frames s behind it.
Joins(q, s, r) == r = q \o s

LEMMA JoinsHas ==
  ASSUME NEW S, NEW q \in Seq(S), NEW T, NEW s \in Seq(T), NEW r, Joins(q, s, r)
  PROVE  /\ \A W : /\ Has(r, W) => Has(q, W) \/ Has(s, W)
                   /\ Has(q, W) => Has(r, W)
                   /\ Has(s, W) => Has(r, W)
         /\ \A i \in DOMAIN r :
              \/ /\ i \in DOMAIN q /\ r[i] = q[i]
                 /\ \A W : /\ Before(r, i, W) => Before(q, i, W)
                           /\ Before(q, i, W) => Before(r, i, W)
              \/ \E h \in DOMAIN s :
                   /\ i = Len(q) + h /\ r[i] = s[h]
                   /\ \A W : /\ Before(r, i, W) => Has(q, W) \/ Before(s, h, W)
                             /\ Has(q, W) => Before(r, i, W)
                             /\ Before(s, h, W) => Before(r, i, W)
<1>1. r = q \o s
  BY DEF Joins
<1>2. q \in Seq(S \cup T) /\ s \in Seq(S \cup T)
  BY SeqMonotonic
<1>3. Len(q) \in Nat /\ DOMAIN s \subseteq Nat
  <2>1. DOMAIN s = 1 .. Len(s) /\ Len(s) \in Nat
    OBVIOUS
  <2> QED BY <2>1
<1>4. ASSUME NEW W
      PROVE  /\ Has(q \o s, W) => Has(q, W) \/ Has(s, W)
             /\ Has(q, W) \/ Has(s, W) => Has(q \o s, W)
             /\ \A i \in DOMAIN (q \o s) :
                  \/ /\ i \in DOMAIN q /\ (q \o s)[i] = q[i]
                     /\ Before(q \o s, i, W) => Before(q, i, W)
                     /\ Before(q, i, W) => Before(q \o s, i, W)
                  \/ i \notin DOMAIN q /\ \E h \in DOMAIN s :
                       /\ i = Len(q) + h /\ (q \o s)[i] = s[h]
                       /\ Before(q \o s, i, W) => Has(q, W) \/ Before(s, h, W)
                       /\ Has(q, W) \/ Before(s, h, W) => Before(q \o s, i, W)
  BY <1>2, ConcatHas
<1>5. ASSUME NEW W
      PROVE  /\ Has(r, W) => Has(q, W) \/ Has(s, W)
             /\ Has(q, W) \/ Has(s, W) => Has(r, W)
             /\ \A i \in DOMAIN r :
                  \/ /\ i \in DOMAIN q /\ r[i] = q[i]
                     /\ Before(r, i, W) => Before(q, i, W)
                     /\ Before(q, i, W) => Before(r, i, W)
                  \/ i \notin DOMAIN q /\ \E h \in DOMAIN s :
                       /\ i = Len(q) + h /\ r[i] = s[h]
                       /\ Before(r, i, W) => Has(q, W) \/ Before(s, h, W)
                       /\ Has(q, W) \/ Before(s, h, W) => Before(r, i, W)
  BY ONLY <1>1, <1>4, Zenon
<1>6. ASSUME NEW i \in DOMAIN r, i \notin DOMAIN q
      PROVE  \E h \in DOMAIN s :
                   /\ i = Len(q) + h /\ r[i] = s[h]
                   /\ \A W : /\ Before(r, i, W) => Has(q, W) \/ Before(s, h, W)
                             /\ Has(q, W) => Before(r, i, W)
                             /\ Before(s, h, W) => Before(r, i, W)
  <2>1. ASSUME NEW W
        PROVE  \E h \in DOMAIN s :
                   /\ i = Len(q) + h /\ r[i] = s[h]
                   /\ Before(r, i, W) => Has(q, W) \/ Before(s, h, W)
                   /\ Has(q, W) \/ Before(s, h, W) => Before(r, i, W)
    BY ONLY <1>5, <1>6, Zenon
  <2>2. PICK h \in DOMAIN s : i = Len(q) + h /\ r[i] = s[h]
    BY ONLY <2>1
  <2>3. \A g \in DOMAIN s : i = Len(q) + g => g = h
    BY <1>3, <2>2
  <2>4. ASSUME NEW W PROVE /\ Before(r, i, W) => Has(q, W) \/ Before(s, h, W)
                           /\ Has(q, W) \/ Before(s, h, W) => Before(r, i, W)
    BY ONLY <2>1, <2>3, Zenon
  <2> QED BY ONLY <2>2, <2>4, Zenon
<1> QED BY ONLY <1>5, <1>6, Zenon

LEMMA EmptyHas ==
  ASSUME NEW W PROVE ~Has(<<>>, W)
BY DEF Has

-----------------------------------------------------------------------------
(* What the stages mean when everything has settled. *)

\* Nobody waits for anything, and everybody agrees.
AtRest ==
  /\ Rest(owner, Newest) /\ Named /\ owner \in Client
  /\ spc[owner] = "read" /\ up[owner] = <<>>
  /\ \A c \in members : phase[c] = "member" /\ oid[c] = owner
  /\ known[owner] = members

LEMMA SettledFlow ==
  ASSUME Inv, owner \in Client, Named, Settled, NEW L, NEW U, Flow(L, U)
  PROVE  AtRest
<1>1. \A c \in Client : /\ up[c] = <<>> /\ spc[c] = "read" /\ phase[c] # "joining"
                        /\ down[c] = <<>>
  BY DEF Settled
<1>2. members \subseteq Client
  BY DEF Inv, TypeInv
<1>3. L = {} /\ U = {} /\ oid[owner] = owner /\ known[owner] = members
  <2>1. L = {}
    <3> SUFFICES ASSUME NEW p \in members \ {owner}, L = {p} PROVE FALSE
      BY DEF Flow
    <3>1. up[p] = <<LeaveFrame>> /\ up[p] = <<>>
      BY <1>1, <1>2 DEF Flow
    <3> QED BY <3>1
  <2>2. down[owner] = <<>>
    BY <1>1
  <2>3. Awaits(L, U)
    BY DEF Flow
  <2> QED BY <2>1, <2>2, <2>3 DEF Awaits
<1>4. \A c \in members \ {owner} : phase[c] = "member" /\ c \in Fellows
  BY <1>1, <1>2, <1>3 DEF Flow, Online, Fellows
<1>5. \A W : ~Has(<<>>, W)
  BY EmptyHas
<1>6. ASSUME NEW c \in members \ {owner}
      PROVE  keys[c] # <<>> /\ keys[c][1] = Newest /\ Full(c) /\ oid[c] = owner
  <2>1. Follows(c) /\ up[owner] = <<>> /\ down[c] = <<>> /\ down[owner] = <<>>
    BY <1>1, <1>2, <1>4 DEF Flow
  <2>2. ~Has(up[owner], {Rekey(c)}) /\ ~Has(down[c], {Rekey(c)})
        /\ ~Has(up[owner], Rosters) /\ ~Has(down[c], Rosters) /\ ~Has(down[c], News)
    BY <1>5, <2>1
  <2> QED BY <2>1, <2>2 DEF Follows, Coming
<1>7. Leads /\ keys[owner][1] = Newest
  BY DEF Flow, Newest
<1>8. ASSUME NEW c \in Client \ members
      PROVE  phase[c] \in {"out", "gone"} /\ Newest \notin learned[c]
  <2>1. Outside(c) /\ Newest \notin learned[c]
    BY <1>3 DEF Flow
  <2> QED BY <1>1, <2>1 DEF Outside
<1>9. \A c \in Client : hs[c] = None
  BY DEF Flow
<1>10. Rest(owner, Newest)
  BY <1>1, <1>4, <1>6, <1>7, <1>8, <1>9 DEF Rest, Leads
<1> QED BY <1>1, <1>3, <1>4, <1>6, <1>7, <1>10 DEF AtRest, Leads

LEMMA SettledStage ==
  ASSUME Inv, Orderly, Settled, ~overlap
  PROVE  Closed \/ AtRest
<1> SUFFICES ASSUME owner \in Client, Named, Stage PROVE AtRest
  BY DEF Orderly
<1>1. \A c \in Client : /\ up[c] = <<>> /\ spc[c] = "read" /\ phase[c] # "joining"
  BY DEF Settled
<1>2. CASE \E L, U \in SUBSET Client : Flow(L, U)
  BY <1>2, SettledFlow
<1>3. CASE Asked
  <2>1. up[owner] = <<LeaveFrame>> \/ \E d \in Client \ {owner} : Asks(d)
    BY <1>3 DEF Asked
  <2>2. \A e, f : <<e>> # <<>> /\ <<e, f>> # <<>>
    OBVIOUS
  <2>3. up[owner] # <<>>
    BY <2>1, <2>2 DEF Asks
  <2> QED BY <1>1, <2>3
<1>4. ASSUME NEW x \in Client, Handed(x) PROVE FALSE
  BY <1>1, <1>4 DEF Handed
<1>5. ASSUME NEW x \in Client, Join1(x) \/ Join2(x) \/ Join3(x) PROVE FALSE
  BY <1>1, <1>5 DEF Join1, Join2, Join3, Arrives
<1> QED BY <1>2, <1>3, <1>4, <1>5 DEF Stage

LEMMA SettledGoals ==
  ASSUME Inv, Orderly
  PROVE  SettledAgreement /\ SettledForwardSecrecy /\ SettledRoster
<1> SUFFICES ASSUME Settled, ~overlap
             PROVE  /\ Agreement
                    /\ owner # None => \A d \in Client \ members : keys[owner][1] \notin learned[d]
                    /\ \A c \in members : \A d \in members \ {c} : pubs[c][d] = d
  BY DEF SettledAgreement, SettledForwardSecrecy, SettledRoster
<1>1. Closed \/ AtRest
  BY SettledStage
<1>2. CASE Closed
  BY <1>2 DEF Closed, Agreement
<1>3. CASE AtRest
  BY <1>3 DEF AtRest, Rest, Newest, Agreement, Full
<1> QED BY <1>1, <1>2, <1>3

-----------------------------------------------------------------------------
(* A change begins in a settled room. *)

LEMMA RestFacts ==
  ASSUME Inv, AtRest
  PROVE  /\ owner \in members /\ members \subseteq Client
         /\ \A c \in Client : /\ up[c] = <<>> /\ down[c] = <<>> /\ spc[c] = "read" /\ hs[c] = None
                              /\ c \notin members => phase[c] \in {"out", "gone"} /\ Newest \notin learned[c]
         /\ \A c \in members : /\ phase[c] = "member" /\ oid[c] = owner /\ keys[c] # <<>>
                               /\ keys[c][1] = Newest /\ Full(c)
         /\ known[owner] = members /\ Newest \in Nat /\ Named /\ owner \in Client
         /\ up = [c \in Client |-> up[c]] /\ down = [c \in Client |-> down[c]]
<1>1. members \subseteq Client /\ owner \in Client
  BY DEF Inv, TypeInv, AtRest
<1>2. keys[owner] \in Seq(Nat) /\ keys[owner] # <<>>
  BY <1>1 DEF Inv, Counters, AtRest, Rest
<1>3. Newest \in Nat
  BY <1>2 DEF Newest
<1> QED BY <1>1, <1>3 DEF AtRest, Rest, Inv, UpOK, DownOK

LEMMA JoinStarts ==
  ASSUME Inv, AtRest, NEW j \in Client, Join(j)
  PROVE  Named' /\ Join1(j)'
<1>1. /\ phase[j] = "out" /\ phase' = [phase EXCEPT ![j] = "joining"]
      /\ hs' = [hs EXCEPT ![j] = owner]
      /\ up' = [c \in Client |-> IF c \in {j, owner} THEN Append(up[c], MemberKey(j, c)) ELSE up[c]]
      /\ UNCHANGED <<members, owner, spc, down, keys, pubs, known, oid, first, learned>>
  BY DEF Join
<1>2. /\ owner \in members /\ members \subseteq Client /\ j \notin members /\ j # owner
      /\ owner \in Client /\ None \notin Client
  BY <1>1, RestFacts, NoneAssumption
<1>3. /\ up'[j] = <<MemberKey(j, j)>> /\ up'[owner] = <<MemberKey(j, owner)>>
      /\ \A c \in Client \ {owner, j} : up'[c] = <<>>
  <2>1. \A c \in Client : up'[c] = IF c \in {j, owner} THEN Append(<<>>, MemberKey(j, c)) ELSE <<>>
    BY <1>1, RestFacts
  <2>2. \A e : Append(<<>>, e) = <<e>>
    OBVIOUS
  <2> QED BY <1>2, <2>1, <2>2
<1>4. /\ phase'[j] = "joining" /\ hs'[j] = owner
      /\ \A c \in Client \ {j} : phase'[c] = phase[c] /\ hs'[c] = None
      /\ first[j] = None /\ keys[j] = <<>>
  BY <1>1, RestFacts DEF Named, Inv, TypeInv
<1>5. Named'
  BY <1>1, <1>4, RestFacts DEF Named
<1>6. \A c \in members \ {owner} : Peer(c, j)'
  <2> SUFFICES ASSUME NEW c \in members \ {owner} PROVE Peer(c, j)'
    OBVIOUS
  <2>1. Newest' = Newest /\ down'[c] = <<>> /\ c # j /\ c \in Client
    BY <1>1, <1>2, RestFacts DEF Newest
  <2> QED BY <1>1, <1>2, <1>4, <2>1, RestFacts DEF Peer, Full
<1>7. Leads'
  BY <1>1, <1>2, <1>4, RestFacts DEF Leads, Full
<1>8. Arrives(j)'
  <2>1. Newest' = Newest
    BY <1>1 DEF Newest
  <2> QED BY <1>1, <1>2, <1>3, <1>4, <1>6, <1>7, <2>1, RestFacts DEF Arrives
<1>9. HasSpace(members)'
  BY <1>1 DEF Join, HasSpace
<1>10. Join1(j)'
  BY <1>1, <1>2, <1>3, <1>4, <1>8, <1>9, RestFacts DEF Join1
<1> QED BY <1>5, <1>10

\* Whoever leaves: its session is dropped, and the others keep theirs.
LEMMA GoneMeans ==
  ASSUME Inv, NEW c \in Client, NEW s, Gone(c, s)
  PROVE  /\ phase' \in [Client -> {"out", "joining", "member", "gone"}]
         /\ phase'[c] = "gone" /\ up'[c] = s /\ down'[c] = <<>> /\ pubs'[c] = NoPubs
         /\ \A d \in Client \ {c} :
              /\ phase'[d] = phase[d] /\ keys'[d] = keys[d] /\ up'[d] = up[d]
              /\ down'[d] = down[d] /\ pubs'[d] = pubs[d] /\ known'[d] = known[d]
              /\ oid'[d] = oid[d] /\ first'[d] = first[d]
BY DEF Inv, TypeInv, Counters, UpOK, DownOK, Gone

LEMMA GoneNamed ==
  ASSUME Inv, Named, NEW c \in Client, NEW s, Gone(c, s)
  PROVE  Named'
<1>1. pubs'[c] = NoPubs /\ phase'[c] = "gone"
      /\ \A d \in Client \ {c} : phase'[d] = phase[d] /\ keys'[d] = keys[d] /\ pubs'[d] = pubs[d]
                               /\ first'[d] = first[d]
  BY GoneMeans
<1> QED BY <1>1 DEF Named, NoPubs

\* The owner leaves, after a request to hand over or without.
LEMMA OwnerLeaves ==
  ASSUME Inv, AtRest, NEW s, Gone(owner, s), UNCHANGED <<members, owner, hs, spc, learned>>,
         s = <<LeaveFrame>> \/ \E d \in Client \ {owner} : s = <<[t |-> "transfer", target |-> d], LeaveFrame>>
  PROVE  Named' /\ Stage'
<1>1. /\ phase'[owner] = "gone" /\ up'[owner] = s /\ down'[owner] = <<>> /\ pubs'[owner] = NoPubs
      /\ \A d \in Client \ {owner} :
           /\ phase'[d] = phase[d] /\ keys'[d] = keys[d] /\ up'[d] = <<>>
           /\ down'[d] = <<>> /\ pubs'[d] = pubs[d] /\ oid'[d] = oid[d]
  BY GoneMeans, RestFacts
<1>2. Named'
  BY GoneNamed, RestFacts
<1>3. \A d \in members \ {owner} : phase'[d] = "member" /\ keys'[d] = keys[d] /\ d \in Client /\ Full(d)'
  BY <1>1, RestFacts DEF Full
<1>4. \A d \in Client \ members : phase'[d] = phase[d]
  BY <1>1, RestFacts
<1>5. \A d \in Client : down'[d] = <<>> /\ hs'[d] = None /\ spc'[d] = "read" /\ (d # owner => up'[d] = <<>>)
  BY <1>1, RestFacts
<1>6. \E k \in Nat : Rest(owner, k)'
  <2> PICK k \in Nat : k = Newest
    BY RestFacts
  <2>1. /\ \A d \in members \ {owner} : keys[d] # <<>> /\ keys[d][1] = k
        /\ \A d \in Client \ members : phase[d] \in {"out", "gone"} /\ k \notin learned[d]
    BY RestFacts
  <2>2. Rest(owner, k)'
    BY <1>1, <1>3, <1>4, <1>5, <2>1, RestFacts DEF Rest
  <2> QED BY <2>2
<1>7. \/ phase'[owner] = "gone" /\ up'[owner] = <<LeaveFrame>>
      \/ \E d \in Client \ {owner'} : Asks(d)'
  BY <1>1 DEF Asks
<1>8. Asked'
  BY <1>1, <1>3, <1>5, <1>6, <1>7, RestFacts DEF Asked
<1> QED BY <1>2, <1>8 DEF Stage

LEMMA DepartStarts ==
  ASSUME Inv, AtRest, NEW c \in Client, Depart(c)
  PROVE  Named' /\ Stage'
<1>1. /\ Online(c) /\ UNCHANGED <<members, owner, hs, spc, learned, nkeys>>
      /\ up[c] = <<>> /\ c \in members
  BY RestFacts DEF Depart, serverVars, Online
<1>2. Gone(c, <<LeaveFrame>>)
  <2>1. PICK i \in 0 .. Len(up[c]) : Gone(c, SubSeq(up[c], 1, i) \o <<LeaveFrame>>)
    BY DEF Depart, LeaveFrame
  <2>2. SubSeq(up[c], 1, i) \o <<LeaveFrame>> = <<LeaveFrame>>
    <3>1. i = 0 /\ SubSeq(up[c], 1, i) = <<>>
      BY <1>1
    <3>2. \A e : <<>> \o <<e>> = <<e>>
      OBVIOUS
    <3> QED BY <3>1, <3>2
  <2> QED BY <2>1, <2>2
<1>3. /\ phase'[c] = "gone" /\ up'[c] = <<LeaveFrame>> /\ down'[c] = <<>> /\ pubs'[c] = NoPubs
      /\ \A d \in Client \ {c} :
           /\ phase'[d] = phase[d] /\ keys'[d] = keys[d] /\ up'[d] = <<>>
           /\ down'[d] = <<>> /\ pubs'[d] = pubs[d] /\ known'[d] = known[d]
           /\ oid'[d] = oid[d]
  BY <1>2, GoneMeans, RestFacts
<1>4. Named'
  BY <1>2, GoneNamed, RestFacts
<1>5. \A d \in members \ {c} : Full(d)'
  BY <1>1, <1>3, RestFacts DEF Full
<1>6. CASE c = owner
  BY <1>1, <1>2, <1>6, OwnerLeaves
<1>7. CASE c # owner
  <2>1. Leads'
    BY <1>1, <1>3, <1>5, <1>7, RestFacts DEF Leads
  <2>2. Newest' = Newest /\ (\A d \in members \ {c} : Online(d)') /\ ~Online(c)'
    BY <1>1, <1>3, <1>7, RestFacts DEF Newest, Online
  <2>3. \A W : ~Has(<<>>, W)
    BY EmptyHas
  <2>4. ASSUME NEW d \in members \ {owner, c} PROVE Follows(d)' /\ ~Coming(d)' /\ phase'[d] = "member"
    <3>1. down'[d] = <<>> /\ up'[owner'] = <<>> /\ d \in Client /\ keys'[d] = keys[d] /\ phase'[d] = "member"
          /\ pubs'[d] = pubs[d] /\ oid'[d] = oid[d]
      BY <1>1, <1>3, <1>7, RestFacts
    <3>2. ~Coming(d)'
      BY <2>3, <3>1 DEF Coming
    <3> QED BY <1>1, <1>5, <2>2, <2>4, <3>1, <3>2, RestFacts DEF Follows, Full
  <2>5. Fellows' = members \ {owner, c}
    BY <1>1, <2>2 DEF Fellows
  <2>6. \A d \in Client \ members : Outside(d)' /\ Newest' \notin learned'[d]
    BY <1>1, <1>3, <2>2, RestFacts DEF Outside
  <2>7. Awaits({c}, {})'
    BY <1>1, <1>3, <1>7, RestFacts DEF Awaits
  <2>8. \A d \in members \ {owner} : IF d \in {c} THEN phase'[d] = "gone" /\ up'[d] = <<LeaveFrame>>
                                       ELSE Online(d)' /\ up'[d] = <<>>
    BY <1>1, <1>3, <2>2, RestFacts
  <2>9. \A d \in Client : spc'[d] = "read" /\ hs'[d] = None
    BY <1>1, RestFacts
  <2>10. up'[owner] = <<>>
    BY <1>3, <1>7, RestFacts
  <2>11. Flow({c}, {})'
    BY <1>1, <1>7, <2>1, <2>4, <2>5, <2>6, <2>7, <2>8, <2>9, <2>10 DEF Flow
  <2> QED BY <1>4, <2>11 DEF Stage
<1> QED BY <1>4, <1>6, <1>7

LEMMA RequestStarts ==
  ASSUME Inv, AtRest, NEW c \in Client, NEW d \in Client, NEW leave \in BOOLEAN,
         Kick(c, d) \/ HandOver(c, d, leave)
  PROVE  Named' /\ Stage'
<1>1. CanManage(c, d) /\ UNCHANGED <<members, owner, hs, spc, learned, nkeys>>
  BY DEF Kick, HandOver, serverVars
<1>2. c = owner /\ d # owner
  <2>1. phase[c] = "member" /\ oid[c] = c /\ d # c
    BY <1>1 DEF CanManage
  <2> QED BY <2>1, RestFacts
<1>3. \A s \in Seq({[t |-> "kick", target |-> d], [t |-> "transfer", target |-> d], LeaveFrame}) : <<>> \o s = s
  OBVIOUS
<1>4. up[owner] = <<>>
  BY RestFacts
<1>5. ASSUME NEW f, Sends(c, <<f>>), UNCHANGED <<down, clientVars>>,
             f \in {[t |-> "kick", target |-> d], [t |-> "transfer", target |-> d]}
      PROVE  Named' /\ Stage'
  <2>1. <<>> \o <<f>> = <<f>>
    OBVIOUS
  <2>2. up'[owner] = <<f>> /\ \A e \in Client \ {owner} : up'[e] = <<>>
    BY <1>2, <1>4, <1>5, <2>1, RestFacts DEF Sends
  <2>3. Named'
    BY <1>5, RestFacts DEF Named, clientVars
  <2>4. \E k \in Nat : Rest(owner, k)'
    <3> PICK k \in Nat : k = Newest
      BY RestFacts
    <3>1. Rest(owner, k)'
      BY <1>1, <1>5, <2>2, RestFacts DEF Rest, clientVars, Full
    <3> QED BY <3>1
  <2>5. Asks(d)'
    BY <1>1, <1>5, <2>2, RestFacts DEF Asks, clientVars
  <2>6. Asked'
    BY <1>1, <1>2, <1>5, <2>4, <2>5, RestFacts DEF Asked, clientVars
  <2> QED BY <2>3, <2>6 DEF Stage
<1>6. CASE Kick(c, d)
  BY <1>5, <1>6 DEF Kick
<1>7. CASE HandOver(c, d, leave) /\ ~leave
  BY <1>5, <1>7 DEF HandOver
<1>8. CASE HandOver(c, d, leave) /\ leave
  <2>1. Gone(owner, <<>> \o <<[t |-> "transfer", target |-> d], LeaveFrame>>)
    BY <1>2, <1>4, <1>8 DEF HandOver, LeaveFrame
  <2>2. Gone(owner, <<[t |-> "transfer", target |-> d], LeaveFrame>>)
    BY <2>1, <1>3
  <2> QED BY <1>1, <1>2, <2>2, OwnerLeaves
<1> QED BY <1>6, <1>7, <1>8

-----------------------------------------------------------------------------
(* A rotation: the newest key goes to everybody it is meant for. *)

LEMMA RekeysSent ==
  ASSUME NEW c \in Client, NEW S, S \subseteq Client, NEW p, NEW k,
         \A d \in S : p[d] = d, NEW s \in RekeyFrames(c, S, p, k)
  PROVE  LET R(d) == [t |-> "rekey", target |-> d, by |-> c, for |-> d, key |-> k]
         IN /\ s \in Seq({R(d) : d \in S})
            /\ \A d \in S : Has(s, {R(d)})
<1> DEFINE R(d) == [t |-> "rekey", target |-> d, by |-> c, for |-> d, key |-> k]
           n == Cardinality(S)
<1>1. {d \in S : p[d] # None} = S
  BY NoneAssumption
<1>2. PICK r \in SetToSeqs(S) :
        s = [i \in DOMAIN r |-> [t |-> "rekey", target |-> r[i], by |-> c, for |-> p[r[i]],
                                 key |-> k]]
  BY <1>1 DEF RekeyFrames
<1>3. r \in [1 .. n -> S] /\ \A i, h \in 1 .. n : i # h => r[i] # r[h]
  BY <1>2 DEF SetToSeqs
<1>4. IsFiniteSet(S) /\ n \in Nat
  BY ClientAssumption, FS_Subset, FS_CardinalityType
<1>5. \A d \in S : \E i \in 1 .. n : r[i] = d
  <2>1. IsFiniteSet(1 .. n) /\ Cardinality(1 .. n) = n
    <3>1. Cardinality(1 .. n) = IF 1 > n THEN 0 ELSE n - 1 + 1
      BY <1>4, FS_Interval
    <3> HIDE DEF n
    <3> QED BY <1>4, <3>1, FS_Interval
  <2>2. r \in Injection(1 .. n, S)
    BY <1>3 DEF Injection, IsInjective
  <2>3. r \in Surjection(1 .. n, S)
    BY <1>4, <2>1, <2>2, FS_Injection
  <2> QED BY <2>3 DEF Surjection
<1>6. \A i \in 1 .. n : s[i] = R(r[i])
  BY <1>2, <1>3
<1>7. s \in Seq({R(d) : d \in S})
  <2>1. s \in [1 .. n -> {R(d) : d \in S}]
    BY <1>2, <1>3, <1>6
  <2> QED BY <1>4, <2>1
<1>8. ASSUME NEW d \in S PROVE Has(s, {R(d)})
  <2>1. PICK i \in 1 .. n : r[i] = d
    BY <1>5
  <2>2. s[i] = R(d) /\ i \in DOMAIN s
    BY <1>2, <1>3, <1>6, <2>1
  <2> QED BY <2>2 DEF Has
<1> QED BY <1>7, <1>8

-----------------------------------------------------------------------------
(* The owner's frames spread: who can take a step, and what it finds. *)

LEMMA KindsOfFrame ==
  /\ \A c : Rekey(c).t = "rekey" /\ Rekey(c).target = c
  /\ \A f \in News : f.t \in {"presence", "welcome"} /\ f.o = owner /\ f.m \subseteq Client
  /\ \A f \in Rosters : f.t = "roster"
  /\ \A M, o : Presence(M, o).t = "presence" /\ Presence(M, o).m = M /\ Presence(M, o).o = o
  /\ RoomClosed.t = "room_closed" /\ LeaveFrame.t = "leave"
  /\ \A j, p : MemberKey(j, p).t = "member_key" /\ MemberKey(j, p).j = j
  /\ \A j, p : MemberKey(j, p).pub = p
  /\ \A j : KeyDeliver(j).t = "key_deliver" /\ KeyDeliver(j).j = j /\ KeyDeliver(j).key = Newest
BY DEF Rekey, News, Rosters, Presence, RoomClosed, LeaveFrame, MemberKey, KeyDeliver

LEMMA HeadOfOne ==
  ASSUME NEW e, NEW f
  PROVE  /\ Head(<<e>>) = e /\ Tail(<<e>>) = <<>> /\ <<e>> # <<>> /\ <<>> \o <<e>> = <<e>>
         /\ Append(<<>>, e) = <<e>>
         /\ Head(<<e, f>>) = e /\ Tail(<<e, f>>) = <<f>> /\ <<e, f>> # <<>>
         /\ Append(<<e>>, f) = <<e, f>>
<1>1. Head(<<e>>) = e /\ Tail(<<e>>) = <<>> /\ <<e>> # <<>>
  OBVIOUS
<1>2. <<>> \o <<e>> = <<e>>
  OBVIOUS
<1>3. Append(<<>>, e) = <<e>>
  OBVIOUS
<1>5. Append(<<e>>, f) = <<e, f>>
  <2>1. <<e>> \in Seq({e, f}) /\ f \in {e, f} /\ <<e, f>> \in Seq({e, f}) /\ Len(<<e>>) = 1
    OBVIOUS
  <2>2. /\ Append(<<e>>, f) \in Seq({e, f}) /\ Len(Append(<<e>>, f)) = 2
        /\ Append(<<e>>, f)[1] = e /\ Append(<<e>>, f)[2] = f
    BY <2>1, AppendProperties
  <2>3. \A i \in 1 .. 2 : Append(<<e>>, f)[i] = <<e, f>>[i]
    BY <2>2
  <2> QED BY <2>1, <2>2, <2>3, SeqEqual
<1>4. Head(<<e, f>>) = e /\ Tail(<<e, f>>) = <<f>> /\ <<e, f>> # <<>>
  OBVIOUS
<1> QED BY <1>1, <1>2, <1>3, <1>4, <1>5

LEMMA FlowHeads ==
  ASSUME Inv, owner \in Client, NEW L, NEW U, Flow(L, U), NEW c \in Client
  PROVE  /\ spc[c] = "read" /\ hs[c] = None
         /\ up[c] # <<>> =>
              \/ c = owner /\ Posted(1) /\ Head(up[c]) = up[c][1]
                 /\ ((\E d \in Fellows : Head(up[c]) = Rekey(d)) \/ Head(up[c]) \in Rosters)
              \/ c # owner /\ up[c] = <<LeaveFrame>> /\ Head(up[c]) = LeaveFrame
                 /\ (c \in members => L = {c})
         /\ down[c] # <<>> =>
              \/ c = owner /\ \E M : M \subseteq Client /\ Head(down[c]) = Presence(M, owner)
              \/ c \in Fellows /\ Foreseen(c, 1) /\ Head(down[c]) = down[c][1]
                 /\ Head(down[c]) \in News \cup {Rekey(c)} \cup Rosters
              \/ c \notin members /\ down[c] = <<RoomClosed>> /\ Head(down[c]) = RoomClosed
<1>1. up[c] \in Seq(UpFrame(c)) /\ down[c] \in Seq(DownFrame(c))
      /\ (down[c] # <<>> => Online(c))
  BY DEF Inv, UpOK, DownOK
<1>2. spc[c] = "read" /\ hs[c] = None
  BY DEF Flow
<1>3. ASSUME up[c] # <<>>
      PROVE  \/ c = owner /\ Posted(1) /\ Head(up[c]) = up[c][1]
                /\ ((\E d \in Fellows : Head(up[c]) = Rekey(d)) \/ Head(up[c]) \in Rosters)
             \/ c # owner /\ up[c] = <<LeaveFrame>> /\ Head(up[c]) = LeaveFrame
                /\ (c \in members => L = {c})
  <2>1. CASE c = owner
    <3>1. 1 \in DOMAIN up[c] /\ Head(up[c]) = up[c][1]
      BY <1>1, <1>3, TailHas
    <3>2. Posted(1)
      BY <2>1, <3>1 DEF Flow
    <3> QED BY <2>1, <3>1, <3>2 DEF Posted
  <2>2. CASE c # owner
    <3>1. up[c] = <<LeaveFrame>> /\ (c \in members => L = {c})
      BY <1>3, <2>2 DEF Flow, Outside
    <3> QED BY <2>2, <3>1, HeadOfOne
  <2> QED BY <2>1, <2>2
<1>4. ASSUME down[c] # <<>>
      PROVE  \/ c = owner /\ \E M : M \subseteq Client /\ Head(down[c]) = Presence(M, owner)
             \/ c \in Fellows /\ Foreseen(c, 1) /\ Head(down[c]) = down[c][1]
                /\ Head(down[c]) \in News \cup {Rekey(c)} \cup Rosters
             \/ c \notin members /\ down[c] = <<RoomClosed>> /\ Head(down[c]) = RoomClosed
  <2>1. CASE c = owner
    <3>1. \E M : Head(down[c]) = Presence(M, owner)
      BY <1>4, <2>1, HeadOfOne DEF Flow, Awaits
    <3>2. Head(down[c]) \in DownFrame(c)
      BY <1>1, <1>4
    <3>3. Head(down[c]).m \subseteq Client
      BY <3>1, <3>2, DownKinds, KindsOfFrame
    <3> QED BY <2>1, <3>1, <3>3, KindsOfFrame
  <2>2. CASE c \in members /\ c # owner
    <3>1. c \in Fellows /\ 1 \in DOMAIN down[c] /\ Head(down[c]) = down[c][1]
      BY <1>1, <1>4, <2>2, TailHas DEF Fellows
    <3>2. Foreseen(c, 1)
      BY <3>1 DEF Flow, Follows
    <3> QED BY <3>1, <3>2 DEF Foreseen
  <2>3. CASE c \notin members
    <3>1. down[c] = <<RoomClosed>>
      BY <1>4, <2>3 DEF Flow, Outside
    <3> QED BY <2>3, <3>1, HeadOfOne
  <2> QED BY <2>1, <2>2, <2>3 DEF Flow, Leads
<1> QED BY <1>2, <1>3, <1>4

\* What goes on while they spread.
LEMMA FlowSteps ==
  ASSUME Inv, owner \in Client, NEW L, NEW U, Flow(L, U), NEW c \in Client,
         Server(c) \/ Browser(c)
  PROVE  \/ c = owner /\ (HandleRekey(c) \/ HandleRoster(c) \/ OnPresenceSame(c) \/ RotateForLeave(c))
         \/ c \in Fellows /\ (OnWelcome(c) \/ OnRekey(c) \/ ApplyRoster(c) \/ OnPresenceMember(c))
         \/ c # owner /\ (c \in members => L = {c}) /\ Leave(c)
         \/ c \notin members /\ OnRoomClosed(c)
<1> DEFINE f == Head(up[c])
           g == Head(down[c])
<1>1. ASSUME Server(c)
      PROVE  \/ c = owner /\ (HandleRekey(c) \/ HandleRoster(c))
             \/ c # owner /\ (c \in members => L = {c}) /\ Leave(c)
  <2>1. ~Announce(c)
    BY FlowHeads DEF Announce
  <2>2. PICK t : NextOf(c, t) /\ \/ t \in {"member_key", "key_deliver", "enter", "transfer", "kick"}
                                 \/ t = "rekey" /\ HandleRekey(c)
                                 \/ t = "roster" /\ HandleRoster(c)
                                 \/ t = "leave" /\ Leave(c)
    BY <1>1, <2>1 DEF Server, RelayHandshake, Enter, HandleRekey, HandleRoster, HandleTransfer,
                      HandleKick, Leave
  <2>3. up[c] # <<>> /\ f.t = t
    BY <2>2 DEF NextOf
  <2>4. \/ c = owner /\ ((\E d \in Fellows : f = Rekey(d)) \/ f \in Rosters)
        \/ c # owner /\ f = LeaveFrame /\ (c \in members => L = {c})
    BY <2>3, FlowHeads
  <2> HIDE DEF f
  <2>5. \/ c = owner /\ f.t \in {"rekey", "roster"}
        \/ c # owner /\ f.t = "leave" /\ (c \in members => L = {c})
    BY <2>4, KindsOfFrame
  <2> QED BY <2>2, <2>3, <2>5
<1>2. ASSUME Browser(c)
      PROVE  \/ c = owner /\ (OnPresenceSame(c) \/ RotateForLeave(c))
             \/ c \in Fellows /\ (OnWelcome(c) \/ OnRekey(c) \/ ApplyRoster(c) \/ OnPresenceMember(c))
             \/ c \notin members /\ OnRoomClosed(c)
  <2>1. PICK t : NextFor(c, t) /\ \/ t \in {"member_key", "key_deliver"}
                                  \/ t = "welcome" /\ OnWelcome(c)
                                  \/ t = "rekey" /\ OnRekey(c)
                                  \/ t = "roster" /\ ApplyRoster(c)
                                  \/ t = "presence" /\ g.o # c /\ OnPresenceMember(c)
                                  \/ t = "presence" /\ g.o = c /\ (OnPresenceSame(c) \/ RotateForLeave(c))
                                  \/ t = "room_closed" /\ OnRoomClosed(c)
    BY <1>2 DEF Browser, RotateForJoin, OnOwnerKey, FinishJoin, OnWelcome, OnRekey, ApplyRoster,
                OnPresenceMember, OnPresenceSame, RotateForLeave, OnRoomClosed
  <2>2. down[c] # <<>> /\ g.t = t
    BY <2>1 DEF NextFor
  <2>3. \/ c = owner /\ \E M : g = Presence(M, owner)
        \/ c \in Fellows /\ g \in News \cup {Rekey(c)} \cup Rosters
        \/ c \notin members /\ g = RoomClosed
    BY <2>2, FlowHeads
  <2>4. c \in Fellows => c # owner
    BY DEF Fellows
  <2> HIDE DEF g
  <2>5. \/ c = owner /\ g.t = "presence" /\ g.o = c
        \/ c \in Fellows /\ g.t \in {"presence", "welcome"} /\ g.o # c
        \/ c \in Fellows /\ g.t \in {"rekey", "roster"}
        \/ c \notin members /\ g.t = "room_closed"
    BY <2>3, <2>4, KindsOfFrame
  <2> QED BY <2>1, <2>2, <2>5
<1> QED BY <1>1, <1>2

\* The frames and the members' browsers as a step leaves them, with the same
\* members, the same owner and the same key.
LEMMA SameFrames ==
  ASSUME UNCHANGED <<members, owner>>, Newest' = Newest
  PROVE  /\ \A c : Rekey(c)' = Rekey(c)
         /\ News' = News /\ Rosters' = Rosters
BY DEF Rekey, News, Rosters

\* A step that concerns the members only.
LEMMA FlowKept ==
  ASSUME Inv, owner \in Client, NEW L, NEW U, Flow(L, U),
         UNCHANGED <<members, owner, hs, spc>>, Newest' = Newest, Leads',
         \A c \in Client \ {owner} : up'[c] = up[c],
         \A c \in Client \ Fellows : phase'[c] = phase[c],
         \A c \in Client \ members : down'[c] = down[c] /\ learned'[c] = learned[c],
         \A c \in Fellows : /\ Online(c)' /\ Follows(c)'
                            /\ Coming(c)' => Coming(c)
                            /\ phase[c] = "member" => phase'[c] = "member",
         \A i \in DOMAIN up'[owner] : Posted(i)', Awaits(L, U)'
  PROVE  Flow(L, U)'
<1>1. Fellows' = Fellows
  BY DEF Fellows, Online, Inv, TypeInv
<1>2. \A c \in Client \ members : Outside(c)' /\ (c \in U \/ Newest' \notin learned'[c])
  <2> SUFFICES ASSUME NEW c \in Client \ members
               PROVE  Outside(c)' /\ (c \in U \/ Newest' \notin learned'[c])
    OBVIOUS
  <2>1. Outside(c) /\ (c \in U \/ Newest \notin learned[c])
    BY DEF Flow
  <2>2. c # owner /\ c \notin Fellows
    BY DEF Flow, Leads, Fellows
  <2>3. phase'[c] = phase[c] /\ up'[c] = up[c] /\ down'[c] = down[c] /\ learned'[c] = learned[c]
    BY <2>2
  <2> QED BY <2>1, <2>3 DEF Outside
<1>3. \A c \in members \ {owner} : IF c \in L THEN phase'[c] = "gone" /\ up'[c] = <<LeaveFrame>>
                                                ELSE Online(c)' /\ up'[c] = <<>>
  <2> SUFFICES ASSUME NEW c \in members \ {owner}
               PROVE  IF c \in L THEN phase'[c] = "gone" /\ up'[c] = <<LeaveFrame>>
                                 ELSE Online(c)' /\ up'[c] = <<>>
    OBVIOUS
  <2>1. c \in Client /\ up'[c] = up[c]
    BY DEF Inv, TypeInv
  <2>2. IF c \in L THEN phase[c] = "gone" /\ up[c] = <<LeaveFrame>>
                   ELSE Online(c) /\ up[c] = <<>>
    BY DEF Flow
  <2>3. CASE c \in L
    <3>1. c \notin Fellows
      BY <2>2, <2>3 DEF Fellows, Online
    <3> QED BY <2>1, <2>2, <2>3, <3>1
  <2>4. CASE c \notin L
    <3>1. c \in Fellows
      BY <2>2, <2>4 DEF Fellows
    <3> QED BY <2>1, <2>2, <2>4, <3>1
  <2> QED BY <2>3, <2>4
<1>4. (L = {} /\ U = {}) \/ \A c \in Fellows : ~Coming(c)' /\ phase'[c] = "member"
  BY DEF Flow
<1>5. L = {} \/ (U = {} /\ \E p \in members' \ {owner'} : L = {p})
  BY DEF Flow
<1>6. \A c \in Client : spc'[c] = "read" /\ hs'[c] = None
  BY DEF Flow
<1>7. U \cap members' = {}
  BY DEF Flow
<1> QED BY <1>1, <1>2, <1>3, <1>4, <1>5, <1>6, <1>7 DEF Flow

\* handleRekey: the key is now on its way to the member it is sealed to.
LEMMA FlowRekey ==
  ASSUME Inv, owner \in Client, Named, NEW L, NEW U, Flow(L, U), HandleRekey(owner)
  PROVE  Named' /\ Flow(L, U)'
<1>1. /\ up[owner] # <<>> /\ Head(up[owner]).t = "rekey" /\ Served(owner)
      /\ ToEach({Head(up[owner]).target} \cap members, Head(up[owner]))
      /\ UNCHANGED <<members, owner, hs, spc, phase, keys, pubs, known, oid, first, learned>>
  BY DEF HandleRekey, NextOf, serverVars, clientVars, history
<1>2. PICK d \in Fellows : Head(up[owner]) = Rekey(d)
  BY <1>1, FlowHeads, KindsOfFrame
<1>3. d \in members /\ d \in Client /\ d # owner /\ Online(d)
  BY DEF Fellows, Inv, TypeInv
<1>4. ToEach({d}, Rekey(d))
  <2>1. {Head(up[owner]).target} \cap members = {d}
    BY <1>2, <1>3, KindsOfFrame
  <2> QED BY <1>1, <1>2, <2>1
<1>5. /\ down'[d] = Append(down[d], Rekey(d)) /\ \A c \in Client \ {d} : down'[c] = down[c]
      /\ up'[owner] = Tail(up[owner]) /\ \A c \in Client \ {owner} : up'[c] = up[c]
  BY <1>1, <1>3, <1>4 DEF ToEach, Served, Inv, UpOK
<1>6. Newest' = Newest
  BY <1>1 DEF Newest
<1>7. /\ \A c : Rekey(c)' = Rekey(c)
      /\ News' = News /\ Rosters' = Rosters
  BY <1>1, <1>6, SameFrames
<1>8. up[owner] \in Seq(UpFrame(owner)) /\ \A c \in Client : down[c] \in Seq(DownFrame(c))
  BY DEF Inv, UpOK, DownOK
<1>19. Gains(down[d], Rekey(d), down'[d]) /\ down[d] \in Seq(DownFrame(d))
  BY <1>3, <1>5, <1>8 DEF Gains
<1>20. Loses(up[owner], up'[owner]) /\ up[owner] \in Seq(UpFrame(owner))
  BY <1>1, <1>5, <1>8 DEF Loses
<1>9. Rekey(d) \notin Rosters /\ Rekey(d) \notin News /\ \A c : c # d => Rekey(d) # Rekey(c)
  BY KindsOfFrame
<1>10. Coming(d)
  <2>1. Has(up[owner], {Rekey(d)})
    BY <1>2, <1>20, LosesHas
  <2> QED BY <2>1 DEF Coming
<1>11. Follows(d) /\ phase[d] = "member"
  BY <1>10 DEF Flow, Follows
<1>12. ASSUME NEW c \in Fellows
       PROVE  /\ Coming(c)' => Coming(c)
              /\ Coming(c) => Coming(c)'
  <2>1. Has(up'[owner], {Rekey(c)}) => Has(up[owner], {Rekey(c)})
    BY <1>20, LosesHas
  <2>2. Has(up[owner], {Rekey(c)}) => Has(up'[owner], {Rekey(c)}) \/ c = d
    BY <1>2, <1>9, <1>20, LosesHas
  <2>3. CASE c = d
    <3>1. Has(down'[d], {Rekey(d)})
      BY <1>19, GainsHas
    <3> QED BY <1>1, <1>7, <1>10, <2>3, <3>1 DEF Coming
  <2>4. CASE c # d
    <3>1. down'[c] = down[c]
      BY <1>5, <2>4 DEF Fellows, Inv, TypeInv
    <3> QED BY <1>1, <1>7, <2>1, <2>2, <2>4, <3>1 DEF Coming
  <2> QED BY <2>3, <2>4
<1>13. ASSUME NEW c \in Fellows, NEW i \in DOMAIN down'[c] PROVE Foreseen(c, i)'
  <2>1. CASE c = d
    <3>1. \A W : \/ /\ i \in DOMAIN down[d] /\ down'[d][i] = down[d][i]
                    /\ Before(down'[d], i, W) => Before(down[d], i, W)
                    /\ Before(down[d], i, W) => Before(down'[d], i, W)
                 \/ /\ i \notin DOMAIN down[d] /\ down'[d][i] = Rekey(d)
                    /\ Has(down[d], W) => Before(down'[d], i, W)
      <4>1. i \in DOMAIN down'[d]
        BY <2>1
      <4> QED BY <1>19, <4>1, GainsHas
    <3>2. CASE down'[d][i] = Rekey(d) /\ (Has(down[d], News) => Before(down'[d], i, News))
      BY <1>1, <1>7, <1>11, <2>1, <3>2 DEF Foreseen, Follows
    <3>3. CASE i \in DOMAIN down[d] /\ Foreseen(d, i) /\ down'[d][i] = down[d][i]
               /\ \A W : (Before(down'[d], i, W) => Before(down[d], i, W))
                         /\ (Before(down[d], i, W) => Before(down'[d], i, W))
      BY <1>1, <1>6, <1>7, <2>1, <3>3 DEF Foreseen
    <3> QED BY <1>11, <3>1, <3>2, <3>3 DEF Follows
  <2>2. CASE c # d
    <3>1. down'[c] = down[c] /\ Foreseen(c, i)
      BY <1>5, <2>2 DEF Fellows, Inv, TypeInv, Flow, Follows
    <3> QED BY <1>1, <1>6, <1>7, <3>1 DEF Foreseen
  <2> QED BY <2>1, <2>2
<1>14. ASSUME NEW c \in Fellows PROVE Follows(c)'
  <2>1. Follows(c) /\ c \in Client
    BY DEF Flow, Fellows, Inv, TypeInv
  <2>2. Has(up[owner], Rosters) => Has(up'[owner], Rosters)
    BY <1>2, <1>9, <1>20, LosesHas
  <2>3. \A W : Has(down[c], W) => Has(down'[c], W)
    <3>1. c = d => \A W : Has(down[c], W) => Has(down'[c], W)
      BY <1>19, GainsHas
    <3>2. c # d => down'[c] = down[c]
      BY <1>5, <2>1
    <3> QED BY <3>1, <3>2
  <2>4. down[owner] # <<>> => down'[owner] # <<>>
    BY <1>3, <1>5
  <2> QED BY <1>1, <1>6, <1>7, <1>12, <1>13, <2>1, <2>2, <2>3, <2>4 DEF Follows, Full
<1>15. ASSUME NEW i \in DOMAIN up'[owner] PROVE Posted(i)'
  <2>1. /\ i + 1 \in DOMAIN up[owner] /\ up'[owner][i] = up[owner][i + 1]
        /\ \A W : /\ Before(up[owner], i + 1, W) => Rekey(d) \in W \/ Before(up'[owner], i, W)
                  /\ Before(up'[owner], i, W) => Before(up[owner], i + 1, W)
                  /\ Rekey(d) \in W => Before(up[owner], i + 1, W)
    BY <1>2, <1>20, LosesHas
  <2>2. Posted(i + 1)
    BY <2>1 DEF Flow
  <2>3. CASE \E c \in Fellows : up[owner][i + 1] = Rekey(c)
    BY <1>1, <1>7, <2>1, <2>3 DEF Posted, Fellows, Online
  <2>4. CASE up[owner][i + 1] \in Rosters
    <3>1. ASSUME NEW c \in Fellows
          PROVE up'[owner][i].key = IF Has(down'[c], {Rekey(c)}) \/ Before(up'[owner], i, {Rekey(c)})
                                      THEN Newest ELSE keys[c][1]
      <4>1. up[owner][i + 1].key = IF Has(down[c], {Rekey(c)}) \/ Before(up[owner], i + 1, {Rekey(c)})
                                     THEN Newest ELSE keys[c][1]
        BY <2>2, <2>4, KindsOfFrame DEF Posted
      <4>2. CASE c = d
        <5>1. Has(down'[d], {Rekey(d)}) /\ Before(up[owner], i + 1, {Rekey(c)})
          BY <1>19, <2>1, <4>2, GainsHas
        <5> QED BY <2>1, <4>1, <4>2, <5>1
      <4>3. CASE c # d
        <5>1. down'[c] = down[c] /\ Rekey(d) \notin {Rekey(c)}
          BY <1>5, <1>9, <4>3 DEF Fellows, Inv, TypeInv
        <5> QED BY <2>1, <4>1, <5>1
      <4> QED BY <4>2, <4>3
    <3>2. Fellows' = Fellows
      BY <1>1 DEF Fellows, Online
    <3> QED BY <1>1, <1>6, <1>7, <2>1, <2>4, <3>1, <3>2 DEF Posted
  <2> QED BY <2>2, <2>3, <2>4 DEF Posted
<1>16. Awaits(L, U)' /\ Leads'
  BY <1>1, <1>3, <1>5 DEF Flow, Awaits, Leads, Full
<1>17. Named'
  BY <1>1 DEF Named
<1>18. Flow(L, U)'
  <2>1. \A c \in Fellows : Online(c)'
    BY <1>1 DEF Fellows, Online
  <2>2. \A c \in Client \ members : down'[c] = down[c] /\ learned'[c] = learned[c]
    BY <1>1, <1>3, <1>5
  <2> QED BY <1>1, <1>5, <1>6, <1>12, <1>14, <1>15, <1>16, <2>1, <2>2, FlowKept
<1> QED BY <1>17, <1>18

\* handleRoster: the roster is now on its way to every member that is there.
LEMMA FlowRoster ==
  ASSUME Inv, owner \in Client, Named, NEW L, NEW U, Flow(L, U), HandleRoster(owner)
  PROVE  Named' /\ Flow(L, U)'
<1> DEFINE f == Head(up[owner])
<1>1. /\ up[owner] # <<>> /\ f.t = "roster" /\ Served(owner)
      /\ ToEach(members \ {owner}, f)
      /\ UNCHANGED <<members, owner, hs, spc, phase, keys, pubs, known, oid, first, learned>>
  BY DEF HandleRoster, NextOf, serverVars, clientVars, history
<1>2. f \in Rosters /\ f = up[owner][1] /\ Posted(1)
  BY <1>1, FlowHeads, KindsOfFrame
<1> HIDE DEF f
<1>3. \A c \in Fellows : c \in members /\ c \in Client /\ c # owner /\ Online(c)
  BY DEF Fellows, Inv, TypeInv
<1>4. /\ \A c \in Fellows : down'[c] = Append(down[c], f)
      /\ \A c \in Client \ Fellows : down'[c] = down[c]
      /\ up'[owner] = Tail(up[owner]) /\ \A c \in Client \ {owner} : up'[c] = up[c]
  BY <1>1, <1>3 DEF ToEach, Served, Inv, UpOK, Fellows
<1>5. Newest' = Newest
  BY <1>1 DEF Newest
<1>6. /\ \A c : Rekey(c)' = Rekey(c)
      /\ News' = News /\ Rosters' = Rosters
  BY <1>1, <1>5, SameFrames
<1>7. Loses(up[owner], up'[owner]) /\ up[owner] \in Seq(UpFrame(owner)) /\ Head(up[owner]) = f
  BY <1>1, <1>4 DEF Inv, UpOK, Loses, f
<1>8. \A c \in Fellows : Gains(down[c], f, down'[c]) /\ down[c] \in Seq(DownFrame(c))
  BY <1>3, <1>4 DEF Gains, Inv, DownOK
<1>9. \A c : f # Rekey(c)
  BY <1>1, KindsOfFrame
<1>10. ASSUME NEW c \in Fellows
       PROVE  (Coming(c)' => Coming(c)) /\ (Coming(c) => Coming(c)')
              /\ (Has(down'[c], {Rekey(c)}) => Has(down[c], {Rekey(c)}))
  <2>1. /\ Has(up'[owner], {Rekey(c)}) => Has(up[owner], {Rekey(c)})
        /\ Has(up[owner], {Rekey(c)}) => Has(up'[owner], {Rekey(c)})
    BY <1>7, <1>9, LosesHas
  <2>2. /\ Has(down'[c], {Rekey(c)}) => Has(down[c], {Rekey(c)})
        /\ Has(down[c], {Rekey(c)}) => Has(down'[c], {Rekey(c)})
    BY <1>8, <1>9, GainsHas
  <2> QED BY <1>1, <1>6, <2>1, <2>2 DEF Coming
<1>11. ASSUME NEW c \in Fellows, NEW i \in DOMAIN down'[c] PROVE Foreseen(c, i)'
  <2>1. \/ /\ i \in DOMAIN down[c] /\ down'[c][i] = down[c][i]
           /\ \A W : /\ Before(down'[c], i, W) => Before(down[c], i, W)
                     /\ Before(down[c], i, W) => Before(down'[c], i, W)
        \/ /\ down'[c][i] = f
           /\ \A W : /\ Before(down'[c], i, W) => Has(down[c], W)
                     /\ Has(down[c], W) => Before(down'[c], i, W)
    BY <1>8, GainsHas
  <2>2. CASE /\ i \in DOMAIN down[c] /\ down'[c][i] = down[c][i]
             /\ \A W : /\ Before(down'[c], i, W) => Before(down[c], i, W)
                       /\ Before(down[c], i, W) => Before(down'[c], i, W)
    <3>1. Foreseen(c, i)
      BY <2>2 DEF Flow, Follows
    <3> QED BY <1>1, <1>5, <1>6, <2>2, <3>1 DEF Foreseen
  <2>3. CASE /\ down'[c][i] = f
             /\ \A W : /\ Before(down'[c], i, W) => Has(down[c], W)
                       /\ Has(down[c], W) => Before(down'[c], i, W)
    <3>1. ~Before(up[owner], 1, {Rekey(c)})
      BY <1>7, LosesHas
    <3>2. f.key = IF Has(down[c], {Rekey(c)}) THEN Newest ELSE keys[c][1]
      BY <1>2, <1>9, <3>1 DEF Posted
    <3> QED BY <1>1, <1>2, <1>5, <1>6, <2>3, <3>2 DEF Foreseen
  <2> QED BY <2>1, <2>2, <2>3
<1>12. ASSUME NEW c \in Fellows PROVE Follows(c)'
  <2>1. Follows(c)
    BY DEF Flow
  <2>2. Has(down'[c], Rosters)
    BY <1>2, <1>8, GainsHas
  <2>3. Has(down[c], News) => Has(down'[c], News)
    BY <1>8, GainsHas
  <2> QED BY <1>1, <1>5, <1>6, <1>10, <1>11, <2>1, <2>2, <2>3 DEF Follows
<1>13. ASSUME NEW i \in DOMAIN up'[owner] PROVE Posted(i)'
  <2>1. /\ i + 1 \in DOMAIN up[owner] /\ up'[owner][i] = up[owner][i + 1]
        /\ \A W : /\ Before(up[owner], i + 1, W) => f \in W \/ Before(up'[owner], i, W)
                  /\ Before(up'[owner], i, W) => Before(up[owner], i + 1, W)
    BY <1>7, LosesHas
  <2>2. Posted(i + 1)
    BY <2>1 DEF Flow
  <2>3. CASE \E c \in Fellows : up[owner][i + 1] = Rekey(c)
    BY <1>1, <1>6, <2>1, <2>3 DEF Posted, Fellows, Online
  <2>4. CASE up[owner][i + 1] \in Rosters
    <3>1. ASSUME NEW c \in Fellows
          PROVE up'[owner][i].key = IF Has(down'[c], {Rekey(c)}) \/ Before(up'[owner], i, {Rekey(c)})
                                      THEN Newest ELSE keys[c][1]
      <4>1. up[owner][i + 1].key = IF Has(down[c], {Rekey(c)}) \/ Before(up[owner], i + 1, {Rekey(c)})
                                     THEN Newest ELSE keys[c][1]
        BY <2>2, <2>4, KindsOfFrame DEF Posted
      <4>2. Has(down[c], {Rekey(c)}) => Has(down'[c], {Rekey(c)})
        BY <1>8, GainsHas
      <4> QED BY <1>9, <1>10, <2>1, <4>1, <4>2
    <3>2. Fellows' = Fellows
      BY <1>1 DEF Fellows, Online
    <3> QED BY <1>1, <1>5, <1>6, <2>1, <2>4, <3>1, <3>2 DEF Posted
  <2> QED BY <2>2, <2>3, <2>4 DEF Posted
<1>14. Awaits(L, U)' /\ Leads'
  <2>1. down'[owner] = down[owner]
    BY <1>3, <1>4
  <2> QED BY <1>1, <2>1 DEF Flow, Awaits, Leads, Full
<1>15. Named'
  BY <1>1 DEF Named
<1>16. Flow(L, U)'
  <2>1. \A c \in Fellows : Online(c)'
    BY <1>1 DEF Fellows, Online
  <2>2. \A c \in Client \ members : down'[c] = down[c] /\ learned'[c] = learned[c]
    BY <1>1, <1>3, <1>4
  <2> QED BY <1>1, <1>4, <1>5, <1>10, <1>12, <1>13, <1>14, <2>1, <2>2, FlowKept
<1> QED BY <1>15, <1>16

\* A member takes its next frame, and does what the frame is for.
LEMMA FellowTook ==
  ASSUME Inv, owner \in Client, Named, NEW L, NEW U, Flow(L, U), NEW c \in Fellows,
         down[c] # <<>>, Handled(c), UNCHANGED <<serverVars, up, first>>,
         \A d \in Client \ {c} : /\ phase'[d] = phase[d] /\ keys'[d] = keys[d] /\ pubs'[d] = pubs[d]
                                 /\ oid'[d] = oid[d] /\ known'[d] = known[d] /\ learned'[d] = learned[d],
         Online(c)', phase[c] = "member" => phase'[c] = "member",
         phase'[c] = "member" => pubs'[c][owner] = owner,
         keys'[c] # <<>>,
         IF Head(down[c]) = Rekey(c) THEN keys'[c][1] = Newest ELSE keys'[c] = keys[c],
         Head(down[c]) \in News \/ oid[c] = owner => oid'[c] = owner,
         Head(down[c]) \in Rosters \/ Full(c) => Full(c)'
  PROVE  Flow(L, U)'
<1> DEFINE f == Head(down[c])
<1>1. c \in members /\ c \in Client /\ c # owner /\ Online(c)
  BY DEF Fellows, Inv, TypeInv
<1>2. /\ UNCHANGED <<members, owner, hs, spc, up, first>>
      /\ down'[c] = Tail(down[c]) /\ \A d \in Client \ {c} : down'[d] = down[d]
  BY <1>1 DEF serverVars, Handled, Inv, DownOK
<1>3. Loses(down[c], down'[c]) /\ down[c] \in Seq(DownFrame(c)) /\ Head(down[c]) = f
  BY <1>1, <1>2 DEF Loses, Inv, DownOK
<1>4. Newest' = Newest
  BY <1>1, <1>2 DEF Newest
<1>5. /\ \A d : Rekey(d)' = Rekey(d)
      /\ News' = News /\ Rosters' = Rosters
  BY <1>2, <1>4, SameFrames
<1>6. Follows(c) /\ \A d \in Fellows : d \in Client /\ Follows(d)
  BY DEF Flow, Fellows, Inv, TypeInv
<1> HIDE DEF f
<1>7. \A d \in Fellows \ {c} : (Coming(d)' => Coming(d)) /\ (Coming(d) => Coming(d)')
  BY <1>2, <1>5, <1>6 DEF Coming
<1>8. /\ Coming(c)' => Coming(c)
      /\ ~Coming(c)' => ~Coming(c) \/ f = Rekey(c)
      /\ f = Rekey(c) => Coming(c)
  <2>1. /\ Has(down'[c], {Rekey(c)}) => Has(down[c], {Rekey(c)})
        /\ Has(down[c], {Rekey(c)}) => Has(down'[c], {Rekey(c)}) \/ f = Rekey(c)
        /\ f = Rekey(c) => Has(down[c], {Rekey(c)})
    BY <1>3, LosesHas
  <2> QED BY <1>2, <1>5, <2>1 DEF Coming
<1>9. ASSUME NEW i \in DOMAIN down'[c] PROVE Foreseen(c, i)'
  <2>1. /\ i + 1 \in DOMAIN down[c] /\ down'[c][i] = down[c][i + 1]
        /\ \A W : /\ Before(down[c], i + 1, W) => f \in W \/ Before(down'[c], i, W)
                  /\ Before(down'[c], i, W) => Before(down[c], i + 1, W)
                  /\ f \in W => Before(down[c], i + 1, W)
    BY <1>3, LosesHas
  <2>2. Foreseen(c, i + 1)
    BY <1>6, <2>1 DEF Follows
  <2>3. CASE down[c][i + 1] \in News /\ (down[c][i + 1].t = "welcome" => first[c] = owner)
    BY <1>2, <1>5, <2>1, <2>3 DEF Foreseen
  <2>4. CASE down[c][i + 1] = Rekey(c) /\ (oid[c] = owner \/ Before(down[c], i + 1, News))
    <3>1. oid'[c] = owner \/ Before(down'[c], i, News)
      BY <2>1, <2>4 DEF f
    <3> QED BY <1>2, <1>5, <2>1, <2>4, <3>1 DEF Foreseen
  <2>5. CASE /\ down[c][i + 1] \in Rosters
             /\ down[c][i + 1].key = IF Before(down[c], i + 1, {Rekey(c)}) THEN Newest ELSE keys[c][1]
    <3>1. down[c][i + 1].key = IF Before(down'[c], i, {Rekey(c)}) THEN Newest ELSE keys'[c][1]
      BY <2>1, <2>5 DEF f
    <3> QED BY <1>2, <1>4, <1>5, <2>1, <2>5, <3>1 DEF Foreseen
  <2> QED BY <2>2, <2>3, <2>4, <2>5 DEF Foreseen
<1>10. Follows(c)'
  <2>1. /\ Has(down[c], Rosters) => Has(down'[c], Rosters) \/ f \in Rosters
        /\ Has(down[c], News) => Has(down'[c], News) \/ f \in News
    BY <1>3, LosesHas
  <2>2. ~Coming(c)' => keys'[c][1] = Newest
    BY <1>6, <1>8 DEF Follows, f
  <2>3. Full(c)' \/ Has(up[owner], Rosters) \/ Has(down'[c], Rosters) \/ down'[owner] # <<>>
    BY <1>1, <1>2, <1>6, <2>1 DEF Follows, f
  <2>4. oid'[c] = owner \/ Has(down'[c], News)
    BY <1>6, <2>1 DEF Follows, f
  <2>5. Coming(c)' => phase'[c] = "member"
    BY <1>6, <1>8 DEF Follows
  <2> QED BY <1>2, <1>4, <1>5, <1>9, <2>2, <2>3, <2>4, <2>5 DEF Follows
<1>11. ASSUME NEW d \in Fellows \ {c} PROVE Follows(d)' /\ Online(d)'
  <2>1. /\ down'[d] = down[d] /\ keys'[d] = keys[d] /\ pubs'[d] = pubs[d] /\ oid'[d] = oid[d]
        /\ phase'[d] = phase[d] /\ down'[owner] = down[owner] /\ d \in Client
    BY <1>1, <1>2, <1>6
  <2>2. ASSUME NEW i \in DOMAIN down'[d] PROVE Foreseen(d, i)'
    <3>1. Foreseen(d, i)
      BY <1>6, <2>1 DEF Follows
    <3> QED BY <1>2, <1>4, <1>5, <2>1, <3>1 DEF Foreseen
  <2>3. Follows(d)'
    BY <1>2, <1>4, <1>5, <1>6, <1>7, <2>1, <2>2 DEF Follows, Full
  <2> QED BY <2>1, <2>3 DEF Online, Fellows
<1>12. ASSUME NEW i \in DOMAIN up'[owner] PROVE Posted(i)'
  <2>1. Posted(i) /\ up'[owner][i] = up[owner][i] /\ i \in DOMAIN up[owner]
    BY <1>2 DEF Flow
  <2>2. Fellows' = Fellows
    BY <1>1, <1>2, <1>11 DEF Fellows, Inv, TypeInv, Online
  <2>3. CASE \E d \in Fellows : up[owner][i] = Rekey(d)
    BY <1>2, <1>5, <2>2, <2>3 DEF Posted
  <2>4. CASE up[owner][i] \in Rosters
    <3>1. ASSUME NEW d \in Fellows
          PROVE up[owner][i].key = IF Has(down'[d], {Rekey(d)}) \/ Before(up[owner], i, {Rekey(d)})
                                     THEN Newest ELSE keys'[d][1]
      <4>1. up[owner][i].key = IF Has(down[d], {Rekey(d)}) \/ Before(up[owner], i, {Rekey(d)})
                                 THEN Newest ELSE keys[d][1]
        BY <2>1, <2>4, KindsOfFrame DEF Posted
      <4>2. CASE d = c
        <5>1. /\ Has(down'[c], {Rekey(c)}) => Has(down[c], {Rekey(c)})
              /\ Has(down[c], {Rekey(c)}) => Has(down'[c], {Rekey(c)}) \/ f = Rekey(c)
              /\ f = Rekey(c) => Has(down[c], {Rekey(c)})
          BY <1>3, LosesHas
        <5> QED BY <4>1, <4>2, <5>1 DEF f
      <4>3. CASE d # c
        BY <1>2, <1>6, <4>1, <4>3
      <4> QED BY <4>2, <4>3
    <3> QED BY <1>2, <1>4, <1>5, <2>1, <2>2, <2>4, <3>1 DEF Posted
  <2> QED BY <2>1, <2>3, <2>4 DEF Posted
<1>13. Awaits(L, U)' /\ Leads'
  BY <1>1, <1>2 DEF Flow, Awaits, Leads, Full
<1>14. \A d \in Fellows : Online(d)' /\ Follows(d)' /\ (Coming(d)' => Coming(d))
                          /\ (phase[d] = "member" => phase'[d] = "member")
  BY <1>6, <1>7, <1>8, <1>10, <1>11
<1>15. \A d \in Client \ members : down'[d] = down[d] /\ learned'[d] = learned[d]
  BY <1>1, <1>2
<1> QED BY <1>2, <1>4, <1>12, <1>13, <1>14, <1>15, FlowKept

\* pushKey: the key is in front, and nobody else's ring changes.
LEMMA PushMeans ==
  ASSUME Inv, NEW c \in Client, NEW k \in Nat, PushKey(c, k)
  PROVE  /\ keys'[c] # <<>> /\ keys'[c][1] = k /\ learned'[c] = learned[c] \cup {k}
         /\ \A d \in Client \ {c} : keys'[d] = keys[d] /\ learned'[d] = learned[d]
<1> DEFINE s == <<k>> \o keys[c]
           n == IF Len(keys[c]) < MaxKeptKeys THEN Len(keys[c]) + 1 ELSE MaxKeptKeys
<1>1. /\ keys' = [keys EXCEPT ![c] = Pushed(c, k)] /\ learned' = [learned EXCEPT ![c] = learned[c] \cup {k}]
      /\ keys \in [Client -> Seq(Nat)] /\ learned \in [Client -> SUBSET (1 .. nkeys)]
      /\ Len(keys[c]) <= MaxKeptKeys
  BY DEF PushKey, Inv, Counters, TypeInv
<1>2. Pushed(c, k) # <<>> /\ Pushed(c, k) \in Seq(Nat)
  BY <1>1, PushedType
<1>3. Pushed(c, k)[1] = k
  <2>1. <<k>> \in Seq(Nat) /\ Len(<<k>>) = 1 /\ <<k>>[1] = k
    OBVIOUS
  <2>2. s \in Seq(Nat) /\ Len(s) = 1 + Len(keys[c]) /\ s[1] = k
    BY <1>1, <2>1, ConcatProperties
  <2>3. Len(keys[c]) \in Nat /\ n \in 1 .. MaxKeptKeys /\ n <= Len(s)
    BY <1>1, <2>2, KeptAssumption
  <2> HIDE DEF s, n
  <2>4. SubSeq(s, 1, n)[1] = s[1]
    BY <2>2, <2>3, SubSeqProperties, KeptAssumption
  <2> QED BY <2>2, <2>4 DEF Pushed, s, n
<1>4. keys'[c] = Pushed(c, k) /\ learned'[c] = learned[c] \cup {k}
      /\ \A d \in Client \ {c} : keys'[d] = keys[d] /\ learned'[d] = learned[d]
  BY <1>1
<1> QED BY <1>2, <1>3, <1>4

LEMMA NamedKept ==
  ASSUME Named, NEW c \in Client, phase'[c] # "out", UNCHANGED first,
         \A d \in Client \ {c} : phase'[d] = phase[d] /\ keys'[d] = keys[d] /\ pubs'[d] = pubs[d],
         \A d \in Client : pubs'[c][d] \in {None, d}
  PROVE  Named'
BY DEF Named

\* onWelcome and onPresence: the member learns who owns the room.
LEMMA FlowNews ==
  ASSUME Inv, owner \in Client, Named, NEW L, NEW U, Flow(L, U), NEW c \in Fellows,
         OnWelcome(c) \/ OnPresenceMember(c)
  PROVE  Named' /\ Flow(L, U)'
<1> DEFINE f == Head(down[c])
<1>1. /\ down[c] # <<>> /\ f.t \in {"welcome", "presence"} /\ Handled(c)
      /\ UNCHANGED <<serverVars, up, keys, first, learned>>
      /\ oid' = [oid EXCEPT ![c] = f.o]
  BY DEF OnWelcome, OnPresenceMember, NextFor, history
<1>2. c \in members /\ c \in Client /\ c # owner /\ Online(c) /\ Follows(c)
  BY DEF Fellows, Inv, TypeInv, Flow
<1>3. f \in News /\ (f.t = "welcome" => first[c] = owner) /\ f.o = owner
  <2>1. f = down[c][1] /\ Foreseen(c, 1)
    BY <1>1, <1>2, FlowHeads
  <2>2. Rekey(c).t # f.t /\ f \notin Rosters
    BY <1>1, KindsOfFrame
  <2>3. f \in News /\ (f.t = "welcome" => first[c] = owner)
    BY <2>1, <2>2 DEF Foreseen
  <2> QED BY <2>3, KindsOfFrame
<1>4. /\ phase'[c] = "member" \/ (phase'[c] = phase[c] /\ pubs'[c] = pubs[c])
      /\ f.t = "welcome" => pubs'[c][owner] = owner
      /\ \A d \in Client : d # owner \/ f.t # "welcome" => pubs'[c][d] = pubs[c][d]
      /\ \A d \in Client \ {c} : phase'[d] = phase[d] /\ pubs'[d] = pubs[d] /\ known'[d] = known[d]
      /\ f.t # "welcome" => phase'[c] = phase[c]
  <2>1. CASE OnWelcome(c)
    <3>1. /\ phase' = [phase EXCEPT ![c] = "member"]
          /\ known' = [known EXCEPT ![c] = IF f.o = c THEN f.m ELSE known[c]]
          /\ pubs' = [pubs EXCEPT ![c] = [pubs[c] EXCEPT ![f.o] =
                                        IF first[c] # None THEN first[c] ELSE pubs[c][f.o]]]
          /\ f.t = "welcome"
      BY <2>1 DEF OnWelcome, NextFor
    <3>2. first[c] = owner /\ owner # None /\ f.o = owner
      BY <1>3, <3>1, NoneAssumption
    <3>3. pubs' = [pubs EXCEPT ![c] = [pubs[c] EXCEPT ![owner] = owner]]
      BY <3>1, <3>2
    <3> HIDE DEF f
    <3> QED BY <1>2, <3>1, <3>3 DEF Inv, TypeInv
  <2>2. CASE OnPresenceMember(c)
    BY <2>2 DEF OnPresenceMember, NextFor
  <2> QED BY <2>1, <2>2 DEF OnWelcome, OnPresenceMember
<1>5. oid'[c] = owner /\ \A d \in Client \ {c} : oid'[d] = oid[d]
  BY <1>1, <1>2, <1>3 DEF Inv, TypeInv
<1>6. pubs[c] \in [Client -> Client \cup {None}]
  BY <1>2 DEF Inv, TypeInv
<1> HIDE DEF f
<1>7. \A d \in Client : pubs'[c][d] \in {None, d} /\ (pubs[c][d] = d => pubs'[c][d] = d)
  <2> SUFFICES ASSUME NEW d \in Client
               PROVE  pubs'[c][d] \in {None, d} /\ (pubs[c][d] = d => pubs'[c][d] = d)
    OBVIOUS
  <2>1. pubs'[c][d] = pubs[c][d] \/ (d = owner /\ pubs'[c][d] = owner)
    BY <1>4
  <2>2. pubs[c][d] \in {None, d}
    BY <1>2 DEF Named
  <2> QED BY <2>1, <2>2
<1>8. Online(c)' /\ (phase[c] = "member" => phase'[c] = "member") /\ phase'[c] # "out"
  BY <1>2, <1>4 DEF Online
<1>9. phase'[c] = "member" => pubs'[c][owner] = owner
  <2>1. CASE f.t = "welcome"
    BY <1>4, <2>1
  <2>2. CASE f.t # "welcome"
    BY <1>2, <1>4, <2>2 DEF Follows
  <2> QED BY <2>1, <2>2
<1>10. Full(c) => Full(c)'
  BY <1>1, <1>7 DEF Full, serverVars, Inv, TypeInv
<1>11. Named'
  BY <1>1, <1>2, <1>4, <1>7, <1>8, NamedKept
<1>12. f # Rekey(c) /\ f \notin Rosters
  BY <1>1, KindsOfFrame
<1>13. keys'[c] # <<>>
  BY <1>1, <1>2 DEF Follows
<1>14. Flow(L, U)'
  <2>1. \A d \in Client \ {c} : /\ phase'[d] = phase[d] /\ keys'[d] = keys[d] /\ pubs'[d] = pubs[d]
                                /\ oid'[d] = oid[d] /\ known'[d] = known[d] /\ learned'[d] = learned[d]
    BY <1>1, <1>4, <1>5
  <2> QED BY <1>1, <1>5, <1>8, <1>9, <1>10, <1>12, <1>13, <2>1, FellowTook DEF f
<1> QED BY <1>11, <1>14

\* onRekey: the member knows the owner by then, and opens the key.
LEMMA FlowOpens ==
  ASSUME Inv, owner \in Client, Named, NEW L, NEW U, Flow(L, U), NEW c \in Fellows, OnRekey(c)
  PROVE  Named' /\ Flow(L, U)'
<1> DEFINE f == Head(down[c])
           ownerPub == IF oid[c] = None THEN None ELSE pubs[c][oid[c]]
<1>1. /\ down[c] # <<>> /\ f.t = "rekey" /\ Handled(c)
      /\ UNCHANGED <<serverVars, up, phase, pubs, known, oid, first>>
      /\ ownerPub = f.by /\ f.for = c => PushKey(c, f.key)
  BY DEF OnRekey, NextFor
<1>2. c \in members /\ c \in Client /\ c # owner /\ Online(c) /\ Follows(c)
  BY DEF Fellows, Inv, TypeInv, Flow
<1>3. f = Rekey(c) /\ oid[c] = owner /\ Coming(c)
  <2>1. f = down[c][1] /\ Foreseen(c, 1)
    BY <1>1, <1>2, FlowHeads
  <2>2. f \notin News /\ f \notin Rosters
    BY <1>1, KindsOfFrame
  <2>3. 1 \in DOMAIN down[c] /\ \A W : ~Before(down[c], 1, W)
    BY <1>1, <1>2, TailHas DEF Inv, DownOK
  <2>4. f = Rekey(c) /\ oid[c] = owner
    BY <2>1, <2>2, <2>3 DEF Foreseen
  <2> QED BY <2>1, <2>3, <2>4 DEF Coming, Has
<1>4. phase[c] = "member" /\ pubs[c][owner] = owner
  BY <1>2, <1>3 DEF Follows
<1>5. Newest \in Nat
  <2>1. keys[owner] \in Seq(Nat) /\ keys[owner] # <<>>
    BY DEF Flow, Leads, Inv, Counters
  <2> QED BY <2>1 DEF Newest
<1>6. PushKey(c, Newest)
  BY <1>1, <1>3, <1>4, NoneAssumption DEF Rekey
<1> HIDE DEF f, ownerPub
<1>7. /\ keys'[c] # <<>> /\ keys'[c][1] = Newest
      /\ \A d \in Client \ {c} : keys'[d] = keys[d] /\ learned'[d] = learned[d]
  BY <1>2, <1>5, <1>6, PushMeans
<1>8. Named'
  BY <1>1, <1>2, <1>7, NamedKept DEF Online, Named
<1>9. f \notin News /\ f \notin Rosters
  BY <1>1, KindsOfFrame
<1>10. Online(c)' /\ (Full(c) => Full(c)')
  BY <1>1, <1>2 DEF Online, Full, serverVars
<1>11. Flow(L, U)'
  <2>1. \A d \in Client \ {c} : /\ phase'[d] = phase[d] /\ keys'[d] = keys[d] /\ pubs'[d] = pubs[d]
                                /\ oid'[d] = oid[d] /\ known'[d] = known[d] /\ learned'[d] = learned[d]
    BY <1>1, <1>7
  <2> QED BY <1>1, <1>3, <1>4, <1>7, <1>9, <1>10, <2>1, FellowTook DEF f
<1> QED BY <1>8, <1>11

\* applyRoster: the member can read it, and has everybody's public key.
LEMMA FlowApplies ==
  ASSUME Inv, owner \in Client, Named, NEW L, NEW U, Flow(L, U), NEW c \in Fellows, ApplyRoster(c)
  PROVE  Named' /\ Flow(L, U)'
<1> DEFINE f == Head(down[c])
           q == [d \in Client |-> IF f.map[d] # None THEN f.map[d] ELSE pubs[c][d]]
<1>1. /\ down[c] # <<>> /\ f.t = "roster" /\ Handled(c)
      /\ UNCHANGED <<serverVars, up, phase, keys, known, oid, first, learned>>
      /\ pubs' = IF \E i \in DOMAIN keys[c] : keys[c][i] = f.key THEN [pubs EXCEPT ![c] = q] ELSE pubs
  BY DEF ApplyRoster, NextFor, history
<1>2. c \in members /\ c \in Client /\ c # owner /\ Online(c) /\ Follows(c)
  BY DEF Fellows, Inv, TypeInv, Flow
<1>3. f \in Rosters /\ f.key = keys[c][1]
  <2>1. f = down[c][1] /\ Foreseen(c, 1)
    BY <1>1, <1>2, FlowHeads
  <2>2. f \notin News /\ f # Rekey(c)
    BY <1>1, KindsOfFrame
  <2>3. \A W : ~Before(down[c], 1, W)
    BY DEF Before
  <2> QED BY <2>1, <2>2, <2>3 DEF Foreseen
<1>4. 1 \in DOMAIN keys[c]
  <2>1. keys[c] \in Seq(Nat) /\ keys[c] # <<>>
    BY <1>2 DEF Follows, Inv, Counters
  <2> QED BY <2>1
<1>5. pubs' = [pubs EXCEPT ![c] = q]
  BY <1>1, <1>3, <1>4
<1>6. /\ \A d \in Client : f.map[d] \in {None, d} /\ (d \in members => f.map[d] = d)
  BY <1>3 DEF Rosters
<1>7. \A d \in Client : q[d] \in {None, d} /\ (d \in members => q[d] = d)
  BY <1>2, <1>6, NoneAssumption DEF Named
<1> HIDE DEF f, q
<1>8. pubs'[c] = q /\ \A d \in Client \ {c} : pubs'[d] = pubs[d]
  BY <1>2, <1>5 DEF Inv, TypeInv
<1>9. Named'
  BY <1>1, <1>2, <1>7, <1>8, NamedKept DEF Online
<1>10. Full(c)' /\ pubs'[c][owner] = owner /\ Online(c)' /\ keys'[c] # <<>>
  BY <1>1, <1>2, <1>7, <1>8 DEF Full, serverVars, Inv, TypeInv, Flow, Leads, Online, Follows
<1>11. f # Rekey(c) /\ f \notin News
  BY <1>1, KindsOfFrame
<1>12. Flow(L, U)'
  <2>1. \A d \in Client \ {c} : /\ phase'[d] = phase[d] /\ keys'[d] = keys[d] /\ pubs'[d] = pubs[d]
                                /\ oid'[d] = oid[d] /\ known'[d] = known[d] /\ learned'[d] = learned[d]
    BY <1>1, <1>8
  <2> QED BY <1>1, <1>10, <1>11, <2>1, FellowTook DEF f
<1> QED BY <1>9, <1>12

\* onPresence of the owner with nobody missing: the roster goes out.
LEMMA FlowPresence ==
  ASSUME Inv, owner \in Client, Named, NEW L, NEW U, Flow(L, U), OnPresenceSame(owner)
  PROVE  Named' /\ Flow(L, U)'
<1> DEFINE f == Head(down[owner])
           g == RosterFrame(owner, pubs[owner], Head(keys[owner]))
<1>1. /\ down[owner] # <<>> /\ f.t = "presence" /\ f.o = owner /\ MissingFrom(owner, f) = {}
      /\ Sends(owner, <<g>>) /\ Handled(owner)
      /\ oid' = [oid EXCEPT ![owner] = owner] /\ known' = [known EXCEPT ![owner] = f.m]
      /\ UNCHANGED <<members, owner, hs, spc, phase, keys, pubs, first, learned>>
  BY DEF OnPresenceSame, NextFor, serverVars, history
<1>2. owner \in members /\ phase[owner] = "member" /\ keys[owner] # <<>> /\ Full(owner)
  BY DEF Flow, Leads
<1>3. Newest \in Nat /\ Head(keys[owner]) = Newest /\ members \subseteq Client
  <2>1. keys[owner] \in Seq(Nat)
    BY DEF Inv, Counters
  <2> QED BY <1>2, <2>1 DEF Newest, Inv, TypeInv
<1>4. g \in Rosters /\ g.key = Newest
  <2>1. g = [t |-> "roster", key |-> Newest, map |-> [pubs[owner] EXCEPT ![owner] = owner]]
    BY <1>3 DEF RosterFrame
  <2>2. pubs[owner] \in [Client -> Client \cup {None}]
    BY DEF Inv, TypeInv
  <2>3. [pubs[owner] EXCEPT ![owner] = owner] \in [Client -> Client \cup {None}]
    BY <2>2
  <2>4. \A d \in Client : /\ [pubs[owner] EXCEPT ![owner] = owner][d] \in {None, d}
                          /\ d \in members => [pubs[owner] EXCEPT ![owner] = owner][d] = d
    BY <1>2, <2>2 DEF Named, Full
  <2>5. g.map = [pubs[owner] EXCEPT ![owner] = owner] /\ g.key = Newest
    BY <2>1
  <2>6. g \in [t : {"roster"}, key : Nat, map : [Client -> Client \cup {None}]]
    BY <1>3, <2>1, <2>3
  <2> HIDE DEF g
  <2> QED BY <2>4, <2>5, <2>6 DEF Rosters
<1> HIDE DEF g
<1>5. /\ up'[owner] = up[owner] \o <<g>> /\ \A c \in Client \ {owner} : up'[c] = up[c]
      /\ down'[owner] = Tail(down[owner]) /\ \A c \in Client \ {owner} : down'[c] = down[c]
      /\ oid'[owner] = owner /\ \A c \in Client \ {owner} : oid'[c] = oid[c]
      /\ known'[owner] = f.m
  BY <1>1 DEF Sends, Handled, Inv, UpOK, DownOK, TypeInv
<1>6. up[owner] \in Seq(UpFrame(owner)) /\ Gains(up[owner], g, up'[owner])
  <2>1. up[owner] \in Seq(UpFrame(owner))
    BY DEF Inv, UpOK
  <2>2. Append(up[owner], g) = up[owner] \o <<g>>
    BY <2>1, AppendHas
  <2> QED BY <1>5, <2>1, <2>2 DEF Gains
<1>7. Newest' = Newest
  BY <1>1 DEF Newest
<1>8. /\ \A c : Rekey(c)' = Rekey(c)
      /\ News' = News /\ Rosters' = Rosters
  BY <1>1, <1>7, SameFrames
<1>9. \A c : g # Rekey(c)
  BY <1>4, KindsOfFrame
<1>10. \A c \in Fellows : c \in Client /\ c # owner /\ Follows(c) /\ Online(c)
  BY <1>3 DEF Fellows, Flow
<1>11. ASSUME NEW c \in Fellows
       PROVE  (Coming(c)' => Coming(c)) /\ (Coming(c) => Coming(c)')
  <2>1. /\ Has(up'[owner], {Rekey(c)}) => Has(up[owner], {Rekey(c)})
        /\ Has(up[owner], {Rekey(c)}) => Has(up'[owner], {Rekey(c)})
    BY <1>6, <1>9, GainsHas
  <2>2. down'[c] = down[c]
    BY <1>5, <1>10
  <2> QED BY <1>1, <1>8, <2>1, <2>2 DEF Coming
<1>12. ASSUME NEW c \in Fellows PROVE Follows(c)' /\ Online(c)'
  <2>1. down'[c] = down[c] /\ oid'[c] = oid[c] /\ Follows(c)
    BY <1>5, <1>10
  <2>2. ASSUME NEW i \in DOMAIN down'[c] PROVE Foreseen(c, i)'
    <3>1. Foreseen(c, i)
      BY <2>1 DEF Follows
    <3> QED BY <1>1, <1>7, <1>8, <2>1, <3>1 DEF Foreseen
  <2>3. Has(up'[owner], Rosters)
    BY <1>4, <1>6, GainsHas
  <2>4. Follows(c)'
    BY <1>1, <1>7, <1>8, <1>11, <2>1, <2>2, <2>3 DEF Follows
  <2> QED BY <1>1, <1>10, <2>4 DEF Online
<1>13. ASSUME NEW i \in DOMAIN up'[owner] PROVE Posted(i)'
  <2>1. Fellows' = Fellows /\ \A c \in Fellows : down'[c] = down[c]
    BY <1>1, <1>5, <1>10 DEF Fellows, Online
  <2>2. \/ /\ i \in DOMAIN up[owner] /\ up'[owner][i] = up[owner][i]
           /\ \A W : /\ Before(up'[owner], i, W) => Before(up[owner], i, W)
                     /\ Before(up[owner], i, W) => Before(up'[owner], i, W)
        \/ /\ i \notin DOMAIN up[owner] /\ up'[owner][i] = g
           /\ \A W : /\ Before(up'[owner], i, W) => Has(up[owner], W)
                     /\ Has(up[owner], W) => Before(up'[owner], i, W)
    BY <1>6, GainsHas
  <2>3. CASE /\ i \in DOMAIN up[owner] /\ up'[owner][i] = up[owner][i]
             /\ \A W : /\ Before(up'[owner], i, W) => Before(up[owner], i, W)
                       /\ Before(up[owner], i, W) => Before(up'[owner], i, W)
    <3>1. Posted(i)
      BY <2>3 DEF Flow
    <3>2. CASE \E c \in Fellows : up[owner][i] = Rekey(c)
      BY <1>1, <1>8, <2>1, <2>3, <3>2 DEF Posted
    <3>3. CASE up[owner][i] \in Rosters
      <4>1. \A c \in Fellows :
              up[owner][i].key = IF Has(down[c], {Rekey(c)}) \/ Before(up[owner], i, {Rekey(c)})
                                   THEN Newest ELSE keys[c][1]
        BY <3>1, <3>3, KindsOfFrame DEF Posted
      <4>2. \A c \in Fellows :
              up'[owner][i].key = IF Has(down'[c], {Rekey(c)}) \/ Before(up'[owner], i, {Rekey(c)})
                                   THEN Newest ELSE keys[c][1]
        BY <2>1, <2>3, <4>1
      <4> QED BY <1>1, <1>7, <1>8, <2>1, <2>3, <3>3, <4>2 DEF Posted
    <3> QED BY <3>1, <3>2, <3>3 DEF Posted
  <2>4. CASE /\ i \notin DOMAIN up[owner] /\ up'[owner][i] = g
             /\ \A W : /\ Before(up'[owner], i, W) => Has(up[owner], W)
                       /\ Has(up[owner], W) => Before(up'[owner], i, W)
    <3>1. ASSUME NEW c \in Fellows
          PROVE  Newest = IF Has(down'[c], {Rekey(c)}) \/ Before(up'[owner], i, {Rekey(c)})
                            THEN Newest ELSE keys[c][1]
      <4>1. ~Coming(c) => keys[c][1] = Newest
        BY <1>10 DEF Follows
      <4> QED BY <2>1, <2>4, <4>1 DEF Coming
    <3> QED BY <1>1, <1>4, <1>7, <1>8, <2>1, <2>4, <3>1 DEF Posted
  <2> QED BY <2>2, <2>3, <2>4
<1>14. Awaits(L, U)'
  <2>1. MissingFrom(owner, f) = IF oid[owner] = owner THEN known[owner] \ f.m ELSE {}
    BY DEF MissingFrom
  <2>2. U \cap members = {} /\ (L = {} \/ U = {})
    BY DEF Flow
  <2>3. CASE down[owner] = <<Presence(members, owner)>>
    <3>1. f = Presence(members, owner) /\ down'[owner] = <<>>
      BY <1>5, <2>3, HeadOfOne
    <3>2. f.m = members
      BY <3>1, KindsOfFrame
    <3>3. U = {}
      <4>1. CASE oid[owner] = owner /\ known[owner] = members \cup U
        BY <1>1, <2>1, <2>2, <3>2, <4>1
      <4> QED BY <2>3, <4>1, HeadOfOne DEF Flow, Awaits
    <3> QED BY <1>1, <1>5, <3>1, <3>2, <3>3 DEF Awaits
  <2>4. CASE /\ down[owner] = <<Presence(members \cup U, owner), Presence(members, owner)>>
             /\ oid[owner] # owner /\ U # {}
    <3>1. f = Presence(members \cup U, owner) /\ down'[owner] = <<Presence(members, owner)>>
      BY <1>5, <2>4, HeadOfOne
    <3>2. f.m = members \cup U
      BY <3>1, KindsOfFrame
    <3> QED BY <1>1, <1>5, <2>2, <2>4, <3>1, <3>2 DEF Awaits
  <2> QED BY <1>1, <2>3, <2>4 DEF Flow, Awaits
<1>15. Leads'
  BY <1>1, <1>2 DEF Leads, Full
<1>16. Named'
  BY <1>1 DEF Named
<1>17. Flow(L, U)'
  <2>1. \A c \in Client \ members : down'[c] = down[c] /\ learned'[c] = learned[c]
    BY <1>1, <1>2, <1>5
  <2> QED BY <1>1, <1>5, <1>7, <1>11, <1>12, <1>13, <1>14, <1>15, <2>1, FlowKept
<1> QED BY <1>16, <1>17

\* A step of somebody outside the room.
LEMMA FlowApart ==
  ASSUME Inv, owner \in Client, NEW L, NEW U, Flow(L, U), NEW c \in Client \ members,
         UNCHANGED <<members, owner, spc, learned>>, \A d \in Client : hs'[d] = None,
         \A d \in Client \ {c} : /\ phase'[d] = phase[d] /\ keys'[d] = keys[d] /\ pubs'[d] = pubs[d]
                                 /\ oid'[d] = oid[d] /\ known'[d] = known[d] /\ first'[d] = first[d]
                                 /\ up'[d] = up[d] /\ down'[d] = down[d],
         Outside(c)'
  PROVE  Flow(L, U)'
<1>1. c # owner /\ members \subseteq Client
  BY DEF Flow, Leads, Inv, TypeInv
<1>2. Newest' = Newest /\ up'[owner] = up[owner] /\ down'[owner] = down[owner]
  BY <1>1 DEF Newest
<1>3. /\ \A d : Rekey(d)' = Rekey(d)
      /\ News' = News /\ Rosters' = Rosters
  BY <1>2, SameFrames
<1>4. Fellows' = Fellows
  BY <1>1 DEF Fellows, Online
<1>5. ASSUME NEW d \in Fellows PROVE Follows(d)' /\ (Coming(d)' => Coming(d)) /\ phase'[d] = phase[d]
  <2>1. /\ down'[d] = down[d] /\ keys'[d] = keys[d] /\ pubs'[d] = pubs[d] /\ oid'[d] = oid[d]
        /\ phase'[d] = phase[d] /\ first'[d] = first[d] /\ Follows(d)
    BY <1>1 DEF Fellows, Flow
  <2>2. ASSUME NEW i \in DOMAIN down'[d] PROVE Foreseen(d, i)'
    <3>1. Foreseen(d, i)
      BY <2>1 DEF Follows
    <3> QED BY <1>2, <1>3, <2>1, <3>1 DEF Foreseen
  <2>3. (Coming(d)' => Coming(d)) /\ (Coming(d) => Coming(d)')
    BY <1>2, <1>3, <2>1 DEF Coming
  <2> QED BY <1>2, <1>3, <2>1, <2>2, <2>3 DEF Follows, Full
<1>6. ASSUME NEW i \in DOMAIN up'[owner] PROVE Posted(i)'
  <2>1. Posted(i)
    BY <1>2 DEF Flow
  <2>2. \A d \in Fellows : /\ keys'[d] = keys[d]
                           /\ Has(down'[d], {Rekey(d)'}) = Has(down[d], {Rekey(d)})
    <3>1. \A d \in Fellows : down'[d] = down[d] /\ keys'[d] = keys[d]
      BY <1>1 DEF Fellows
    <3> QED BY <1>3, <3>1
  <2>3. \A d : Before(up'[owner], i, {Rekey(d)'}) = Before(up[owner], i, {Rekey(d)})
    BY <1>2, <1>3
  <2>4. up'[owner'][i] = up[owner][i] /\ owner' = owner
    BY <1>2
  <2>5. CASE \E d \in Fellows : up[owner][i] = Rekey(d)
    BY <1>3, <1>4, <2>4, <2>5 DEF Posted
  <2>6. CASE /\ up[owner][i] \in Rosters
             /\ \A d \in Fellows :
                  up[owner][i].key =
                    IF Has(down[d], {Rekey(d)}) \/ Before(up[owner], i, {Rekey(d)})
                      THEN Newest ELSE keys[d][1]
    BY <1>2, <1>3, <1>4, <2>2, <2>3, <2>4, <2>6 DEF Posted
  <2> QED BY <2>1, <2>5, <2>6 DEF Posted
<1>7. \A d \in Client \ members : Outside(d)' /\ (d \in U \/ Newest' \notin learned'[d])
  <2> SUFFICES ASSUME NEW d \in Client \ members
               PROVE  Outside(d)' /\ (d \in U \/ Newest' \notin learned'[d])
    OBVIOUS
  <2>1. Outside(d) /\ (d \in U \/ Newest \notin learned[d])
    BY DEF Flow
  <2>2. d # c => Outside(d)'
    BY <2>1 DEF Outside
  <2> QED BY <1>2, <2>1, <2>2
<1>8. \A d \in members \ {owner} : IF d \in L THEN phase'[d] = "gone" /\ up'[d] = <<LeaveFrame>>
                                                ELSE Online(d)' /\ up'[d] = <<>>
  <2> SUFFICES ASSUME NEW d \in members \ {owner}
               PROVE  IF d \in L THEN phase'[d] = "gone" /\ up'[d] = <<LeaveFrame>>
                                 ELSE Online(d)' /\ up'[d] = <<>>
    OBVIOUS
  <2>1. phase'[d] = phase[d] /\ up'[d] = up[d]
    BY <1>1
  <2>2. IF d \in L THEN phase[d] = "gone" /\ up[d] = <<LeaveFrame>> ELSE Online(d) /\ up[d] = <<>>
    BY DEF Flow
  <2> QED BY <2>1, <2>2 DEF Online
<1>9. Leads' /\ Awaits(L, U)'
  BY <1>1, <1>2 DEF Flow, Leads, Awaits, Full
<1>10. (L = {} /\ U = {}) \/ \A d \in Fellows' : ~Coming(d)' /\ phase'[d] = "member"
  BY <1>4, <1>5 DEF Flow
<1>11. /\ L = {} \/ (U = {} /\ \E p \in members' \ {owner'} : L = {p})
       /\ U \cap members' = {} /\ \A d \in Client : spc'[d] = "read"
  BY DEF Flow
<1> QED BY <1>4, <1>5, <1>6, <1>7, <1>8, <1>9, <1>10, <1>11 DEF Flow

\* Leave and teardown of a browser that is out of the room already.
LEMMA FlowApartSteps ==
  ASSUME Inv, owner \in Client, Named, NEW L, NEW U, Flow(L, U), NEW c \in Client \ members,
         Leave(c) \/ OnRoomClosed(c)
  PROVE  Named' /\ Flow(L, U)'
<1>1. c # owner /\ \A d \in Client : hs[d] = None
  BY DEF Flow, Leads
<1>2. CASE Leave(c)
  <2>1. /\ up[c] # <<>> /\ Served(c) /\ UNCHANGED <<members, owner, down>>
        /\ hs' = [j \in Client |-> IF c \in {j, hs[j]} THEN None ELSE hs[j]]
        /\ UNCHANGED <<spc, phase, keys, pubs, known, oid, first, learned>>
    BY <1>1, <1>2 DEF Leave, NextOf, clientVars, history
  <2>2. \A d \in Client : hs'[d] = None
    BY <1>1, <2>1
  <2>3. up'[c] = Tail(up[c]) /\ \A d \in Client \ {c} : up'[d] = up[d]
    BY <2>1 DEF Served, Inv, UpOK
  <2>4. up[c] = <<LeaveFrame>>
    BY <1>1, <2>1, FlowHeads
  <2>5. up'[c] = <<>>
    BY <2>3, <2>4, HeadOfOne
  <2>6. phase[c] = "gone" /\ down[c] = <<>>
    <3>1. Outside(c) /\ up[c] # <<>>
      BY <2>1 DEF Flow
    <3> QED BY <3>1 DEF Outside
  <2>7. Outside(c)'
    BY <2>1, <2>5, <2>6 DEF Outside
  <2>8. Named'
    BY <2>1 DEF Named
  <2> QED BY <2>1, <2>2, <2>3, <2>7, <2>8, FlowApart
<1>3. CASE OnRoomClosed(c)
  <2>1. Gone(c, <<LeaveFrame>>) /\ UNCHANGED <<members, owner, spc, hs, learned>>
    BY <1>3 DEF OnRoomClosed, LeaveFrame, serverVars, history
  <2>2. /\ phase'[c] = "gone" /\ up'[c] = <<LeaveFrame>> /\ down'[c] = <<>>
        /\ \A d \in Client \ {c} :
              /\ phase'[d] = phase[d] /\ keys'[d] = keys[d] /\ up'[d] = up[d]
              /\ down'[d] = down[d] /\ pubs'[d] = pubs[d] /\ known'[d] = known[d]
              /\ oid'[d] = oid[d] /\ first'[d] = first[d]
    BY <2>1, GoneMeans
  <2>3. Outside(c)'
    BY <2>2 DEF Outside
  <2>4. Named'
    BY <2>1, GoneNamed
  <2> QED BY <1>1, <2>1, <2>2, <2>3, <2>4, FlowApart
<1> QED BY <1>2, <1>3

\* Leave: the member is out, and the owner is about to hear of it.
LEMMA FlowLeave ==
  ASSUME Inv, owner \in Client, Named, NEW L, NEW U, Flow(L, U), NEW p \in members \ {owner},
         L = {p}, Leave(p)
  PROVE  Named' /\ Flow({}, {p})'
<1> DEFINE rest == members \ {p}
           g == Presence(rest, owner)
<1>1. /\ up[p] # <<>> /\ Served(p) /\ Removed(p, {})
      /\ hs' = [j \in Client |-> IF p \in {j, hs[j]} THEN None ELSE hs[j]]
      /\ UNCHANGED <<spc, phase, keys, pubs, known, oid, first, learned>>
  BY DEF Leave, NextOf, clientVars, history
<1>2. members \subseteq Client /\ p \in Client /\ owner \in members
  BY DEF Inv, TypeInv, Flow, Leads
<1>3. phase[p] = "gone" /\ up[p] = <<LeaveFrame>> /\ U = {}
      /\ \A c \in Fellows : ~Coming(c) /\ phase[c] = "member"
  BY DEF Flow
<1>4. /\ members' = rest /\ owner' = owner
      /\ \A c \in Client : down'[c] = IF c \in rest /\ Online(c) THEN Append(down[c], g) ELSE down[c]
      /\ up'[p] = Tail(up[p]) /\ \A c \in Client \ {p} : up'[c] = up[c]
      /\ \A c \in Client : hs'[c] = None
  BY <1>1, <1>2 DEF Removed, Served, Inv, UpOK, Flow
<1>5. g \in News /\ g.t = "presence"
  <2>1. rest \subseteq Client
    BY <1>2
  <2> HIDE DEF rest
  <2> QED BY <2>1 DEF News, Presence
<1>6. \A c : g # Rekey(c)
  BY <1>5, KindsOfFrame
<1>7. Newest' = Newest /\ up'[owner] = up[owner]
  BY <1>1, <1>2, <1>4 DEF Newest
<1>8. /\ \A c : Rekey(c)' = Rekey(c)
      /\ News' = News /\ \A f \in Rosters : f \in Rosters'
  BY <1>4, <1>7 DEF Rekey, News, Rosters
<1>9. Fellows' = Fellows /\ ~Online(p)
  BY <1>1, <1>3, <1>4 DEF Fellows, Online
<1>10. \A c \in Fellows : /\ c \in Client /\ c \in rest /\ c # owner /\ Online(c) /\ Follows(c)
                          /\ down[c] \in Seq(DownFrame(c)) /\ Gains(down[c], g, down'[c])
  BY <1>2, <1>4, <1>9 DEF Fellows, Flow, Inv, DownOK, Gains
<1>11. down'[owner] = Append(down[owner], g)
  BY <1>2, <1>4 DEF Flow, Leads, Online
<1> HIDE DEF rest, g
<1>12. ASSUME NEW c \in Fellows
       PROVE  /\ ~Coming(c)' /\ Follows(c)' /\ Online(c)'
              /\ ~Has(down'[c], {Rekey(c)}) /\ ~Has(up[owner], {Rekey(c)})
  <2>1. Follows(c) /\ ~Has(down[c], {Rekey(c)}) /\ ~Has(up[owner], {Rekey(c)}) /\ ~Coming(c)
    BY <1>3, <1>10 DEF Coming
  <2>2. ~Has(down'[c], {Rekey(c)})
    BY <1>6, <1>10, <2>1, GainsHas
  <2>3. ~Coming(c)'
    BY <1>4, <1>7, <1>8, <2>1, <2>2 DEF Coming
  <2>4. ASSUME NEW i \in DOMAIN down'[c] PROVE Foreseen(c, i)'
    <3>1. \/ /\ i \in DOMAIN down[c] /\ down'[c][i] = down[c][i]
             /\ \A W : /\ Before(down'[c], i, W) => Before(down[c], i, W)
                       /\ Before(down[c], i, W) => Before(down'[c], i, W)
          \/ down'[c][i] = g
      BY <1>10, GainsHas
    <3>2. CASE down'[c][i] = g
      BY <1>5, <1>8, <3>2 DEF Foreseen
    <3>3. CASE /\ i \in DOMAIN down[c] /\ down'[c][i] = down[c][i]
               /\ \A W : /\ Before(down'[c], i, W) => Before(down[c], i, W)
                         /\ Before(down[c], i, W) => Before(down'[c], i, W)
      <4>1. Foreseen(c, i)
        BY <2>1, <3>3 DEF Follows
      <4> QED BY <1>1, <1>4, <1>7, <1>8, <3>3, <4>1 DEF Foreseen
    <3> QED BY <3>1, <3>2, <3>3
  <2>5. down'[owner] # <<>> /\ Has(down'[c], News)
    <3>1. Has(down'[c], News)
      BY <1>5, <1>10, GainsHas
    <3>2. down[owner] \in Seq(DownFrame(owner))
      BY DEF Inv, DownOK
    <3>3. Append(down[owner], g) # <<>>
      BY <3>2
    <3> QED BY <1>11, <3>1, <3>3
  <2>6. Follows(c)'
    BY <1>1, <1>4, <1>7, <1>8, <2>1, <2>3, <2>4, <2>5 DEF Follows
  <2> QED BY <1>1, <1>10, <2>1, <2>2, <2>3, <2>6 DEF Online
<1>13. ASSUME NEW i \in DOMAIN up'[owner] PROVE Posted(i)'
  <2>1. Posted(i) /\ i \in DOMAIN up[owner]
    BY <1>7 DEF Flow
  <2>2. CASE \E c \in Fellows : up[owner][i] = Rekey(c)
    BY <1>4, <1>7, <1>8, <1>9, <2>2 DEF Posted
  <2>3. CASE up[owner][i] \in Rosters
    <3>1. ASSUME NEW c \in Fellows
          PROVE  up'[owner][i].key = IF Has(down'[c], {Rekey(c)}) \/ Before(up'[owner], i, {Rekey(c)})
                                       THEN Newest ELSE keys[c][1]
      <4>1. up[owner][i].key = IF Has(down[c], {Rekey(c)}) \/ Before(up[owner], i, {Rekey(c)})
                                 THEN Newest ELSE keys[c][1]
        BY <2>1, <2>3, KindsOfFrame DEF Posted
      <4>2. ~Has(down[c], {Rekey(c)})
        BY <1>3 DEF Coming
      <4> QED BY <1>7, <1>12, <4>1, <4>2
    <3> QED BY <1>1, <1>4, <1>7, <1>8, <1>9, <2>3, <3>1 DEF Posted
  <2> QED BY <2>1, <2>2, <2>3 DEF Posted
<1>14. Awaits({}, {p})'
  <2>1. members = rest \cup {p}
    BY DEF rest
  <2>2. CASE down[owner] = <<>> /\ oid[owner] = owner /\ known[owner] = members
    <3>1. down'[owner] = <<Presence(rest, owner)>>
      BY <1>11, <2>2, HeadOfOne DEF g
    <3> QED BY <1>1, <1>4, <2>1, <2>2, <3>1 DEF Awaits
  <2>3. CASE down[owner] = <<Presence(members, owner)>> /\ oid[owner] # owner
    <3>1. down'[owner] = <<Presence(rest \cup {p}, owner), Presence(rest, owner)>>
      BY <1>11, <2>1, <2>3, HeadOfOne DEF g
    <3> QED BY <1>1, <1>4, <2>3, <3>1 DEF Awaits
  <2>4. L # {}
    OBVIOUS
  <2> QED BY <1>3, <2>2, <2>3, <2>4 DEF Flow, Awaits
<1>15. Leads'
  BY <1>1, <1>2, <1>4 DEF Flow, Leads, Full, rest
<1>16. \A c \in members' \ {owner'} : Online(c)' /\ up'[c] = <<>>
  <2> SUFFICES ASSUME NEW c \in members \ {owner}, c # p PROVE Online(c)' /\ up'[c] = <<>>
    BY <1>4 DEF rest
  <2>1. Online(c) /\ up[c] = <<>>
    BY DEF Flow
  <2> QED BY <1>1, <1>2, <1>4, <2>1 DEF Online
<1>17. \A c \in Client \ members' : Outside(c)' /\ (c \in {p} \/ Newest' \notin learned'[c])
  <2>1. Outside(p)'
    <3>1. up'[p] = <<>>
      BY <1>3, <1>4, HeadOfOne
    <3>2. down[p] = <<>>
      BY <1>2, <1>9 DEF Inv, DownOK
    <3>3. down'[p] = <<>> /\ phase'[p] = "gone"
      BY <1>1, <1>2, <1>3, <1>4, <3>2 DEF rest
    <3> QED BY <3>1, <3>3 DEF Outside
  <2>2. ASSUME NEW c \in Client \ members PROVE Outside(c)' /\ Newest' \notin learned'[c]
    <3>1. Outside(c) /\ Newest \notin learned[c]
      BY <1>3 DEF Flow
    <3>2. phase'[c] = phase[c] /\ up'[c] = up[c] /\ down'[c] = down[c]
      BY <1>1, <1>4 DEF rest
    <3> QED BY <1>1, <1>7, <3>1, <3>2 DEF Outside
  <2> QED BY <1>4, <2>1, <2>2 DEF rest
<1>18. \A c \in Client : spc'[c] = "read"
  BY <1>1 DEF Flow
<1>19. {p} \cap members' = {}
  BY <1>4 DEF rest
<1>20. \A c \in Fellows' : ~Coming(c)' /\ phase'[c] = "member" /\ Follows(c)'
  BY <1>1, <1>3, <1>9, <1>12
<1>21. Flow({}, {p})'
  BY <1>4, <1>13, <1>14, <1>15, <1>16, <1>17, <1>18, <1>19, <1>20 DEF Flow
<1> QED BY <1>1, <1>21 DEF Named

\* No frame holds a key that has not been generated.
LEMMA NoKeyYet ==
  ASSUME Inv, NEW c \in Client, NEW f, f.t = "rekey", f.key = nkeys + 1
  PROVE  ~Has(up[c], {f}) /\ ~Has(down[c], {f})
<1>1. nkeys + 1 \notin 1 .. nkeys
  BY DEF Inv, Counters
<1>2. up[c] \in Seq(UpFrame(c)) /\ down[c] \in Seq(DownFrame(c))
  BY DEF Inv, UpOK, DownOK
<1>3. \A i \in DOMAIN up[c] : up[c][i] # f
  <2> SUFFICES ASSUME NEW i \in DOMAIN up[c], up[c][i] = f PROVE FALSE
    OBVIOUS
  <2>1. f \in UpFrame(c)
    BY <1>2
  <2>2. f \in RekeyFrame
    BY <2>1, UpKinds
  <2> QED BY <1>1, <2>2 DEF RekeyFrame
<1>4. \A i \in DOMAIN down[c] : down[c][i] # f
  <2> SUFFICES ASSUME NEW i \in DOMAIN down[c], down[c][i] = f PROVE FALSE
    OBVIOUS
  <2>1. f \in DownFrame(c)
    BY <1>2
  <2>2. f.key \in 1 .. nkeys
    BY <2>1, DownKinds
  <2> QED BY <1>1, <2>2
<1> QED BY <1>3, <1>4 DEF Has

\* rotateForLeave: everybody who is left gets a key the departed never knew.
LEMMA FlowRotate ==
  ASSUME Inv, owner \in Client, Named, NEW L, NEW U, Flow(L, U), RotateForLeave(owner)
  PROVE  Named' /\ Flow({}, {})'
<1> DEFINE f == Head(down[owner])
           p == [d \in Client |-> IF d \in MissingFrom(owner, f) THEN None ELSE pubs[owner][d]]
           k == nkeys + 1
           g == RosterFrame(owner, p, k)
           S == members \ {owner}
<1>1. /\ down[owner] # <<>> /\ MissingFrom(owner, f) # {} /\ nkeys' = k /\ PushKey(owner, k)
      /\ Handled(owner) /\ pubs' = [pubs EXCEPT ![owner] = p]
      /\ known' = [known EXCEPT ![owner] = f.m]
      /\ \E s \in RekeyFrames(owner, f.m \ {owner}, p, k) : Sends(owner, s \o <<g>>)
      /\ UNCHANGED <<members, owner, hs, spc, phase, oid, first>>
  BY DEF RotateForLeave, NextFor, serverVars
<1>2. /\ owner \in members /\ phase[owner] = "member" /\ Full(owner) /\ members \subseteq Client
      /\ nkeys \in Nat /\ U \cap members = {}
  BY DEF Flow, Leads, Inv, TypeInv, Counters
<1>3. /\ oid[owner] = owner /\ down[owner] = <<Presence(members, owner)>>
      /\ known[owner] = members \cup U /\ L = {} /\ f.m = members /\ U # {}
  <2>1. oid[owner] = owner /\ known[owner] \ f.m # {}
    BY <1>1 DEF MissingFrom
  <2>2. down[owner] = <<Presence(members, owner)>> /\ known[owner] = members \cup U /\ L = {}
    BY <1>1, <2>1 DEF Flow, Awaits
  <2>3. f = Presence(members, owner)
    BY <2>2, HeadOfOne
  <2>4. f.m = members
    BY <2>3, KindsOfFrame
  <2> QED BY <2>1, <2>2, <2>4
<1>4. PICK s \in RekeyFrames(owner, S, p, k) : Sends(owner, s \o <<g>>)
  BY <1>1, <1>3
<1>5. MissingFrom(owner, f) = U
  BY <1>2, <1>3 DEF MissingFrom
<1>6. \A d \in Client : p[d] \in {None, d} /\ (d \in S => p[d] = d)
  BY <1>2, <1>5 DEF Full, Named
<1>7. p \in [Client -> Client \cup {None}]
  BY DEF Inv, TypeInv
<1> HIDE DEF f, p
<1>8. /\ keys'[owner] # <<>> /\ keys'[owner][1] = k /\ learned'[owner] = learned[owner] \cup {k}
      /\ \A c \in Client \ {owner} : keys'[c] = keys[c] /\ learned'[c] = learned[c]
  BY <1>1, <1>2, PushMeans
<1>9. Newest' = k /\ owner' = owner /\ members' = members /\ k \in Nat
  BY <1>1, <1>2, <1>8 DEF Newest
<1>10. \A c : Rekey(c)' = [t |-> "rekey", target |-> c, by |-> owner, for |-> c, key |-> k]
  BY <1>9 DEF Rekey
<1>11. News' = News /\ Rosters' = Rosters
  BY <1>9 DEF News, Rosters
<1>12. /\ s \in Seq({[t |-> "rekey", target |-> d, by |-> owner, for |-> d, key |-> k] : d \in S})
       /\ \A d \in S : Has(s, {[t |-> "rekey", target |-> d, by |-> owner, for |-> d, key |-> k]})
  <2>1. S \subseteq Client /\ \A d \in S : p[d] = d
    BY <1>2, <1>6
  <2> HIDE DEF k, S
  <2> QED BY <1>4, <2>1, RekeysSent
<1>13. /\ s \in Seq({Rekey(d)' : d \in S})
       /\ \A d \in S : Has(s, {Rekey(d)'})
  BY <1>10, <1>12
<1>14. g \in Rosters /\ g.key = k
  <2>1. g = [t |-> "roster", key |-> k, map |-> [p EXCEPT ![owner] = owner]]
    BY DEF RosterFrame
  <2>2. [p EXCEPT ![owner] = owner] \in [Client -> Client \cup {None}]
    BY <1>7
  <2>3. \A d \in Client : /\ [p EXCEPT ![owner] = owner][d] \in {None, d}
                          /\ d \in members => [p EXCEPT ![owner] = owner][d] = d
    BY <1>6, <1>7
  <2> HIDE DEF g, k
  <2>4. g.map = [p EXCEPT ![owner] = owner] /\ g.key = k
    BY <2>1
  <2>5. g \in [t : {"roster"}, key : Nat, map : [Client -> Client \cup {None}]]
    BY <1>9, <2>1, <2>2
  <2> QED BY <2>3, <2>4, <2>5 DEF Rosters
<1> DEFINE z == s \o <<g>>
           T == {Rekey(d)' : d \in S}
<1>15. Gains(s, g, z) /\ s \in Seq(T) /\ z \in Seq(T \cup {g})
  <2>1. s \in Seq(T \cup {g}) /\ s \in Seq(T)
    BY <1>13, SeqMonotonic
  <2> HIDE DEF g, T
  <2>2. <<g>> \in Seq(T \cup {g})
    OBVIOUS
  <2>3. Append(s, g) = s \o <<g>>
    BY <2>1, AppendHas
  <2> QED BY <2>1, <2>2, <2>3, ConcatProperties DEF Gains
<1>16. /\ up'[owner] = up[owner] \o z /\ \A c \in Client \ {owner} : up'[c] = up[c]
       /\ down'[owner] = <<>> /\ \A c \in Client \ {owner} : down'[c] = down[c]
       /\ known'[owner] = members
       /\ pubs'[owner] = p /\ \A c \in Client \ {owner} : pubs'[c] = pubs[c]
  <2>1. Tail(down[owner]) = <<>>
    BY <1>3, HeadOfOne
  <2> HIDE DEF g
  <2> QED BY <1>1, <1>3, <1>4, <2>1 DEF Sends, Handled, Inv, UpOK, DownOK, TypeInv
<1> HIDE DEF g, z, T
<1>17. up[owner] \in Seq(UpFrame(owner)) /\ Joins(up[owner], z, up'[owner])
  BY <1>16 DEF Inv, UpOK, Joins
<1>18. /\ Fellows = S /\ Fellows' = S
       /\ \A c \in S : c \in Client /\ c # owner /\ Online(c) /\ up[c] = <<>>
  <2>1. \A c \in S : c \in Client /\ c # owner /\ Online(c) /\ up[c] = <<>>
    BY <1>2, <1>3 DEF Flow
  <2>2. Fellows = S
    BY <2>1 DEF Fellows
  <2>3. Fellows' = S
    BY <1>1, <2>1 DEF Fellows, Online
  <2> QED BY <2>1, <2>2, <2>3
<1>19. \A c \in S : Follows(c) /\ ~Coming(c) /\ phase[c] = "member"
  BY <1>3, <1>18 DEF Flow
<1>20. \A c \in S : ~Has(down[c], {Rekey(c)'}) /\ ~Has(up[owner], {Rekey(c)'})
  BY <1>10, <1>18, NoKeyYet
<1>21. ASSUME NEW c \in S PROVE Follows(c)'
  <2>1. /\ down'[c] = down[c] /\ keys'[c] = keys[c] /\ pubs'[c] = pubs[c]
        /\ phase'[c] = phase[c] /\ oid'[c] = oid[c] /\ first'[c] = first[c]
    BY <1>1, <1>8, <1>16, <1>18
  <2>2. Coming(c)'
    <3>1. Has(s, {Rekey(c)'})
      BY <1>13
    <3>2. Has(z, {Rekey(c)'})
      BY <1>15, <3>1, GainsHas
    <3>3. Has(up'[owner], {Rekey(c)'})
      BY <1>15, <1>17, <3>2, JoinsHas
    <3> QED BY <1>9, <3>3 DEF Coming
  <2>3. ASSUME NEW i \in DOMAIN down'[c] PROVE Foreseen(c, i)'
    <3>1. Foreseen(c, i)
      BY <1>19, <2>1 DEF Follows
    <3>2. CASE down[c][i] \in News /\ (down[c][i].t = "welcome" => first[c] = owner)
      BY <1>9, <1>11, <2>1, <3>2 DEF Foreseen
    <3>3. CASE down[c][i] = Rekey(c)
      <4>1. Has(down[c], {Rekey(c)})
        BY <2>1, <3>3 DEF Has
      <4> QED BY <1>19, <4>1 DEF Coming
    <3>4. CASE /\ down[c][i] \in Rosters
               /\ down[c][i].key = IF Before(down[c], i, {Rekey(c)}) THEN Newest ELSE keys[c][1]
      <4>1. \A W : Before(down[c], i, W) => Has(down[c], W)
        <5>1. down[c] \in Seq(DownFrame(c)) /\ i \in DOMAIN down[c]
          BY <1>18, <2>1 DEF Inv, DownOK
        <5>2. i \in 1 .. Len(down[c]) /\ Len(down[c]) \in Nat /\ DOMAIN down[c] = 1 .. Len(down[c])
          BY <5>1
        <5>3. \A h \in 1 .. i - 1 : h \in DOMAIN down[c]
          BY <5>2
        <5> QED BY <5>3 DEF Before, Has
      <4>2. ~Before(down[c], i, {Rekey(c)}) /\ ~Before(down[c], i, {Rekey(c)'})
        BY <1>19, <1>20, <4>1 DEF Coming
      <4> QED BY <1>9, <1>11, <2>1, <3>4, <4>2 DEF Foreseen
    <3> QED BY <3>1, <3>2, <3>3, <3>4 DEF Foreseen
  <2>4. Has(up'[owner], Rosters)
    <3>1. Has(z, Rosters)
      BY <1>14, <1>15, GainsHas
    <3> QED BY <1>15, <1>17, <3>1, JoinsHas
  <2>5. Follows(c) /\ phase[c] = "member"
    BY <1>19
  <2> QED BY <1>9, <1>11, <2>1, <2>2, <2>3, <2>4, <2>5 DEF Follows
<1>22. ASSUME NEW i \in DOMAIN up'[owner] PROVE Posted(i)'
  <2>1. \/ /\ i \in DOMAIN up[owner] /\ up'[owner][i] = up[owner][i]
           /\ \A W : /\ Before(up'[owner], i, W) => Before(up[owner], i, W)
                     /\ Before(up[owner], i, W) => Before(up'[owner], i, W)
        \/ \E h \in DOMAIN z :
             /\ i = Len(up[owner]) + h /\ up'[owner][i] = z[h]
             /\ \A W : /\ Before(up'[owner], i, W) => Has(up[owner], W) \/ Before(z, h, W)
                       /\ Has(up[owner], W) => Before(up'[owner], i, W)
                       /\ Before(z, h, W) => Before(up'[owner], i, W)
    BY <1>15, <1>17, JoinsHas
  <2>2. CASE /\ i \in DOMAIN up[owner] /\ up'[owner][i] = up[owner][i]
             /\ \A W : /\ Before(up'[owner], i, W) => Before(up[owner], i, W)
                       /\ Before(up[owner], i, W) => Before(up'[owner], i, W)
    <3>1. Posted(i)
      BY <2>2 DEF Flow
    <3>2. \A c \in S : up[owner][i] # Rekey(c)
      BY <1>19, <2>2 DEF Coming, Has
    <3>3. up[owner][i] \in Rosters
      BY <1>18, <3>1, <3>2 DEF Posted
    <3>4. \A W : Before(up[owner], i, W) => Has(up[owner], W)
      <4>1. i \in 1 .. Len(up[owner]) /\ Len(up[owner]) \in Nat /\ DOMAIN up[owner] = 1 .. Len(up[owner])
        BY <1>17, <2>2
      <4>2. \A h \in 1 .. i - 1 : h \in DOMAIN up[owner]
        BY <4>1
      <4> QED BY <4>2 DEF Before, Has
    <3>5. ASSUME NEW c \in S
          PROVE  up'[owner][i].key = IF Has(down'[c], {Rekey(c)'}) \/ Before(up'[owner], i, {Rekey(c)'})
                                       THEN k ELSE keys'[c][1]
      <4>1. up[owner][i].key = IF Has(down[c], {Rekey(c)}) \/ Before(up[owner], i, {Rekey(c)})
                                 THEN Newest ELSE keys[c][1]
        BY <1>18, <3>1, <3>3, KindsOfFrame DEF Posted
      <4>2. up[owner][i].key = keys[c][1]
        BY <1>19, <3>4, <4>1 DEF Coming
      <4>3. ~Has(down'[c], {Rekey(c)'}) /\ ~Before(up'[owner], i, {Rekey(c)'}) /\ keys'[c] = keys[c]
        BY <1>8, <1>16, <1>18, <1>20, <2>2, <3>4
      <4> QED BY <2>2, <4>2, <4>3
    <3> QED BY <1>9, <1>11, <1>18, <2>2, <3>3, <3>5 DEF Posted
  <2>3. ASSUME NEW h \in DOMAIN z, up'[owner][i] = z[h],
               \A W : Before(z, h, W) => Before(up'[owner], i, W)
        PROVE  Posted(i)'
    <3>1. \/ h \in DOMAIN s /\ z[h] = s[h]
          \/ z[h] = g /\ \A W : Has(s, W) => Before(z, h, W)
      BY <1>15, GainsHas
    <3>2. CASE h \in DOMAIN s /\ z[h] = s[h]
      <4>1. s[h] \in {Rekey(d)' : d \in S}
        BY <1>13, <3>2
      <4> QED BY <1>9, <1>18, <2>3, <3>2, <4>1 DEF Posted
    <3>3. CASE z[h] = g /\ \A W : Has(s, W) => Before(z, h, W)
      <4>1. \A c \in S : Before(up'[owner], i, {Rekey(c)'})
        BY <1>13, <2>3, <3>3
      <4> QED BY <1>9, <1>11, <1>14, <1>18, <2>3, <3>3, <4>1 DEF Posted
    <3> QED BY <3>1, <3>2, <3>3
  <2> QED BY <2>1, <2>2, <2>3
<1>23. Leads'
  BY <1>1, <1>2, <1>6, <1>8, <1>9, <1>16 DEF Leads, Full
<1>24. Named'
  <2>1. UNCHANGED <<first, phase>> /\ phase'[owner] # "out"
    BY <1>1, <1>2
  <2> QED BY <1>6, <1>8, <1>16, <2>1, NamedKept
<1>25. \A c \in Client \ members' : Outside(c)' /\ Newest' \notin learned'[c]
  <2> SUFFICES ASSUME NEW c \in Client \ members PROVE Outside(c)' /\ k \notin learned'[c]
    BY <1>9
  <2>1. c # owner /\ Outside(c)
    BY <1>2 DEF Flow
  <2>2. phase'[c] = phase[c] /\ up'[c] = up[c] /\ down'[c] = down[c] /\ learned'[c] = learned[c]
    BY <1>1, <1>8, <1>16, <2>1
  <2>3. k \notin learned[c]
    BY <1>2 DEF Inv, TypeInv
  <2> QED BY <2>1, <2>2, <2>3 DEF Outside
<1>26. Awaits({}, {})'
  BY <1>1, <1>3, <1>9, <1>16 DEF Awaits
<1>27. \A c \in members' \ {owner'} : Online(c)' /\ up'[c] = <<>>
  BY <1>1, <1>9, <1>16, <1>18 DEF Online
<1>28. \A c \in Client : spc'[c] = "read" /\ hs'[c] = None
  BY <1>1 DEF Flow
<1>29. Flow({}, {})'
  BY <1>9, <1>18, <1>21, <1>22, <1>23, <1>25, <1>26, <1>27, <1>28 DEF Flow
<1> QED BY <1>24, <1>29

LEMMA FlowAll ==
  ASSUME Inv, owner \in Client, Named, NEW L \in SUBSET Client, NEW U \in SUBSET Client,
         Flow(L, U), NEW c \in Client, Server(c) \/ Browser(c)
  PROVE  owner' = owner /\ Named' /\ \E K, V \in SUBSET Client : Flow(K, V)'
<1>1. CASE c = owner /\ HandleRekey(c)
  <2>1. owner' = owner
    BY <1>1 DEF HandleRekey, serverVars
  <2> QED BY <1>1, <2>1, FlowRekey
<1>2. CASE c = owner /\ HandleRoster(c)
  <2>1. owner' = owner
    BY <1>2 DEF HandleRoster, serverVars
  <2> QED BY <1>2, <2>1, FlowRoster
<1>3. CASE c = owner /\ OnPresenceSame(c)
  <2>1. owner' = owner
    BY <1>3 DEF OnPresenceSame, serverVars
  <2> QED BY <1>3, <2>1, FlowPresence
<1>4. CASE c = owner /\ RotateForLeave(c)
  <2>1. owner' = owner
    BY <1>4 DEF RotateForLeave, serverVars
  <2>2. {} \in SUBSET Client
    OBVIOUS
  <2> QED BY <1>4, <2>1, <2>2, FlowRotate
<1>5. CASE c \in Fellows /\ (OnWelcome(c) \/ OnPresenceMember(c))
  <2>1. owner' = owner
    BY <1>5 DEF OnWelcome, OnPresenceMember, serverVars
  <2> QED BY <1>5, <2>1, FlowNews
<1>6. CASE c \in Fellows /\ OnRekey(c)
  <2>1. owner' = owner
    BY <1>6 DEF OnRekey, serverVars
  <2> QED BY <1>6, <2>1, FlowOpens
<1>7. CASE c \in Fellows /\ ApplyRoster(c)
  <2>1. owner' = owner
    BY <1>7 DEF ApplyRoster, serverVars
  <2> QED BY <1>7, <2>1, FlowApplies
<1>8. CASE c # owner /\ (c \in members => L = {c}) /\ Leave(c)
  <2>1. owner' = owner
    BY <1>8 DEF Leave, Removed
  <2>2. CASE c \in members
    BY <1>8, <2>1, <2>2, FlowLeave
  <2>3. CASE c \notin members
    BY <1>8, <2>1, <2>3, FlowApartSteps
  <2> QED BY <2>2, <2>3
<1>9. CASE c \notin members /\ OnRoomClosed(c)
  <2>1. owner' = owner
    BY <1>9 DEF OnRoomClosed, serverVars
  <2> QED BY <1>9, <2>1, FlowApartSteps
<1> QED BY <1>1, <1>2, <1>3, <1>4, <1>5, <1>6, <1>7, <1>8, <1>9, FlowSteps

-----------------------------------------------------------------------------
(* What the owner asked for. *)

\* The members agree, and know or are about to hear who is in the room.
LEMMA RestFlows ==
  ASSUME NEW L, NEW U, members' \subseteq Client, Leads', U \cap members' = {},
         L = {} \/ (U = {} /\ \E p \in members' \ {owner'} : L = {p}),
         \A c \in members' \ {owner'} :
           IF c \in L THEN phase'[c] = "gone" /\ up'[c] = <<LeaveFrame>>
                      ELSE phase'[c] = "member" /\ up'[c] = <<>>,
         up'[owner'] = <<>>,
         \A c \in members' \ {owner'} : c \notin L =>
           /\ keys'[c] # <<>> /\ keys'[c][1] = Newest' /\ Full(c)'
           /\ \/ down'[c] = <<>> /\ oid'[c] = owner'
              \/ down'[c] = <<Presence(members', owner')>>,
         \A c \in Client \ members' : Outside(c)' /\ (c \in U \/ Newest' \notin learned'[c]),
         \A c \in Client : spc'[c] = "read" /\ hs'[c] = None,
         Awaits(L, U)'
  PROVE  Flow(L, U)'
<1>1. \A c \in Fellows' : c \in members' \ {owner'} /\ c \notin L /\ phase'[c] = "member"
  BY DEF Fellows, Online
<1>2. \A W : ~Has(<<>>, W)
  BY EmptyHas
<1>3. \A i : i \notin DOMAIN <<>>
  OBVIOUS
<1>4. Presence(members', owner') \in News' /\ Presence(members', owner').t = "presence"
  BY DEF Presence, News
<1>5. ASSUME NEW c \in Fellows' PROVE Follows(c)' /\ ~Coming(c)'
  <2>1. /\ keys'[c] # <<>> /\ keys'[c][1] = Newest' /\ Full(c)' /\ phase'[c] = "member"
        /\ \/ down'[c] = <<>> /\ oid'[c] = owner'
           \/ down'[c] = <<Presence(members', owner')>>
    BY <1>1
  <2>2. pubs'[c][owner'] = owner'
    BY <1>1, <2>1 DEF Full, Leads
  <2>3. CASE down'[c] = <<>> /\ oid'[c] = owner'
    <3>1. ~Coming(c)'
      BY <1>2, <2>3 DEF Coming
    <3> QED BY <1>3, <2>1, <2>2, <2>3, <3>1 DEF Follows
  <2>4. CASE down'[c] = <<Presence(members', owner')>>
    <3>1. DOMAIN down'[c] = {1} /\ down'[c][1] = Presence(members', owner')
      BY <2>4
    <3>2. ~Has(down'[c], {Rekey(c)'})
      BY <3>1 DEF Has, Rekey, Presence
    <3>3. Has(down'[c], News')
      BY <1>4, <3>1 DEF Has
    <3>4. ~Coming(c)'
      BY <1>2, <3>2 DEF Coming
    <3>5. \A i \in DOMAIN down'[c] : Foreseen(c, i)'
      BY <1>4, <3>1 DEF Foreseen
    <3> QED BY <2>1, <2>2, <3>3, <3>4, <3>5 DEF Follows
  <2> QED BY <2>1, <2>3, <2>4
<1>6. \A i \in DOMAIN up'[owner'] : Posted(i)'
  BY <1>3
<1>7. \A c \in members' \ {owner'} :
           IF c \in L THEN phase'[c] = "gone" /\ up'[c] = <<LeaveFrame>>
                      ELSE Online(c)' /\ up'[c] = <<>>
  BY DEF Online
<1> QED BY <1>1, <1>5, <1>6, <1>7 DEF Flow

LEMMA AskedSteps ==
  ASSUME Inv, owner \in Client, Asked, NEW c \in Client, Server(c) \/ Browser(c)
  PROVE  c = owner /\ up[c] # <<>> /\ (HandleKick(c) \/ HandleTransfer(c) \/ Leave(c))
<1>1. /\ down[c] = <<>> /\ spc[c] = "read" /\ (c # owner => up[c] = <<>>)
  BY DEF Asked, Rest
<1>2. ~Browser(c)
  BY <1>1 DEF Browser, RotateForJoin, OnOwnerKey, FinishJoin, OnWelcome, OnRekey, ApplyRoster,
              OnPresenceMember, OnPresenceSame, RotateForLeave, OnRoomClosed, NextFor
<1>3. PICK t : NextOf(c, t) /\ \/ t \in {"member_key", "key_deliver", "enter", "rekey", "roster"}
                               \/ t = "transfer" /\ HandleTransfer(c)
                               \/ t = "kick" /\ HandleKick(c)
                               \/ t = "leave" /\ Leave(c)
  BY <1>1, <1>2 DEF Server, RelayHandshake, Enter, Announce, HandleRekey, HandleRoster,
                    HandleTransfer, HandleKick, Leave
<1>4. up[c] # <<>> /\ Head(up[c]).t = t /\ c = owner
  BY <1>1, <1>3 DEF NextOf
<1>5. Head(up[owner]).t \in {"kick", "transfer", "leave"}
  <2>1. CASE up[owner] = <<LeaveFrame>>
    <3>1. Head(up[owner]) = LeaveFrame
      BY <2>1, HeadOfOne
    <3> QED BY <3>1, KindsOfFrame
  <2>2. ASSUME NEW d \in Client, Asks(d) PROVE Head(up[owner]).t \in {"kick", "transfer", "leave"}
    <3>1. \/ Head(up[owner]) = [t |-> "kick", target |-> d]
          \/ Head(up[owner]) = [t |-> "transfer", target |-> d]
      BY <2>2, HeadOfOne DEF Asks
    <3> QED BY <3>1
  <2> QED BY <2>1, <2>2 DEF Asked
<1> QED BY <1>3, <1>4, <1>5

\* What the owner's next frame asks for, and what is behind it.
LEMMA AskedHead ==
  ASSUME Inv, owner \in Client, Asked
  PROVE  /\ Head(up[owner]).t = "leave" => phase[owner] = "gone"
         /\ Head(up[owner]).t = "kick" =>
              /\ phase[owner] = "member" /\ Head(up[owner]).target \in Client \ {owner}
              /\ Tail(up[owner]) = <<>>
         /\ Head(up[owner]).t = "transfer" =>
              /\ Head(up[owner]).target \in Client \ {owner}
              /\ \/ phase[owner] = "member" /\ Tail(up[owner]) = <<>>
                 \/ phase[owner] = "gone" /\ Tail(up[owner]) = <<LeaveFrame>>
<1>1. CASE phase[owner] = "gone" /\ up[owner] = <<LeaveFrame>>
  <2>1. Head(up[owner]) = LeaveFrame
    BY <1>1, HeadOfOne
  <2>2. Head(up[owner]).t = "leave"
    BY <2>1, KindsOfFrame
  <2> QED BY <1>1, <2>2
<1>2. ASSUME NEW d \in Client \ {owner}, Asks(d)
      PROVE  /\ Head(up[owner]).t = "leave" => phase[owner] = "gone"
             /\ Head(up[owner]).t = "kick" =>
                  /\ phase[owner] = "member" /\ Head(up[owner]).target \in Client \ {owner}
                  /\ Tail(up[owner]) = <<>>
             /\ Head(up[owner]).t = "transfer" =>
                  /\ Head(up[owner]).target \in Client \ {owner}
                  /\ \/ phase[owner] = "member" /\ Tail(up[owner]) = <<>>
                     \/ phase[owner] = "gone" /\ Tail(up[owner]) = <<LeaveFrame>>
  <2>1. CASE phase[owner] = "member" /\ up[owner] = <<[t |-> "kick", target |-> d]>>
    <3>1. Head(up[owner]) = [t |-> "kick", target |-> d] /\ Tail(up[owner]) = <<>>
      BY <2>1, HeadOfOne
    <3> QED BY <2>1, <3>1
  <2>2. CASE phase[owner] = "member" /\ up[owner] = <<[t |-> "transfer", target |-> d]>>
    <3>1. Head(up[owner]) = [t |-> "transfer", target |-> d] /\ Tail(up[owner]) = <<>>
      BY <2>2, HeadOfOne
    <3> QED BY <2>2, <3>1
  <2>3. CASE phase[owner] = "gone" /\ up[owner] = <<[t |-> "transfer", target |-> d], LeaveFrame>>
    <3>1. Head(up[owner]) = [t |-> "transfer", target |-> d] /\ Tail(up[owner]) = <<LeaveFrame>>
      BY <2>3, HeadOfOne
    <3> QED BY <2>3, <3>1
  <2> QED BY <1>2, <2>1, <2>2, <2>3 DEF Asks
<1> QED BY <1>1, <1>2 DEF Asked

\* The request named nobody in the room: nothing is left of it.
LEMMA AskedInVain ==
  ASSUME Inv, owner \in Client, Asked, phase[owner] = "member",
         UNCHANGED <<members, owner, hs, spc, down, phase, keys, pubs, known, oid, first, learned>>,
         up'[owner] = <<>>, \A c \in Client \ {owner} : up'[c] = up[c]
  PROVE  Flow({}, {})'
<1>1. PICK k \in Nat : Rest(owner, k)
  BY DEF Asked
<1>2. members \subseteq Client /\ owner \in members
  BY <1>1 DEF Rest, Inv, TypeInv
<1>3. Newest = k /\ Newest' = Newest
  BY <1>1, <1>2 DEF Rest, Newest
<1>4. Leads' /\ known[owner] = members
  BY <1>1, <1>2 DEF Asked, Leads, Rest, Full
<1>5. \A c \in members \ {owner} :
         /\ phase[c] = "member" /\ up'[c] = <<>> /\ keys[c] # <<>> /\ keys[c][1] = k /\ Full(c)'
         /\ down[c] = <<>> /\ oid[c] = owner
  BY <1>1, <1>2 DEF Rest, Asked, Full
<1>6. \A c \in Client \ members : Outside(c)' /\ Newest' \notin learned'[c]
  <2> SUFFICES ASSUME NEW c \in Client \ members PROVE Outside(c)' /\ Newest' \notin learned'[c]
    OBVIOUS
  <2>1. phase[c] \in {"out", "gone"} /\ k \notin learned[c] /\ down[c] = <<>> /\ up'[c] = <<>>
    BY <1>1, <1>2 DEF Rest
  <2> QED BY <1>3, <2>1 DEF Outside
<1>7. \A c \in Client : spc'[c] = "read" /\ hs'[c] = None /\ down'[c] = <<>>
  BY <1>1 DEF Rest, Asked
<1>8. Awaits({}, {})' /\ {} \cap members' = {}
  BY <1>2, <1>4, <1>7 DEF Awaits, Asked
<1> HIDE DEF Leads, Awaits
<1> QED BY <1>2, <1>3, <1>4, <1>5, <1>6, <1>7, <1>8, RestFlows

\* handleKick: the member is out, and the owner is about to hear of it.
LEMMA AskedKick ==
  ASSUME Inv, owner \in Client, Named, Asked, HandleKick(owner)
  PROVE  Named' /\ Stage'
<1>0. PICK d : d = Head(up[owner]).target
  OBVIOUS
<1> DEFINE rest == members \ {d}
<1>1. /\ up[owner] # <<>> /\ Head(up[owner]).t = "kick" /\ Served(owner)
      /\ IF d \in members /\ d # owner THEN Removed(d, {d}) ELSE UNCHANGED <<members, owner, down>>
      /\ UNCHANGED <<hs, spc, phase, keys, pubs, known, oid, first, learned>>
  BY <1>0 DEF HandleKick, NextOf, clientVars, history
<1>2. phase[owner] = "member" /\ d \in Client \ {owner} /\ Tail(up[owner]) = <<>>
  BY <1>0, <1>1, AskedHead
<1>3. up'[owner] = <<>> /\ \A c \in Client \ {owner} : up'[c] = up[c]
  BY <1>1, <1>2 DEF Served, Inv, UpOK
<1>4. Named'
  BY <1>1 DEF Named
<1>5. CASE d \notin members
  <2>1. Flow({}, {})'
    BY <1>1, <1>2, <1>3, <1>5, AskedInVain
  <2> QED BY <1>4, <2>1 DEF Stage
<1>6. CASE d \in members
  <2>1. PICK k \in Nat : Rest(owner, k)
    BY DEF Asked
  <2>2. members \subseteq Client /\ owner \in members /\ members' = rest /\ owner' = owner
    BY <1>1, <1>2, <1>6, <2>1 DEF Rest, Inv, TypeInv, Removed
  <2>3. Newest = k /\ Newest' = Newest
    BY <1>1, <1>2, <2>1, <2>2 DEF Rest, Newest
  <2>4. \A c \in members : phase[c] = "member" /\ Online(c) /\ c \in Client
                           /\ keys[c] # <<>> /\ keys[c][1] = k /\ Full(c)
    BY <1>2, <2>1, <2>2 DEF Rest, Online
  <2>5. \A c \in Client : down[c] = <<>> /\ hs[c] = None /\ spc[c] = "read"
    BY <2>1 DEF Rest, Asked
  <2>6. /\ \A c \in rest : down'[c] = <<Presence(rest, owner)>>
        /\ down'[d] = <<RoomClosed>>
        /\ \A c \in Client \ members : down'[c] = <<>>
    <3>1. \A c \in Client :
            down'[c] = IF ~Online(c) THEN <<>>
                       ELSE IF c = d THEN Append(<<>>, RoomClosed)
                       ELSE IF c \in rest THEN Append(<<>>, Presence(rest, owner))
                       ELSE <<>>
      BY <1>1, <1>2, <1>6, <2>5 DEF Removed
    <3> HIDE DEF rest
    <3>2. \A c \in Client :
            down'[c] = IF ~Online(c) THEN <<>>
                       ELSE IF c = d THEN <<RoomClosed>>
                       ELSE IF c \in rest THEN <<Presence(rest, owner)>>
                       ELSE <<>>
      BY <3>1, HeadOfOne
    <3> QED BY <1>2, <1>6, <2>4, <3>2 DEF rest
  <2>7. Leads'
    BY <1>1, <1>2, <2>2, <2>4 DEF Leads, Full
  <2>8. known[owner] = members /\ oid[owner] = owner
    BY <1>2, <2>2 DEF Asked
  <2>9. Awaits({}, {d})'
    <3>1. /\ down'[owner'] = <<Presence(members', owner')>> /\ oid'[owner'] = owner'
          /\ known'[owner'] = members' \cup {d}
      BY <1>1, <1>2, <1>6, <2>2, <2>6, <2>8
    <3> QED BY <3>1 DEF Awaits
  <2>10. \A c \in rest \ {owner} :
           /\ phase'[c] = "member" /\ up'[c] = <<>>
           /\ keys'[c] # <<>> /\ keys'[c][1] = Newest' /\ Full(c)'
           /\ down'[c] = <<Presence(rest, owner)>>
    <3> SUFFICES ASSUME NEW c \in rest \ {owner}
                 PROVE  /\ phase'[c] = "member" /\ up'[c] = <<>>
                        /\ keys'[c] # <<>> /\ keys'[c][1] = Newest' /\ Full(c)'
                        /\ down'[c] = <<Presence(rest, owner)>>
      OBVIOUS
    <3>1. c \in members /\ c \in Client /\ up[c] = <<>>
      BY <2>1, <2>2 DEF Rest
    <3> QED BY <1>1, <1>3, <2>2, <2>3, <2>4, <2>6, <3>1 DEF Full
  <2>11. \A c \in Client \ members' : Outside(c)' /\ (c \in {d} \/ Newest' \notin learned'[c])
    <3>1. Outside(d)'
      <4>1. up[d] = <<>>
        BY <1>2, <2>1 DEF Rest
      <4> QED BY <1>1, <1>2, <1>3, <1>6, <2>4, <2>6, <4>1 DEF Outside
    <3>2. ASSUME NEW c \in Client \ members PROVE Outside(c)' /\ Newest' \notin learned'[c]
      <4>1. phase[c] \in {"out", "gone"} /\ k \notin learned[c] /\ up[c] = <<>> /\ c # owner
        BY <2>1, <2>2 DEF Rest
      <4> QED BY <1>1, <1>3, <2>3, <2>6, <4>1 DEF Outside
    <3> QED BY <2>2, <3>1, <3>2
  <2>12. \A c \in Client : spc'[c] = "read" /\ hs'[c] = None
    BY <1>1, <2>5
  <2>13. members' \subseteq Client /\ {d} \cap members' = {} /\ up'[owner'] = <<>>
    BY <1>3, <2>2
  <2>14. Flow({}, {d})'
    <3> HIDE DEF rest
    <3>1. \A c \in members' \ {owner'} :
           /\ phase'[c] = "member" /\ up'[c] = <<>>
           /\ keys'[c] # <<>> /\ keys'[c][1] = Newest' /\ Full(c)'
           /\ down'[c] = <<Presence(members', owner')>>
      BY <2>2, <2>10
    <3> QED BY <2>7, <2>9, <2>11, <2>12, <2>13, <3>1, RestFlows
  <2>15. d \in Client
    BY <1>2
  <2> QED BY <1>4, <2>14, <2>15 DEF Stage
<1> QED BY <1>5, <1>6

\* handleTransfer: the new owner holds the newest key like everybody else.
LEMMA AskedTransfer ==
  ASSUME Inv, owner \in Client, Named, Asked, HandleTransfer(owner)
  PROVE  Named' /\ Stage' /\ owner' \in Client
<1>0. PICK d, o : d = Head(up[owner]).target /\ o = owner
  OBVIOUS
<1>1. /\ up[owner] # <<>> /\ Head(up[owner]).t = "transfer" /\ Served(owner)
      /\ IF d \in members THEN owner' = d /\ spc' = [spc EXCEPT ![owner] = "presence"]
                          ELSE UNCHANGED <<owner, spc>>
      /\ UNCHANGED <<members, hs, down, phase, keys, pubs, known, oid, first, learned>>
  BY <1>0 DEF HandleTransfer, NextOf, clientVars, history
<1>2. d \in Client \ {owner} /\ \/ phase[owner] = "member" /\ Tail(up[owner]) = <<>>
                                \/ phase[owner] = "gone" /\ Tail(up[owner]) = <<LeaveFrame>>
  BY <1>0, <1>1, AskedHead
<1>3. up'[owner] = Tail(up[owner]) /\ \A c \in Client \ {owner} : up'[c] = up[c]
  BY <1>1 DEF Served, Inv, UpOK
<1>4. Named'
  BY <1>1 DEF Named
<1>5. PICK k \in Nat : Rest(owner, k)
  BY DEF Asked
<1>6. CASE d \notin members /\ phase[owner] = "member"
  <2>1. Flow({}, {})'
    BY <1>1, <1>2, <1>3, <1>6, AskedInVain
  <2> QED BY <1>1, <1>4, <1>6, <2>1 DEF Stage
<1>7. CASE d \notin members /\ phase[owner] = "gone"
  <2>1. Rest(owner, k)'
    BY <1>1, <1>3, <1>5, <1>7 DEF Rest, Full
  <2>2. Asked'
    BY <1>1, <1>2, <1>3, <1>7, <2>1 DEF Asked
  <2> QED BY <1>1, <1>4, <1>7, <2>2 DEF Stage
<1>8. CASE d \in members
  <2>1. owner' = d /\ spc'[owner] = "presence" /\ \A c \in Client \ {owner} : spc'[c] = spc[c]
    BY <1>1, <1>8 DEF Inv, TypeInv
  <2>2. owner \in members /\ members \subseteq Client /\ phase[d] = "member" /\ oid[d] = owner
    BY <1>2, <1>5, <1>8 DEF Rest, Asked, Inv, TypeInv
  <2>3. Newest' = k
    BY <1>1, <1>2, <1>5, <1>8, <2>1, <2>2 DEF Rest, Newest
  <2>4. Rest(o, k)'
    <3>1. \A c \in Client : c # o => spc'[c] = "read" /\ up'[c] = <<>>
      BY <1>0, <1>3, <1>5, <2>1 DEF Rest
    <3> QED BY <1>0, <1>1, <1>5, <1>8, <2>1, <2>2, <3>1 DEF Rest, Full
  <2>5. Handed(o)'
    <3>1. /\ Rest(o, k)'
          /\ members' = members /\ o \in members /\ o # d /\ spc'[o] = "presence" /\ oid'[d] # d
          /\ up'[o] = IF phase'[o] = "member" THEN <<>> ELSE <<LeaveFrame>>
      BY <1>0, <1>1, <1>2, <1>3, <2>1, <2>2, <2>4
    <3> QED BY <2>1, <2>3, <3>1 DEF Handed
  <2> QED BY <1>0, <1>2, <1>4, <2>1, <2>5 DEF Stage
<1> QED BY <1>2, <1>6, <1>7, <1>8

LEMMA AskedLeave ==
  ASSUME Inv, owner \in Client, Leave(owner)
  PROVE  Closed'
<1>1. members' = {} /\ owner' = None
  BY DEF Leave
<1> QED BY <1>1 DEF Closed

LEMMA AskedAll ==
  ASSUME Inv, owner \in Client, Named, Asked, NEW c \in Client, Server(c) \/ Browser(c)
  PROVE  Closed' \/ (owner' \in Client /\ Named' /\ Stage')
<1>1. c = owner /\ (HandleKick(owner) \/ HandleTransfer(owner) \/ Leave(owner))
  BY AskedSteps
<1>2. CASE HandleKick(owner)
  <2>1. owner' = owner
    BY <1>2 DEF HandleKick, Removed
  <2> QED BY <1>2, <2>1, AskedKick
<1>3. CASE HandleTransfer(owner)
  BY <1>3, AskedTransfer
<1>4. CASE Leave(owner)
  BY <1>4, AskedLeave
<1> QED BY <1>1, <1>2, <1>3, <1>4

\* The server tells the room who owns it now; all that was missing is that.
LEMMA HandedAll ==
  ASSUME Inv, owner \in Client, Named, NEW p \in Client, Handed(p),
         NEW c \in Client, Server(c) \/ Browser(c)
  PROVE  owner' \in Client /\ Named' /\ Stage'
<1>1. /\ \A e \in Client : down[e] = <<>> /\ hs[e] = None
      /\ \A e \in Client \ {p} : spc[e] = "read" /\ up[e] = <<>>
      /\ spc[p] = "presence"
  BY DEF Handed, Rest
<1>2. ~Browser(c)
  BY <1>1 DEF Browser, RotateForJoin, OnOwnerKey, FinishJoin, OnWelcome, OnRekey, ApplyRoster,
              OnPresenceMember, OnPresenceSame, RotateForLeave, OnRoomClosed, NextFor
<1>3. c = p /\ Announce(p)
  BY <1>1, <1>2 DEF Server, RelayHandshake, Enter, Announce, HandleRekey, HandleRoster,
                    HandleTransfer, HandleKick, Leave, NextOf
<1>4. /\ UNCHANGED <<members, owner, hs, up, phase, keys, pubs, known, oid, first, learned>>
      /\ spc' = [spc EXCEPT ![p] = "read"]
      /\ \A d \in Client : d \notin members \/ ~Online(d) => down'[d] = down[d]
      /\ \A d \in members \cap Client :
           Online(d) => down'[d] = down[d] \o <<Presence(members, owner)>>
  BY <1>1, <1>3 DEF Announce, clientVars, history
<1>5. Named'
  BY <1>4 DEF Named
<1>6. members \subseteq Client /\ p \in members \ {owner} /\ owner \in members
  BY DEF Handed, Rest, Inv, TypeInv
<1>7. \A d \in members \ {p} :
        /\ phase[d] = "member" /\ keys[d] # <<>> /\ keys[d][1] = Newest /\ Full(d)
  BY DEF Handed, Rest
<1>8. \A d \in Client : IF d \in members /\ Online(d) THEN down'[d] = <<Presence(members, owner)>>
                                                      ELSE down'[d] = <<>>
  <2> SUFFICES ASSUME NEW d \in Client
               PROVE IF d \in members /\ Online(d) THEN down'[d] = <<Presence(members, owner)>>
                                                   ELSE down'[d] = <<>>
    OBVIOUS
  <2>1. \A f : <<>> \o <<f>> = <<f>>
    OBVIOUS
  <2> QED BY <1>1, <1>4, <2>1
<1>9. Leads' /\ Newest' = Newest
  BY <1>4, <1>6, <1>7 DEF Leads, Full, Newest
<1>10. \A d \in Client : spc'[d] = "read" /\ hs'[d] = None
  BY <1>1, <1>4 DEF Inv, TypeInv
<1>11. \A d \in Client \ members : Outside(d)' /\ Newest' \notin learned'[d]
  <2> SUFFICES ASSUME NEW d \in Client \ members PROVE Outside(d)' /\ Newest' \notin learned'[d]
    OBVIOUS
  <2>1. phase[d] \in {"out", "gone"} /\ Newest \notin learned[d] /\ up[d] = <<>>
    BY <1>6 DEF Handed, Rest
  <2>2. down'[d] = <<>>
    BY <1>8
  <2> QED BY <1>4, <1>9, <2>1, <2>2 DEF Outside
<1>12. down'[owner'] = <<Presence(members', owner')>> /\ oid'[owner'] # owner' /\ up'[owner'] = <<>>
  <2>1. Online(owner) /\ oid[owner] # owner
    BY <1>6, <1>7 DEF Online, Handed
  <2> QED BY <1>1, <1>4, <1>6, <1>8, <2>1
<1>13. \A d \in members \ {owner} : d # p =>
         /\ phase'[d] = "member" /\ up'[d] = <<>>
         /\ keys'[d] # <<>> /\ keys'[d][1] = Newest' /\ Full(d)'
         /\ down'[d] = <<Presence(members, owner)>>
  <2> SUFFICES ASSUME NEW d \in members \ {owner}, d # p
               PROVE  /\ phase'[d] = "member" /\ up'[d] = <<>>
                      /\ keys'[d] # <<>> /\ keys'[d][1] = Newest' /\ Full(d)'
                      /\ down'[d] = <<Presence(members, owner)>>
    OBVIOUS
  <2>1. d \in Client /\ phase[d] = "member" /\ Online(d)
    BY <1>6, <1>7 DEF Online
  <2> QED BY <1>1, <1>4, <1>7, <1>8, <1>9, <2>1 DEF Full
<1>14. CASE phase[p] = "member"
  <2>1. /\ phase'[p] = "member" /\ up'[p] = <<>>
        /\ keys'[p] # <<>> /\ keys'[p][1] = Newest' /\ Full(p)'
        /\ down'[p] = <<Presence(members, owner)>>
    <3>1. keys[p] # <<>> /\ keys[p][1] = Newest /\ Full(p) /\ up[p] = <<>> /\ Online(p)
      BY <1>6, <1>14 DEF Handed, Rest, Online
    <3> QED BY <1>4, <1>6, <1>8, <1>9, <1>14, <3>1 DEF Full
  <2>2. \A d \in members' \ {owner'} :
         /\ phase'[d] = "member" /\ up'[d] = <<>>
         /\ keys'[d] # <<>> /\ keys'[d][1] = Newest' /\ Full(d)'
         /\ down'[d] = <<Presence(members', owner')>>
    BY <1>4, <1>13, <2>1
  <2>3. Awaits({}, {})'
    BY <1>12 DEF Awaits
  <2>4. Flow({}, {})'
    BY <1>4, <1>6, <1>9, <1>10, <1>11, <1>12, <2>2, <2>3, RestFlows
  <2> QED BY <1>4, <1>5, <2>4 DEF Stage
<1>15. CASE phase[p] = "gone"
  <2>1. phase'[p] = "gone" /\ up'[p] = <<LeaveFrame>>
    BY <1>4, <1>6, <1>15 DEF Handed
  <2>2. \A d \in members' \ {owner'} : d \notin {p} =>
         /\ phase'[d] = "member" /\ up'[d] = <<>>
         /\ keys'[d] # <<>> /\ keys'[d][1] = Newest' /\ Full(d)'
         /\ down'[d] = <<Presence(members', owner')>>
    BY <1>4, <1>13
  <2>3. Awaits({p}, {})'
    BY <1>12 DEF Awaits
  <2>4. Flow({p}, {})'
    <3>1. \A d \in members' \ {owner'} :
            IF d \in {p} THEN phase'[d] = "gone" /\ up'[d] = <<LeaveFrame>>
                         ELSE phase'[d] = "member" /\ up'[d] = <<>>
      BY <2>1, <2>2
    <3>2. \E e \in members' \ {owner'} : {p} = {e}
      BY <1>4, <1>6
    <3>3. \A d \in Client \ members' : Outside(d)' /\ (d \in {} \/ Newest' \notin learned'[d])
      BY <1>4, <1>11
    <3>4. \A d \in members' \ {owner'} : d \notin {p} =>
           /\ keys'[d] # <<>> /\ keys'[d][1] = Newest' /\ Full(d)'
           /\ \/ down'[d] = <<>> /\ oid'[d] = owner'
              \/ down'[d] = <<Presence(members', owner')>>
      BY <2>2
    <3>5. members' \subseteq Client /\ {} \cap members' = {}
      BY <1>4, <1>6
    <3> HIDE DEF Leads, Awaits, Outside, Full, Newest
    <3> QED BY <1>9, <1>10, <1>12, <2>3, <3>1, <3>2, <3>3, <3>4, <3>5, RestFlows
  <2> QED BY <1>4, <1>5, <2>4 DEF Stage
<1>16. phase[p] \in {"member", "gone"}
  BY <1>6 DEF Handed, Rest
<1> QED BY <1>14, <1>15, <1>16

\* Nothing reaches into a room that is destroyed.
LEMMA ClosedStays ==
  ASSUME Inv, Closed, NEW c \in Client, User(c) \/ Server(c) \/ Browser(c)
  PROVE  Closed'
<1>1. owner = None /\ members = {} /\ c # owner
  BY NoneAssumption DEF Closed
<1>2. UNCHANGED <<members, owner>>
  <2>1. CASE User(c)
    BY <2>1 DEF User, Join, Depart, Kick, HandOver, serverVars
  <2>2. CASE Browser(c)
    BY <2>2 DEF Browser, RotateForJoin, OnOwnerKey, FinishJoin, OnWelcome, OnRekey, ApplyRoster,
                OnPresenceMember, OnPresenceSame, RotateForLeave, OnRoomClosed, serverVars
  <2>3. CASE Server(c)
    BY <1>1, <2>3 DEF Server, RelayHandshake, Enter, Announce, HandleRekey, HandleRoster,
                      HandleTransfer, HandleKick, Leave, serverVars
  <2> QED BY <2>1, <2>2, <2>3
<1> QED BY <1>1, <1>2 DEF Closed

-----------------------------------------------------------------------------
(* A joiner on its way in. *)

\* The others only take the keys they are sent.
LEMMA PeerHeads ==
  ASSUME Inv, owner \in Client, NEW j \in Client, Arrives(j), NEW c \in Client \ {owner, j},
         Server(c) \/ Browser(c)
  PROVE  c \in members /\ OnRekey(c) /\ down[c] # <<>> /\ Head(down[c]) = Rekey(c)
<1>1. spc[c] = "read" /\ up[c] = <<>> /\ (c \notin members => down[c] = <<>>)
  BY DEF Arrives
<1>2. ~Server(c)
  BY <1>1 DEF Server, RelayHandshake, Enter, Announce, HandleRekey, HandleRoster,
              HandleTransfer, HandleKick, Leave, NextOf
<1>3. PICK t : NextFor(c, t) /\ (t = "rekey" => OnRekey(c))
  <2>1. CASE OnRekey(c)
    BY <2>1 DEF OnRekey
  <2>2. CASE RotateForJoin(c) \/ OnOwnerKey(c) \/ FinishJoin(c)
    <3>1. NextFor(c, "member_key") \/ NextFor(c, "key_deliver")
      BY <2>2 DEF RotateForJoin, OnOwnerKey, FinishJoin
    <3> QED BY <3>1
  <2>3. CASE OnWelcome(c) \/ ApplyRoster(c) \/ OnRoomClosed(c)
    <3>1. NextFor(c, "welcome") \/ NextFor(c, "roster") \/ NextFor(c, "room_closed")
      BY <2>3 DEF OnWelcome, ApplyRoster, OnRoomClosed
    <3> QED BY <3>1
  <2>4. CASE OnPresenceMember(c) \/ OnPresenceSame(c) \/ RotateForLeave(c)
    <3>1. NextFor(c, "presence")
      BY <2>4 DEF OnPresenceMember, OnPresenceSame, RotateForLeave
    <3> QED BY <3>1
  <2> QED BY <1>2, <2>1, <2>2, <2>3, <2>4 DEF Browser
<1>4. down[c] # <<>> /\ Head(down[c]).t = t /\ c \in members
  BY <1>1, <1>3 DEF NextFor
<1>5. Head(down[c]) = Rekey(c)
  <2>1. Head(down[c]) = down[c][1] /\ 1 \in DOMAIN down[c]
    BY <1>4, TailHas DEF Inv, DownOK
  <2> QED BY <1>4, <2>1 DEF Arrives, Peer
<1> QED BY <1>3, <1>4, <1>5, KindsOfFrame

\* A step that keeps the owner and the others as they are meant to be.
LEMMA ArriveKept ==
  ASSUME Inv, owner \in Client, Named, NEW j \in Client, Arrives(j), owner' = owner,
         Newest' = Newest, members' \ {j} = members \ {j},
         members' = members \/ pubs[owner][j] = j,
         UNCHANGED <<phase, pubs, oid>>, keys'[owner] = keys[owner],
         \A c \in Client \ {j} : spc'[c] = spc[c] /\ hs'[c] = hs[c] /\ (c # owner => up'[c] = up[c]),
         \A c \in Client \ (members \cup {j}) :
           /\ down'[c] = down[c] /\ learned'[c] = learned[c]
           /\ keys'[c] = keys[c] /\ first'[c] = first[c],
         \A c \in members \ {owner, j} :
           /\ keys'[c] # <<>> /\ (Coming(c)' \/ keys'[c][1] = Newest)
           /\ \A i \in DOMAIN down'[c] : down'[c][i] = Rekey(c)
  PROVE  Named' /\ Arrives(j)'
<1>1. members \subseteq Client
  BY DEF Inv, TypeInv
<1>2. \A c \in members : phase[c] \in {"member", "joining"}
  BY DEF Arrives, Leads, Peer
<1>3. phase[j] = "joining" /\ j # owner
  BY DEF Arrives
<1>4. Named'
  BY <1>2, <1>3 DEF Named
<1>5. \A c : Rekey(c)' = Rekey(c)
  BY DEF Rekey
<1>6. Leads'
  BY <1>1, <1>3 DEF Arrives, Leads, Full
<1>7. ASSUME NEW c \in members' \ {owner', j} PROVE Peer(c, j)'
  <2>1. c \in members \ {owner, j} /\ Peer(c, j)
    BY <1>7 DEF Arrives
  <2>2. \A d \in members' \ {c, j} : d \in members \ {c, j}
    OBVIOUS
  <2> QED BY <1>5, <2>1, <2>2 DEF Peer
<1>8. ASSUME NEW c \in Client \ (members' \cup {j})
      PROVE  phase'[c] \in {"out", "gone"} /\ down'[c] = <<>> /\ Newest' \notin learned'[c]
  <2>1. c \in Client \ (members \cup {j})
    BY <1>8
  <2> QED BY <2>1 DEF Arrives
<1>9. \A c \in Client \ {j} : spc'[c] = "read" /\ hs'[c] = None /\ (c # owner' => up'[c] = <<>>)
  BY DEF Arrives
<1> QED BY <1>3, <1>4, <1>6, <1>7, <1>8, <1>9 DEF Arrives

\* A step of the joiner, or a frame that the owner sends to it.
LEMMA ArriveAside ==
  ASSUME Inv, owner \in Client, Named, NEW j \in Client, Arrives(j), owner' = owner,
         members' \ {j} = members \ {j}, members' = members \/ pubs[owner][j] = j,
         UNCHANGED <<phase, pubs, oid>>,
         \A c \in Client \ {j} :
           /\ spc'[c] = spc[c] /\ hs'[c] = hs[c] /\ (c # owner => up'[c] = up[c] /\ down'[c] = down[c])
           /\ keys'[c] = keys[c] /\ learned'[c] = learned[c] /\ first'[c] = first[c],
         \A c \in members \ {owner, j} :
           Has(up[owner], {Rekey(c)}) => Has(up'[owner], {Rekey(c)})
  PROVE  Named' /\ Arrives(j)' /\ Newest' = Newest
<1>1. members \subseteq Client /\ j # owner
  BY DEF Inv, TypeInv, Arrives
<1>2. Newest' = Newest
  BY <1>1 DEF Newest
<1>3. \A c : Rekey(c)' = Rekey(c)
  BY <1>2 DEF Rekey
<1>4. ASSUME NEW c \in members \ {owner, j}
      PROVE  /\ keys'[c] # <<>> /\ (Coming(c)' \/ keys'[c][1] = Newest)
             /\ \A i \in DOMAIN down'[c] : down'[c][i] = Rekey(c)
  <2>1. Peer(c, j) /\ down'[c] = down[c] /\ keys'[c] = keys[c]
    BY <1>1 DEF Arrives
  <2>2. Coming(c) => Coming(c)'
    BY <1>3, <2>1 DEF Coming
  <2> QED BY <2>1, <2>2 DEF Peer
<1>5. \A c \in Client \ (members \cup {j}) :
        /\ down'[c] = down[c] /\ learned'[c] = learned[c]
        /\ keys'[c] = keys[c] /\ first'[c] = first[c]
  BY DEF Arrives, Leads
<1>6. keys'[owner] = keys[owner]
  BY <1>1
<1>7. \A c \in Client \ {j} : spc'[c] = spc[c] /\ hs'[c] = hs[c] /\ (c # owner => up'[c] = up[c])
  OBVIOUS
<1> HIDE DEF Newest
<1> QED BY <1>2, <1>4, <1>5, <1>6, <1>7, ArriveKept

\* onRekey of one of the others.
LEMMA PeerTakes ==
  ASSUME Inv, owner \in Client, Named, NEW j \in Client, Arrives(j),
         NEW c \in members \ {owner, j}, OnRekey(c), down[c] # <<>>, Head(down[c]) = Rekey(c)
  PROVE  /\ Named' /\ Arrives(j)' /\ Newest' = Newest
         /\ UNCHANGED <<members, owner, hs, spc, up, phase, pubs, known, oid, first>>
         /\ \A d \in Client \ {c} : keys'[d] = keys[d] /\ learned'[d] = learned[d] /\ down'[d] = down[d]
<1> DEFINE f == Head(down[c])
           ownerPub == IF oid[c] = None THEN None ELSE pubs[c][oid[c]]
<1>1. /\ Handled(c) /\ UNCHANGED <<members, owner, hs, spc, up, phase, pubs, known, oid, first>>
      /\ ownerPub = f.by /\ f.for = c => PushKey(c, f.key)
  BY DEF OnRekey, serverVars
<1>2. c \in Client /\ Peer(c, j) /\ owner \in members \ {c, j}
  BY DEF Arrives, Leads, Inv, TypeInv
<1>3. Newest \in Nat
  <2>1. keys[owner] \in Seq(Nat) /\ keys[owner] # <<>>
    BY DEF Arrives, Leads, Inv, Counters
  <2> QED BY <2>1 DEF Newest
<1>4. PushKey(c, Newest)
  BY <1>1, <1>2, NoneAssumption DEF Rekey, Peer
<1> HIDE DEF f, ownerPub
<1>5. /\ keys'[c] # <<>> /\ keys'[c][1] = Newest
      /\ \A d \in Client \ {c} : keys'[d] = keys[d] /\ learned'[d] = learned[d]
  BY <1>2, <1>3, <1>4, PushMeans
<1>6. /\ \A d \in Client \ {c} : down'[d] = down[d]
      /\ down'[c] = Tail(down[c]) /\ down[c] \in Seq(DownFrame(c))
  BY <1>1, <1>2 DEF Handled, Inv, DownOK
<1>7. Newest' = Newest
  BY <1>1, <1>2, <1>5 DEF Newest
<1>8. \A d : Rekey(d)' = Rekey(d)
  BY <1>1, <1>7 DEF Rekey
<1>9. \A i \in DOMAIN down'[c] : down'[c][i] = Rekey(c)
  <2>1. Loses(down[c], down'[c])
    BY <1>6 DEF Loses
  <2>2. \A i \in DOMAIN down'[c] : i + 1 \in DOMAIN down[c] /\ down'[c][i] = down[c][i + 1]
    BY <1>6, <2>1, LosesHas
  <2> QED BY <1>2, <2>2 DEF Peer
<1>10. ASSUME NEW d \in members \ {owner, j}, d # c
       PROVE  /\ keys'[d] # <<>> /\ (Coming(d)' \/ keys'[d][1] = Newest)
              /\ \A i \in DOMAIN down'[d] : down'[d][i] = Rekey(d)
  <2>1. Peer(d, j) /\ down'[d] = down[d] /\ keys'[d] = keys[d]
    BY <1>5, <1>6, <1>10 DEF Arrives, Inv, TypeInv
  <2>2. Coming(d) => Coming(d)'
    BY <1>1, <1>8, <2>1 DEF Coming
  <2> QED BY <2>1, <2>2 DEF Peer
<1>11. Named' /\ Arrives(j)'
  <2>1. \A d \in Client \ (members \cup {j}) : d # c
    OBVIOUS
  <2>2. \A d \in members \ {owner, j} :
           /\ keys'[d] # <<>> /\ (Coming(d)' \/ keys'[d][1] = Newest)
           /\ \A i \in DOMAIN down'[d] : down'[d][i] = Rekey(d)
    BY <1>5, <1>9, <1>10
  <2> QED BY <1>1, <1>2, <1>5, <1>6, <1>7, <2>1, <2>2, ArriveKept
<1> QED BY <1>1, <1>5, <1>6, <1>7, <1>11

\* relayHandshake: from one party of the handshake to the other.
LEMMA PartyRelays ==
  ASSUME Inv, owner \in Client, Named, NEW j \in Client, Arrives(j), hs[j] = owner,
         NEW c \in Client, NEW d \in Client, c # d, c = j \/ c = owner, d = j \/ d = owner,
         RelayHandshake(c), Head(up[c]).j = j
  PROVE  /\ Named' /\ Arrives(j)' /\ Newest' = Newest
         /\ UNCHANGED <<members, owner, hs, spc, phase, keys, pubs, known, oid, first, learned>>
         /\ Loses(up[c], up'[c]) /\ \A e \in Client \ {c} : up'[e] = up[e]
         /\ Gains(down[d], Head(up[c]), down'[d]) /\ \A e \in Client \ {d} : down'[e] = down[e]
<1> DEFINE f == Head(up[c])
<1>1. /\ up[c] # <<>> /\ Served(c) /\ f.t \in {"member_key", "key_deliver"}
      /\ ToEach({j, owner} \ {c}, f)
      /\ UNCHANGED <<members, owner, hs, spc, phase, keys, pubs, known, oid, first, learned>>
  BY NoneAssumption DEF RelayHandshake, NextOf, serverVars, clientVars, history
<1> HIDE DEF f
<1>2. Online(d) /\ {j, owner} \ {c} = {d}
  BY DEF Arrives, Leads, Online
<1>3. /\ Loses(up[c], up'[c]) /\ \A e \in Client \ {c} : up'[e] = up[e]
      /\ Gains(down[d], f, down'[d]) /\ \A e \in Client \ {d} : down'[e] = down[e]
  BY <1>1, <1>2 DEF Served, ToEach, Inv, UpOK, Loses, Gains
<1>4. \A e \in members \ {owner, j} :
        Has(up[owner], {Rekey(e)}) => Has(up'[owner], {Rekey(e)})
  <2> SUFFICES ASSUME NEW e \in members \ {owner, j}, Has(up[owner], {Rekey(e)})
               PROVE  Has(up'[owner], {Rekey(e)})
    OBVIOUS
  <2>1. CASE c = owner
    <3>1. Loses(up[owner], up'[owner]) /\ up[owner] \in Seq(UpFrame(owner)) /\ f # Rekey(e)
      BY <1>1, <1>3, <2>1, KindsOfFrame DEF Inv, UpOK
    <3> QED BY <2>1, <3>1, LosesHas DEF f
  <2>2. CASE c # owner
    BY <1>3, <2>2
  <2> QED BY <2>1, <2>2
<1>5. \A e \in Client \ {j} : e # owner => up'[e] = up[e] /\ down'[e] = down[e]
  BY <1>3
<1>6. Named' /\ Arrives(j)' /\ Newest' = Newest
  <2> HIDE DEF Newest
  <2> QED BY <1>1, <1>4, <1>5, ArriveAside
<1> QED BY <1>1, <1>3, <1>6 DEF f

\* What the two of them send each other, before the owner has rotated.
LEMMA Join1Steps ==
  ASSUME Inv, owner \in Client, NEW j \in Client, Join1(j), NEW c \in Client,
         Server(c) \/ Browser(c)
  PROVE  \/ c \in {j, owner} /\ up[c] = <<MemberKey(j, c)>> /\ RelayHandshake(c)
         \/ c = j /\ down[j] = <<MemberKey(j, owner)>> /\ OnOwnerKey(j)
         \/ c = owner /\ down[owner] = <<MemberKey(j, j)>> /\ RotateForJoin(owner)
<1>1. c \in {j, owner}
  <2> SUFFICES ASSUME c \notin {j, owner} PROVE FALSE
    OBVIOUS
  <2>1. Arrives(j) /\ (c \in members => down[c] = <<>>)
    BY DEF Join1
  <2> QED BY <2>1, PeerHeads
<1>2. /\ up[c] \in {<<>>, <<MemberKey(j, c)>>} /\ spc[c] = "read" /\ j # owner
      /\ c = j => down[c] \in {<<>>, <<MemberKey(j, owner)>>}
      /\ c = owner => down[c] \in {<<>>, <<MemberKey(j, j)>>}
  BY <1>1 DEF Join1, Arrives
<1>3. \A p : /\ Head(<<MemberKey(j, p)>>) = MemberKey(j, p)
             /\ MemberKey(j, p).t = "member_key" /\ MemberKey(j, p).j = j
  BY HeadOfOne, KindsOfFrame
<1>4. CASE Server(c)
  <2>1. PICK t : NextOf(c, t) /\ (t \in {"member_key", "key_deliver"} => RelayHandshake(c))
                 /\ t \in {"member_key", "key_deliver", "enter", "rekey", "roster", "transfer",
                           "kick", "leave"}
    BY <1>2, <1>4 DEF Server, RelayHandshake, Enter, Announce, HandleRekey, HandleRoster,
                      HandleTransfer, HandleKick, Leave
  <2>2. up[c] # <<>> /\ Head(up[c]).t = t
    BY <2>1 DEF NextOf
  <2>3. up[c] = <<MemberKey(j, c)>>
    BY <1>2, <2>2
  <2> QED BY <1>1, <1>3, <2>1, <2>2, <2>3
<1>5. CASE Browser(c)
  <2>1. PICK t : NextFor(c, t) /\ \/ t = "member_key" /\ Head(down[c]).j # c /\ RotateForJoin(c)
                                  \/ t = "member_key" /\ Head(down[c]).j = c /\ OnOwnerKey(c)
                                  \/ t \in {"key_deliver", "welcome", "rekey", "roster", "presence",
                                            "room_closed"}
    BY <1>5 DEF Browser, RotateForJoin, OnOwnerKey, FinishJoin, OnWelcome, OnRekey, ApplyRoster,
                OnPresenceMember, OnPresenceSame, RotateForLeave, OnRoomClosed
  <2>2. down[c] # <<>> /\ Head(down[c]).t = t
    BY <2>1 DEF NextFor
  <2>3. down[c] = <<MemberKey(j, owner)>> \/ down[c] = <<MemberKey(j, j)>>
    BY <1>1, <1>2, <2>2
  <2>4. t = "member_key" /\ Head(down[c]).j = j
    BY <1>3, <2>2, <2>3
  <2> QED BY <1>1, <1>2, <2>1, <2>2, <2>4
<1> QED BY <1>4, <1>5

LEMMA Join1Relays ==
  ASSUME Inv, owner \in Client, Named, NEW j \in Client, Join1(j), NEW c \in {j, owner},
         up[c] = <<MemberKey(j, c)>>, RelayHandshake(c)
  PROVE  Named' /\ Join1(j)' /\ owner' = owner
<1>1. PICK d \in {j, owner} : d # c /\ Arrives(j) /\ hs[j] = owner /\ j # owner
  BY DEF Join1, Arrives
<1>0. PICK f : f = MemberKey(j, c)
  OBVIOUS
<1>2. f = Head(up[c]) /\ Head(up[c]).j = j /\ Tail(up[c]) = <<>>
  BY <1>0, HeadOfOne, KindsOfFrame
<1>3. /\ Named' /\ Arrives(j)'
      /\ UNCHANGED <<members, owner, hs, spc, phase, keys, pubs, known, oid, first, learned>>
      /\ up'[c] = <<>> /\ \A e \in Client \ {c} : up'[e] = up[e]
      /\ down'[d] = Append(down[d], f) /\ \A e \in Client \ {d} : down'[e] = down[e]
  <2>1. /\ Inv /\ owner \in Client /\ Named /\ j \in Client /\ RelayHandshake(c)
        /\ Arrives(j) /\ hs[j] = owner /\ Head(up[c]).j = j
        /\ c \in Client /\ d \in Client /\ c # d /\ (c = j \/ c = owner) /\ (d = j \/ d = owner)
    BY <1>1, <1>2
  <2>2. /\ Named' /\ Arrives(j)'
        /\ UNCHANGED <<members, owner, hs, spc, phase, keys, pubs, known, oid, first, learned>>
        /\ Loses(up[c], up'[c]) /\ \A e \in Client \ {c} : up'[e] = up[e]
        /\ Gains(down[d], Head(up[c]), down'[d]) /\ \A e \in Client \ {d} : down'[e] = down[e]
    BY ONLY <2>1, PartyRelays
  <2> QED BY <1>2, <2>2 DEF Loses, Gains
<1>4. members \subseteq Client /\ \A e \in members : e # j
  BY DEF Inv, TypeInv, Join1
<1>5. \A e \in members \ {owner} : down'[e] = <<>>
  <2> SUFFICES ASSUME NEW e \in members \ {owner} PROVE down'[e] = <<>>
    OBVIOUS
  <2>1. e # d /\ e \in Client /\ down[e] = <<>>
    BY <1>1, <1>4 DEF Join1
  <2> QED BY <1>3, <2>1
<1>6. <<MemberKey(j, c)>> # <<>> /\ Append(<<>>, f) = <<f>>
  BY HeadOfOne
<1>7. CASE c = j
  <2>1. /\ up[j] = <<MemberKey(j, j)>> /\ down[owner] = <<>> /\ d = owner
        /\ up'[owner] = up[owner] /\ down'[j] = down[j]
    BY <1>1, <1>3, <1>6, <1>7 DEF Join1
  <2>2. up'[j] = <<>> /\ down'[owner] = <<MemberKey(j, j)>>
    BY <1>3, <1>6, <1>7, <2>1, <1>0
  <2>3. first' = first /\ owner' = owner /\ MemberKey(j, owner)' = MemberKey(j, owner)
    BY <1>3 DEF MemberKey
  <2>4. \/ up'[owner] = <<MemberKey(j, owner)'>> /\ down'[j] = <<>> /\ first'[j] = None
        \/ up'[owner] = <<>> /\ down'[j] = <<MemberKey(j, owner)'>> /\ first'[j] = None
        \/ up'[owner] = <<>> /\ down'[j] = <<>> /\ first'[j] = owner
    BY <2>1, <2>3 DEF Join1
  <2> QED BY <1>3, <1>5, <2>2, <2>3, <2>4 DEF Join1
<1>8. CASE c = owner
  <2>1. /\ down[j] = <<>> /\ first[j] = None /\ d = j
        /\ up'[j] = up[j] /\ down'[owner] = down[owner]
    BY <1>1, <1>3, <1>6, <1>8 DEF Join1
  <2>2. up'[owner] = <<>> /\ down'[j] = <<MemberKey(j, owner)>>
    BY <1>3, <1>6, <1>8, <2>1, <1>0
  <2> QED BY <1>3, <1>5, <2>1, <2>2 DEF Join1
<1> QED BY <1>7, <1>8

\* onMemberKey of the joiner.
LEMMA Join1Knows ==
  ASSUME Inv, owner \in Client, Named, NEW j \in Client, Join1(j),
         down[j] = <<MemberKey(j, owner)>>, OnOwnerKey(j)
  PROVE  Named' /\ Join1(j)' /\ owner' = owner
<1>1. /\ first' = [first EXCEPT ![j] = Head(down[j]).pub] /\ Handled(j)
      /\ UNCHANGED <<members, owner, hs, spc, up, phase, keys, pubs, known, oid, learned>>
  BY DEF OnOwnerKey, serverVars, history
<1>2. Head(down[j]).pub = owner /\ Tail(down[j]) = <<>> /\ down[j] # <<>>
  BY HeadOfOne, KindsOfFrame
<1>3. /\ first'[j] = owner /\ \A c \in Client \ {j} : first'[c] = first[c]
      /\ down'[j] = <<>> /\ \A c \in Client \ {j} : down'[c] = down[c]
  BY <1>1, <1>2 DEF Handled, Inv, TypeInv, DownOK
<1>4. Arrives(j) /\ up[owner] = <<>> /\ j # owner /\ j \notin members /\ members \subseteq Client
  BY <1>2 DEF Join1, Arrives, Inv, TypeInv
<1>5. Named' /\ Arrives(j)'
  BY <1>1, <1>3, <1>4, ArriveAside
<1> QED BY <1>1, <1>3, <1>4, <1>5 DEF Join1

\* The queue r is t with the frame e in front of it.
Precedes(e, t, r) == r = <<e>> \o t

LEMMA PrecedesMeans ==
  ASSUME NEW T, NEW t \in Seq(T), NEW e, NEW r, Precedes(e, t, r)
  PROVE  /\ r # <<>> /\ r[1] = e /\ Len(r) = 1 + Len(t) /\ \E Y : r \in Seq(Y)
         /\ \A i \in DOMAIN r : i >= 2 => i - 1 \in DOMAIN t /\ r[i] = t[i - 1]
         /\ \A W : Has(t, W) => Has(r, W)
<1>1. <<e>> \in Seq({e}) /\ <<e>> \in Seq(T \cup {e}) /\ t \in Seq(T \cup {e})
      /\ Len(<<e>>) = 1 /\ <<e>>[1] = e /\ Len(t) \in Nat /\ DOMAIN t = 1 .. Len(t)
  <2>1. <<e>> \in Seq({e}) /\ <<e>> \in Seq(T \cup {e}) /\ Len(<<e>>) = 1 /\ <<e>>[1] = e
    OBVIOUS
  <2>2. t \in Seq(T \cup {e}) /\ Len(t) \in Nat /\ DOMAIN t = 1 .. Len(t)
    BY SeqMonotonic
  <2> QED BY <2>1, <2>2
<1>2. /\ r \in Seq(T \cup {e}) /\ Len(r) = 1 + Len(t)
      /\ \A i \in 1 .. Len(r) : r[i] = IF i <= 1 THEN <<e>>[i] ELSE t[i - 1]
  <2>1. /\ <<e>> \o t \in Seq(T \cup {e}) /\ Len(<<e>> \o t) = 1 + Len(t)
        /\ \A i \in 1 .. Len(<<e>>) + Len(t) :
             (<<e>> \o t)[i] = IF i <= Len(<<e>>) THEN <<e>>[i] ELSE t[i - Len(<<e>>)]
    BY <1>1, ConcatProperties
  <2>2. /\ r \in Seq(T \cup {e}) /\ Len(r) = 1 + Len(t)
        /\ \A i \in 1 .. Len(<<e>>) + Len(t) : r[i] = IF i <= Len(<<e>>) THEN <<e>>[i] ELSE t[i - Len(<<e>>)]
    BY ONLY <2>1, Precedes(e, t, r) DEF Precedes
  <2> QED BY <1>1, <2>2
<1>3. DOMAIN r = 1 .. 1 + Len(t)
  BY <1>2
<1>4. r # <<>> /\ r[1] = e
  BY <1>1, <1>2, <1>3
<1>5. \A i \in DOMAIN r : i >= 2 => i - 1 \in DOMAIN t /\ r[i] = t[i - 1]
  BY <1>1, <1>2, <1>3
<1>6. ASSUME NEW W, Has(t, W) PROVE Has(r, W)
  <2>1. PICK i \in DOMAIN t : t[i] \in W
    BY <1>6 DEF Has
  <2>2. i + 1 \in DOMAIN r /\ i + 1 >= 2 /\ i + 1 - 1 = i
    BY <1>1, <1>3
  <2>3. r[i + 1] = t[i]
    BY <1>5, <2>2
  <2> QED BY <2>1, <2>2, <2>3 DEF Has
<1> QED BY <1>2, <1>4, <1>5, <1>6

\* rotateForJoin: the key goes to the joiner, behind the owner's public key, and
\* to everybody who is inside.
LEMMA Join1Rotates ==
  ASSUME Inv, owner \in Client, Named, NEW j \in Client, Join1(j),
         down[owner] = <<MemberKey(j, j)>>, RotateForJoin(owner)
  PROVE  Named' /\ Join2(j)' /\ owner' = owner
<1> DEFINE k == nkeys + 1
           p == [pubs[owner] EXCEPT ![j] = j]
           S == members \ {owner}
           R(c) == [t |-> "rekey", target |-> c, by |-> owner, for |-> c, key |-> k]
           e == [t |-> "key_deliver", j |-> j, by |-> owner, key |-> k]
<1>1. Head(down[owner]) = MemberKey(j, j) /\ Tail(down[owner]) = <<>>
      /\ MemberKey(j, j).j = j /\ MemberKey(j, j).pub = j
  BY HeadOfOne, KindsOfFrame
<1>2. /\ Arrives(j) /\ j \notin members /\ j # owner /\ owner \in members /\ members \subseteq Client
      /\ known[owner] = members /\ Full(owner) /\ phase[owner] = "member" /\ up[j] = <<>>
      /\ hs[j] = owner /\ spc[j] = "read" /\ keys[j] = <<>> /\ nkeys \in Nat
      /\ \A c \in S : down[c] = <<>>
  <2>1. <<MemberKey(j, j)>> # <<>>
    BY HeadOfOne
  <2> QED BY <2>1 DEF Join1, Arrives, Leads, Inv, TypeInv, Counters
<1>3. /\ nkeys' = k /\ PushKey(owner, k) /\ Handled(owner) /\ pubs' = [pubs EXCEPT ![owner] = p]
      /\ known' = [known EXCEPT ![owner] = known[owner] \cup {j}]
      /\ \E s \in RekeyFrames(owner, known[owner] \ {owner, j}, p, k) : Sends(owner, <<e>> \o s)
      /\ UNCHANGED <<members, owner, hs, spc, phase, oid, first>>
  BY <1>1 DEF RotateForJoin, serverVars
<1>4. PICK s \in RekeyFrames(owner, S, p, k) : Sends(owner, <<e>> \o s)
  <2>1. known[owner] \ {owner, j} = S
    BY <1>2
  <2> QED BY <1>3, <2>1
<1>5. /\ p \in [Client -> Client \cup {None}] /\ p[j] = j
      /\ \A d \in Client : p[d] \in {None, d} /\ (d \in S => p[d] = d)
  BY <1>2 DEF Inv, TypeInv, Named, Full
<1> HIDE DEF p
<1>6. /\ keys'[owner] # <<>> /\ keys'[owner][1] = k
      /\ \A c \in Client \ {owner} : keys'[c] = keys[c] /\ learned'[c] = learned[c]
  BY <1>2, <1>3, PushMeans
<1>7. Newest' = k /\ owner' = owner /\ members' = members /\ k \in Nat
  BY <1>2, <1>3, <1>6 DEF Newest
<1>8. (\A c : Rekey(c)' = R(c)) /\ KeyDeliver(j)' = e
  BY <1>7 DEF Rekey, KeyDeliver
<1>9. s \in Seq({R(d) : d \in S}) /\ \A d \in S : Has(s, {R(d)})
  <2>1. S \subseteq Client /\ \A d \in S : p[d] = d
    BY <1>2, <1>5
  <2> HIDE DEF k, S
  <2> QED BY <1>4, <2>1, RekeysSent
<1> DEFINE z == <<e>> \o s
           T == {R(d) : d \in S}
<1>10. /\ up'[owner] = up[owner] \o z /\ \A c \in Client \ {owner} : up'[c] = up[c]
       /\ down'[owner] = <<>> /\ \A c \in Client \ {owner} : down'[c] = down[c]
       /\ known'[owner] = members \cup {j}
       /\ pubs'[owner] = p /\ \A c \in Client \ {owner} : pubs'[c] = pubs[c]
  <2> HIDE DEF e
  <2> QED BY <1>1, <1>2, <1>3, <1>4 DEF Sends, Handled, Inv, UpOK, DownOK, TypeInv
<1>11. Precedes(e, s, z)
  BY DEF Precedes
<1> HIDE DEF z, T, e, R
<1>12. /\ (\E Y : z \in Seq(Y)) /\ z # <<>> /\ z[1] = e /\ Len(z) = 1 + Len(s)
       /\ \A i \in DOMAIN z : i >= 2 => i - 1 \in DOMAIN s /\ z[i] = s[i - 1]
       /\ \A W : Has(s, W) => Has(z, W)
  BY <1>9, <1>11, PrecedesMeans DEF T
<1>13. \A i \in DOMAIN z : i >= 2 => \E d \in S : z[i] = R(d)
  <2>1. \A h \in DOMAIN s : \E d \in S : s[h] = R(d)
    BY <1>9
  <2> QED BY <1>12, <2>1
<1>14. /\ (Queued(j) \/ Divided(j))'
       /\ \A d \in S : Has(up'[owner], {R(d)})
  <2>1. members' \ {owner', j} = S
    BY <1>2, <1>7
  <2>2. \/ up[owner] = <<MemberKey(j, owner)>> /\ down[j] = <<>> /\ first[j] = None
        \/ up[owner] = <<>> /\ down[j] = <<MemberKey(j, owner)>> /\ first[j] = None
        \/ up[owner] = <<>> /\ down[j] = <<>> /\ first[j] = owner
    BY DEF Join1
  <2>3. down'[j] = down[j] /\ first'[j] = first[j] /\ MemberKey(j, owner)' = MemberKey(j, owner)
    BY <1>2, <1>3, <1>10 DEF MemberKey
  <2>4. CASE up[owner] = <<>>
    <3>1. up'[owner] = z
      BY <1>10, <1>12, <2>4, ConcatEmptySeq
    <3>2. RekeysFrom(2, j)'
      BY <1>7, <1>8, <1>13, <2>1, <3>1 DEF RekeysFrom
    <3>3. \A d \in S : Has(up'[owner], {R(d)})
      BY <1>9, <1>12, <3>1
    <3>4. <<MemberKey(j, owner)>> # <<>>
      BY HeadOfOne
    <3> QED BY <1>7, <1>8, <1>12, <2>2, <2>3, <2>4, <3>1, <3>2, <3>3, <3>4 DEF Queued, Divided
  <2>5. CASE up[owner] = <<MemberKey(j, owner)>>
    <3> DEFINE m == MemberKey(j, owner)
    <3>1. Precedes(m, z, up'[owner])
      BY <1>10, <2>5 DEF Precedes
    <3> HIDE DEF m
    <3>0. PICK Z, q, n : z \in Seq(Z) /\ q = up'[owner] /\ n = m
      BY <1>12
    <3>2. /\ up'[owner] # <<>> /\ up'[owner][1] = m /\ Len(up'[owner]) = 1 + Len(z)
          /\ \E Y : up'[owner] \in Seq(Y)
          /\ \A i \in DOMAIN up'[owner] : i >= 2 => i - 1 \in DOMAIN z /\ up'[owner][i] = z[i - 1]
          /\ \A W : Has(z, W) => Has(up'[owner], W)
      <4>1. Precedes(n, z, q)
        BY ONLY <3>0, <3>1
      <4>2. /\ q # <<>> /\ q[1] = n /\ Len(q) = 1 + Len(z) /\ \E Y : q \in Seq(Y)
            /\ \A i \in DOMAIN q : i >= 2 => i - 1 \in DOMAIN z /\ q[i] = z[i - 1]
            /\ \A W : Has(z, W) => Has(q, W)
        BY ONLY <3>0, <4>1, PrecedesMeans
      <4> QED BY ONLY <3>0, <4>2, Zenon
    <3>3. /\ Len(up'[owner]) >= 2 /\ 2 \in DOMAIN up'[owner] /\ up'[owner][2] = e
      <4>1. Len(s) \in Nat
        BY <1>9
      <4>2. Len(up'[owner]) >= 2 /\ 2 \in DOMAIN up'[owner]
        BY <1>12, <3>2, <4>1
      <4> QED BY <1>12, <3>2, <4>2
    <3>4. RekeysFrom(3, j)'
      <4>1. \A i \in DOMAIN up'[owner] : i \in Nat
        BY <3>2
      <4>2. \A i \in DOMAIN up'[owner] : i >= 3 => \E d \in S : up'[owner][i] = R(d)
        <5> SUFFICES ASSUME NEW i \in DOMAIN up'[owner], i >= 3
                     PROVE  \E d \in S : up'[owner][i] = R(d)
          OBVIOUS
        <5>1. i - 1 \in DOMAIN z /\ i - 1 >= 2 /\ up'[owner][i] = z[i - 1]
          BY <3>2, <4>1
        <5> QED BY <1>13, <5>1
      <4> QED BY <1>7, <1>8, <2>1, <4>2 DEF RekeysFrom
    <3>5. \A d \in S : Has(up'[owner], {R(d)})
      BY <1>9, <1>12, <3>2
    <3>6. <<MemberKey(j, owner)>> # <<>>
      BY HeadOfOne
    <3> QED BY <1>7, <1>8, <2>2, <2>3, <2>5, <3>2, <3>3, <3>4, <3>5, <3>6 DEF Queued, Divided, m
  <2> QED BY <2>2, <2>4, <2>5
<1>15. Named'
  BY <1>2, <1>3, <1>5, <1>6, <1>10, NamedKept
<1>16. Leads'
  BY <1>2, <1>3, <1>5, <1>6, <1>7, <1>10 DEF Leads, Full
<1>17. ASSUME NEW c \in members' \ {owner', j} PROVE Peer(c, j)'
  <2>1. c \in S /\ c \in Client /\ c # owner /\ Peer(c, j)
    BY <1>2, <1>7, <1>17 DEF Arrives
  <2>2. /\ phase'[c] = "member" /\ oid'[c] = owner /\ keys'[c] # <<>> /\ down'[c] = <<>>
        /\ \A d \in members' \ {c, j} : pubs'[c][d] = d
    BY <1>2, <1>3, <1>6, <1>7, <1>10, <2>1 DEF Peer
  <2>3. Coming(c)'
    BY <1>7, <1>8, <1>14, <2>1 DEF Coming
  <2>4. \A i : i \notin DOMAIN <<>>
    OBVIOUS
  <2> QED BY <1>7, <2>2, <2>3, <2>4 DEF Peer
<1>18. \A c \in Client \ (members' \cup {j}) :
         phase'[c] \in {"out", "gone"} /\ down'[c] = <<>> /\ Newest' \notin learned'[c]
  <2> SUFFICES ASSUME NEW c \in Client \ (members' \cup {j})
               PROVE  phase'[c] \in {"out", "gone"} /\ down'[c] = <<>> /\ Newest' \notin learned'[c]
    OBVIOUS
  <2>1. c \in Client \ (members \cup {j}) /\ c # owner
    BY <1>2, <1>7
  <2>2. phase[c] \in {"out", "gone"} /\ down[c] = <<>> /\ k \notin learned[c]
    BY <1>2, <2>1 DEF Arrives, Inv, TypeInv
  <2> QED BY <1>3, <1>6, <1>7, <1>10, <2>1, <2>2
<1>19. Arrives(j)'
  <2>1. oid'[owner'] = owner' /\ phase'[j] = "joining"
        /\ \A c \in Client \ {j} : spc'[c] = "read" /\ hs'[c] = None /\ (c # owner' => up'[c] = <<>>)
    BY <1>2, <1>3, <1>10 DEF Arrives
  <2> QED BY <1>2, <1>7, <1>16, <1>17, <1>18, <2>1 DEF Arrives
<1>20. Join2(j)'
  <2>1. keys'[j] = <<>> /\ up'[j] = <<>> /\ pubs'[owner'][j] = j /\ known'[owner'] = members' \cup {j}
        /\ down'[owner'] = <<>> /\ j \notin members' /\ spc'[j] = "read" /\ hs'[j] = owner'
    BY <1>2, <1>3, <1>5, <1>6, <1>7, <1>10
  <2>2. HasSpace(members)'
    BY <1>7 DEF Join1, HasSpace
  <2> QED BY <1>14, <1>19, <2>1, <2>2 DEF Join2
<1> QED BY <1>7, <1>15, <1>20

-----------------------------------------------------------------------------
(* The key on its way to the joiner, and to the others. *)

\* What the owner has still to send, as a step leaves it.
LEMMA RekeysKept ==
  ASSUME Inv, owner \in Client, NEW j \in Client, owner' = owner, Newest' = Newest,
         members' \ {j} = members \ {j}
  PROVE  /\ up'[owner] = up[owner] => \A n \in {1, 2, 3} : RekeysFrom(n, j) => RekeysFrom(n, j)'
         /\ Loses(up[owner], up'[owner]) =>
              /\ RekeysFrom(3, j) => RekeysFrom(2, j)'
              /\ RekeysFrom(2, j) => RekeysFrom(1, j)'
              /\ RekeysFrom(1, j) => RekeysFrom(1, j)'
         /\ KeyDeliver(j)' = KeyDeliver(j) /\ MemberKey(j, owner)' = MemberKey(j, owner)
<1>1. (\A c : Rekey(c)' = Rekey(c)) /\ members' \ {owner', j} = members \ {owner, j}
  BY DEF Rekey
<1>2. KeyDeliver(j)' = KeyDeliver(j) /\ MemberKey(j, owner)' = MemberKey(j, owner)
  BY DEF KeyDeliver, MemberKey
<1>3. ASSUME up'[owner] = up[owner], NEW n \in {1, 2, 3}, RekeysFrom(n, j) PROVE RekeysFrom(n, j)'
  BY <1>1, <1>3 DEF RekeysFrom
<1>4. up[owner] \in Seq(UpFrame(owner))
  BY DEF Inv, UpOK
<1>5. ASSUME Loses(up[owner], up'[owner])
      PROVE  /\ RekeysFrom(3, j) => RekeysFrom(2, j)'
             /\ RekeysFrom(2, j) => RekeysFrom(1, j)'
             /\ RekeysFrom(1, j) => RekeysFrom(1, j)'
  <2>1. \A i \in DOMAIN up'[owner] :
          /\ i + 1 \in DOMAIN up[owner] /\ up'[owner][i] = up[owner][i + 1]
    BY <1>4, <1>5, LosesHas
  <2>2. DOMAIN up'[owner] \subseteq Nat \ {0}
    <3>1. Tail(up[owner]) \in Seq(UpFrame(owner)) /\ up'[owner] = Tail(up[owner])
      BY <1>4, <1>5, TailHas DEF Loses
    <3> QED BY <3>1
  <2>3. ASSUME NEW n \in {1, 2, 3}, NEW m \in {1, 2}, n <= m + 1, RekeysFrom(n, j)
        PROVE  RekeysFrom(m, j)'
    <3> SUFFICES ASSUME NEW i \in DOMAIN up'[owner'], i >= m
                 PROVE  \E c \in members' \ {owner', j} : up'[owner'][i] = Rekey(c)'
      BY DEF RekeysFrom
    <3>1. i + 1 >= n
      BY <2>2, <2>3
    <3>2. \E c \in members \ {owner, j} : up[owner][i + 1] = Rekey(c)
      BY <2>1, <2>3, <3>1 DEF RekeysFrom
    <3> QED BY <1>1, <2>1, <3>2
  <2> QED BY <2>3
<1> QED BY <1>2, <1>3, <1>5

\* handleRekey: the next of the others is sent its key.
LEMMA OwnerRekeys ==
  ASSUME Inv, owner \in Client, Named, NEW j \in Client, Arrives(j), RekeysFrom(1, j),
         HandleRekey(owner)
  PROVE  /\ Named' /\ Arrives(j)' /\ RekeysFrom(1, j)' /\ Newest' = Newest
         /\ UNCHANGED <<members, owner, hs, spc, phase, keys, pubs, known, oid, first, learned>>
         /\ down'[owner] = down[owner] /\ down'[j] = down[j] /\ up'[j] = up[j]
<1>1. /\ up[owner] # <<>> /\ Served(owner)
      /\ ToEach({Head(up[owner]).target} \cap members, Head(up[owner]))
      /\ UNCHANGED <<members, owner, hs, spc, phase, keys, pubs, known, oid, first, learned>>
  BY DEF HandleRekey, NextOf, serverVars, clientVars, history
<1>2. up[owner] \in Seq(UpFrame(owner)) /\ \A c \in Client : down[c] \in Seq(DownFrame(c))
  BY DEF Inv, UpOK, DownOK
<1>3. PICK d \in members \ {owner, j} : Head(up[owner]) = Rekey(d)
  <2>1. Head(up[owner]) = up[owner][1] /\ 1 \in DOMAIN up[owner]
    BY <1>1, <1>2, TailHas
  <2> QED BY <2>1 DEF RekeysFrom
<1>4. d \in Client /\ Online(d) /\ members \subseteq Client /\ j # owner
  BY DEF Arrives, Peer, Online, Inv, TypeInv
<1>5. ToEach({d}, Rekey(d))
  <2>1. {Head(up[owner]).target} \cap members = {d}
    BY <1>3, KindsOfFrame
  <2> QED BY <1>1, <1>3, <2>1
<1>6. /\ Gains(down[d], Rekey(d), down'[d]) /\ \A c \in Client \ {d} : down'[c] = down[c]
      /\ Loses(up[owner], up'[owner]) /\ \A c \in Client \ {owner} : up'[c] = up[c]
  BY <1>1, <1>4, <1>5 DEF ToEach, Served, Inv, UpOK, Gains, Loses
<1>7. Newest' = Newest
  BY <1>1 DEF Newest
<1>8. \A c : Rekey(c)' = Rekey(c)
  BY <1>1, <1>7 DEF Rekey
<1>9. RekeysFrom(1, j)'
  BY <1>1, <1>6, <1>7, RekeysKept
<1>10. ASSUME NEW c \in members \ {owner, j}
       PROVE  /\ keys'[c] # <<>> /\ (Coming(c)' \/ keys'[c][1] = Newest)
              /\ \A i \in DOMAIN down'[c] : down'[c][i] = Rekey(c)
  <2>1. Peer(c, j) /\ c \in Client
    BY <1>4 DEF Arrives
  <2>2. CASE c = d
    <3>1. Has(down'[d], {Rekey(d)})
      BY <1>2, <1>4, <1>6, GainsHas
    <3>2. \A i \in DOMAIN down'[d] : down'[d][i] = Rekey(d)
      <4>1. \A i \in DOMAIN down'[d] :
              (i \in DOMAIN down[d] /\ down'[d][i] = down[d][i]) \/ down'[d][i] = Rekey(d)
        BY <1>2, <1>4, <1>6, GainsHas
      <4> QED BY <2>1, <2>2, <4>1 DEF Peer
    <3> QED BY <1>1, <1>8, <2>1, <2>2, <3>1, <3>2 DEF Peer, Coming
  <2>3. CASE c # d
    <3>1. down'[c] = down[c]
      BY <1>6, <2>1, <2>3
    <3>2. Rekey(d) # Rekey(c)
      BY <2>3, KindsOfFrame
    <3>3. Has(up[owner], {Rekey(c)}) => Has(up'[owner], {Rekey(c)})
      BY <1>2, <1>3, <1>6, <3>2, LosesHas
    <3> QED BY <1>1, <1>8, <2>1, <3>1, <3>3 DEF Peer, Coming
  <2> QED BY <2>2, <2>3
<1>11. Named' /\ Arrives(j)'
  <2>1. \A c \in Client \ (members \cup {j}) : down'[c] = down[c]
    BY <1>3, <1>6
  <2> HIDE DEF Newest
  <2> QED BY <1>1, <1>6, <1>7, <1>10, <2>1, ArriveKept
<1>12. down'[owner] = down[owner] /\ down'[j] = down[j] /\ up'[j] = up[j]
  BY <1>3, <1>4, <1>6
<1> QED BY <1>1, <1>7, <1>9, <1>11, <1>12

LEMMA Join2Heads ==
  ASSUME Inv, owner \in Client, NEW j \in Client, Join2(j)
  PROVE  /\ up[owner] # <<>> =>
              /\ Head(up[owner]) = up[owner][1]
              /\ \/ Queued(j) /\ Head(up[owner]) = MemberKey(j, owner)
                 \/ Divided(j) /\ Head(up[owner]) = KeyDeliver(j)
                 \/ RekeysFrom(1, j) /\ \E d \in members \ {owner, j} : Head(up[owner]) = Rekey(d)
         /\ down[j] # <<>> => \/ Head(down[j]) = MemberKey(j, owner)
                              \/ Head(down[j]) = KeyDeliver(j) /\ Delivered(j)
         /\ up[j] # <<>> => Ready(j) /\ up[j] = <<[t |-> "enter", j |-> j]>>
<1>1. up[owner] \in Seq(UpFrame(owner))
  BY DEF Inv, UpOK
<1>2. ASSUME up[owner] # <<>>
      PROVE  /\ Head(up[owner]) = up[owner][1]
             /\ \/ Queued(j) /\ Head(up[owner]) = MemberKey(j, owner)
                \/ Divided(j) /\ Head(up[owner]) = KeyDeliver(j)
                \/ RekeysFrom(1, j) /\ \E d \in members \ {owner, j} : Head(up[owner]) = Rekey(d)
  <2>1. Head(up[owner]) = up[owner][1] /\ 1 \in DOMAIN up[owner]
    BY <1>1, <1>2, TailHas
  <2>2. ASSUME RekeysFrom(1, j) PROVE \E d \in members \ {owner, j} : up[owner][1] = Rekey(d)
    BY <2>1, <2>2 DEF RekeysFrom
  <2>3. Queued(j) \/ Divided(j) \/ RekeysFrom(1, j)
    BY DEF Join2, Delivered, Ready
  <2>4. (Queued(j) => up[owner][1] = MemberKey(j, owner)) /\ (Divided(j) => up[owner][1] = KeyDeliver(j))
    BY DEF Queued, Divided
  <2> QED BY <2>1, <2>2, <2>3, <2>4
<1>3. ASSUME down[j] # <<>>
      PROVE  Head(down[j]) = MemberKey(j, owner) \/ (Head(down[j]) = KeyDeliver(j) /\ Delivered(j))
  <2>1. \/ down[j] = <<MemberKey(j, owner)>>
        \/ down[j] = <<MemberKey(j, owner), KeyDeliver(j)>>
        \/ down[j] = <<KeyDeliver(j)>> /\ Delivered(j)
    BY <1>3 DEF Join2, Queued, Divided, Delivered, Ready
  <2> QED BY <2>1, HeadOfOne
<1>4. up[j] # <<>> => Ready(j) /\ up[j] = <<[t |-> "enter", j |-> j]>>
  BY DEF Join2, Ready
<1> QED BY <1>2, <1>3, <1>4

LEMMA Join2Steps ==
  ASSUME Inv, owner \in Client, NEW j \in Client, Join2(j), NEW c \in Client,
         Server(c) \/ Browser(c)
  PROVE  \/ c \in members \ {owner, j} /\ OnRekey(c) /\ down[c] # <<>> /\ Head(down[c]) = Rekey(c)
         \/ c = owner /\ RelayHandshake(c) /\ up[c] # <<>>
            /\ \/ Queued(j) /\ Head(up[c]) = MemberKey(j, c)
               \/ Divided(j) /\ Head(up[c]) = KeyDeliver(j)
         \/ c = owner /\ HandleRekey(c) /\ RekeysFrom(1, j)
         \/ c = j /\ OnOwnerKey(c) /\ down[c] # <<>> /\ Head(down[c]) = MemberKey(j, owner)
         \/ c = j /\ FinishJoin(c) /\ down[c] # <<>> /\ Head(down[c]) = KeyDeliver(j) /\ Delivered(j)
         \/ c = j /\ Enter(c) /\ Ready(j)
<1>1. Arrives(j) /\ spc[j] = "read" /\ spc[owner] = "read" /\ down[owner] = <<>>
  BY DEF Join2, Arrives
<1>2. CASE c \notin {owner, j}
  BY <1>1, <1>2, PeerHeads
<1>3. CASE c = owner
  <2>1. ~Browser(c)
    BY <1>1, <1>3 DEF Browser, RotateForJoin, OnOwnerKey, FinishJoin, OnWelcome, OnRekey, ApplyRoster,
                OnPresenceMember, OnPresenceSame, RotateForLeave, OnRoomClosed, NextFor
  <2>2. PICK t : NextOf(c, t) /\ \/ t \in {"member_key", "key_deliver"} /\ RelayHandshake(c)
                                 \/ t = "rekey" /\ HandleRekey(c)
                                 \/ t \in {"enter", "roster", "transfer", "kick", "leave"}
    BY <1>1, <1>3, <2>1 DEF Server, RelayHandshake, Enter, Announce, HandleRekey, HandleRoster,
                            HandleTransfer, HandleKick, Leave
  <2>3. up[c] # <<>> /\ Head(up[c]).t = t
    BY <2>2 DEF NextOf
  <2>4. \/ Queued(j) /\ Head(up[c]) = MemberKey(j, c)
        \/ Divided(j) /\ Head(up[c]) = KeyDeliver(j)
        \/ RekeysFrom(1, j) /\ \E d \in members \ {owner, j} : Head(up[c]) = Rekey(d)
    BY <1>3, <2>3, Join2Heads
  <2> QED BY <1>3, <2>2, <2>3, <2>4, KindsOfFrame
<1>4. CASE c = j /\ Server(c)
  <2>1. PICK t : NextOf(c, t) /\ \/ t = "enter" /\ Enter(c)
                                 \/ t \in {"member_key", "key_deliver", "rekey", "roster",
                                           "transfer", "kick", "leave"}
    BY <1>1, <1>4 DEF Server, RelayHandshake, Enter, Announce, HandleRekey, HandleRoster,
                      HandleTransfer, HandleKick, Leave
  <2>2. up[c] # <<>> /\ Head(up[c]).t = t
    BY <2>1 DEF NextOf
  <2>3. Ready(j) /\ up[c] = <<[t |-> "enter", j |-> j]>>
    BY <1>4, <2>2, Join2Heads
  <2>4. Head(up[c]) = [t |-> "enter", j |-> j]
    BY <2>3, HeadOfOne
  <2>5. t = "enter"
    BY <2>2, <2>4
  <2> QED BY <1>4, <2>1, <2>3, <2>5
<1>5. CASE c = j /\ Browser(c)
  <2>1. PICK t : NextFor(c, t) /\ \/ t = "member_key" /\ (OnOwnerKey(c) \/ Head(down[c]).j # c)
                                  \/ t = "key_deliver" /\ FinishJoin(c)
                                  \/ t \in {"welcome", "rekey", "roster", "presence", "room_closed"}
    BY <1>5 DEF Browser, RotateForJoin, OnOwnerKey, FinishJoin, OnWelcome, OnRekey, ApplyRoster,
                OnPresenceMember, OnPresenceSame, RotateForLeave, OnRoomClosed
  <2>2. down[c] # <<>> /\ Head(down[c]).t = t
    BY <2>1 DEF NextFor
  <2>3. \/ Head(down[c]) = MemberKey(j, owner)
        \/ Head(down[c]) = KeyDeliver(j) /\ Delivered(j)
    BY <1>5, <2>2, Join2Heads
  <2> QED BY <1>5, <2>1, <2>2, <2>3, KindsOfFrame
<1> QED BY <1>2, <1>3, <1>4, <1>5

\* onRekey and handleRekey change nothing between the owner and the joiner.
LEMMA Join2Aside ==
  ASSUME Inv, owner \in Client, NEW j \in Client, Join2(j), Arrives(j)', Newest' = Newest,
         UNCHANGED <<members, owner, hs, spc, pubs, known, first>>, keys'[j] = keys[j],
         up'[j] = up[j], down'[j] = down[j], down'[owner] = down[owner],
         up'[owner] = up[owner] \/ (RekeysFrom(1, j) /\ RekeysFrom(1, j)')
  PROVE  Join2(j)'
<1>1. /\ j \notin members /\ spc[j] = "read" /\ hs[j] = owner
      /\ known[owner] = members \cup {j} /\ down[owner] = <<>> /\ pubs[owner][j] = j
  BY DEF Join2
<1>2. /\ KeyDeliver(j)' = KeyDeliver(j) /\ MemberKey(j, owner)' = MemberKey(j, owner)
      /\ up'[owner] = up[owner] => \A n \in {1, 2, 3} : RekeysFrom(n, j) => RekeysFrom(n, j)'
  BY RekeysKept
<1>3. CASE up'[owner] = up[owner]
  <2>1. \A n \in {1, 2, 3} : RekeysFrom(n, j) => RekeysFrom(n, j)'
    BY <1>2, <1>3
  <2>2. RekeysFrom(1, j) => RekeysFrom(1, j)'
    BY <2>1
  <2>3. RekeysFrom(2, j) => RekeysFrom(2, j)'
    BY <2>1
  <2>4. RekeysFrom(3, j) => RekeysFrom(3, j)'
    BY <2>1
  <2>5. Queued(j) => Queued(j)'
    BY <1>2, <1>3, <2>4 DEF Queued
  <2>6. Divided(j) => Divided(j)'
    BY <1>2, <1>3, <2>3 DEF Divided
  <2>7. Delivered(j) => Delivered(j)'
    BY <1>2, <1>3, <2>2 DEF Delivered
  <2>8. Ready(j) => Ready(j)'
    BY <1>3, <2>2 DEF Ready
  <2> QED BY <1>1, <2>5, <2>6, <2>7, <2>8 DEF Join2
<1>4. CASE RekeysFrom(1, j) /\ RekeysFrom(1, j)'
  <2>1. Delivered(j) => Delivered(j)'
    BY <1>2, <1>4 DEF Delivered
  <2>2. Ready(j) => Ready(j)'
    BY <1>4 DEF Ready
  <2>3. up[owner] # <<>> => ~Queued(j) /\ ~Divided(j)
    <3>1. ASSUME up[owner] # <<>> PROVE \E d \in members \ {owner, j} : up[owner][1] = Rekey(d)
      <4>1. 1 \in DOMAIN up[owner]
        BY <3>1, TailHas DEF Inv, UpOK
      <4> QED BY <1>4, <4>1 DEF RekeysFrom
    <3>2. \A d : Rekey(d) # MemberKey(j, owner) /\ Rekey(d) # KeyDeliver(j)
      BY KindsOfFrame
    <3> QED BY <3>1, <3>2 DEF Queued, Divided
  <2>4. ~Queued(j) /\ ~Divided(j)
    BY <2>3 DEF Queued, Divided
  <2> QED BY <1>1, <2>1, <2>2, <2>4 DEF Join2
<1> QED BY <1>3, <1>4

\* relayHandshake: the owner's public key, then the room key.
LEMMA Join2Relays ==
  ASSUME Inv, owner \in Client, Named, NEW j \in Client, Join2(j),
         RelayHandshake(owner), up[owner] # <<>>,
         \/ Queued(j) /\ Head(up[owner]) = MemberKey(j, owner)
         \/ Divided(j) /\ Head(up[owner]) = KeyDeliver(j)
  PROVE  Named' /\ Join2(j)' /\ owner' = owner
<1>1. /\ Arrives(j) /\ hs[j] = owner /\ j # owner /\ j \notin members /\ spc[j] = "read"
      /\ known[owner] = members \cup {j} /\ down[owner] = <<>> /\ pubs[owner][j] = j
  BY DEF Join2, Arrives
<1>2. Head(up[owner]).j = j
  BY KindsOfFrame
<1>3. /\ Named' /\ Arrives(j)' /\ Newest' = Newest
      /\ UNCHANGED <<members, owner, hs, spc, phase, keys, pubs, known, oid, first, learned>>
      /\ Loses(up[owner], up'[owner]) /\ \A e \in Client \ {owner} : up'[e] = up[e]
      /\ Gains(down[j], Head(up[owner]), down'[j]) /\ \A e \in Client \ {j} : down'[e] = down[e]
  BY <1>1, <1>2, PartyRelays
<1>4. /\ RekeysFrom(3, j) => RekeysFrom(2, j)'
      /\ RekeysFrom(2, j) => RekeysFrom(1, j)'
      /\ KeyDeliver(j)' = KeyDeliver(j) /\ MemberKey(j, owner)' = MemberKey(j, owner)
  BY <1>3, RekeysKept
<1>5. ~Ready(j) /\ keys[j] = <<>> /\ up[j] = <<>>
  <2>1. ASSUME Ready(j) PROVE FALSE
    <3>1. \E d \in members \ {owner, j} : up[owner][1] = Rekey(d)
      <4>1. 1 \in DOMAIN up[owner]
        BY TailHas DEF Inv, UpOK
      <4> QED BY <2>1, <4>1 DEF RekeysFrom, Ready
    <3> QED BY <3>1, KindsOfFrame DEF Queued, Divided
  <2> QED BY <2>1 DEF Join2
<1>6. CASE Queued(j) /\ Head(up[owner]) = MemberKey(j, owner)
  <2>1. down'[j] = <<MemberKey(j, owner)>>
    <3>1. down'[j] = Append(<<>>, MemberKey(j, owner))
      BY <1>3, <1>6 DEF Gains, Queued
    <3> QED BY <3>1, HeadOfOne
  <2>2. up'[owner] # <<>> /\ up'[owner][1] = KeyDeliver(j)
    <3>1. up[owner] \in Seq(UpFrame(owner)) /\ Len(up[owner]) >= 2
      BY <1>6 DEF Inv, UpOK, Queued
    <3>2. up'[owner] = Tail(up[owner])
      BY <1>3 DEF Loses
    <3>3. Tail(up[owner]) # <<>> /\ 1 \in DOMAIN Tail(up[owner])
      <4> PICK r : r = Tail(up[owner])
        OBVIOUS
      <4>1. r \in Seq(UpFrame(owner)) /\ Len(r) = Len(up[owner]) - 1 /\ Len(up[owner]) \in Nat
        BY <3>1
      <4>2. Len(r) >= 1
        BY <3>1, <4>1
      <4>3. 1 \in 1 .. Len(r) /\ DOMAIN r = 1 .. Len(r) /\ Len(r) # 0
        BY <4>1, <4>2
      <4>4. r # <<>>
        BY <4>3
      <4> QED BY <4>3, <4>4
    <3>4. Tail(up[owner])[1] = up[owner][2]
      BY <3>1
    <3> QED BY <1>6, <3>2, <3>3, <3>4 DEF Queued
  <2>3. Divided(j)'
    BY <1>3, <1>4, <1>6, <2>1, <2>2 DEF Queued, Divided
  <2> QED BY <1>1, <1>3, <1>5, <2>3 DEF Join2
<1>7. CASE Divided(j) /\ Head(up[owner]) = KeyDeliver(j)
  <2>1. \/ down'[j] = <<MemberKey(j, owner), KeyDeliver(j)>> /\ first[j] = None
        \/ down'[j] = <<KeyDeliver(j)>> /\ first[j] = owner
    <3>1. \/ down'[j] = Append(<<MemberKey(j, owner)>>, KeyDeliver(j)) /\ first[j] = None
          \/ down'[j] = Append(<<>>, KeyDeliver(j)) /\ first[j] = owner
      BY <1>3, <1>7 DEF Gains, Divided
    <3> QED BY <3>1, HeadOfOne
  <2>2. Delivered(j)'
    BY <1>3, <1>4, <1>7, <2>1 DEF Divided, Delivered
  <2> QED BY <1>1, <1>3, <1>5, <2>2 DEF Join2
<1> QED BY <1>6, <1>7

\* onMemberKey of the joiner, the room key behind it or not.
LEMMA Join2Knows ==
  ASSUME Inv, owner \in Client, Named, NEW j \in Client, Join2(j),
         OnOwnerKey(j), down[j] # <<>>, Head(down[j]) = MemberKey(j, owner)
  PROVE  Named' /\ Join2(j)' /\ owner' = owner
<1>1. /\ first' = [first EXCEPT ![j] = Head(down[j]).pub] /\ Handled(j)
      /\ UNCHANGED <<members, owner, hs, spc, up, phase, keys, pubs, known, oid, learned>>
  BY DEF OnOwnerKey, serverVars, history
<1>2. Head(down[j]).pub = owner
  BY KindsOfFrame
<1>3. /\ first'[j] = owner /\ \A c \in Client \ {j} : first'[c] = first[c]
      /\ down'[j] = Tail(down[j]) /\ \A c \in Client \ {j} : down'[c] = down[c]
  BY <1>1, <1>2 DEF Handled, Inv, TypeInv, DownOK
<1>4. /\ Arrives(j) /\ hs[j] = owner /\ j # owner /\ j \notin members /\ spc[j] = "read"
      /\ known[owner] = members \cup {j} /\ down[owner] = <<>> /\ pubs[owner][j] = j
  BY DEF Join2, Arrives
<1>5. Named' /\ Arrives(j)' /\ Newest' = Newest
  BY <1>1, <1>3, <1>4, ArriveAside
<1>6. /\ RekeysFrom(2, j) => RekeysFrom(2, j)'
      /\ RekeysFrom(1, j) => RekeysFrom(1, j)'
      /\ KeyDeliver(j)' = KeyDeliver(j)
  BY <1>1, <1>5, RekeysKept
<1>7. down[j] # <<KeyDeliver(j)>>
  BY HeadOfOne, KindsOfFrame
<1>8. /\ keys[j] = <<>> /\ up[j] = <<>>
      /\ \/ Divided(j) /\ down[j] = <<MemberKey(j, owner)>>
         \/ Delivered(j) /\ down[j] = <<MemberKey(j, owner), KeyDeliver(j)>>
  BY <1>7 DEF Join2, Queued, Divided, Delivered, Ready
<1>9. CASE Divided(j) /\ down[j] = <<MemberKey(j, owner)>>
  <2>1. down'[j] = <<>>
    BY <1>3, <1>9, HeadOfOne
  <2>2. Divided(j)'
    BY <1>1, <1>3, <1>6, <1>9, <2>1 DEF Divided
  <2> QED BY <1>1, <1>3, <1>4, <1>5, <1>8, <2>2 DEF Join2
<1>10. CASE Delivered(j) /\ down[j] = <<MemberKey(j, owner), KeyDeliver(j)>>
  <2>1. down'[j] = <<KeyDeliver(j)>>
    BY <1>3, <1>10, HeadOfOne
  <2>2. Delivered(j)'
    BY <1>1, <1>3, <1>6, <1>10, <2>1 DEF Delivered
  <2> QED BY <1>1, <1>3, <1>4, <1>5, <1>8, <2>2 DEF Join2
<1> QED BY <1>1, <1>8, <1>9, <1>10

\* onKeyDeliver: the joiner holds the newest key before it asks to be let in.
LEMMA Join2Finishes ==
  ASSUME Inv, owner \in Client, Named, NEW j \in Client, Join2(j), Delivered(j),
         FinishJoin(j), down[j] # <<>>, Head(down[j]) = KeyDeliver(j)
  PROVE  Named' /\ Join2(j)' /\ owner' = owner
<1>1. /\ PushKey(j, Head(down[j]).key) /\ Sends(j, <<[t |-> "enter", j |-> j]>>) /\ Handled(j)
      /\ UNCHANGED <<members, owner, hs, spc, phase, pubs, known, oid, first>>
  BY DEF FinishJoin, serverVars
<1>2. /\ Arrives(j) /\ hs[j] = owner /\ j # owner /\ j \notin members /\ spc[j] = "read"
      /\ known[owner] = members \cup {j} /\ down[owner] = <<>> /\ pubs[owner][j] = j
  BY DEF Join2, Arrives
<1>3. down[j] = <<KeyDeliver(j)>> /\ first[j] = owner
  <2>1. down[j] # <<MemberKey(j, owner), KeyDeliver(j)>>
    BY HeadOfOne, KindsOfFrame
  <2> QED BY <2>1 DEF Delivered
<1>4. Newest \in Nat
  <2>1. keys[owner] \in Seq(Nat) /\ keys[owner] # <<>>
    BY <1>2 DEF Arrives, Leads, Inv, Counters
  <2> QED BY <2>1 DEF Newest
<1>5. PushKey(j, Newest)
  BY <1>1, KindsOfFrame
<1>6. /\ keys'[j] # <<>> /\ keys'[j][1] = Newest
      /\ \A d \in Client \ {j} : keys'[d] = keys[d] /\ learned'[d] = learned[d]
  BY <1>4, <1>5, PushMeans
<1>7. up[j] = <<>> /\ RekeysFrom(1, j)
  BY <1>3, HeadOfOne DEF Join2, Ready, Delivered
<1>8. /\ up'[j] = <<[t |-> "enter", j |-> j]>> /\ \A c \in Client \ {j} : up'[c] = up[c]
      /\ down'[j] = <<>> /\ \A c \in Client \ {j} : down'[c] = down[c]
  <2> DEFINE f == [t |-> "enter", j |-> j]
  <2>1. Tail(down[j]) = <<>> /\ <<>> \o <<f>> = <<f>>
    BY <1>3, HeadOfOne
  <2> HIDE DEF f
  <2>2. Sends(j, <<f>>)
    BY <1>1 DEF f
  <2>3. up'[j] = <<f>> /\ \A c \in Client \ {j} : up'[c] = up[c]
    BY <1>7, <2>1, <2>2 DEF Sends, Inv, UpOK
  <2>4. down'[j] = <<>> /\ \A c \in Client \ {j} : down'[c] = down[c]
    BY <1>1, <2>1 DEF Handled, Inv, DownOK
  <2> QED BY <2>3, <2>4 DEF f
<1>9. Named' /\ Arrives(j)' /\ Newest' = Newest
  <2>1. up'[owner] = up[owner]
    BY <1>2, <1>8
  <2> QED BY <1>1, <1>2, <1>6, <1>8, <2>1, ArriveAside
<1>10. RekeysFrom(1, j)'
  <2>1. up'[owner] = up[owner]
    BY <1>2, <1>8
  <2>2. \A n \in {1, 2, 3} : RekeysFrom(n, j) => RekeysFrom(n, j)'
    BY <1>1, <1>9, <2>1, RekeysKept
  <2> QED BY <1>7, <2>2
<1>11. Ready(j)'
  BY <1>1, <1>3, <1>6, <1>8, <1>9, <1>10 DEF Ready
<1> QED BY <1>1, <1>2, <1>8, <1>9, <1>11 DEF Join2

\* Room.Add: the joiner is inside.
LEMMA Join2Enters ==
  ASSUME Inv, owner \in Client, Named, NEW j \in Client, Join2(j), Ready(j), Enter(j)
  PROVE  Named' /\ Join3(j)' /\ owner' = owner
<1>1. /\ Served(j) /\ hs' = [hs EXCEPT ![j] = None] /\ members' = members \cup {j}
      /\ spc' = [spc EXCEPT ![j] = "welcome"]
      /\ UNCHANGED <<down, owner, phase, keys, pubs, known, oid, first, learned>>
  BY NoneAssumption DEF Join2, Enter, clientVars, history
<1>2. /\ Arrives(j) /\ hs[j] = owner /\ j # owner /\ j \notin members /\ spc[j] = "read"
      /\ known[owner] = members \cup {j} /\ down[owner] = <<>> /\ pubs[owner][j] = j
  BY DEF Join2, Arrives
<1>3. /\ up'[j] = <<>> /\ \A c \in Client \ {j} : up'[c] = up[c]
      /\ spc'[j] = "welcome" /\ hs'[j] = None
      /\ \A c \in Client \ {j} : spc'[c] = spc[c] /\ hs'[c] = hs[c]
  <2>1. Tail(up[j]) = <<>>
    BY HeadOfOne DEF Ready
  <2> QED BY <1>1, <2>1 DEF Served, Inv, UpOK, TypeInv
<1>4. members' \ {j} = members \ {j} /\ up'[owner] = up[owner]
  BY <1>1, <1>2, <1>3
<1>5. Named' /\ Arrives(j)' /\ Newest' = Newest
  BY <1>1, <1>2, <1>3, <1>4, ArriveAside
<1>6. RekeysFrom(1, j)'
  <2>1. \A n \in {1, 2, 3} : RekeysFrom(n, j) => RekeysFrom(n, j)'
    BY <1>1, <1>4, <1>5, RekeysKept
  <2> QED BY <2>1 DEF Ready
<1> QED BY <1>1, <1>2, <1>3, <1>5, <1>6 DEF Join3, Ready

LEMMA Join2All ==
  ASSUME Inv, owner \in Client, Named, NEW j \in Client, Join2(j), NEW c \in Client,
         Server(c) \/ Browser(c)
  PROVE  owner' = owner /\ Named' /\ (Join2(j)' \/ Join3(j)')
<1>1. Arrives(j) /\ owner \in Client \ {j} /\ owner \in members
  BY DEF Join2, Arrives, Leads
<1>2. CASE c \in members \ {owner, j} /\ OnRekey(c) /\ down[c] # <<>> /\ Head(down[c]) = Rekey(c)
  <2>1. /\ Named' /\ Arrives(j)' /\ Newest' = Newest
        /\ UNCHANGED <<members, owner, hs, spc, up, phase, pubs, known, oid, first>>
        /\ \A d \in Client \ {c} : keys'[d] = keys[d] /\ learned'[d] = learned[d] /\ down'[d] = down[d]
    BY <1>1, <1>2, PeerTakes
  <2> QED BY <1>1, <1>2, <2>1, Join2Aside
<1>3. CASE c = owner /\ HandleRekey(c) /\ RekeysFrom(1, j)
  <2>1. /\ Named' /\ Arrives(j)' /\ RekeysFrom(1, j)' /\ Newest' = Newest
        /\ UNCHANGED <<members, owner, hs, spc, phase, keys, pubs, known, oid, first, learned>>
        /\ down'[owner] = down[owner] /\ down'[j] = down[j] /\ up'[j] = up[j]
    BY <1>1, <1>3, OwnerRekeys
  <2> QED BY <1>3, <2>1, Join2Aside
<1> QED BY <1>2, <1>3, Join2Steps, Join2Relays, Join2Knows, Join2Finishes, Join2Enters

LEMMA Join1All ==
  ASSUME Inv, owner \in Client, Named, NEW j \in Client, Join1(j), NEW c \in Client,
         Server(c) \/ Browser(c)
  PROVE  owner' = owner /\ Named' /\ (Join1(j)' \/ Join2(j)')
<1>1. CASE c \in {j, owner} /\ up[c] = <<MemberKey(j, c)>> /\ RelayHandshake(c)
  BY <1>1, Join1Relays
<1>2. CASE c = j /\ down[j] = <<MemberKey(j, owner)>> /\ OnOwnerKey(j)
  BY <1>2, Join1Knows
<1>3. CASE c = owner /\ down[owner] = <<MemberKey(j, j)>> /\ RotateForJoin(owner)
  BY <1>3, Join1Rotates
<1> QED BY <1>1, <1>2, <1>3, Join1Steps

-----------------------------------------------------------------------------
(* The joiner is inside. *)

LEMMA Join3Steps ==
  ASSUME Inv, owner \in Client, NEW j \in Client, Join3(j), NEW c \in Client,
         Server(c) \/ Browser(c)
  PROVE  \/ c \in members \ {owner, j} /\ OnRekey(c) /\ down[c] # <<>> /\ Head(down[c]) = Rekey(c)
         \/ c = owner /\ HandleRekey(c)
         \/ c = j /\ Announce(c)
<1>1. /\ Arrives(j) /\ spc[j] = "welcome" /\ spc[owner] = "read" /\ down[owner] = <<>>
      /\ down[j] = <<>> /\ RekeysFrom(1, j)
  BY DEF Join3, Arrives
<1>2. CASE c \notin {owner, j}
  BY <1>1, <1>2, PeerHeads
<1>3. CASE c \in {owner, j}
  <2>1. ~Browser(c)
    BY <1>1, <1>3 DEF Browser, RotateForJoin, OnOwnerKey, FinishJoin, OnWelcome, OnRekey, ApplyRoster,
                OnPresenceMember, OnPresenceSame, RotateForLeave, OnRoomClosed, NextFor
  <2>2. CASE c = j
    BY <1>1, <2>1, <2>2 DEF Server, RelayHandshake, Enter, Announce, HandleRekey, HandleRoster,
                            HandleTransfer, HandleKick, Leave, NextOf
  <2>3. CASE c = owner
    <3>1. PICK t : NextOf(c, t) /\ \/ t = "rekey" /\ HandleRekey(c)
                                   \/ t \in {"member_key", "key_deliver", "enter", "roster",
                                             "transfer", "kick", "leave"}
      BY <1>1, <2>1, <2>3 DEF Server, RelayHandshake, Enter, Announce, HandleRekey, HandleRoster,
                              HandleTransfer, HandleKick, Leave
    <3>2. up[c] # <<>> /\ Head(up[c]).t = t
      BY <3>1 DEF NextOf
    <3>3. Head(up[c]) = up[c][1] /\ 1 \in DOMAIN up[c]
      BY <3>2, TailHas DEF Inv, UpOK
    <3>4. \E d : Head(up[c]) = Rekey(d)
      BY <1>1, <2>3, <3>3 DEF RekeysFrom
    <3>5. t = "rekey"
      BY <3>2, <3>4, KindsOfFrame
    <3> QED BY <2>3, <3>1, <3>5
  <2> QED BY <1>3, <2>2, <2>3
<1> QED BY <1>2, <1>3

\* What everybody is told of the joiner, and what it is told itself.
LEMMA Join3News ==
  ASSUME Inv, owner \in Client, Named, NEW j \in Client, Join3(j), Announce(j)
  PROVE  /\ UNCHANGED <<members, owner, hs, up, phase, keys, pubs, known, oid, first, learned>>
         /\ \A c \in Client : spc'[c] = "read" /\ hs'[c] = None
         /\ down'[j] = <<[t |-> "welcome", m |-> members, o |-> owner], Presence(members, owner)>>
         /\ down'[owner] = <<Presence(members, owner)>>
         /\ \A c \in members \ {owner, j} : Gains(down[c], Presence(members, owner), down'[c])
         /\ \A c \in Client \ members : down'[c] = down[c]
<1> DEFINE p == Presence(members, owner)
           w == [t |-> "welcome", m |-> members, o |-> owner]
<1>1. /\ Arrives(j) /\ j \in members /\ owner \in members /\ j # owner /\ members \subseteq Client
      /\ spc[j] = "welcome" /\ down[j] = <<>> /\ down[owner] = <<>>
      /\ \A c \in Client : hs[c] = None /\ (c # j => spc[c] = "read")
  BY DEF Join3, Arrives, Leads, Inv, TypeInv
<1>2. \A c \in members : Online(c)
  BY <1>1 DEF Arrives, Leads, Peer, Online
<1>3. [p EXCEPT !.t = "welcome"] = w
  BY DEF Presence
<1> HIDE DEF p, w
<1>4. /\ UNCHANGED <<members, owner, hs, up, phase, keys, pubs, known, oid, first, learned>>
      /\ spc' = [spc EXCEPT ![j] = "read"]
      /\ down' = [d \in Client |->
           IF d \notin members \/ ~Online(d) THEN down[d]
           ELSE down[d] \o (IF d = j /\ spc[j] = "welcome" THEN <<w, p>> ELSE <<p>>)]
  BY <1>3 DEF Announce, clientVars, history, p
<1>5. \A c \in Client : spc'[c] = "read" /\ hs'[c] = None
  BY <1>1, <1>4 DEF Inv, TypeInv
<1>6. down'[j] = <<w, p>>
  <2>1. <<>> \o <<w, p>> = <<w, p>>
    BY ConcatEmptySeq
  <2>2. down'[j] = down[j] \o <<w, p>>
    BY <1>1, <1>2, <1>4
  <2> QED BY <1>1, <2>1, <2>2
<1>7. down'[owner] = <<p>>
  <2>1. <<>> \o <<p>> = <<p>>
    BY HeadOfOne
  <2>2. down'[owner] = down[owner] \o <<p>>
    BY <1>1, <1>2, <1>4
  <2> QED BY <1>1, <2>1, <2>2
<1>8. ASSUME NEW c \in members \ {owner, j} PROVE Gains(down[c], p, down'[c])
  <2>1. down'[c] = down[c] \o <<p>> /\ down[c] \in Seq(DownFrame(c))
    BY <1>1, <1>2, <1>4 DEF Inv, DownOK
  <2>2. Append(down[c], p) = down[c] \o <<p>>
    BY <2>1, AppendHas
  <2> QED BY <2>1, <2>2 DEF Gains
<1>9. \A c \in Client \ members : down'[c] = down[c]
  BY <1>4
<1> QED BY <1>4, <1>5, <1>6, <1>7, <1>8, <1>9 DEF p, w

\* The news of the joiner starts to spread, with what is left of the rotation.
LEMMA Join3Announce ==
  ASSUME Inv, owner \in Client, Named, NEW j \in Client, Join3(j), Announce(j)
  PROVE  owner' = owner /\ Named' /\ Flow({}, {})'
<1> DEFINE p == Presence(members, owner)
           w == [t |-> "welcome", m |-> members, o |-> owner]
<1>1. /\ Arrives(j) /\ j \in members /\ owner \in members /\ j # owner /\ members \subseteq Client
      /\ known[owner] = members /\ oid[owner] = owner /\ RekeysFrom(1, j) /\ up[j] = <<>>
      /\ first[j] = owner /\ keys[j] # <<>> /\ keys[j][1] = Newest /\ phase[j] = "joining"
  BY DEF Join3, Arrives, Leads, Inv, TypeInv
<1>2. p \in News /\ p.t = "presence" /\ w \in News /\ w.t = "welcome"
  BY <1>1 DEF Presence, News
<1>3. /\ UNCHANGED <<members, owner, hs, up, phase, keys, pubs, known, oid, first, learned>>
      /\ \A c \in Client : spc'[c] = "read" /\ hs'[c] = None
      /\ down'[j] = <<w, p>> /\ down'[owner] = <<p>>
      /\ \A c \in members \ {owner, j} : Gains(down[c], p, down'[c])
      /\ \A c \in Client \ members : down'[c] = down[c]
  BY Join3News
<1> HIDE DEF p, w
<1>4. Newest' = Newest
  BY <1>3 DEF Newest
<1>5. (\A c : Rekey(c)' = Rekey(c)) /\ News' = News /\ Rosters' = Rosters
  BY <1>3, <1>4, SameFrames
<1>6. Named'
  BY <1>3 DEF Named
<1>7. Leads'
  BY <1>1, <1>3 DEF Arrives, Leads, Full
<1>8. \A c \in members \ {owner} : Online(c)' /\ up'[c] = <<>> /\ c \in Client
  BY <1>1, <1>3 DEF Arrives, Peer, Online
<1>9. Fellows' = members \ {owner}
  BY <1>3, <1>8 DEF Fellows
<1>10. down'[owner] # <<>>
  BY <1>3, HeadOfOne
<1>11. ASSUME NEW c \in members \ {owner, j} PROVE Follows(c)'
  <2>1. /\ Peer(c, j) /\ c \in Client /\ down[c] \in Seq(DownFrame(c))
        /\ Gains(down[c], p, down'[c])
    BY <1>1, <1>3 DEF Arrives, Inv, DownOK
  <2>2. \A i \in DOMAIN down'[c] : (i \in DOMAIN down[c] /\ down'[c][i] = down[c][i]) \/ down'[c][i] = p
    BY <2>1, GainsHas
  <2>3. Has(down[c], {Rekey(c)}) => Has(down'[c], {Rekey(c)})
    BY <2>1, GainsHas
  <2>4. \A i \in DOMAIN down'[c] : down'[c][i] = Rekey(c) \/ down'[c][i] = p
    BY <2>1, <2>2 DEF Peer
  <2>5. \A i \in DOMAIN down'[c] : Foreseen(c, i)'
    BY <1>2, <1>3, <1>5, <2>1, <2>4 DEF Foreseen, Peer
  <2>6. Coming(c) => Coming(c)'
    BY <1>3, <1>5, <2>3 DEF Coming
  <2>7. keys'[c] # <<>> /\ phase'[c] = "member" /\ oid'[c] = owner'
        /\ (~Coming(c)' => keys'[c][1] = Newest') /\ pubs'[c][owner'] = owner'
    BY <1>1, <1>3, <1>4, <2>1, <2>6 DEF Peer
  <2> QED BY <1>3, <1>10, <2>5, <2>7 DEF Follows
<1>12. Follows(j)'
  <2>1. DOMAIN down'[j] = {1, 2} /\ down'[j][1] = w /\ down'[j][2] = p
    <3>1. Len(<<w, p>>) = 2 /\ DOMAIN <<w, p>> = 1 .. 2 /\ <<w, p>>[1] = w /\ <<w, p>>[2] = p
      OBVIOUS
    <3> QED BY <1>3, <3>1
  <2>2. \A i \in DOMAIN down'[j] : Foreseen(j, i)'
    BY <1>1, <1>2, <1>3, <1>5, <2>1 DEF Foreseen
  <2>3. Has(down'[j], News')
    BY <1>2, <1>5, <2>1 DEF Has
  <2>4. w # Rekey(j) /\ p # Rekey(j)
    BY <1>2, KindsOfFrame
  <2>5. ~Has(down'[j], {Rekey(j)})
    BY <2>1, <2>4 DEF Has
  <2>6. ~Has(up[owner], {Rekey(j)})
    <3> SUFFICES ASSUME NEW i \in DOMAIN up[owner], up[owner][i] = Rekey(j) PROVE FALSE
      BY DEF Has
    <3>1. i >= 1
      <4>1. up[owner] \in Seq(UpFrame(owner))
        BY DEF Inv, UpOK
      <4> QED BY <4>1
    <3>2. PICK c \in members \ {owner, j} : Rekey(c) = Rekey(j)
      BY <1>1, <3>1 DEF RekeysFrom
    <3>3. c = j
      BY <3>2, KindsOfFrame
    <3> QED BY <3>3
  <2>7. ~Coming(j)'
    BY <1>3, <1>5, <2>5, <2>6 DEF Coming
  <2>8. keys'[j] # <<>> /\ keys'[j][1] = Newest' /\ phase'[j] = "joining"
    BY <1>1, <1>3, <1>4
  <2> QED BY <1>3, <1>10, <2>2, <2>3, <2>7, <2>8 DEF Follows
<1>13. ASSUME NEW i \in DOMAIN up'[owner'] PROVE Posted(i)'
  <2>1. up[owner] \in Seq(UpFrame(owner)) /\ i \in DOMAIN up[owner]
    BY <1>3 DEF Inv, UpOK
  <2>2. i >= 1
    BY <2>1
  <2>3. PICK c \in members \ {owner, j} : up[owner][i] = Rekey(c)
    BY <1>1, <2>1, <2>2 DEF RekeysFrom
  <2>4. c \in Fellows' /\ up'[owner'][i] = Rekey(c)'
    BY <1>3, <1>5, <1>9, <2>3
  <2> QED BY <2>4 DEF Posted
<1>14. \A c \in Client \ members' : Outside(c)' /\ Newest' \notin learned'[c]
  <2> SUFFICES ASSUME NEW c \in Client \ members PROVE Outside(c)' /\ Newest' \notin learned'[c]
    BY <1>3
  <2>1. /\ phase[c] \in {"out", "gone"} /\ down[c] = <<>> /\ up[c] = <<>>
        /\ Newest \notin learned[c]
    BY <1>1 DEF Arrives
  <2> QED BY <1>3, <1>4, <2>1 DEF Outside
<1>15. Awaits({}, {})'
  <2>1. /\ down'[owner'] = <<Presence(members', owner')>> /\ oid'[owner'] = owner'
        /\ known'[owner'] = members' \cup {}
    BY <1>1, <1>3 DEF p
  <2> QED BY <2>1 DEF Awaits
<1>16. Flow({}, {})'
  <2>1. \A c \in Fellows' : Follows(c)'
    BY <1>9, <1>11, <1>12
  <2>2. \A c \in members' \ {owner'} :
          IF c \in {} THEN phase'[c] = "gone" /\ up'[c] = <<LeaveFrame>>
                      ELSE Online(c)' /\ up'[c] = <<>>
    BY <1>3, <1>8
  <2> QED BY <1>3, <1>7, <1>13, <1>14, <1>15, <2>1, <2>2 DEF Flow
<1> QED BY <1>3, <1>6, <1>16

LEMMA Join3All ==
  ASSUME Inv, owner \in Client, Named, NEW j \in Client, Join3(j), NEW c \in Client,
         Server(c) \/ Browser(c)
  PROVE  owner' = owner /\ Named' /\ (Join3(j)' \/ Flow({}, {})')
<1>1. /\ Arrives(j) /\ j \in members /\ spc[j] = "welcome" /\ hs[j] = None /\ owner # j
      /\ known[owner] = members /\ down[owner] = <<>>
      /\ RekeysFrom(1, j) /\ down[j] = <<>> /\ up[j] = <<>> /\ first[j] = owner
      /\ keys[j] # <<>> /\ keys[j][1] = Newest
  BY DEF Join3, Arrives
<1>2. CASE c \in members \ {owner, j} /\ OnRekey(c) /\ down[c] # <<>> /\ Head(down[c]) = Rekey(c)
  <2>1. /\ Named' /\ Arrives(j)' /\ Newest' = Newest
        /\ UNCHANGED <<members, owner, hs, spc, up, phase, pubs, known, oid, first>>
        /\ \A d \in Client \ {c} : keys'[d] = keys[d] /\ learned'[d] = learned[d] /\ down'[d] = down[d]
    BY <1>1, <1>2, PeerTakes
  <2>2. RekeysFrom(1, j)'
    <3>1. \A n \in {1, 2, 3} : RekeysFrom(n, j) => RekeysFrom(n, j)'
      BY <2>1, RekeysKept
    <3> QED BY <1>1, <3>1
  <2>3. keys'[j] = keys[j] /\ down'[j] = down[j] /\ down'[owner] = down[owner]
    BY <1>2, <2>1
  <2> QED BY <1>1, <2>1, <2>2, <2>3 DEF Join3
<1>3. CASE c = owner /\ HandleRekey(c)
  <2>1. /\ Named' /\ Arrives(j)' /\ RekeysFrom(1, j)' /\ Newest' = Newest
        /\ UNCHANGED <<members, owner, hs, spc, phase, keys, pubs, known, oid, first, learned>>
        /\ down'[owner] = down[owner] /\ down'[j] = down[j] /\ up'[j] = up[j]
    BY <1>1, <1>3, OwnerRekeys
  <2> QED BY <1>1, <2>1 DEF Join3
<1>4. CASE c = j /\ Announce(c)
  BY <1>4, Join3Announce
<1> QED BY <1>2, <1>3, <1>4, Join3Steps

-----------------------------------------------------------------------------
(* One change after another. *)

\* Every stage leads to a stage, or to the end of the room.
LEMMA StageMoves ==
  ASSUME Inv, owner \in Client, Named, Stage, NEW c \in Client, Server(c) \/ Browser(c)
  PROVE  Closed' \/ (owner' \in Client /\ Named' /\ Stage')
<1>1. ASSUME NEW L \in SUBSET Client, NEW U \in SUBSET Client, Flow(L, U)
      PROVE  owner' \in Client /\ Named' /\ Stage'
  <2>1. owner' = owner /\ Named' /\ \E K, V \in SUBSET Client : Flow(K, V)'
    BY <1>1, FlowAll
  <2> QED BY <2>1 DEF Stage
<1>2. CASE Asked
  BY <1>2, AskedAll
<1>3. ASSUME NEW p \in Client, Handed(p) PROVE owner' \in Client /\ Named' /\ Stage'
  BY <1>3, HandedAll
<1>4. ASSUME NEW j \in Client, Join1(j) PROVE owner' \in Client /\ Named' /\ Stage'
  <2>1. owner' = owner /\ Named' /\ (Join1(j)' \/ Join2(j)')
    BY <1>4, Join1All
  <2> QED BY <2>1 DEF Stage
<1>5. ASSUME NEW j \in Client, Join2(j) PROVE owner' \in Client /\ Named' /\ Stage'
  <2>1. owner' = owner /\ Named' /\ (Join2(j)' \/ Join3(j)')
    BY <1>5, Join2All
  <2> QED BY <2>1 DEF Stage
<1>6. ASSUME NEW j \in Client, Join3(j) PROVE owner' \in Client /\ Named' /\ Stage'
  <2>1. owner' = owner /\ Named' /\ (Join3(j)' \/ Flow({}, {})')
    BY <1>6, Join3All
  <2>2. {} \in SUBSET Client
    OBVIOUS
  <2> QED BY <2>1, <2>2 DEF Stage
<1> QED BY <1>1, <1>2, <1>3, <1>4, <1>5, <1>6 DEF Stage

\* A user who starts a change while another is under way is marked.
LEMMA UserMarks ==
  ASSUME NEW c \in Client, User(c), ~overlap'
  PROVE  Settled /\ ~overlap
BY DEF User, Join, Depart, Kick, HandOver, MarkOverlap

LEMMA OthersMark ==
  ASSUME NEW c \in Client, Server(c) \/ Browser(c)
  PROVE  overlap' = overlap
<1>1. CASE Server(c)
  BY <1>1 DEF Server, RelayHandshake, Enter, Announce, HandleRekey, HandleRoster,
              HandleTransfer, HandleKick, Leave, history
<1>2. CASE Browser(c)
  BY <1>2 DEF Browser, RotateForJoin, OnOwnerKey, FinishJoin, OnWelcome, OnRekey, ApplyRoster,
              OnPresenceMember, OnPresenceSame, RotateForLeave, OnRoomClosed, history
<1> QED BY <1>1, <1>2

LEMMA ChangeStarts ==
  ASSUME Inv, AtRest, NEW c \in Client, User(c)
  PROVE  owner' \in Client /\ Named' /\ Stage'
<1>1. owner' = owner /\ owner \in Client
  BY RestFacts DEF User, Join, Depart, Kick, HandOver, serverVars
<1>2. CASE Join(c)
  BY <1>1, <1>2, JoinStarts DEF Stage
<1>3. CASE Depart(c)
  BY <1>1, <1>3, DepartStarts
<1>4. CASE \E d \in Client : Kick(c, d) \/ \E leave \in BOOLEAN : HandOver(c, d, leave)
  BY <1>1, <1>4, RequestStarts
<1> QED BY <1>2, <1>3, <1>4 DEF User

LEMMA StutterOrderly ==
  ASSUME Orderly, UNCHANGED vars
  PROVE  Orderly'
<1> USE DEF vars, serverVars, clientVars, history
<1>1. Newest' = Newest /\ (\A c : Rekey(c)' = Rekey(c)) /\ News' = News /\ Rosters' = Rosters
  BY DEF Newest, Rekey, News, Rosters
<1>2. Fellows' = Fellows /\ \A c : (Full(c) => Full(c)') /\ (Online(c) => Online(c)')
  BY DEF Fellows, Full, Online
<1>3. \A c : (Coming(c) => Coming(c)') /\ (Coming(c)' => Coming(c))
  BY <1>1 DEF Coming
<1>4. \A c, i : Foreseen(c, i) => Foreseen(c, i)'
  BY <1>1 DEF Foreseen
<1>5. \A i : Posted(i) => Posted(i)'
  BY <1>1, <1>2 DEF Posted
<1>6. \A c : Follows(c) => Follows(c)'
  BY <1>1, <1>2, <1>3, <1>4 DEF Follows
<1>7. (Leads => Leads') /\ \A c : Outside(c) => Outside(c)'
  BY <1>2 DEF Leads, Outside
<1>8. ASSUME NEW L, NEW U, Flow(L, U) PROVE Flow(L, U)'
  <2>1. Awaits(L, U)'
    BY <1>8 DEF Flow, Awaits, Presence
  <2>2. \A c \in Fellows' : Follows(c)'
    BY <1>2, <1>6, <1>8 DEF Flow
  <2>3. \A i \in DOMAIN up'[owner'] : Posted(i)'
    BY <1>5, <1>8 DEF Flow
  <2>4. \A c \in Client \ members' : Outside(c)' /\ (c \in U \/ Newest' \notin learned'[c])
    BY <1>1, <1>7, <1>8 DEF Flow
  <2>5. \A c \in members' \ {owner'} :
          IF c \in L THEN phase'[c] = "gone" /\ up'[c] = <<LeaveFrame>>
                     ELSE Online(c)' /\ up'[c] = <<>>
    BY <1>2, <1>8 DEF Flow
  <2>6. (L = {} /\ U = {}) \/ \A c \in Fellows' : ~Coming(c)' /\ phase'[c] = "member"
    BY <1>2, <1>3, <1>8 DEF Flow
  <2> QED BY <1>7, <1>8, <2>1, <2>2, <2>3, <2>4, <2>5, <2>6 DEF Flow
<1>9. ASSUME Asked PROVE Asked'
  <2>1. \A k : Rest(owner, k) => Rest(owner, k)'
    BY <1>2 DEF Rest
  <2> QED BY <1>9, <2>1 DEF Asked, Asks
<1>10. ASSUME NEW p \in Client, Handed(p) PROVE Handed(p)'
  <2>1. Rest(p, Newest)'
    BY <1>1, <1>2, <1>10 DEF Handed, Rest
  <2> QED BY <1>10, <2>1 DEF Handed
<1>11. ASSUME NEW j \in Client
       PROVE  /\ Arrives(j) => Arrives(j)'
              /\ KeyDeliver(j)' = KeyDeliver(j)
              /\ \A n : RekeysFrom(n, j) => RekeysFrom(n, j)'
  <2>1. \A c : Peer(c, j) => Peer(c, j)'
    BY <1>1, <1>3 DEF Peer
  <2> QED BY <1>1, <1>7, <2>1 DEF Arrives, RekeysFrom, KeyDeliver
<1>12. ASSUME NEW j \in Client
       PROVE  /\ Join1(j) => Join1(j)'
              /\ Join2(j) => Join2(j)'
              /\ Join3(j) => Join3(j)'
  <2>1. Join1(j) => Join1(j)'
    BY <1>11 DEF Join1, MemberKey
  <2>2. Join2(j) => Join2(j)'
    BY <1>1, <1>11 DEF Join2, Queued, Divided, Delivered, Ready, MemberKey
  <2>3. Join3(j) => Join3(j)'
    BY <1>1, <1>11 DEF Join3
  <2> QED BY <2>1, <2>2, <2>3
<1>13. Stage => Stage'
  BY <1>8, <1>9, <1>10, <1>12 DEF Stage
<1> QED BY <1>13 DEF Orderly, Closed, Named

LEMMA InitOrderly ==
  ASSUME Init
  PROVE  Orderly
<1> USE CreatorAssumption
<1>1. /\ members = {Creator} /\ owner = Creator /\ Creator \in Client
      /\ \A c \in Client : /\ hs[c] = None /\ spc[c] = "read" /\ up[c] = <<>> /\ down[c] = <<>>
                           /\ first[c] = None /\ \A d \in Client : pubs[c][d] = None
                           /\ c # Creator => phase[c] = "out" /\ keys[c] = <<>> /\ learned[c] = {}
      /\ phase[Creator] = "member" /\ keys[Creator] = <<1>> /\ known[Creator] = {Creator}
      /\ oid[Creator] = Creator
  BY DEF Init, NoPubs
<1>2. Named /\ Leads /\ Fellows = {}
  <2>1. <<1>> # <<>>
    OBVIOUS
  <2> QED BY <1>1, <2>1 DEF Named, Leads, Full, Fellows
<1>3. Awaits({}, {})
  BY <1>1 DEF Awaits
<1>4. \A c \in Client \ members : Outside(c) /\ Newest \notin learned[c]
  BY <1>1 DEF Outside
<1>5. \A i : i \notin DOMAIN <<>>
  OBVIOUS
<1>6. Flow({}, {})
  BY <1>1, <1>2, <1>3, <1>4, <1>5 DEF Flow
<1>7. {} \in SUBSET Client
  OBVIOUS
<1> QED BY <1>1, <1>2, <1>6, <1>7 DEF Orderly, Stage

LEMMA NextOrderly ==
  ASSUME Inv, Orderly, [Next]_vars
  PROVE  Orderly'
<1>1. ASSUME NEW c \in Client, User(c), ~overlap'
      PROVE  Closed' \/ (owner' \in Client /\ Named' /\ Stage')
  <2>1. Closed \/ AtRest
    BY <1>1, UserMarks, SettledStage
  <2> QED BY <1>1, <2>1, ChangeStarts, ClosedStays
<1>2. ASSUME NEW c \in Client, Server(c) \/ Browser(c), ~overlap'
      PROVE  Closed' \/ (owner' \in Client /\ Named' /\ Stage')
  <2>1. Closed \/ (owner \in Client /\ Named /\ Stage)
    BY <1>2, OthersMark DEF Orderly
  <2> QED BY <1>2, <2>1, StageMoves, ClosedStays
<1>3. CASE UNCHANGED vars
  BY <1>3, StutterOrderly
<1>4. CASE Next
  <2>1. ~overlap' => Closed' \/ (owner' \in Client /\ Named' /\ Stage')
    BY <1>1, <1>2, <1>4 DEF Next
  <2> QED BY <2>1 DEF Orderly
<1> QED BY <1>3, <1>4

\* The inductive invariant of a room whose changes do not overlap: what is on
\* its way completes the one change that is under way, from the first member_key,
\* kick, transfer or leave to the last rekey and roster frame.
THEOREM ChangesComplete == Spec => []Orderly
<1>1. Init => Inv /\ Orderly
  BY InitInv, InitOrderly
<1>2. (Inv /\ Orderly) /\ [Next]_vars => (Inv /\ Orderly)'
  BY NextInv, NextOrderly
<1>3. QED BY <1>1, <1>2, PTL DEF Spec

\* A settled room whose changes did not overlap agrees on its newest key: every
\* member encrypts with the key the owner's rotateForJoin or rotateForLeave
\* generated last, for any number of members and any history of changes.
THEOREM SettledRoomsAgree == Spec => []SettledAgreement
<1>1. Inv /\ Orderly => SettledAgreement
  BY SettledGoals
<1>2. QED BY <1>1, RotationInvariant, ChangesComplete, PTL

\* A settled room whose changes did not overlap has rotated past everybody who
\* left or was kicked: onPresence of the owner noticed each departure, and the
\* key it encrypts with was never sealed to a browser that is gone.
THEOREM SettledRoomsRotated == Spec => []SettledForwardSecrecy
<1>1. Inv /\ Orderly => SettledForwardSecrecy
  BY SettledGoals
<1>2. QED BY <1>1, RotationInvariant, ChangesComplete, PTL

\* In a settled room whose changes did not overlap every member can take over:
\* the rosters the owner broadcast gave each the public key of every other, so
\* that a new owner's rekeyMember can seal to all of them.
THEOREM SettledRoomsKnow == Spec => []SettledRoster
<1>1. Inv /\ Orderly => SettledRoster
  BY SettledGoals
<1>2. QED BY <1>1, RotationInvariant, ChangesComplete, PTL

=============================================================================
