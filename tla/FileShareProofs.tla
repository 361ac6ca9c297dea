-------------------------- MODULE FileShareProofs --------------------------
(***************************************************************************)
(* Proofs about FileShare: a receiver shows a file exactly when it opened  *)
(* every chunk of it, and a transfer uses one key epoch, for any number of *)
(* receivers, files, chunks and rotations.                                 *)
(*                                                                         *)
(* The first rests on a file_start being the first frame of its transfer   *)
(* and the only one of its kind; the second on keys never coming back:     *)
(* what pushKey or teardown wiped is older than every key pushed later.    *)
(***************************************************************************)
EXTENDS FileShare, SequenceTheorems, TLAPS

FrameSet == [t : {"file_start", "file_chunk", "file_end", "file_abort"}, x : Transfer,
             i : Nat, kid : Nat \cup {None}, seal : Nat \cup {None}]

\* A frame with content comes from an upload that has begun, and is sealed with
\* its key or with what the wipe left of it.
Sealed(f) ==
  f.t \in {"file_start", "file_chunk"} =>
    /\ upload[f.x].pc \in {"loop", "done"}
    /\ \/ f.seal = upload[f.x].key
       \/ f.seal = Zero /\ upload[f.x].key \notin Held(Sender)
Good == {f \in FrameSet : Sealed(f)}

TypeOK ==
  /\ place \in {"room", "none", "other"} /\ keys \in [Browser -> Seq(Nat)]
  /\ staged \in Transfer \cup {None}
  /\ upload \in [Transfer -> [pc : {"idle", "read", "loop", "done"},
                              key : Nat \cup {None}, i : Nat]]
  /\ incoming \in [Receiver -> [Transfer -> Nat \cup {None}]]
  /\ got \in [Receiver -> [Transfer -> SUBSET Nat]]
  /\ shown \in [Browser -> [Transfer -> {"none", "progress", "done", "failed"}]]

DownOK == down = [r \in Receiver |-> down[r]] /\ \A r \in Receiver : down[r] \in Seq(Good)

\* The sender's keys and the keys of its uploads: none of these is newer than
\* what the sender holds in this room, or holds when it comes to another one.
Epochs ==
  /\ place = "room" => keys[Sender] # <<>> /\ Head(keys[Sender]) <= MaxKey
  /\ place = "none" => keys[Sender] = <<>>
  /\ place = "other" => keys[Sender] = <<Foreign>>
  /\ \A x \in Transfer :
       /\ staged = x => upload[x].pc = "idle" /\ place = "room"
       /\ upload[x].pc # "idle" =>
            /\ upload[x].key \in Nat /\ upload[x].key <= MaxKey
            /\ place = "room" => upload[x].key <= Head(keys[Sender])

\* Until its file_start is handled a receiver knows nothing of a transfer, and
\* there is one file_start.
StartOf(r, x) == {n \in DOMAIN down[r] : down[r][n].t = "file_start" /\ down[r][n].x = x}
Fresh(r, x) == incoming[r][x] = None /\ got[r][x] = {}
StartsOnce ==
  \A r \in Receiver, x \in Transfer :
    /\ upload[x].pc \in {"idle", "read"} \/ StartOf(r, x) # {} => Fresh(r, x)
    /\ \A m, n \in StartOf(r, x) : m = n

Showing == \A r \in Receiver, x \in Transfer : incoming[r][x] # None => shown[r][x] = "progress"

Inv == TypeOK /\ DownOK /\ Epochs /\ StartsOnce /\ Showing /\ WholeOrNothing

-----------------------------------------------------------------------------
(* Queues. *)

\* An upload that has begun keeps its key, and a wiped key does not come back.
Grows ==
  \A x \in Transfer : upload[x].pc \in {"loop", "done"} =>
    /\ upload'[x].pc \in {"loop", "done"} /\ upload'[x].key = upload[x].key
    /\ upload[x].key \notin Held(Sender) => upload[x].key \notin Held(Sender)'

LEMMA GoodStays ==
  ASSUME Grows
  PROVE  Good \subseteq Good'
<1> SUFFICES ASSUME NEW f \in FrameSet, Sealed(f) PROVE Sealed(f)'
  BY DEF Good, FrameSet
<1>1. f.x \in Transfer
  BY DEF FrameSet
<1>2. QED BY <1>1 DEF Grows, Sealed

LEMMA QueuesStay ==
  ASSUME Grows, DownOK, NEW r \in Receiver
  PROVE  down[r] \in Seq(Good')
  BY GoodStays, SeqMonotonic DEF DownOK

LEMMA DownStays ==
  ASSUME Grows, DownOK, UNCHANGED down
  PROVE  DownOK' /\ \A r \in Receiver, x \in Transfer : StartOf(r, x)' = StartOf(r, x)
  BY QueuesStay DEF DownOK, StartOf

\* A receiver took a frame: a file_start is gone with it.
LEMMA HandledMoves ==
  ASSUME Grows, DownOK, StartsOnce, NEW r \in Receiver, down[r] # <<>>, Handled(r)
  PROVE  /\ DownOK'
         /\ \A s \in Receiver, x \in Transfer :
              /\ StartOf(s, x)' # {} => StartOf(s, x) # {}
              /\ s = r /\ Head(down[r]).t = "file_start" /\ Head(down[r]).x = x =>
                   StartOf(s, x)' = {}
              /\ \A m, n \in StartOf(s, x)' : m = n
<1>1. \A s \in Receiver : down'[s] = IF s = r THEN Tail(down[r]) ELSE down[s]
  BY DEF Handled, DownOK
<1>2. down' = [s \in Receiver |-> down'[s]]
  BY DEF Handled, DownOK
<1>3. down[r] \in Seq(Good) /\ down[r] \in Seq(Good')
  BY QueuesStay DEF DownOK
<1>4. /\ Tail(down[r]) \in Seq(Good') /\ Len(Tail(down[r])) = Len(down[r]) - 1
      /\ \A n \in 1 .. Len(down[r]) - 1 : Tail(down[r])[n] = down[r][n + 1]
      /\ Head(down[r]) = down[r][1] /\ Len(down[r]) \in Nat \ {0}
  BY <1>3, HeadTailProperties, EmptySeq
<1>5. DownOK'
  BY <1>1, <1>2, <1>4, QueuesStay DEF DownOK
<1>6. ASSUME NEW s \in Receiver, NEW x \in Transfer
      PROVE  /\ StartOf(s, x)' # {} => StartOf(s, x) # {}
             /\ s = r /\ Head(down[r]).t = "file_start" /\ Head(down[r]).x = x =>
                  StartOf(s, x)' = {}
             /\ \A m, n \in StartOf(s, x)' : m = n
  <2>1. \A m, n \in StartOf(s, x) : m = n
    BY DEF StartsOnce
  <2>2. CASE s # r
    <3>1. StartOf(s, x)' = StartOf(s, x)
      BY <1>1, <2>2 DEF StartOf
    <3>2. QED BY <2>1, <2>2, <3>1
  <2>3. CASE s = r
    <3>1. DOMAIN down[r] = 1 .. Len(down[r]) /\ DOMAIN down'[r] = 1 .. Len(down[r]) - 1
      <4>1. down'[r] = Tail(down[r]) /\ Len(down[r]) - 1 \in Nat
        BY <1>1, <1>4
      <4>2. DOMAIN Tail(down[r]) = 1 .. Len(Tail(down[r])) /\ DOMAIN down[r] = 1 .. Len(down[r])
        BY <1>3, <1>4, LenProperties
      <4>3. QED BY <1>4, <4>1, <4>2
    <3>2. ASSUME NEW n \in StartOf(r, x)'
          PROVE  n \in Nat \ {0} /\ n + 1 \in StartOf(r, x)
      <4>1. n \in DOMAIN down'[r] /\ down'[r][n].t = "file_start" /\ down'[r][n].x = x
        BY DEF StartOf
      <4>2. n \in Nat \ {0} /\ n + 1 \in 1 .. Len(down[r]) /\ n \in 1 .. Len(down[r]) - 1
        BY <1>4, <3>1, <4>1
      <4>3. down'[r][n] = down[r][n + 1]
        BY <1>1, <1>4, <4>2
      <4>4. QED BY <3>1, <4>1, <4>2, <4>3 DEF StartOf
    <3>3. Head(down[r]).t = "file_start" /\ Head(down[r]).x = x => 1 \in StartOf(r, x)
      BY <1>4, <3>1 DEF StartOf
    <3>4. \A m, n \in StartOf(r, x)' : m = n
      BY <2>1, <2>3, <3>2
    <3>5. 1 \in StartOf(r, x) => StartOf(r, x)' = {}
      BY <2>1, <2>3, <3>2
    <3>6. QED BY <2>3, <3>2, <3>3, <3>4, <3>5
  <2>4. QED BY <2>2, <2>3
<1>7. QED BY <1>5, <1>6

\* The relay passed the frames s on.
LEMMA PassedMoves ==
  ASSUME Grows, DownOK, NEW s \in Seq(Good'),
         down' = [r \in Receiver |-> down[r] \o s]
  PROVE  /\ DownOK'
         /\ \A r \in Receiver, x \in Transfer : \A n \in StartOf(r, x)' :
              \/ n \in StartOf(r, x)
              \/ /\ n - Len(down[r]) \in 1 .. Len(s)
                 /\ s[n - Len(down[r])].t = "file_start" /\ s[n - Len(down[r])].x = x
<1>1. ASSUME NEW r \in Receiver
      PROVE  /\ down[r] \in Seq(Good') /\ down'[r] \in Seq(Good')
             /\ Len(down[r]) \in Nat /\ Len(s) \in Nat
             /\ DOMAIN down'[r] = 1 .. Len(down[r]) + Len(s) /\ DOMAIN down[r] = 1 .. Len(down[r])
             /\ \A n \in 1 .. Len(down[r]) + Len(s) :
                  down'[r][n] = IF n <= Len(down[r]) THEN down[r][n] ELSE s[n - Len(down[r])]
  <2>1. down[r] \in Seq(Good')
    BY QueuesStay
  <2>2. down'[r] = down[r] \o s
    OBVIOUS
  <2>3. QED BY <2>1, <2>2, ConcatProperties, LenProperties
<1>2. DownOK'
  <2>1. down' = [r \in Receiver |-> down'[r]]
    OBVIOUS
  <2>2. QED BY <1>1, <2>1 DEF DownOK
<1>3. ASSUME NEW r \in Receiver, NEW x \in Transfer, NEW n \in StartOf(r, x)'
      PROVE  \/ n \in StartOf(r, x)
             \/ /\ n - Len(down[r]) \in 1 .. Len(s)
                /\ s[n - Len(down[r])].t = "file_start" /\ s[n - Len(down[r])].x = x
  BY <1>1 DEF StartOf
<1>4. QED BY <1>2, <1>3

-----------------------------------------------------------------------------
(* The room around the transfer. *)

\* A step of the sender's side that tells no receiver anything.
LEMMA SenderInv ==
  ASSUME Inv, Grows, TypeOK', Epochs', DownOK', UNCHANGED <<incoming, got>>,
         \A r \in Receiver : shown'[r] = shown[r],
         \A r \in Receiver, x \in Transfer :
           /\ \A m, n \in StartOf(r, x)' : m = n
           /\ upload'[x].pc \in {"idle", "read"} \/ StartOf(r, x)' # {} =>
                upload[x].pc \in {"idle", "read"} \/ StartOf(r, x) # {}
  PROVE  Inv'
<1>1. StartsOnce'
  BY DEF Inv, StartsOnce, Fresh
<1>2. Showing' /\ WholeOrNothing'
  BY DEF Inv, Showing, WholeOrNothing
<1>3. QED BY <1>1, <1>2 DEF Inv

\* What pushKey keeps: the new key, and keys that were held.
Pushed(k, s) ==
  SubSeq(<<k>> \o s, 1, IF Len(s) < MaxKeptKeys THEN Len(s) + 1 ELSE MaxKeptKeys)
LEMMA PushedKeys ==
  ASSUME NEW k \in Nat, NEW s \in Seq(Nat)
  PROVE  /\ Pushed(k, s) \in Seq(Nat) /\ Pushed(k, s) # <<>> /\ Head(Pushed(k, s)) = k
         /\ Range(Pushed(k, s)) \subseteq Range(s) \cup {k}
<1> DEFINE t == Pushed(k, s)
           u == <<k>> \o s
           n == IF Len(s) < MaxKeptKeys THEN Len(s) + 1 ELSE MaxKeptKeys
<1>1. <<k>> \in Seq(Nat) /\ Len(<<k>>) = 1 /\ <<k>>[1] = k
  OBVIOUS
<1>2. /\ u \in Seq(Nat) /\ Len(u) = 1 + Len(s) /\ Len(s) \in Nat
      /\ \A i \in 1 .. 1 + Len(s) : u[i] = IF i <= 1 THEN k ELSE s[i - 1]
  <2>1. /\ u \in Seq(Nat) /\ Len(u) = Len(<<k>>) + Len(s)
        /\ \A i \in 1 .. Len(<<k>>) + Len(s) :
             u[i] = IF i <= Len(<<k>>) THEN <<k>>[i] ELSE s[i - Len(<<k>>)]
    BY <1>1, ConcatProperties
  <2>2. QED BY <1>1, <2>1
<1>3. n \in Nat /\ 1 <= n /\ n <= Len(u)
  BY <1>2, CountsAssumption
<1>4. t = SubSeq(u, 1, n)
  BY DEF Pushed
<1> HIDE DEF t, u, n
<1>5. /\ t \in Seq(Nat) /\ Len(t) = n
      /\ \A i \in 1 .. n : t[i] = u[i]
  <2>1. \A i \in 1 .. n : u[i] \in Nat
    BY <1>2, <1>3, ElementOfSeq
  <2>2. 1 \in Int /\ n \in Int /\ n - 1 + 1 = n /\ \A i \in 1 .. n : 1 + i - 1 = i
    BY <1>3
  <2>3. SubSeq(u, 1, n) \in Seq(Nat) /\ Len(SubSeq(u, 1, n)) = n
    BY <1>2, <1>3, <2>1, SubSeqProperties
  <2>4. \A i \in 1 .. n : SubSeq(u, 1, n)[i] = u[i]
    BY <1>2, <1>3, <2>1, SubSeqProperties
  <2>5. QED BY <1>4, <2>3, <2>4
<1>6. t # <<>> /\ Head(t) = k
  BY <1>2, <1>3, <1>5, HeadTailProperties
<1>7. Range(t) \subseteq Range(s) \cup {k}
  <2> SUFFICES ASSUME NEW i \in DOMAIN t PROVE t[i] \in Range(s) \cup {k}
    BY DEF Range
  <2>1. i \in 1 .. n /\ i \in 1 .. 1 + Len(s)
    BY <1>2, <1>3, <1>5
  <2>2. CASE i = 1
    BY <1>2, <1>5, <2>1, <2>2
  <2>3. CASE i # 1
    <3>1. t[i] = s[i - 1] /\ i - 1 \in DOMAIN s
      <4>1. i \in Nat /\ ~(i <= 1) /\ i - 1 \in 1 .. Len(s)
        BY <1>2, <2>1, <2>3
      <4>2. DOMAIN s = 1 .. Len(s)
        BY LenProperties
      <4>3. QED BY <1>2, <1>5, <2>1, <4>1, <4>2
    <3>2. QED BY <3>1 DEF Range
  <2>4. QED BY <2>2, <2>3
<1>8. QED BY <1>5, <1>6, <1>7 DEF t

LEMMA PushKeyInv ==
  ASSUME Inv, NEW b \in Browser, PushKey(b)
  PROVE  Inv'
<1> USE DEF Inv
<1> DEFINE h == Head(keys[b])
           t == Pushed(h + 1, keys[b])
<1>1. /\ keys[b] # <<>> /\ h < MaxKey /\ keys' = [keys EXCEPT ![b] = t]
      /\ UNCHANGED <<place, staged, upload, relay, down, notices, incoming, got, shown>>
  BY DEF PushKey, Pushed
<1>2. keys[b] \in Seq(Nat) /\ h \in Nat /\ h + 1 \in Nat /\ MaxKey \in Nat
  BY <1>1, HeadTailProperties, CountsAssumption DEF TypeOK
<1>3. t \in Seq(Nat) /\ t # <<>> /\ Head(t) = h + 1 /\ Range(t) \subseteq Range(keys[b]) \cup {h + 1}
  BY <1>2, PushedKeys
<1> HIDE DEF t
<1>4. \A d \in Browser : keys'[d] = IF d = b THEN t ELSE keys[d]
  BY <1>1 DEF TypeOK
<1>5. TypeOK'
  <2>1. keys' \in [Browser -> Seq(Nat)]
    BY <1>1, <1>3 DEF TypeOK
  <2>2. QED BY <1>1, <2>1 DEF TypeOK
<1>6. Sender \in Browser
  BY DEF Browser
<1>7. b = Sender => place = "room"
  BY <1>1, <1>2 DEF Epochs, TypeOK, Foreign
<1>8. Grows
  <2> SUFFICES ASSUME NEW x \in Transfer, upload[x].pc \in {"loop", "done"},
                      upload[x].key \notin Range(keys[Sender])
               PROVE  upload[x].key \notin Range(keys'[Sender])
    BY <1>1 DEF Grows, Held
  <2>1. CASE b = Sender
    <3>1. upload[x].key \in Nat /\ upload[x].key <= h
      BY <1>7, <2>1 DEF Epochs
    <3>2. upload[x].key # h + 1
      BY <1>2, <3>1
    <3>3. QED BY <1>3, <1>4, <1>6, <2>1, <3>2
  <2>2. CASE b # Sender
    BY <1>4, <1>6, <2>2
  <2>3. QED BY <2>1, <2>2
<1>9. DownOK' /\ \A r \in Receiver, x \in Transfer : StartOf(r, x)' = StartOf(r, x)
  BY <1>1, <1>8, DownStays
<1>10. Epochs'
  <2>1. CASE b = Sender
    <3>1. keys'[Sender] = t /\ place = "room" /\ place' = "room" /\ h + 1 <= MaxKey
      BY <1>1, <1>2, <1>4, <1>7, <2>1
    <3>2. \A x \in Transfer : upload[x].pc # "idle" =>
             upload[x].key \in Nat /\ upload[x].key <= MaxKey /\ upload[x].key <= h + 1
      <4>1. \A x \in Transfer : upload[x].pc # "idle" =>
               upload[x].key \in Nat /\ upload[x].key <= MaxKey /\ upload[x].key <= h
        BY <2>1, <3>1 DEF Epochs
      <4>2. \A k \in Nat : k <= h => k <= h + 1
        BY <1>2
      <4>3. QED BY <4>1, <4>2
    <3>3. QED BY <1>1, <1>3, <3>1, <3>2 DEF Epochs
  <2>2. CASE b # Sender
    <3>1. keys'[Sender] = keys[Sender]
      BY <1>4, <1>6, <2>2
    <3>2. QED BY <1>1, <3>1 DEF Epochs
  <2>3. QED BY <2>1, <2>2
<1>11. QED BY <1>1, <1>5, <1>8, <1>9, <1>10, SenderInv DEF StartsOnce

LEMMA LeaveInv ==
  ASSUME Inv, Leave
  PROVE  Inv'
<1> USE DEF Inv
<1>1. /\ place' = "none" /\ keys' = [keys EXCEPT ![Sender] = <<>>] /\ staged' = None
      /\ shown' = [shown EXCEPT ![Sender] = [x \in Transfer |-> "none"]]
      /\ UNCHANGED <<upload, relay, down, incoming, got>>
  BY DEF Leave
<1>2. Sender \in Browser /\ Receiver \subseteq Browser
  BY DEF Browser
<1>3. keys' \in [Browser -> Seq(Nat)] /\ keys'[Sender] = <<>>
  BY <1>1, <1>2, EmptySeq DEF TypeOK
<1>4. TypeOK'
  BY <1>1, <1>2, <1>3 DEF TypeOK
<1>5. Epochs'
  BY <1>1, <1>3, NoneAssumption DEF Epochs
<1>6. Grows
  BY <1>1, <1>3 DEF Grows, Held, Range
<1>7. DownOK' /\ \A r \in Receiver, x \in Transfer : StartOf(r, x)' = StartOf(r, x)
  BY <1>1, <1>6, DownStays
<1>8. \A r \in Receiver : shown'[r] = shown[r]
  BY <1>1, <1>2, SenderAssumption DEF TypeOK
<1>9. QED BY <1>1, <1>4, <1>5, <1>6, <1>7, <1>8, SenderInv DEF StartsOnce

LEMMA RejoinInv ==
  ASSUME Inv, Rejoin
  PROVE  Inv'
<1> USE DEF Inv
<1>1. /\ place = "none" /\ place' = "other" /\ keys' = [keys EXCEPT ![Sender] = <<Foreign>>]
      /\ UNCHANGED <<staged, upload, relay, down, notices, incoming, got, shown>>
  BY DEF Rejoin
<1>2. Sender \in Browser /\ Foreign \in Nat /\ Foreign > MaxKey /\ MaxKey \in Nat
  BY CountsAssumption DEF Browser, Foreign
<1>3. <<Foreign>> \in Seq(Nat) /\ Range(<<Foreign>>) = {Foreign}
  BY <1>2 DEF Range
<1>4. keys' \in [Browser -> Seq(Nat)] /\ keys'[Sender] = <<Foreign>>
  BY <1>1, <1>2, <1>3 DEF TypeOK
<1>5. TypeOK'
  BY <1>1, <1>4 DEF TypeOK
<1>6. Epochs'
  BY <1>1, <1>4 DEF Epochs
<1>7. Grows
  <2> SUFFICES ASSUME NEW x \in Transfer, upload[x].pc \in {"loop", "done"}
               PROVE  upload[x].key \notin Range(keys'[Sender])
    BY <1>1 DEF Grows, Held
  <2>1. upload[x].key \in Nat /\ upload[x].key <= MaxKey
    BY DEF Epochs
  <2>2. upload[x].key # Foreign
    BY <1>2, <2>1
  <2>3. QED BY <1>3, <1>4, <2>2
<1>8. DownOK' /\ \A r \in Receiver, x \in Transfer : StartOf(r, x)' = StartOf(r, x)
  BY <1>1, <1>7, DownStays
<1>9. QED BY <1>1, <1>5, <1>6, <1>7, <1>8, SenderInv DEF StartsOnce

-----------------------------------------------------------------------------
(* The sender. *)

\* Before an upload sends anything, no queue holds a frame of it with content.
LEMMA NoStartYet ==
  ASSUME DownOK, NEW r \in Receiver, NEW x \in Transfer, upload[x].pc \notin {"loop", "done"}
  PROVE  StartOf(r, x) = {}
<1> SUFFICES ASSUME NEW n \in StartOf(r, x) PROVE FALSE
  OBVIOUS
<1>1. down[r] \in Seq(Good) /\ n \in DOMAIN down[r]
  BY DEF DownOK, StartOf
<1>2. n \in 1 .. Len(down[r])
  BY <1>1, LenProperties
<1>3. down[r][n] \in Good
  BY <1>1, <1>2, ElementOfSeq
<1>4. QED BY <1>3 DEF Good, Sealed, StartOf

\* What sendFile sends: the file_start, which comes before everything else, and
\* frames of other kinds.
LEMMA UploadInv ==
  ASSUME Inv, Grows, TypeOK', Epochs', NEW x \in Transfer, NEW live \in BOOLEAN,
         NEW first \in Seq(Good'), NEW f \in Good', f.t # "file_start",
         \/ first = <<>>
         \/ /\ upload[x].pc = "read" /\ Len(first) = 1
            /\ first[1].t = "file_start" /\ first[1].x = x,
         down' = [r \in Receiver |-> IF live THEN down[r] \o first \o <<f>> ELSE down[r]],
         \A y \in Transfer : upload'[y].pc \in {"idle", "read"} =>
                               upload[y].pc \in {"idle", "read"},
         UNCHANGED <<incoming, got>>, \A r \in Receiver : shown'[r] = shown[r]
  PROVE  Inv'
<1> USE DEF Inv
<1>1. CASE ~live
  <2>1. UNCHANGED down
    BY <1>1 DEF DownOK
  <2>2. DownOK' /\ \A r \in Receiver, y \in Transfer : StartOf(r, y)' = StartOf(r, y)
    BY <2>1, DownStays
  <2>3. QED BY <2>2, SenderInv DEF StartsOnce
<1>2. CASE live
  <2> DEFINE s == first \o <<f>>
  <2>1. <<f>> \in Seq(Good') /\ Len(<<f>>) = 1 /\ <<f>>[1] = f
    OBVIOUS
  <2>2. /\ s \in Seq(Good') /\ Len(s) = Len(first) + 1 /\ Len(first) \in Nat
        /\ \A i \in 1 .. Len(s) : s[i] = IF i <= Len(first) THEN first[i] ELSE f
    <3>1. /\ s \in Seq(Good') /\ Len(s) = Len(first) + Len(<<f>>)
          /\ \A i \in 1 .. Len(first) + Len(<<f>>) :
               s[i] = IF i <= Len(first) THEN first[i] ELSE <<f>>[i - Len(first)]
      BY <2>1, ConcatProperties
    <3>2. Len(first) \in Nat
      OBVIOUS
    <3>3. \A i \in 1 .. Len(first) + 1 : ~(i <= Len(first)) => i - Len(first) = 1
      BY <3>2
    <3>4. QED BY <2>1, <3>1, <3>2, <3>3
  <2>3. \A r \in Receiver : down[r] \o first \o <<f>> = down[r] \o s
    <3> SUFFICES ASSUME NEW r \in Receiver
                 PROVE  (down[r] \o first) \o <<f>> = down[r] \o (first \o <<f>>)
      OBVIOUS
    <3>1. down[r] \in Seq(Good')
      BY QueuesStay
    <3> DEFINE a == down[r]
               c == <<f>>
               S == Good'
    <3>2. a \in Seq(S) /\ first \in Seq(S) /\ c \in Seq(S)
      BY <2>1, <3>1
    <3> HIDE DEF a, c, S
    <3>3. (a \o first) \o c = a \o (first \o c)
      BY <3>2, ConcatAssociative
    <3>4. QED BY <3>3 DEF a, c
  <2>4. down' = [r \in Receiver |-> down[r] \o s]
    BY <1>2, <2>3
  <2> HIDE DEF s
  <2>5. \A i \in 1 .. Len(s) : s[i].t = "file_start" =>
          i = 1 /\ upload[x].pc = "read" /\ s[i].x = x
    <3>1. CASE first = <<>>
      <4>1. Len(first) = 0
        BY <3>1
      <4>2. \A i \in 1 .. Len(s) : s[i] = f
        BY <2>2, <4>1
      <4>3. QED BY <4>2
    <3>2. CASE /\ upload[x].pc = "read" /\ Len(first) = 1
               /\ first[1].t = "file_start" /\ first[1].x = x
      BY <2>2, <3>2
    <3>3. QED BY <3>1, <3>2
  <2>6. /\ DownOK'
        /\ \A r \in Receiver, y \in Transfer : \A n \in StartOf(r, y)' :
             \/ n \in StartOf(r, y)
             \/ /\ n - Len(down[r]) \in 1 .. Len(s)
                /\ s[n - Len(down[r])].t = "file_start" /\ s[n - Len(down[r])].x = y
    BY <2>2, <2>4, PassedMoves
  <2>7. ASSUME NEW r \in Receiver, NEW y \in Transfer
        PROVE  /\ \A m, n \in StartOf(r, y)' : m = n
               /\ StartOf(r, y)' # {} =>
                    upload[y].pc \in {"idle", "read"} \/ StartOf(r, y) # {}
    <3>1. CASE y = x /\ upload[x].pc = "read"
      <4>1. StartOf(r, y) = {}
        BY <3>1, NoStartYet
      <4>2. \A n \in StartOf(r, y)' : n - Len(down[r]) = 1 /\ n \in Nat
        BY <2>5, <2>6, <4>1 DEF StartOf, DownOK
      <4>3. Len(down[r]) \in Nat
        BY DEF DownOK
      <4>4. \A m, n \in StartOf(r, y)' : m = n
        BY <4>2, <4>3
      <4>5. QED BY <3>1, <4>4
    <3>2. CASE ~(y = x /\ upload[x].pc = "read")
      <4>1. \A n \in StartOf(r, y)' : n \in StartOf(r, y)
        BY <2>5, <2>6, <3>2
      <4>2. QED BY <4>1 DEF StartsOnce
    <3>3. QED BY <3>1, <3>2
  <2>8. QED BY <2>6, <2>7, SenderInv
<1>3. QED BY <1>1, <1>2

\* An upload that goes on keeps its key.
LEMMA UploadMoves ==
  ASSUME Inv, NEW x \in Transfer, upload[x].pc \in {"read", "loop"},
         NEW u \in [pc : {"loop", "done"}, key : Nat \cup {None}, i : Nat],
         u.key = upload[x].key, upload' = [upload EXCEPT ![x] = u],
         UNCHANGED <<place, keys, staged>>
  PROVE  /\ Grows /\ Epochs'
         /\ upload' \in [Transfer -> [pc : {"idle", "read", "loop", "done"},
                                      key : Nat \cup {None}, i : Nat]]
         /\ \A y \in Transfer : upload'[y].pc \in {"idle", "read"} =>
                                  upload[y].pc \in {"idle", "read"}
<1> USE DEF Inv
<1>1. \A y \in Transfer : upload'[y] = IF y = x THEN u ELSE upload[y]
  BY DEF TypeOK
<1>2. Grows
  BY <1>1 DEF Grows, Held
<1>3. \A y \in Transfer : /\ upload'[y].key = upload[y].key
                          /\ upload'[y].pc = "idle" <=> upload[y].pc = "idle"
                          /\ staged = y => upload[y].pc = "idle"
  BY <1>1 DEF Epochs
<1>4. Epochs'
  BY <1>3 DEF Epochs
<1>5. upload' \in [Transfer -> [pc : {"idle", "read", "loop", "done"},
                                key : Nat \cup {None}, i : Nat]]
  <2>1. u \in [pc : {"idle", "read", "loop", "done"}, key : Nat \cup {None}, i : Nat]
    OBVIOUS
  <2>2. QED BY <2>1 DEF TypeOK
<1>6. QED BY <1>1, <1>2, <1>4, <1>5

\* The frames of an upload.
LEMMA UploadFrames ==
  ASSUME Inv, NEW x \in Transfer, upload'[x].pc \in {"loop", "done"},
         upload'[x].key = upload[x].key, UNCHANGED keys
  PROVE  /\ Start(x) \in Good' /\ Chunk(x) \in Good'
         /\ \A t \in {"file_end", "file_abort"} : Note(t, x) \in Good'
<1> USE DEF Inv
<1> DEFINE k == upload[x].key
           z == SealBytes(x)
<1>1. k \in Nat \cup {None} /\ upload[x].i \in Nat
  BY DEF TypeOK
<1>2. z \in Nat \cup {None} /\ (z = k \/ (z = Zero /\ k \notin Held(Sender)))
  BY <1>1 DEF SealBytes, Content, Zero
<1> HIDE DEF z
<1>3. Start(x) = [t |-> "file_start", x |-> x, i |-> 0, kid |-> k, seal |-> z]
  BY DEF Start, z
<1>4. Chunk(x) = [t |-> "file_chunk", x |-> x, i |-> upload[x].i, kid |-> None, seal |-> z]
  BY DEF Chunk, z
<1>5. Start(x) \in FrameSet /\ Chunk(x) \in FrameSet
  BY <1>1, <1>2, <1>3, <1>4 DEF FrameSet
<1>6. ASSUME NEW f \in FrameSet, f.x = x, f.seal = z PROVE f \in Good'
  <2>1. upload'[f.x].pc \in {"loop", "done"} /\ upload'[f.x].key = k
    BY <1>6
  <2>2. Held(Sender)' = Held(Sender)
    BY DEF Held
  <2>3. Sealed(f)'
    BY <1>2, <1>6, <2>1, <2>2 DEF Sealed
  <2>4. QED BY <2>3 DEF Good, FrameSet
<1>7. \A t \in {"file_end", "file_abort"} : Note(t, x) \in Good'
  BY DEF Note, Good, Sealed, FrameSet
<1>8. Start(x).x = x /\ Start(x).seal = z /\ Chunk(x).x = x /\ Chunk(x).seal = z
  BY <1>3, <1>4
<1>9. QED BY <1>5, <1>6, <1>7, <1>8

\* The sender's own message of the file is none of the receivers'.
LEMMA OwnMessage ==
  ASSUME TypeOK, NEW x \in Transfer, NEW w \in {"none", "progress", "done", "failed"},
         shown' = [shown EXCEPT ![Sender][x] = w]
  PROVE  /\ shown' \in [Browser -> [Transfer -> {"none", "progress", "done", "failed"}]]
         /\ \A r \in Receiver : shown'[r] = shown[r]
<1> DEFINE row == [shown[Sender] EXCEPT ![x] = w]
<1>1. Sender \in Browser /\ Receiver \subseteq Browser /\ \A r \in Receiver : r # Sender
  BY SenderAssumption DEF Browser
<1>2. row \in [Transfer -> {"none", "progress", "done", "failed"}]
  BY <1>1 DEF TypeOK
<1>3. shown' = [shown EXCEPT ![Sender] = row]
  OBVIOUS
<1> HIDE DEF row
<1>4. shown \in [Browser -> [Transfer -> {"none", "progress", "done", "failed"}]]
  BY DEF TypeOK
<1>5. \A b \in Browser : shown'[b] = IF b = Sender THEN row ELSE shown[b]
  BY <1>3, <1>4
<1>6. shown' = [b \in Browser |-> shown'[b]]
  BY <1>3, <1>4
<1>7. \A b \in Browser : shown'[b] \in [Transfer -> {"none", "progress", "done", "failed"}]
  BY <1>2, <1>4, <1>5
<1>8. shown' \in [Browser -> [Transfer -> {"none", "progress", "done", "failed"}]]
  BY <1>6, <1>7
<1>9. \A r \in Receiver : shown'[r] = shown[r]
  BY <1>1, <1>5
<1>10. QED BY <1>8, <1>9

\* Begin and NextChunk: the chunk, or what the relay makes of it.
LEMMA SendsInv ==
  ASSUME Inv, NEW x \in Transfer, NEW reject \in BOOLEAN, Begin(x, reject) \/ NextChunk(x, reject)
  PROVE  Inv'
<1> USE DEF Inv
<1> DEFINE u == [upload[x] EXCEPT !.pc = "loop",
                                  !.i = IF upload[x].pc = "read" THEN 1 ELSE upload[x].i + 1]
           first == IF upload[x].pc = "read" THEN <<Start(x)>> ELSE <<>>
           live == place = "room" /\ (first # <<>> \/ relay[x] = "running")
           f == IF reject THEN Note("file_abort", x) ELSE Chunk(x)
<1>1. /\ upload[x].pc \in {"read", "loop"} /\ upload' = [upload EXCEPT ![x] = u]
      /\ Sends(x, first, reject) /\ UNCHANGED <<place, keys, staged, incoming, got>>
  <2>1. CASE Begin(x, reject)
    <3>1. upload[x].pc = "read" /\ upload' = [upload EXCEPT ![x].pc = "loop", ![x].i = 1]
      BY <2>1 DEF Begin
    <3>2. upload' = [upload EXCEPT ![x] = u]
      BY <3>1 DEF TypeOK
    <3>3. QED BY <2>1, <3>1, <3>2 DEF Begin
  <2>2. CASE NextChunk(x, reject)
    <3>1. upload[x].pc = "loop" /\ upload' = [upload EXCEPT ![x].i = upload[x].i + 1]
      BY <2>2 DEF NextChunk
    <3>2. upload' = [upload EXCEPT ![x] = u]
      BY <3>1 DEF TypeOK
    <3>3. QED BY <2>2, <3>1, <3>2 DEF NextChunk
  <2>3. QED BY <2>1, <2>2
<1>2. /\ u \in [pc : {"loop", "done"}, key : Nat \cup {None}, i : Nat] /\ u.key = upload[x].key
      /\ u.pc = "loop"
  <2> DEFINE j == IF upload[x].pc = "read" THEN 1 ELSE upload[x].i + 1
             v == upload[x]
  <2>1. v \in [pc : {"idle", "read", "loop", "done"}, key : Nat \cup {None}, i : Nat]
    BY DEF TypeOK
  <2>2. j \in Nat
    BY <2>1
  <2>3. u = [v EXCEPT !.pc = "loop", !.i = j]
    OBVIOUS
  <2> HIDE DEF j, u, v
  <2>4. u.key = v.key /\ u.pc = "loop" /\ u.i = j /\ u = [pc |-> u.pc, key |-> u.key, i |-> u.i]
    BY <2>1, <2>3
  <2>5. v.key \in Nat \cup {None}
    BY <2>1
  <2>6. QED BY <2>2, <2>4, <2>5 DEF v
<1> HIDE DEF u
<1>3. /\ Grows /\ Epochs'
      /\ upload' \in [Transfer -> [pc : {"idle", "read", "loop", "done"},
                                   key : Nat \cup {None}, i : Nat]]
      /\ \A y \in Transfer : upload'[y].pc \in {"idle", "read"} =>
                               upload[y].pc \in {"idle", "read"}
  BY <1>1, <1>2, UploadMoves
<1>4. upload'[x].pc = "loop" /\ upload'[x].key = upload[x].key
  BY <1>1, <1>2 DEF TypeOK
<1>5. Start(x) \in Good' /\ f \in Good' /\ f.t # "file_start"
  BY <1>1, <1>4, UploadFrames DEF Note, Chunk
<1>6. /\ first \in Seq(Good')
      /\ \/ first = <<>>
         \/ /\ upload[x].pc = "read" /\ Len(first) = 1
            /\ first[1].t = "file_start" /\ first[1].x = x
  <2>1. <<Start(x)>> \in Seq(Good') /\ <<>> \in Seq(Good')
    BY <1>5, EmptySeq
  <2>2. /\ Len(<<Start(x)>>) = 1 /\ <<Start(x)>>[1].t = "file_start"
        /\ <<Start(x)>>[1].x = x
    BY DEF Start
  <2>3. QED BY <2>1, <2>2
<1>7. /\ shown' \in [Browser -> [Transfer -> {"none", "progress", "done", "failed"}]]
      /\ \A r \in Receiver : shown'[r] = shown[r]
  <2>1. CASE UNCHANGED shown
    BY <2>1 DEF TypeOK
  <2>2. CASE Begin(x, reject)
    <3>1. PICK w \in {"none", "progress", "done", "failed"} :
            shown' = [shown EXCEPT ![Sender][x] = w]
      <4>1. shown[Sender][x] \in {"none", "progress", "done", "failed"}
        BY DEF TypeOK, Browser
      <4>2. shown' = [shown EXCEPT ![Sender][x] = IF place = "none" THEN shown[Sender][x]
                                                                    ELSE "progress"]
        BY <2>2 DEF Begin
      <4>3. QED BY <4>1, <4>2
    <3>2. QED BY <3>1, OwnMessage
  <2>3. QED BY <2>1, <2>2 DEF NextChunk
<1>8. TypeOK'
  BY <1>1, <1>3, <1>7 DEF TypeOK
<1>9. /\ live \in BOOLEAN
      /\ down' = [r \in Receiver |-> IF live THEN down[r] \o first \o <<f>> ELSE down[r]]
  BY <1>1 DEF Sends
<1> HIDE DEF first, live, f
<1>10. QED BY <1>1, <1>3, <1>5, <1>6, <1>7, <1>8, <1>9, UploadInv

LEMMA FinishInv ==
  ASSUME Inv, NEW x \in Transfer, Finish(x)
  PROVE  Inv'
<1> USE DEF Inv
<1> DEFINE u == [upload[x] EXCEPT !.pc = "done"]
           f == Note("file_end", x)
           live == place = "room"
<1>1. /\ upload[x].pc = "loop" /\ upload' = [upload EXCEPT ![x].pc = "done"]
      /\ down' = [r \in Receiver |-> IF live THEN Append(down[r], f) ELSE down[r]]
      /\ UNCHANGED <<place, keys, staged, incoming, got>>
      /\ shown' = [shown EXCEPT ![Sender][x] = IF shown[Sender][x] = "progress" THEN "done"
                                               ELSE shown[Sender][x]]
  BY DEF Finish, Outcome
<1>2. /\ u \in [pc : {"loop", "done"}, key : Nat \cup {None}, i : Nat] /\ u.key = upload[x].key
      /\ u.pc = "done" /\ upload' = [upload EXCEPT ![x] = u]
  BY <1>1 DEF TypeOK
<1> HIDE DEF u
<1>3. /\ Grows /\ Epochs'
      /\ upload' \in [Transfer -> [pc : {"idle", "read", "loop", "done"},
                                   key : Nat \cup {None}, i : Nat]]
      /\ \A y \in Transfer : upload'[y].pc \in {"idle", "read"} =>
                               upload[y].pc \in {"idle", "read"}
  BY <1>1, <1>2, UploadMoves
<1>4. upload'[x].pc = "done" /\ upload'[x].key = upload[x].key
  BY <1>1, <1>2 DEF TypeOK
<1>5. f \in Good' /\ f.t # "file_start"
  BY <1>1, <1>4, UploadFrames DEF Note
<1>6. /\ shown' \in [Browser -> [Transfer -> {"none", "progress", "done", "failed"}]]
      /\ \A r \in Receiver : shown'[r] = shown[r]
  <2>1. shown[Sender][x] \in {"none", "progress", "done", "failed"}
    BY DEF TypeOK, Browser
  <2>2. QED BY <1>1, <2>1, OwnMessage
<1>7. TypeOK'
  BY <1>1, <1>3, <1>6 DEF TypeOK
<1> HIDE DEF f
<1>8. down' = [r \in Receiver |-> IF live THEN down[r] \o <<>> \o <<f>> ELSE down[r]]
  <2>1. ASSUME NEW r \in Receiver PROVE Append(down[r], f) = down[r] \o <<>> \o <<f>>
    <3>1. down[r] \in Seq(Good')
      BY <1>3, QueuesStay
    <3>2. down[r] \o <<>> = down[r]
      BY <3>1, ConcatEmptySeq
    <3>3. Append(down[r], f) = down[r] \o <<f>>
      BY <1>5, <3>1, AppendIsConcat
    <3>4. QED BY <3>2, <3>3
  <2>2. QED BY <1>1, <2>1
<1>9. live \in BOOLEAN
  OBVIOUS
<1> HIDE DEF live
<1> DEFINE first == <<>>
<1>10. first \in Seq(Good') /\ first = <<>>
  BY EmptySeq
<1>11. down' = [r \in Receiver |-> IF live THEN down[r] \o first \o <<f>> ELSE down[r]]
  BY <1>8
<1> HIDE DEF first
<1>12. \/ first = <<>>
       \/ /\ upload[x].pc = "read" /\ Len(first) = 1
          /\ first[1].t = "file_start" /\ first[1].x = x
  BY <1>10
<1>13. UNCHANGED <<incoming, got>>
  BY <1>1
<1>14. QED BY <1>3, <1>5, <1>6, <1>7, <1>9, <1>10, <1>11, <1>12, <1>13, UploadInv,
           ZenonT(60)

LEMMA AbandonInv ==
  ASSUME Inv, NEW x \in Transfer, Abandon(x)
  PROVE  Inv'
<1> USE DEF Inv
<1> DEFINE u == [upload[x] EXCEPT !.pc = "done"]
<1>1. /\ upload[x].pc = "loop" /\ upload' = [upload EXCEPT ![x].pc = "done"]
      /\ UNCHANGED <<place, keys, staged, down, incoming, got, shown>>
  BY DEF Abandon
<1>2. /\ u \in [pc : {"loop", "done"}, key : Nat \cup {None}, i : Nat] /\ u.key = upload[x].key
      /\ upload' = [upload EXCEPT ![x] = u]
  BY <1>1 DEF TypeOK
<1> HIDE DEF u
<1>3. /\ Grows /\ Epochs'
      /\ upload' \in [Transfer -> [pc : {"idle", "read", "loop", "done"},
                                   key : Nat \cup {None}, i : Nat]]
      /\ \A y \in Transfer : upload'[y].pc \in {"idle", "read"} =>
                               upload[y].pc \in {"idle", "read"}
  BY <1>1, <1>2, UploadMoves
<1>4. DownOK' /\ \A r \in Receiver, y \in Transfer : StartOf(r, y)' = StartOf(r, y)
  BY <1>1, <1>3, DownStays
<1>5. TypeOK'
  BY <1>1, <1>3 DEF TypeOK
<1>6. UNCHANGED <<incoming, got, shown>>
  BY <1>1
<1>7. QED BY <1>3, <1>4, <1>5, <1>6, SenderInv DEF StartsOnce

LEMMA OnFileSelectedInv ==
  ASSUME Inv, NEW x \in Transfer, OnFileSelected(x)
  PROVE  Inv'
<1> USE DEF Inv
<1>1. /\ place = "room" /\ upload[x].pc = "idle" /\ staged' = x
      /\ UNCHANGED <<place, keys, upload, relay, down, notices, incoming, got, shown>>
  BY DEF OnFileSelected
<1>2. TypeOK' /\ Grows
  BY <1>1 DEF TypeOK, Grows, Held
<1>3. Epochs'
  BY <1>1 DEF Epochs
<1>4. DownOK' /\ \A r \in Receiver, y \in Transfer : StartOf(r, y)' = StartOf(r, y)
  BY <1>1, <1>2, DownStays
<1>5. QED BY <1>1, <1>2, <1>3, <1>4, SenderInv DEF StartsOnce

LEMMA SendFileInv ==
  ASSUME Inv, NEW x \in Transfer, SendFile(x)
  PROVE  Inv'
<1> USE DEF Inv
<1> DEFINE h == Head(keys[Sender])
           u == [pc |-> "read", key |-> h, i |-> 0]
<1>1. /\ place = "room" /\ staged = x /\ staged' = None /\ upload' = [upload EXCEPT ![x] = u]
      /\ UNCHANGED <<place, keys, relay, down, notices, incoming, got, shown>>
  BY DEF SendFile
<1>2. upload[x].pc = "idle" /\ keys[Sender] # <<>> /\ h <= MaxKey
  BY <1>1 DEF Epochs
<1>3. h \in Nat
  <2>1. keys[Sender] \in Seq(Nat)
    BY DEF TypeOK, Browser
  <2>2. QED BY <1>2, <2>1, HeadTailProperties
<1>4. \A y \in Transfer : upload'[y] = IF y = x THEN u ELSE upload[y]
  BY <1>1 DEF TypeOK
<1>5. TypeOK'
  <2>1. u \in [pc : {"idle", "read", "loop", "done"}, key : Nat \cup {None}, i : Nat]
    BY <1>3
  <2> HIDE DEF u
  <2>2. QED BY <1>1, <2>1 DEF TypeOK
<1>6. Grows
  BY <1>1, <1>2, <1>4 DEF Grows, Held
<1>7. Epochs'
  <2>1. u.pc = "read" /\ u.key = h
    OBVIOUS
  <2> HIDE DEF u
  <2>2. h <= h
    BY <1>3
  <2> HIDE DEF h
  <2>3. \A y \in Transfer : upload'[y].pc # "idle" =>
          upload'[y].key \in Nat /\ upload'[y].key <= MaxKey /\ upload'[y].key <= h
    BY <1>1, <1>2, <1>3, <1>4, <2>1, <2>2 DEF Epochs, h
  <2>4. QED BY <1>1, <1>2, <2>3, NoneAssumption DEF Epochs, h
<1>8. DownOK' /\ \A r \in Receiver, y \in Transfer : StartOf(r, y)' = StartOf(r, y)
  BY <1>1, <1>6, DownStays
<1>9. \A y \in Transfer : upload'[y].pc \in {"idle", "read"} => upload[y].pc \in {"idle", "read"}
  BY <1>2, <1>4
<1>10. UNCHANGED <<incoming, got, shown>>
  BY <1>1
<1>11. \A r \in Receiver, y \in Transfer : \A m, n \in StartOf(r, y)' : m = n
  BY <1>8 DEF StartsOnce
<1>12. QED BY <1>5, <1>6, <1>7, <1>8, <1>9, <1>10, <1>11, SenderInv

LEMMA OnRejectedInv ==
  ASSUME Inv, NEW x \in Transfer, OnRejected(x)
  PROVE  Inv'
<1> USE DEF Inv
<1>1. /\ UNCHANGED <<place, keys, staged, upload, relay, down, incoming, got>>
      /\ shown' = [shown EXCEPT ![Sender][x] = IF shown[Sender][x] = "progress" THEN "failed"
                                               ELSE shown[Sender][x]]
  BY DEF OnRejected, Outcome
<1>2. /\ shown' \in [Browser -> [Transfer -> {"none", "progress", "done", "failed"}]]
      /\ \A r \in Receiver : shown'[r] = shown[r]
  <2>1. shown[Sender][x] \in {"none", "progress", "done", "failed"}
    BY DEF TypeOK, Browser
  <2>2. QED BY <1>1, <2>1, OwnMessage
<1>3. TypeOK' /\ Grows /\ Epochs'
  BY <1>1, <1>2 DEF TypeOK, Grows, Held, Epochs
<1>4. DownOK' /\ \A r \in Receiver, y \in Transfer : StartOf(r, y)' = StartOf(r, y)
  BY <1>1, <1>3, DownStays
<1>5. UNCHANGED <<upload, incoming, got>> /\ \A r \in Receiver : shown'[r] = shown[r]
  BY <1>1, <1>2
<1>6. \A r \in Receiver, y \in Transfer : \A m, n \in StartOf(r, y)' : m = n
  BY <1>4 DEF StartsOnce
<1>7. QED BY <1>3, <1>4, <1>5, <1>6, SenderInv

-----------------------------------------------------------------------------
(* A receiver. *)

\* Receiver r took the next frame, of transfer x, and left the transfer with key
\* k, the parts g and the file message w.
Took(r, x, k, g, w) ==
  /\ k \in Nat \cup {None} /\ g \in SUBSET Nat /\ w \in {"none", "progress", "done", "failed"}
  /\ down[r] # <<>> /\ Head(down[r]).x = x /\ Handled(r)
  /\ incoming' = [incoming EXCEPT ![r][x] = k] /\ got' = [got EXCEPT ![r][x] = g]
  /\ shown' = [shown EXCEPT ![r][x] = w]
  /\ UNCHANGED <<place, keys, staged, upload>>

LEMMA ReceiveInv ==
  ASSUME Inv, NEW r \in Receiver, NEW x \in Transfer, NEW k, NEW g, NEW w, Took(r, x, k, g, w),
         k # None => w = "progress", w = "done" <=> g = Index,
         Fresh(r, x) => (k = None /\ g = {}) \/ Head(down[r]).t = "file_start"
  PROVE  Inv'
<1> USE DEF Inv, Took
<1>1. /\ DownOK'
      /\ \A s \in Receiver, y \in Transfer :
           /\ StartOf(s, y)' # {} => StartOf(s, y) # {}
           /\ s = r /\ Head(down[r]).t = "file_start" /\ Head(down[r]).x = y =>
                StartOf(s, y)' = {}
           /\ \A m, n \in StartOf(s, y)' : m = n
  <2>1. Grows
    BY DEF Grows, Held
  <2>2. QED BY <2>1, HandledMoves
<1>2. r \in Browser /\ Receiver \subseteq Browser
  BY DEF Browser
<1>3. /\ \A s \in Receiver, y \in Transfer :
           /\ incoming'[s][y] = IF s = r /\ y = x THEN k ELSE incoming[s][y]
           /\ got'[s][y] = IF s = r /\ y = x THEN g ELSE got[s][y]
      /\ \A s \in Browser, y \in Transfer :
           shown'[s][y] = IF s = r /\ y = x THEN w ELSE shown[s][y]
  BY <1>2 DEF TypeOK
<1>4. TypeOK'
  <2>1. incoming' \in [Receiver -> [Transfer -> Nat \cup {None}]]
    BY DEF TypeOK
  <2>2. got' \in [Receiver -> [Transfer -> SUBSET Nat]]
    BY DEF TypeOK
  <2>3. shown' \in [Browser -> [Transfer -> {"none", "progress", "done", "failed"}]]
    BY <1>2 DEF TypeOK
  <2>4. QED BY <2>1, <2>2, <2>3 DEF TypeOK
<1>5. Epochs'
  BY DEF Epochs
<1>6. StartsOnce'
  <2> SUFFICES ASSUME NEW s \in Receiver, NEW y \in Transfer,
                      upload[y].pc \in {"idle", "read"} \/ StartOf(s, y)' # {}
               PROVE  Fresh(s, y)'
    BY <1>1 DEF StartsOnce
  <2>1. Fresh(s, y)
    BY <1>1 DEF StartsOnce
  <2>2. CASE s = r /\ y = x
    <3>1. Head(down[r]).t # "file_start"
      <4>1. SUFFICES ASSUME Head(down[r]).t = "file_start" PROVE FALSE
        OBVIOUS
      <4>2. StartOf(s, y)' = {}
        BY <1>1, <2>2, <4>1
      <4>3. Head(down[r]) \in Good
        BY HeadTailProperties DEF DownOK
      <4>4. upload[x].pc \in {"loop", "done"}
        BY <4>1, <4>3 DEF Good, Sealed
      <4>5. QED BY <2>2, <4>2, <4>4
    <3>2. k = None /\ g = {}
      BY <2>1, <2>2, <3>1
    <3>3. QED BY <1>3, <2>2, <3>2 DEF Fresh
  <2>3. CASE ~(s = r /\ y = x)
    BY <1>3, <2>1, <2>3 DEF Fresh
  <2>4. QED BY <2>2, <2>3
<1>7. Showing'
  <2> SUFFICES ASSUME NEW s \in Receiver, NEW y \in Transfer, incoming'[s][y] # None
               PROVE  shown'[s][y] = "progress"
    BY DEF Showing
  <2>1. QED BY <1>2, <1>3 DEF Showing
<1>8. WholeOrNothing'
  <2> SUFFICES ASSUME NEW s \in Receiver, NEW y \in Transfer
               PROVE  shown'[s][y] = "done" <=> got'[s][y] = Index
    BY DEF WholeOrNothing
  <2>1. QED BY <1>2, <1>3 DEF WholeOrNothing
<1>9. QED BY <1>1, <1>4, <1>5, <1>6, <1>7, <1>8

\* What the next frame of a receiver says of the transfer.
LEMMA NextOf ==
  ASSUME Inv, NEW r \in Receiver, down[r] # <<>>
  PROVE  /\ Head(down[r]) \in FrameSet /\ Head(down[r]).x \in Transfer
         /\ Head(down[r]).t = "file_start" => Fresh(r, Head(down[r]).x)
         /\ {} # Index
<1> USE DEF Inv
<1>1. down[r] \in Seq(Good)
  BY DEF DownOK
<1>2. Head(down[r]) \in Good /\ Head(down[r]) = down[r][1] /\ Len(down[r]) \in Nat \ {0}
  BY <1>1, HeadTailProperties, EmptySeq
<1>3. Head(down[r]) \in FrameSet /\ Head(down[r]).x \in Transfer
  BY <1>2 DEF Good, FrameSet
<1>4. 1 \in DOMAIN down[r]
  BY <1>1, <1>2, LenProperties
<1>5. Head(down[r]).t = "file_start" => 1 \in StartOf(r, Head(down[r]).x)
  BY <1>2, <1>4 DEF StartOf
<1>6. 0 \in Index
  BY CountsAssumption DEF Index
<1>7. QED BY <1>3, <1>5, <1>6 DEF StartsOnce

\* A frame that is ignored.
LEMMA IgnoredInv ==
  ASSUME Inv, NEW r \in Receiver, down[r] # <<>>, Handled(r),
         UNCHANGED <<place, keys, staged, upload, incoming, got, shown>>
  PROVE  Inv'
<1>1. PICK x \in Transfer : Head(down[r]).x = x
  BY NextOf
<1>2. r \in Browser
  BY DEF Browser
<1>3. PICK k \in Nat \cup {None} : k = incoming[r][x]
  BY DEF Inv, TypeOK
<1>4. PICK g \in SUBSET Nat : g = got[r][x]
  BY DEF Inv, TypeOK
<1>5. PICK w \in {"none", "progress", "done", "failed"} : w = shown[r][x]
  BY <1>2 DEF Inv, TypeOK
<1>6. Took(r, x, k, g, w)
  <2>1. /\ incoming' = [incoming EXCEPT ![r][x] = k] /\ got' = [got EXCEPT ![r][x] = g]
        /\ shown' = [shown EXCEPT ![r][x] = w]
    BY <1>2, <1>3, <1>4, <1>5 DEF Inv, TypeOK
  <2>2. QED BY <1>1, <1>3, <1>4, <1>5, <2>1 DEF Took
<1>7. (k # None => w = "progress") /\ (w = "done" <=> g = Index)
  BY <1>2, <1>3, <1>4, <1>5 DEF Inv, Showing, WholeOrNothing
<1>8. Fresh(r, x) => (k = None /\ g = {}) \/ Head(down[r]).t = "file_start"
  BY <1>3, <1>4 DEF Fresh
<1>9. QED BY <1>6, <1>7, <1>8, ReceiveInv

LEMMA OnFileStartInv ==
  ASSUME Inv, NEW r \in Receiver, OnFileStart(r)
  PROVE  Inv'
<1>1. down[r] # <<>> /\ Head(down[r]).t = "file_start" /\ Handled(r)
  BY DEF OnFileStart, NextFrame
<1>2. PICK x \in Transfer : Head(down[r]).x = x
  BY <1>1, NextOf
<1>3. UNCHANGED <<place, keys, staged, upload, got>>
  BY DEF OnFileStart
<1>4. CASE UNCHANGED <<incoming, shown>>
  BY <1>1, <1>3, <1>4, IgnoredInv
<1>5. CASE ~UNCHANGED <<incoming, shown>>
  <2>1. PICK k : k = Head(down[r]).kid
    OBVIOUS
  <2>2. PICK g : g = got[r][x]
    OBVIOUS
  <2>3. k \in Nat \cup {None} /\ g = {}
    BY <1>1, <1>2, <2>1, <2>2, NextOf DEF FrameSet, Fresh
  <2>4. got' = [got EXCEPT ![r][x] = g]
    BY <1>3, <2>2 DEF Inv, TypeOK
  <2>5. incoming' = [incoming EXCEPT ![r][x] = k] /\ shown' = [shown EXCEPT ![r][x] = "progress"]
    BY <1>2, <1>5, <2>1 DEF OnFileStart
  <2>6. Took(r, x, k, g, "progress")
    BY <1>1, <1>2, <1>3, <2>3, <2>4, <2>5 DEF Took
  <2>7. g # Index
    BY <1>1, <2>3, NextOf
  <2>8. QED BY <1>1, <2>6, <2>7, ReceiveInv
<1>6. QED BY <1>4, <1>5

LEMMA OnFileChunkInv ==
  ASSUME Inv, NEW r \in Receiver, OnFileChunk(r)
  PROVE  Inv'
<1>1. down[r] # <<>> /\ Head(down[r]).t = "file_chunk" /\ Handled(r)
  BY DEF OnFileChunk, NextFrame
<1>2. PICK x \in Transfer : Head(down[r]).x = x
  BY <1>1, NextOf
<1>3. UNCHANGED <<place, keys, staged, upload>>
  BY DEF OnFileChunk
<1>4. CASE UNCHANGED <<incoming, got, shown>>
  BY <1>1, <1>3, <1>4, IgnoredInv
<1>5. CASE ~UNCHANGED <<incoming, got, shown>>
  <2>1. PICK i : i = Head(down[r]).i
    OBVIOUS
  <2>2. PICK k : k = incoming[r][x]
    OBVIOUS
  <2>3. PICK g : g = got[r][x] \cup {i}
    OBVIOUS
  <2>4. k \in Nat \cup {None} /\ g \in SUBSET Nat /\ r \in Browser
    <3>1. i \in Nat
      BY <1>1, <2>1, NextOf DEF FrameSet
    <3>2. QED BY <2>2, <2>3, <3>1 DEF Inv, TypeOK, Browser
  <2>5. /\ k # None /\ got' = [got EXCEPT ![r][x] = g]
        /\ IF g = Index THEN /\ incoming' = [incoming EXCEPT ![r][x] = None]
                             /\ Outcome(r, x, "done")
                        ELSE UNCHANGED <<incoming, shown>>
    BY <1>2, <1>5, <2>1, <2>2, <2>3 DEF OnFileChunk, Complete
  <2>6. shown[r][x] = "progress" /\ ~Fresh(r, x)
    BY <2>2, <2>5 DEF Inv, Showing, Fresh
  <2>7. CASE g = Index
    <3>1. shown' = [shown EXCEPT ![r][x] = "done"]
      BY <2>4, <2>5, <2>6, <2>7 DEF Outcome
    <3>2. Took(r, x, None, g, "done")
      BY <1>1, <1>2, <1>3, <2>4, <2>5, <2>7, <3>1 DEF Took
    <3>3. QED BY <2>6, <2>7, <3>2, ReceiveInv
  <2>8. CASE g # Index
    <3>1. incoming' = [incoming EXCEPT ![r][x] = k] /\ shown' = [shown EXCEPT ![r][x] = "progress"]
      BY <2>2, <2>4, <2>5, <2>6, <2>8 DEF Inv, TypeOK
    <3>2. Took(r, x, k, g, "progress")
      BY <1>1, <1>2, <1>3, <2>4, <2>5, <3>1 DEF Took
    <3>3. QED BY <2>6, <2>8, <3>2, ReceiveInv
  <2>9. QED BY <2>7, <2>8
<1>6. QED BY <1>4, <1>5

\* OnFileEnd with a gap and OnFileAbort: what was in progress has failed.
LEMMA FailedInv ==
  ASSUME Inv, NEW r \in Receiver, NEW x \in Transfer, down[r] # <<>>, Head(down[r]).x = x,
         Handled(r), incoming' = [incoming EXCEPT ![r][x] = None], Outcome(r, x, "failed"),
         UNCHANGED <<place, keys, staged, upload, got>>
  PROVE  Inv'
<1>1. PICK g : g = got[r][x]
  OBVIOUS
<1>2. PICK w : w = IF shown[r][x] = "progress" THEN "failed" ELSE shown[r][x]
  OBVIOUS
<1>3. /\ r \in Browser /\ g \in SUBSET Nat /\ w \in {"none", "progress", "done", "failed"}
      /\ got' = [got EXCEPT ![r][x] = g]
  BY <1>1, <1>2 DEF Inv, TypeOK, Browser
<1>4. shown' = [shown EXCEPT ![r][x] = w]
  BY <1>2 DEF Outcome
<1>5. Took(r, x, None, g, w)
  BY <1>3, <1>4 DEF Took
<1>6. w = "done" <=> g = Index
  BY <1>1, <1>2 DEF Inv, WholeOrNothing
<1>7. Fresh(r, x) => g = {}
  BY <1>1 DEF Fresh
<1>8. QED BY <1>5, <1>6, <1>7, ReceiveInv

LEMMA OnFileEndInv ==
  ASSUME Inv, NEW r \in Receiver, OnFileEnd(r) \/ OnFileAbort(r)
  PROVE  Inv'
<1>1. down[r] # <<>> /\ Handled(r)
  BY DEF OnFileEnd, OnFileAbort, NextFrame
<1>2. PICK x \in Transfer : Head(down[r]).x = x
  BY <1>1, NextOf
<1>3. UNCHANGED <<place, keys, staged, upload, got>>
  BY DEF OnFileEnd, OnFileAbort
<1>4. CASE UNCHANGED <<incoming, shown>>
  BY <1>1, <1>3, <1>4, IgnoredInv
<1>5. CASE incoming' = [incoming EXCEPT ![r][x] = None] /\ Outcome(r, x, "failed")
  BY <1>1, <1>2, <1>3, <1>5, FailedInv
<1>6. QED BY <1>2, <1>4, <1>5 DEF OnFileEnd, OnFileAbort

-----------------------------------------------------------------------------
(* The whole. *)

LEMMA InitInv ==
  Init => Inv
<1> SUFFICES ASSUME Init PROVE Inv
  OBVIOUS
<1> USE DEF Init
<1>1. TypeOK
  <2>1. <<1>> \in Seq(Nat)
    OBVIOUS
  <2>2. QED BY <2>1 DEF TypeOK
<1>2. DownOK
  BY EmptySeq DEF DownOK
<1>3. Epochs
  <2>1. keys[Sender] = <<1>> /\ Head(<<1>>) = 1 /\ 1 <= MaxKey
    BY CountsAssumption DEF Browser
  <2>2. QED BY <2>1, NoneAssumption DEF Epochs
<1>4. StartsOnce
  <2>1. \A r \in Receiver, x \in Transfer : StartOf(r, x) = {} /\ Fresh(r, x)
    BY DEF StartOf, Fresh
  <2>2. QED BY <2>1 DEF StartsOnce
<1>5. Showing /\ WholeOrNothing
  <2>1. 0 \in Index
    BY CountsAssumption DEF Index
  <2>2. \A r \in Receiver, x \in Transfer :
          incoming[r][x] = None /\ got[r][x] = {} /\ shown[r][x] = "none"
    BY DEF Browser
  <2>3. QED BY <2>1, <2>2 DEF Showing, WholeOrNothing
<1>6. QED BY <1>1, <1>2, <1>3, <1>4, <1>5 DEF Inv

LEMMA StutterInv ==
  ASSUME Inv, UNCHANGED vars
  PROVE  Inv'
BY DEF vars, Inv, TypeOK, DownOK, Good, Sealed, Held, Epochs, StartsOnce, StartOf, Fresh,
       Showing, WholeOrNothing

LEMMA NextInv ==
  ASSUME Inv, [Next]_vars
  PROVE  Inv'
<1>1. CASE \E b \in Browser : PushKey(b)
  BY <1>1, PushKeyInv
<1>2. CASE Leave \/ Rejoin
  BY <1>2, LeaveInv, RejoinInv
<1>3. ASSUME NEW x \in Transfer, OnFileSelected(x) \/ SendFile(x) \/ Upload(x) \/ OnRejected(x)
      PROVE  Inv'
  BY <1>3, OnFileSelectedInv, SendFileInv, SendsInv, AbandonInv, FinishInv, OnRejectedInv
     DEF Upload
<1>4. ASSUME NEW r \in Receiver, Receive(r) PROVE Inv'
  BY <1>4, OnFileStartInv, OnFileChunkInv, OnFileEndInv DEF Receive
<1>5. CASE UNCHANGED vars
  BY <1>5, StutterInv
<1>6. QED BY <1>1, <1>2, <1>3, <1>4, <1>5 DEF Next

\* The inductive invariant: the queues, keys and receivers of every reachable state.
THEOREM ShareInvariant == Spec => []Inv
<1>1. Inv /\ [Next]_vars => Inv'
  BY NextInv
<1>2. QED BY InitInv, <1>1, PTL DEF Spec

\* finishIncoming and its error paths: a receiver shows a file exactly when it has
\* opened every chunk, whatever was rejected, lost or rotated in between.
THEOREM FilesAreWhole == Spec => []WholeOrNothing
<1>1. Inv => WholeOrNothing
  BY DEF Inv
<1>2. QED BY ShareInvariant, <1>1, PTL

\* sealBytes with the key array that sendFile keeps: all frames of a transfer are
\* sealed under the key its file_start names, or under its wiped array.
THEOREM FilesKeepTheirKey == Spec => []OneEpoch
<1>1. ASSUME Inv PROVE OneEpoch
  <2> SUFFICES ASSUME NEW r \in Receiver, NEW n \in DOMAIN down[r]
               PROVE  Sealed(down[r][n])
    BY DEF OneEpoch, Sealed
  <2>1. down[r] \in Seq(Good)
    BY <1>1 DEF Inv, DownOK
  <2>2. n \in 1 .. Len(down[r])
    BY <2>1, LenProperties
  <2>3. down[r][n] \in Good
    BY <2>1, <2>2, ElementOfSeq
  <2>4. QED BY <2>3 DEF Good
<1>2. QED BY ShareInvariant, <1>1, PTL
=============================================================================
