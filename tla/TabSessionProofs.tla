-------------------------- MODULE TabSessionProofs --------------------------
(***************************************************************************)
(* Proofs about TabSession, for any number of sockets: the sessions of a   *)
(* tab never overlap, and redeem_ok finds the code it was typed with.      *)
(*                                                                         *)
(* The functions of main.ts are operators on the tab record.  A lemma per  *)
(* function says what it keeps; the induction then looks at the functions  *)
(* through these lemmas only.                                              *)
(***************************************************************************)
EXTENDS TabSession, FiniteSetTheorems, TLAPS

State == {"connecting", "open", "closing", "closed"}
Kind == {"create", "redeem"}

Tab == [session : Sock \cup {None}, room : BOOLEAN, rec : BOOLEAN,
        pendingJoin : BOOLEAN, intentional : BOOLEAN, view : {"lobby", "room"},
        ws : Seq(State), hello : Seq(Kind), wiped : SUBSET Sock]

Wait == [old : Sock, k : Kind]

\* Every socket has its hello, and there is a place for every connect that waits.
TypeOK ==
  /\ tab \in Tab
  /\ Len(tab.hello) = Len(tab.ws)
  /\ waiting \subseteq Wait /\ IsFiniteSet(waiting)
  /\ Len(tab.ws) + Cardinality(waiting) <= MaxSockets
  /\ srv \in [Sock -> {"none", "hello", "paired", "member", "refused"}]
  /\ behind \subseteq 1 .. Len(tab.ws)
  /\ dialog \in BOOLEAN /\ hasty \in BOOLEAN /\ late \in BOOLEAN

\* Every session but the current one of T is over.
Ended(T) ==
  \A s \in DOMAIN T.ws :
    s = T.session \/ (s \in T.wiped /\ T.ws[s] \in {"closing", "closed"})

\* The server knows nothing of a socket of T that has not opened.
Fresh(T) ==
  \A s \in Sock : srv[s] = "none" \/ (s \in DOMAIN T.ws /\ T.ws[s] # "connecting")

\* Who types a code for the current session, and has no answer yet.
Armed(T) ==
  \A s \in DOMAIN T.ws :
    T.session = s /\ T.hello[s] = "redeem" /\ srv[s] \in {"none", "hello"} =>
      (T.pendingJoin <=> s \notin behind)

\* At most one connect waits, and then there is no session and no code.
OneConnect ==
  /\ \A v, w \in waiting : v = w
  /\ waiting # {} => tab.session = None /\ ~tab.pendingJoin

Inv == TypeOK /\ Fresh(tab) /\ (hasty \/ (Ended(tab) /\ Armed(tab) /\ OneConnect))

\* What U, made from T without a new socket, may have changed.
Kept(T, U) ==
  /\ U \in Tab
  /\ Len(U.ws) = Len(T.ws) /\ U.hello = T.hello
  /\ Ended(T) => Ended(U)
  /\ \A s \in DOMAIN T.ws : U.ws[s] = "connecting" => T.ws[s] = "connecting"
  /\ \/ U.session = None /\ ~U.pendingJoin
     \/ U.session = T.session /\ U.pendingJoin = T.pendingJoin

-----------------------------------------------------------------------------
(* What the functions of main.ts keep. *)

\* Reading the constants and the fields of a tab record.
LEMMA TabFields ==
  ASSUME NEW T \in Tab
  PROVE  /\ T.session \in Sock \cup {None} /\ T.room \in BOOLEAN /\ T.rec \in BOOLEAN
         /\ T.pendingJoin \in BOOLEAN /\ T.intentional \in BOOLEAN
         /\ T.ws \in Seq(State) /\ T.hello \in Seq(Kind) /\ T.wiped \in SUBSET Sock
         /\ Len(T.ws) \in Nat /\ DOMAIN T.ws = 1 .. Len(T.ws)
  BY DEF Tab

\* teardown ends the session it finds, with its code, and no other socket.
LEMMA TeardownKeeps ==
  ASSUME NEW T \in Tab, NEW b \in BOOLEAN
  PROVE  /\ Kept(T, Teardown(T, b))
         /\ Teardown(T, b).session = None /\ ~Teardown(T, b).pendingJoin
<1> DEFINE W == [s \in DOMAIN T.ws |-> IF s = T.session /\ T.ws[s] # "closed"
                                         THEN "closing" ELSE T.ws[s]]
           U == Teardown(T, b)
<1>1. W \in Seq(State) /\ Len(W) = Len(T.ws) /\ DOMAIN W = DOMAIN T.ws
  <2>1. \A s \in 1 .. Len(T.ws) : T.ws[s] \in State
    BY TabFields
  <2>2. W \in [1 .. Len(T.ws) -> State]
    BY TabFields, <2>1 DEF State
  <2>3. QED BY TabFields, <2>2
<1>2. /\ U.session = None /\ U.pendingJoin = FALSE /\ U.ws = W /\ U.hello = T.hello
      /\ U.wiped = T.wiped \cup ({T.session} \ {None})
  BY DEF Tab, Teardown
<1>3. U \in Tab
  BY <1>1, SocketsAssumption DEF Tab, Teardown
<1>4. ASSUME Ended(T) PROVE Ended(U)
  BY <1>1, <1>2, <1>4, TabFields, NoneAssumption DEF Ended
<1> HIDE DEF U, W
<1>5. \A s \in DOMAIN T.ws : W[s] = "connecting" => T.ws[s] = "connecting"
  BY DEF W
<1>6. QED BY <1>1, <1>2, <1>3, <1>4, <1>5 DEF Kept, U

\* connect adds a socket and makes its session the current one.
LEMMA NewSessionAdds ==
  ASSUME NEW T \in Tab, NEW k \in Kind, Len(T.ws) < MaxSockets, Len(T.hello) = Len(T.ws)
  PROVE  /\ NewSession(T, k) \in Tab
         /\ NewSession(T, k).session = Len(T.ws) + 1
         /\ NewSession(T, k).pendingJoin = T.pendingJoin
         /\ NewSession(T, k).ws = Append(T.ws, "connecting")
         /\ NewSession(T, k).hello = Append(T.hello, k)
         /\ NewSession(T, k).wiped = T.wiped
<1>1. Len(T.ws) + 1 \in Sock
  BY TabFields, SocketsAssumption DEF Sock
<1>2. Append(T.ws, "connecting") \in Seq(State) /\ Append(T.hello, k) \in Seq(Kind)
  BY TabFields DEF State
<1>3. QED BY <1>1, <1>2 DEF Tab, NewSession

\* Without an open session before it, the new one is the only one.
LEMMA NewSessionEnded ==
  ASSUME NEW T \in Tab, NEW k \in Kind, Len(T.ws) < MaxSockets, Len(T.hello) = Len(T.ws),
         T.session = None, Ended(T)
  PROVE  Ended(NewSession(T, k))
<1> DEFINE U == NewSession(T, k)
<1>1. /\ U.session = Len(T.ws) + 1 /\ U.wiped = T.wiped
      /\ U.ws = Append(T.ws, "connecting")
  BY NewSessionAdds
<1>2. ASSUME NEW s \in DOMAIN U.ws
      PROVE  s = Len(T.ws) + 1 \/ (s \in DOMAIN T.ws /\ U.ws[s] = T.ws[s])
  BY <1>1, TabFields
<1>3. \A s \in DOMAIN T.ws : s # None
  BY TabFields, NoneAssumption, SocketsAssumption DEF Sock
<1> HIDE DEF U
<1>4. Ended(U)
  BY <1>1, <1>2, <1>3 DEF Ended
<1>5. QED BY <1>4 DEF U

\* The server knows nothing of the new socket.
LEMMA NewSessionFresh ==
  ASSUME NEW T \in Tab, NEW k \in Kind, Len(T.ws) < MaxSockets, Len(T.hello) = Len(T.ws),
         Fresh(T)
  PROVE  Fresh(NewSession(T, k))
<1>1. NewSession(T, k).ws = Append(T.ws, "connecting")
  BY NewSessionAdds
<1>2. \A s \in DOMAIN T.ws : /\ s \in DOMAIN Append(T.ws, "connecting")
                            /\ Append(T.ws, "connecting")[s] = T.ws[s]
  BY TabFields
<1>3. QED BY <1>1, <1>2 DEF Fresh

\* Changing the flags or the view, or letting the session's own socket be.
LEMMA FlagsKept ==
  ASSUME NEW T \in Tab, NEW U \in Tab, U.ws = T.ws, U.hello = T.hello,
         U.wiped = T.wiped, U.session = T.session, U.pendingJoin = T.pendingJoin
  PROVE  Kept(T, U)
  BY DEF Kept, Ended

\* Kept steps compose.
LEMMA KeptTwice ==
  ASSUME NEW T \in Tab, NEW U, NEW V, Kept(T, U), Kept(U, V)
  PROVE  Kept(T, V)
<1>1. DOMAIN U.ws = DOMAIN T.ws
  BY TabFields DEF Kept
<1>2. QED BY <1>1 DEF Kept

\* onClose: it tears down, or it only takes the flag back.
LEMMA OnCloseKeeps ==
  ASSUME NEW T \in Tab
  PROVE  Kept(T, OnClose(T))
<1> DEFINE V == CASE T.room /\ ~T.intentional -> Teardown(T, TRUE)
                  [] ~T.room -> Teardown(T, FALSE)
                  [] OTHER -> T
<1>1. Kept(T, T)
  BY DEF Kept
<1>2. V = Teardown(T, TRUE) \/ V = Teardown(T, FALSE) \/ V = T
  BY TabFields
<1>3. Kept(T, V)
  BY <1>1, <1>2, TeardownKeeps
<1>4. V \in Tab
  BY <1>3 DEF Kept
<1> HIDE DEF V
<1>5. Kept(V, [V EXCEPT !.intentional = FALSE])
  <2>1. [V EXCEPT !.intentional = FALSE] \in Tab
    BY <1>4 DEF Tab
  <2>2. QED BY <1>4, <2>1, FlagsKept DEF Tab
<1>6. QED BY <1>3, <1>5, KeptTwice DEF OnClose, V

\* Leaving, and the room closed by its owner.
LEMMA LeaveKeeps ==
  ASSUME NEW T \in Tab
  PROVE  Kept(T, DoLeave(T)) /\ Kept(T, OnRoomClosed(T))
<1> DEFINE V == [T EXCEPT !.intentional = TRUE]
<1>1. V \in Tab
  BY DEF Tab
<1>2. Kept(T, V)
  BY <1>1, FlagsKept DEF Tab
<1>3. Kept(V, Teardown(V, TRUE))
  BY <1>1, TeardownKeeps
<1> HIDE DEF V
<1>4. QED BY <1>2, <1>3, KeptTwice DEF V, DoLeave, OnRoomClosed

\* The answers of the server.
LEMMA AnswersKeep ==
  ASSUME NEW T \in Tab
  PROVE  /\ Kept(T, OnWelcome(T))
         /\ \A reason \in {"already_in_room", "other"} : Kept(T, HandleError(T, reason))
         /\ Kept(T, Teardown(T, TRUE))
<1>1. Kept(T, T)
  BY DEF Kept
<1>2. Kept(T, [T EXCEPT !.room = TRUE, !.view = "room"])
  <2>1. [T EXCEPT !.room = TRUE, !.view = "room"] \in Tab
    BY DEF Tab
  <2>2. QED BY <2>1, FlagsKept DEF Tab
<1>3. Kept(T, Teardown(T, TRUE)) /\ Kept(T, Teardown(T, FALSE))
  BY TeardownKeeps
<1>4. QED BY <1>1, <1>2, <1>3 DEF OnWelcome, HandleError

\* Sockets only move on: closing or closed ones never open again.
LEMMA SetStateKeeps ==
  ASSUME NEW T \in Tab, NEW s \in DOMAIN T.ws, NEW st \in State,
         st # "connecting", T.ws[s] \in {"connecting", "open"} \/ st = "closed"
  PROVE  /\ [T EXCEPT !.ws[s] = st] \in Tab
         /\ (st \in {"closing", "closed"} \/ s = T.session \/ ~Ended(T)) =>
              Kept(T, [T EXCEPT !.ws[s] = st])
<1> DEFINE U == [T EXCEPT !.ws[s] = st]
<1>1. /\ U.ws = [T.ws EXCEPT ![s] = st] /\ U.hello = T.hello /\ U.wiped = T.wiped
      /\ U.session = T.session /\ U.pendingJoin = T.pendingJoin
  BY DEF Tab
<1>2. /\ U.ws \in Seq(State) /\ Len(U.ws) = Len(T.ws) /\ DOMAIN U.ws = DOMAIN T.ws
      /\ \A r \in DOMAIN T.ws : U.ws[r] = IF r = s THEN st ELSE T.ws[r]
  BY <1>1, TabFields
<1>3. U \in Tab
  BY <1>2 DEF Tab
<1> HIDE DEF U
<1>4. ASSUME st \in {"closing", "closed"} \/ s = T.session, Ended(T)
      PROVE  Ended(U)
  BY <1>1, <1>2, <1>4 DEF Ended
<1>5. QED BY <1>1, <1>2, <1>3, <1>4 DEF Kept, U

-----------------------------------------------------------------------------
(* The steps. *)

\* A step that opens no socket: what is left to show is that it keeps the tab.
\* A session without an answer keeps its code unless srv says that it was answered.
LEMMA KeptStep ==
  ASSUME Inv, Kept(tab, tab'), UNCHANGED <<waiting, behind, hasty>>,
         srv' \in [Sock -> {"none", "hello", "paired", "member", "refused"}],
         \A s \in Sock : srv'[s] \in {"none", "hello"} => srv[s] \in {"none", "hello"},
         \A s \in Sock : srv'[s] # srv[s] => s \in DOMAIN tab.ws /\ tab'.ws[s] # "connecting",
         dialog' \in BOOLEAN, late' \in BOOLEAN
  PROVE  Inv'
<1>1. TypeOK'
  BY DEF Inv, TypeOK, Kept
<1>2. \A s \in DOMAIN tab.ws : s \in Sock /\ s # None
  BY TabFields, NoneAssumption, SocketsAssumption, FS_CardinalityType DEF Inv, TypeOK, Sock
<1>3. DOMAIN tab'.ws = DOMAIN tab.ws
  BY TabFields DEF Inv, TypeOK, Kept
<1>4. ASSUME ~hasty PROVE Ended(tab)' /\ Armed(tab)' /\ OneConnect'
  <2>1. Ended(tab) /\ Armed(tab) /\ OneConnect
    BY <1>4 DEF Inv
  <2>2. Ended(tab')
    BY <2>1 DEF Kept
  <2>3. Armed(tab)'
    BY <1>2, <1>3, <2>1 DEF Armed, Kept
  <2>4. OneConnect'
    BY <2>1 DEF OneConnect, Kept
  <2>5. QED BY <2>2, <2>3, <2>4 DEF Ended
<1>5. Fresh(tab)'
  BY <1>3 DEF Inv, Fresh, Kept
<1>6. QED BY <1>1, <1>4, <1>5 DEF Inv

\* A message that keeps the tab: the server has answered and is past "hello".
LEMMA MessageStep ==
  ASSUME Inv, Kept(tab, tab'), NEW s \in DOMAIN tab.ws, NEW a,
         NEW b \in {"paired", "member", "refused"}, Message(s, a, b)
  PROVE  Inv'
<1>1. /\ srv' = [srv EXCEPT ![s] = b] /\ tab.ws[s] = "open"
      /\ UNCHANGED <<waiting, dialog, behind, hasty, late>>
  BY DEF Message
<1>2. tab'.ws[s] # "connecting"
  BY <1>1 DEF Kept
<1>3. /\ srv' \in [Sock -> {"none", "hello", "paired", "member", "refused"}]
      /\ \A t \in Sock : srv'[t] # srv[t] => t = s
      /\ \A t \in Sock : srv'[t] \in {"none", "hello"} => srv'[t] = srv[t]
  BY <1>1 DEF Inv, TypeOK
<1>4. dialog' \in BOOLEAN /\ late' \in BOOLEAN
  BY <1>1 DEF Inv, TypeOK
<1>5. QED BY <1>1, <1>2, <1>3, <1>4, KeptStep

\* Only the socket of the current session is open, unless the user was hasty.
LEMMA OpenIsCurrent ==
  ASSUME Inv, ~hasty, NEW s \in DOMAIN tab.ws, tab.ws[s] \in {"connecting", "open"}
  PROVE  s = tab.session
  BY DEF Inv, Ended

\* A hasty step has only its types to keep.
LEMMA HastyStep ==
  ASSUME TypeOK', Fresh(tab)', hasty'
  PROVE  Inv'
  BY DEF Inv

\* A click that finds no session: the new one has its code if it asked for one.
LEMMA ConnectStep ==
  ASSUME Inv, NEW k \in Kind, Connect(k)
  PROVE  Inv'
<1> DEFINE A == Asked(k)
           n == Len(tab.ws)
<1>1. /\ tab \in Tab /\ n \in Nat /\ Len(tab.hello) = n /\ Cardinality(waiting) \in Nat
      /\ n + Cardinality(waiting) < MaxSockets
  BY TabFields, FS_CardinalityType DEF Inv, TypeOK, Connect, CanClick
<1>2. /\ A \in Tab /\ A.session = None /\ A.ws = tab.ws /\ A.hello = tab.hello
      /\ A.wiped = tab.wiped /\ (k = "redeem" => A.pendingJoin)
  BY <1>1 DEF Tab, Asked, Connect
<1>3. n < MaxSockets /\ MaxSockets \in Nat
  BY <1>1, SocketsAssumption
<1> HIDE DEF A
<1>4. /\ tab' = NewSession(A, k) /\ tab' \in Tab /\ tab'.session = n + 1
      /\ tab'.pendingJoin = A.pendingJoin /\ tab'.ws = Append(tab.ws, "connecting")
      /\ tab'.hello = Append(tab.hello, k)
  <2>1. tab' = NewSession(A, k)
    BY DEF Connect, A
  <2>2. Len(A.ws) < MaxSockets /\ Len(A.hello) = Len(A.ws)
    BY <1>1, <1>2, <1>3
  <2>3. /\ NewSession(A, k) \in Tab /\ NewSession(A, k).session = Len(A.ws) + 1
        /\ NewSession(A, k).pendingJoin = A.pendingJoin
        /\ NewSession(A, k).ws = Append(A.ws, "connecting")
        /\ NewSession(A, k).hello = Append(A.hello, k)
    BY <1>2, <2>2, NewSessionAdds
  <2>4. QED BY <1>2, <2>1, <2>3
<1>5. Len(tab'.ws) = n + 1 /\ Len(tab'.hello) = n + 1 /\ DOMAIN tab'.ws = 1 .. n + 1
  BY <1>1, <1>4, TabFields
<1>6. UNCHANGED <<waiting, dialog, srv, behind, late>> /\ hasty' = (hasty \/ waiting # {})
  BY DEF Connect, MarkHaste
<1>7. TypeOK'
  BY <1>1, <1>4, <1>5, <1>6, SocketsAssumption DEF Inv, TypeOK
<1>7a. Fresh(tab)'
  <2>1. Fresh(A)
    BY <1>2 DEF Inv, Fresh
  <2>2. Fresh(NewSession(A, k))
    BY <1>1, <1>2, <1>3, <2>1, NewSessionFresh
  <2>3. QED BY <1>4, <1>6, <2>2 DEF Fresh
<1>8. CASE hasty'
  BY <1>7, <1>7a, <1>8, HastyStep
<1>9. CASE ~hasty'
  <2>1. ~hasty /\ waiting = {}
    BY <1>6, <1>9 DEF Inv, TypeOK
  <2>2. Ended(A)
    BY <1>2, <2>1 DEF Inv, Ended, Connect
  <2>3. Ended(tab')
    BY <1>1, <1>2, <1>3, <1>4, <2>2, NewSessionEnded
  <2>4. Armed(tab)'
    <3>1. n + 1 \notin behind' /\ tab'.hello[n + 1] = k
      BY <1>1, <1>4, <1>6, TabFields DEF Inv, TypeOK
    <3>2. QED BY <1>2, <1>4, <3>1 DEF Armed
  <2>5. OneConnect'
    BY <1>6, <2>1 DEF OneConnect
  <2>6. QED BY <1>7, <1>7a, <2>3, <2>4, <2>5 DEF Inv, Ended
<1>10. QED BY <1>8, <1>9

\* A click that finds a session: it is torn down, and a connect waits.
LEMMA CloseCurrentStep ==
  ASSUME Inv, NEW k \in Kind, CloseCurrentSession(k)
  PROVE  Inv'
<1> DEFINE A == Asked(k)
           w == [old |-> tab.session, k |-> k]
<1>1. /\ tab \in Tab /\ Len(tab.ws) \in Nat /\ Cardinality(waiting) \in Nat
      /\ IsFiniteSet(waiting)
      /\ Len(tab.ws) + Cardinality(waiting) < MaxSockets
  BY TabFields, FS_CardinalityType DEF Inv, TypeOK, CloseCurrentSession, CanClick
<1>2. /\ A \in Tab /\ A.session = tab.session /\ A.ws = tab.ws /\ A.hello = tab.hello
      /\ A.wiped = tab.wiped
  BY <1>1 DEF Tab, Asked
<1>3. w \in Wait
  BY <1>1, TabFields DEF Wait, CloseCurrentSession
<1> HIDE DEF A, w
<1>4. /\ tab' = Teardown(A, FALSE) /\ waiting' = waiting \cup {w}
      /\ UNCHANGED <<dialog, srv, behind, late>> /\ hasty' = (hasty \/ waiting # {})
  BY DEF CloseCurrentSession, MarkHaste, A, w
<1>5. Kept(A, tab') /\ tab'.session = None /\ ~tab'.pendingJoin
  BY <1>2, <1>4, TeardownKeeps
<1>6. IsFiniteSet(waiting') /\ Cardinality(waiting') <= Cardinality(waiting) + 1
      /\ Cardinality(waiting') \in Nat
  <2>1. IsFiniteSet(waiting \cup {w})
    BY <1>1, FS_AddElement
  <2>2. /\ Cardinality(waiting \cup {w}) \in Nat
        /\ Cardinality(waiting \cup {w}) \in {Cardinality(waiting), Cardinality(waiting) + 1}
    BY <1>1, <2>1, FS_AddElement, FS_CardinalityType
  <2>3. QED BY <1>1, <1>4, <2>1, <2>2
<1>7. TypeOK'
  <2>1. tab' \in Tab /\ Len(tab'.hello) = Len(tab'.ws) /\ Len(tab'.ws) = Len(tab.ws)
    BY <1>2, <1>5 DEF Kept, Inv, TypeOK
  <2>2. Len(tab'.ws) + Cardinality(waiting') <= MaxSockets
    BY <1>1, <1>6, <2>1, SocketsAssumption
  <2>3. QED BY <1>3, <1>4, <1>6, <2>1, <2>2 DEF Inv, TypeOK
<1>7a. Fresh(tab)'
  <2>1. Fresh(A) /\ DOMAIN tab'.ws = DOMAIN A.ws
    BY <1>2, <1>5, <1>7, TabFields DEF Inv, Fresh, Kept, TypeOK
  <2>2. QED BY <1>4, <1>5, <2>1 DEF Fresh, Kept
<1>8. CASE hasty'
  BY <1>7, <1>7a, <1>8, HastyStep
<1>9. CASE ~hasty'
  <2>1. ~hasty /\ waiting = {}
    BY <1>4, <1>9 DEF Inv, TypeOK
  <2>2. Ended(tab')
    BY <1>2, <1>5, <2>1 DEF Inv, Ended, Kept
  <2>3. \A s \in DOMAIN tab'.ws : s # None
    BY <1>7, TabFields, NoneAssumption, SocketsAssumption, FS_CardinalityType
       DEF TypeOK, Sock
  <2>4. Armed(tab)'
    BY <1>5, <2>3 DEF Armed
  <2>5. OneConnect'
    BY <1>4, <1>5, <2>1 DEF OneConnect
  <2>6. QED BY <1>7, <1>7a, <2>2, <2>4, <2>5 DEF Inv, Ended
<1>10. QED BY <1>8, <1>9

\* A new socket extends the set of sockets.
LEMMA OneMore ==
  ASSUME NEW n \in Nat, NEW S, S \subseteq 1 .. n
  PROVE  S \cup {n + 1} \subseteq 1 .. n + 1
  OBVIOUS

\* A connect that waited goes on: for the socket that it awaited or for its timer.
\* T is the tab at that moment, gone the connects that stop to wait.
LEMMA ConnectGoesOn ==
  ASSUME Inv, NEW T, Kept(tab, T), NEW gone \in SUBSET waiting, NEW w \in gone,
         tab' = NewSession(T, w.k), waiting' = waiting \ gone,
         behind' = behind \cup {tab'.session}, UNCHANGED <<dialog, srv, hasty, late>>
  PROVE  Inv'
<1> DEFINE n == Len(tab.ws)
<1>1. /\ tab \in Tab /\ n \in Nat /\ Len(tab.hello) = n /\ IsFiniteSet(waiting)
      /\ w \in waiting /\ w.k \in Kind /\ n + Cardinality(waiting) <= MaxSockets
  BY TabFields DEF Inv, TypeOK, Wait
<1>2. /\ IsFiniteSet(waiting') /\ Cardinality(waiting') \in Nat
      /\ Cardinality(waiting') + 1 <= Cardinality(waiting) /\ Cardinality(waiting) \in Nat
  <2>1. /\ IsFiniteSet(waiting \ {w}) /\ Cardinality(waiting \ {w}) = Cardinality(waiting) - 1
        /\ Cardinality(waiting) \in Nat
    BY <1>1, FS_RemoveElement, FS_CardinalityType
  <2>2. waiting' \subseteq waiting \ {w}
    OBVIOUS
  <2>3. IsFiniteSet(waiting') /\ Cardinality(waiting') <= Cardinality(waiting \ {w})
    BY <2>1, <2>2, FS_Subset
  <2>4. QED BY <2>1, <2>3, FS_CardinalityType
<1>3. /\ T \in Tab /\ Len(T.ws) = n /\ T.hello = tab.hello /\ n < MaxSockets
  BY <1>1, <1>2, SocketsAssumption DEF Kept
<1>4. /\ tab' \in Tab /\ tab'.session = n + 1 /\ tab'.pendingJoin = T.pendingJoin
      /\ tab'.ws = Append(T.ws, "connecting") /\ tab'.hello = Append(tab.hello, w.k)
  <2>1. Len(T.ws) < MaxSockets /\ Len(T.hello) = Len(T.ws)
    BY <1>1, <1>3
  <2>2. /\ NewSession(T, w.k) \in Tab /\ NewSession(T, w.k).session = Len(T.ws) + 1
        /\ NewSession(T, w.k).pendingJoin = T.pendingJoin
        /\ NewSession(T, w.k).ws = Append(T.ws, "connecting")
        /\ NewSession(T, w.k).hello = Append(T.hello, w.k)
    BY <1>1, <1>3, <2>1, NewSessionAdds
  <2>3. QED BY <1>3, <2>2
<1>5. Len(tab'.ws) = n + 1 /\ Len(tab'.hello) = n + 1
  BY <1>1, <1>3, <1>4, TabFields
<1>6. TypeOK'
  <2>1. Len(tab'.ws) + Cardinality(waiting') <= MaxSockets
    BY <1>1, <1>2, <1>5, SocketsAssumption
  <2>2. behind' \subseteq 1 .. Len(tab'.ws)
    <3>1. behind \subseteq 1 .. n
      BY DEF Inv, TypeOK
    <3>2. behind' = behind \cup {n + 1} /\ Len(tab'.ws) = n + 1
      BY <1>4, <1>5
    <3>3. behind \cup {n + 1} \subseteq 1 .. n + 1
      BY <1>1, <3>1, OneMore
    <3>4. QED BY <3>2, <3>3
  <2>3. waiting' \subseteq Wait
    BY DEF Inv, TypeOK
  <2>4. QED BY <1>2, <1>4, <1>5, <2>1, <2>2, <2>3 DEF Inv, TypeOK
<1>6a. Fresh(tab)'
  <2>1. DOMAIN T.ws = DOMAIN tab.ws
    BY <1>1, <1>3, TabFields
  <2>2. Fresh(T)
    BY <2>1 DEF Inv, Fresh, Kept
  <2>3. Fresh(NewSession(T, w.k))
    BY <1>1, <1>3, <2>2, NewSessionFresh
  <2>4. QED BY <2>3 DEF Fresh
<1>7. CASE hasty
  BY <1>6, <1>6a, <1>7, HastyStep
<1>8. CASE ~hasty
  <2>1. Ended(tab) /\ tab.session = None /\ ~tab.pendingJoin /\ waiting = {w}
    BY <1>1, <1>8 DEF Inv, OneConnect
  <2>2. Ended(T) /\ T.session = None /\ ~T.pendingJoin
    BY <2>1 DEF Kept
  <2>3. Ended(tab')
    BY <1>1, <1>3, <2>2, NewSessionEnded
  <2>4. Armed(tab)'
    BY <1>4, <2>2 DEF Armed
  <2>5. OneConnect'
    BY <2>1 DEF OneConnect
  <2>6. QED BY <1>6, <1>6a, <2>3, <2>4, <2>5 DEF Inv, Ended
<1>9. QED BY <1>7, <1>8

-----------------------------------------------------------------------------
\* Init establishes the invariant.
LEMMA InitInv == Init => Inv
<1> SUFFICES ASSUME Init PROVE Inv
  OBVIOUS
<1>1. tab \in Tab /\ tab.ws = <<>> /\ tab.hello = <<>>
  BY DEF Init, Tab
<1>2. TypeOK
  <2>1. IsFiniteSet(waiting) /\ Cardinality(waiting) = 0
    BY FS_EmptySet DEF Init
  <2>2. Len(tab.ws) + Cardinality(waiting) <= MaxSockets
    BY <1>1, <2>1, SocketsAssumption
  <2>3. /\ waiting = {} /\ behind = {} /\ dialog = FALSE /\ hasty = FALSE /\ late = FALSE
        /\ srv = [s \in Sock |-> "none"]
    BY DEF Init
  <2>4. QED BY <1>1, <2>1, <2>2, <2>3 DEF TypeOK
<1>3. Fresh(tab) /\ Ended(tab) /\ Armed(tab) /\ OneConnect
  BY <1>1 DEF Init, Fresh, Ended, Armed, OneConnect
<1>4. QED BY <1>2, <1>3 DEF Inv

\* Every task of the tab keeps it.
LEMMA NextInv == Inv /\ [Next]_vars => Inv'
<1> SUFFICES ASSUME Inv, [Next]_vars PROVE Inv'
  OBVIOUS
<1>0. /\ tab \in Tab /\ dialog \in BOOLEAN /\ late \in BOOLEAN /\ hasty \in BOOLEAN
      /\ waiting \subseteq Wait
      /\ srv \in [Sock -> {"none", "hello", "paired", "member", "refused"}]
      /\ \A s \in DOMAIN tab.ws : s \in Sock
  BY TabFields, SocketsAssumption, FS_CardinalityType DEF Inv, TypeOK, Sock
<1>0a. Kept(tab, tab)
  BY <1>0 DEF Kept
<1>1. ASSUME NEW k \in {"create", "redeem"}, Connect(k) PROVE Inv'
  BY <1>1, ConnectStep DEF Kind
<1>2. ASSUME NEW k \in {"create", "redeem"}, CloseCurrentSession(k) PROVE Inv'
  BY <1>2, CloseCurrentStep DEF Kind
<1>3. ASSUME NEW b \in BOOLEAN, OnLeaveClicked(b) PROVE Inv'
  <2>1. Kept(tab, tab')
    BY <1>0, <1>0a, <1>3, LeaveKeeps DEF OnLeaveClicked
  <2>2. QED BY <1>0, <1>3, <2>1, KeptStep DEF OnLeaveClicked
<1>4. ASSUME NEW b \in BOOLEAN, Answer(b) PROVE Inv'
  <2>1. Kept(tab, tab')
    BY <1>0, <1>0a, <1>4, LeaveKeeps DEF Answer
  <2>2. QED BY <1>0, <1>4, <2>1, KeptStep DEF Answer
<1>5. ASSUME RecoverIfSocketDead PROVE Inv'
  <2> DEFINE V == [tab EXCEPT !.intentional = FALSE]
  <2>1. V \in Tab /\ Kept(tab, V)
    <3>1. V \in Tab
      BY <1>0 DEF Tab
    <3>2. QED BY <1>0, <3>1, FlagsKept DEF Tab
  <2> HIDE DEF V
  <2>2. Kept(tab, OnClose(V))
    BY <1>0, <2>1, OnCloseKeeps, KeptTwice
  <2>3. Kept(tab, tab')
    BY <1>5, <2>2 DEF RecoverIfSocketDead, V
  <2>4. QED BY <1>0, <1>5, <2>3, KeptStep DEF RecoverIfSocketDead
<1>6. ASSUME NEW w \in waiting, Timeout(w) PROVE Inv'
  BY <1>0a, <1>6, ConnectGoesOn DEF Timeout
<1>7. ASSUME NEW s \in DOMAIN tab.ws, Open(s) PROVE Inv'
  <2>1. s = tab.session \/ hasty
    BY <1>7, OpenIsCurrent, <1>0 DEF Open
  <2>2. tab' \in Tab /\ (s = tab.session => Kept(tab, tab'))
    BY <1>0, <1>7, SetStateKeeps DEF Open, SetState, State
  <2>2a. srv[s] = "none"
    BY <1>0, <1>7 DEF Open, Inv, Fresh
  <2>2b. /\ tab'.ws = [tab.ws EXCEPT ![s] = "open"] /\ tab'.hello = tab.hello
    BY <1>0, <1>7 DEF Open, SetState, Tab
  <2>3. CASE s = tab.session
    BY <1>0, <1>7, <2>2, <2>2a, <2>2b, <2>3, KeptStep DEF Open
  <2>4. CASE hasty
    <3>2. Len(tab'.ws) = Len(tab.ws) /\ DOMAIN tab'.ws = DOMAIN tab.ws
      BY <1>0, <2>2b, TabFields
    <3>3. TypeOK'
      BY <1>0, <1>7, <2>2, <2>2b, <3>2 DEF Open, Inv, TypeOK
    <3>4. Fresh(tab)'
      BY <1>0, <1>7, <2>2b, <3>2 DEF Open, Inv, Fresh
    <3>5. QED BY <1>7, <2>4, <3>3, <3>4, HastyStep DEF Open
  <2>5. QED BY <2>1, <2>3, <2>4
<1>8. ASSUME NEW s \in DOMAIN tab.ws, Drop(s) PROVE Inv'
  <2>1. Kept(tab, tab')
    BY <1>0, <1>8, SetStateKeeps DEF Drop, SetState, State
  <2>2. QED BY <1>0, <1>8, <2>1, KeptStep DEF Drop
<1>9. ASSUME NEW s \in DOMAIN tab.ws, CloseEvent(s) PROVE Inv'
  <2> DEFINE V == [tab EXCEPT !.ws[s] = "closed"]
             W == {w \in waiting : w.old = s}
  <2>1. V \in Tab /\ Kept(tab, V)
    BY <1>0, SetStateKeeps DEF State
  <2> HIDE DEF V
  <2>2. Kept(tab, OnClose(V))
    BY <1>0, <2>1, OnCloseKeeps, KeptTwice
  <2>3. /\ waiting' = waiting \ W /\ UNCHANGED <<dialog, srv, hasty, late>>
        /\ IF W = {} THEN tab' = OnClose(V) /\ UNCHANGED behind
           ELSE \E w \in W : /\ tab' = NewSession(OnClose(V), w.k)
                             /\ behind' = behind \cup {tab'.session}
    BY <1>9 DEF CloseEvent, V
  <2>4. CASE W = {}
    <3>1. waiting' = waiting /\ Kept(tab, tab') /\ UNCHANGED behind
      BY <2>2, <2>3, <2>4
    <3>2. QED BY <1>0, <2>3, <3>1, KeptStep
  <2>5. CASE W # {}
    <3>1. PICK w \in W : /\ tab' = NewSession(OnClose(V), w.k)
                         /\ behind' = behind \cup {tab'.session}
      BY <2>3, <2>5
    <3>2. W \in SUBSET waiting /\ waiting' = waiting \ W
      BY <2>3
    <3> HIDE DEF W
    <3>3. QED BY <2>2, <2>3, <3>1, <3>2, ConnectGoesOn
  <2>6. QED BY <2>4, <2>5
<1>10. ASSUME NEW s \in DOMAIN tab.ws, Created(s) PROVE Inv'
  <2>1. Kept(tab, tab')
    BY <1>0, <1>10, AnswersKeep DEF Created
  <2>2. QED BY <1>10, <2>1, MessageStep DEF Created
<1>11. ASSUME NEW s \in DOMAIN tab.ws, Refused(s) PROVE Inv'
  <2>1. Kept(tab, tab')
    BY <1>0, <1>11, AnswersKeep DEF Refused
  <2>2. QED BY <1>11, <2>1, MessageStep DEF Refused
<1>12. ASSUME NEW s \in DOMAIN tab.ws, RedeemOk(s) PROVE Inv'
  \* The code is used up together with the answer of this very session.
  <2>1. /\ tab' = OnRedeemOk(tab) /\ tab.ws[s] = "open" /\ srv' = [srv EXCEPT ![s] = "paired"]
        /\ UNCHANGED <<waiting, dialog, behind, hasty, late>>
    BY <1>12 DEF RedeemOk, Message
  <2>2. /\ tab' \in Tab /\ tab'.ws = tab.ws /\ tab'.hello = tab.hello
        /\ tab'.wiped = tab.wiped /\ tab'.session = tab.session
        /\ (tab'.pendingJoin => tab.pendingJoin)
    BY <1>0, <2>1 DEF OnRedeemOk, Tab
  <2>3. TypeOK'
    BY <1>0, <2>1, <2>2 DEF Inv, TypeOK
  <2>3a. Fresh(tab)'
    BY <1>0, <2>1, <2>2 DEF Inv, Fresh
  <2>4. CASE hasty
    BY <2>1, <2>3, <2>3a, <2>4, HastyStep
  <2>5. CASE ~hasty
    <3>1. s = tab.session
      BY <2>1, <2>5, OpenIsCurrent
    <3>2. Ended(tab) /\ Armed(tab) /\ OneConnect
      BY <2>5 DEF Inv
    <3>3. Ended(tab)' /\ OneConnect'
      BY <2>1, <2>2, <3>2 DEF Ended, OneConnect
    <3>4. Armed(tab)'
      BY <1>0, <2>1, <2>2, <3>1 DEF Armed
    <3>5. QED BY <2>3, <2>3a, <3>3, <3>4 DEF Inv
  <2>6. QED BY <2>4, <2>5
<1>13. ASSUME NEW s \in DOMAIN tab.ws, HandshakeOver(s) PROVE Inv'
  <2>1. Kept(tab, tab')
    BY <1>0, <1>13, AnswersKeep DEF HandshakeOver
  <2>2. \/ Message(s, "paired", "member") \/ Message(s, "paired", "refused")
    BY <1>13 DEF HandshakeOver
  <2>3. QED BY <2>1, <2>2, MessageStep
<1>14. ASSUME NEW s \in DOMAIN tab.ws, RoomClosed(s) PROVE Inv'
  <2>1. Kept(tab, tab')
    BY <1>0, <1>14, LeaveKeeps DEF RoomClosed
  <2>2. QED BY <1>14, <2>1, MessageStep DEF RoomClosed
<1>15. CASE UNCHANGED vars
  BY <1>0, <1>0a, <1>15, KeptStep DEF vars
<1>16. QED
  BY <1>1, <1>2, <1>3, <1>4, <1>5, <1>6, <1>7, <1>8, <1>9, <1>10, <1>11, <1>12, <1>13,
     <1>14, <1>15 DEF Next, User, Event

\* The inductive invariant holds in every reachable state.
THEOREM TabInvariant == Spec => []Inv
<1>1. QED BY InitInv, NextInv, PTL DEF Spec

\* One live socket per tab, and the keys of every earlier session are zeroed,
\* however many sockets the tab opens and whenever their close events come
\* (closeCurrentSession, teardown).
THEOREM SessionsNeverOverlap == Spec => []OldSessionsEnded
<1>1. Inv => OldSessionsEnded
  BY DEF Inv, Ended, OldSessionsEnded
<1>2. QED BY <1>1, TabInvariant, PTL

\* redeem_ok finds its code exactly when the join form did not have to close an
\* older session first (connect, onRedeemOk).
THEOREM CodeKeptForAnswer == Spec => []JoinArmed
<1>1. Inv => JoinArmed
  BY DEF Inv, Armed, JoinArmed
<1>2. QED BY <1>1, TabInvariant, PTL
=============================================================================
