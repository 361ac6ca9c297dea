----------------------------- MODULE TabSession -----------------------------
(***************************************************************************)
(* One browser tab: its sockets, the session variable, pendingJoin, the    *)
(* flag intentionalClose, the view, and the leave dialog.                  *)
(*                                                                         *)
(* The event loop runs one task at a time; an action is one task.  The     *)
(* tab's variables are one record, and the functions of main.ts that       *)
(* change them are operators from record to record, composed as the code   *)
(* calls them.  A socket dispatches messages while it is open, to whatever *)
(* session is current, and its close event once, whoever began the close.  *)
(* A session is named by its socket.  The server's answers are those of    *)
(* Relay, in any order it may give them.                                   *)
(***************************************************************************)
EXTENDS Naturals, Sequences, FiniteSets

CONSTANTS
  MaxSockets,  \* bound of the model: sockets opened by the tab
  None

ASSUME SocketsAssumption == MaxSockets \in Nat \ {0}

Sock == 1 .. MaxSockets
ASSUME NoneAssumption == None \notin Sock

VARIABLES
  tab,      \* the tab's variables, see Init
  waiting,  \* connects that await the close of an old socket
  dialog,   \* is the owner's leave dialog open?
  srv,      \* srv[s]: what the server made of socket s
  \* history
  behind,   \* sockets opened by a connect that had to wait
  hasty,    \* did the user click while a connect was waiting?
  late      \* was the leave dialog answered after its session had ended?

vars == <<tab, waiting, dialog, srv, behind, hasty, late>>

Init ==
  /\ tab = [session |-> None,          \* the current session
            room |-> FALSE,            \* its room # ""
            rec |-> FALSE,             \* has it a handshake record?
            pendingJoin |-> FALSE,     \* pendingJoin # null
            intentional |-> FALSE,     \* intentionalClose
            view |-> "lobby",
            ws |-> <<>>,               \* readyState of every socket
            hello |-> <<>>,            \* what each one asks for
            wiped |-> {}]              \* sessions whose keys were zeroed
  /\ waiting = {} /\ dialog = FALSE
  /\ srv = [s \in Sock |-> "none"]
  /\ behind = {} /\ hasty = FALSE /\ late = FALSE

-----------------------------------------------------------------------------
(* Functions of main.ts. *)

\* teardown: zero the keys, close the socket, forget the session.
Teardown(T, returnToLobby) ==
  [T EXCEPT !.session = None, !.room = FALSE, !.rec = FALSE, !.pendingJoin = FALSE,
            !.wiped = @ \cup ({T.session} \ {None}),
            !.ws = [s \in DOMAIN @ |-> IF s = T.session /\ @[s] # "closed"
                                         THEN "closing" ELSE @[s]],
            !.view = IF returnToLobby THEN "lobby" ELSE @]

\* connect, once the old session is closed: a new socket and a new session.
NewSession(T, k) ==
  [T EXCEPT !.session = Len(T.ws) + 1, !.room = FALSE, !.rec = FALSE,
            !.ws = Append(@, "connecting"), !.hello = Append(@, k)]

OnCloseKeepsFlag(T) ==  \* mutant: the flag is never taken back
  IF ~T.room THEN Teardown(T, FALSE) ELSE IF T.intentional THEN T ELSE Teardown(T, TRUE)
OnClose(T) ==
  [(CASE T.room /\ ~T.intentional -> Teardown(T, TRUE)
      [] ~T.room -> Teardown(T, FALSE)
      [] OTHER -> T) EXCEPT !.intentional = FALSE]

OnWelcome(T) == IF T.session = None THEN T ELSE [T EXCEPT !.room = TRUE, !.view = "room"]

\* onRedeemOk: ignored when nothing is pending.
OnRedeemOk(T) ==
  IF T.session = None \/ ~T.pendingJoin THEN T
  ELSE [T EXCEPT !.pendingJoin = FALSE, !.rec = TRUE]

\* handleError; inside a room other errors are only shown.
HandleError(T, reason) ==
  IF reason = "already_in_room" \/ ~T.room THEN Teardown(T, FALSE) ELSE T

OnRoomClosed(T) == Teardown([T EXCEPT !.intentional = TRUE], TRUE)

DoLeave(T) == Teardown([T EXCEPT !.intentional = TRUE], TRUE)

-----------------------------------------------------------------------------
(* The user. *)

\* The create button and the join form, shown in the lobby only.  A session that
\* is still there is torn down and its socket awaited (closeCurrentSession); the
\* join form sets pendingJoin before that.
CanClick ==
  /\ tab.view = "lobby" /\ ~dialog
  /\ Len(tab.ws) + Cardinality(waiting) < MaxSockets
MarkHaste == hasty' = (hasty \/ waiting # {})
AskedNothing(k) == tab  \* mutant: the code of the invite is not kept
Asked(k) == [tab EXCEPT !.pendingJoin = (k = "redeem") \/ @]

Connect(k) ==
  /\ CanClick /\ tab.session = None
  /\ tab' = NewSession(Asked(k), k)
  /\ MarkHaste
  /\ UNCHANGED <<waiting, dialog, srv, behind, late>>

ConnectAnyway(k) ==  \* mutant: the old session is overwritten
  /\ CanClick /\ tab.session # None
  /\ tab' = NewSession(Asked(k), k)
  /\ MarkHaste
  /\ UNCHANGED <<waiting, dialog, srv, behind, late>>
CloseCurrentSession(k) ==
  /\ CanClick /\ tab.session # None
  /\ tab' = Teardown(Asked(k), FALSE)
  /\ waiting' = waiting \cup {[old |-> tab.session, k |-> k]}
  /\ MarkHaste
  /\ UNCHANGED <<dialog, srv, behind, late>>

\* The safety timeout of closeCurrentSession: connect goes on without the close.
Timeout(w) ==
  /\ tab' = NewSession(tab, w.k)
  /\ waiting' = waiting \ {w}
  /\ behind' = behind \cup {tab'.session}
  /\ UNCHANGED <<dialog, srv, hasty, late>>

\* The leave button: an owner is asked first, and the dialog stays open when the
\* room ends behind it.
OnLeaveClicked(owner) ==
  /\ tab.view = "room" /\ ~dialog /\ tab.session # None
  /\ IF owner THEN dialog' = TRUE /\ UNCHANGED tab
              ELSE tab' = DoLeave(tab) /\ UNCHANGED dialog
  /\ UNCHANGED <<waiting, srv, behind, hasty, late>>

Answer(leave) ==
  /\ dialog /\ dialog' = FALSE
  /\ tab' = IF leave THEN DoLeave(tab) ELSE tab
  /\ late' = (late \/ (leave /\ tab.session = None))
  /\ UNCHANGED <<waiting, srv, behind, hasty>>

\* The tab becomes visible again and finds its socket dead.
RecoverIfSocketDead ==
  /\ tab.session # None /\ tab.ws[tab.session] \in {"closing", "closed"}
  /\ tab' = OnClose([tab EXCEPT !.intentional = FALSE])
  /\ UNCHANGED <<waiting, dialog, srv, behind, hasty, late>>

-----------------------------------------------------------------------------
(* Socket events. *)

SetState(s, st) == tab' = [tab EXCEPT !.ws[s] = st]

\* The hello goes out when the socket opens.
Open(s) ==
  /\ tab.ws[s] = "connecting"
  /\ SetState(s, "open")
  /\ srv' = [srv EXCEPT ![s] = "hello"]
  /\ UNCHANGED <<waiting, dialog, behind, hasty, late>>

\* The server or the network ends the connection.
Drop(s) ==
  /\ tab.ws[s] \in {"connecting", "open"}
  /\ SetState(s, "closing")
  /\ UNCHANGED <<waiting, dialog, srv, behind, hasty, late>>

\* The close event: onClose, then the connect that awaits this socket.
CloseEvent(s) ==
  /\ tab.ws[s] = "closing"
  /\ LET T == OnClose([tab EXCEPT !.ws[s] = "closed"])
         W == {w \in waiting : w.old = s}
     IN /\ waiting' = waiting \ W
        /\ IF W = {} THEN tab' = T /\ UNCHANGED behind
           ELSE \E w \in W : /\ tab' = NewSession(T, w.k)
                             /\ behind' = behind \cup {tab'.session}
  /\ UNCHANGED <<dialog, srv, hasty, late>>

\* A message on an open socket: the server goes from state a to b.
Message(s, a, b) ==
  /\ tab.ws[s] = "open" /\ srv[s] = a
  /\ srv' = [srv EXCEPT ![s] = b]
  /\ UNCHANGED <<waiting, dialog, behind, hasty, late>>

Created(s) == tab.hello[s] = "create" /\ Message(s, "hello", "member") /\ tab' = OnWelcome(tab)

Refused(s) ==
  /\ Message(s, "hello", "refused")
  /\ \E reason \in {"already_in_room", "other"} : tab' = HandleError(tab, reason)

RedeemOk(s) ==
  tab.hello[s] = "redeem" /\ Message(s, "hello", "paired") /\ tab' = OnRedeemOk(tab)

\* Handshake: only the session of this very socket can answer the owner.
HandshakeOver(s) ==
  /\ tab.session = s /\ tab.rec
  /\ \/ Message(s, "paired", "member") /\ tab' = OnWelcome(tab)
     \/ Message(s, "paired", "refused") /\ tab' = Teardown(tab, TRUE)

RoomClosed(s) == Message(s, "member", "refused") /\ tab' = OnRoomClosed(tab)

-----------------------------------------------------------------------------
User ==
  \/ \E k \in {"create", "redeem"} : Connect(k) \/ CloseCurrentSession(k)
  \/ \E b \in BOOLEAN : OnLeaveClicked(b) \/ Answer(b)
  \/ RecoverIfSocketDead

Event(s) ==
  \/ Open(s) \/ Drop(s) \/ CloseEvent(s) \/ Created(s) \/ Refused(s)
  \/ RedeemOk(s) \/ HandshakeOver(s) \/ RoomClosed(s)

Next ==
  \/ User
  \/ \E w \in waiting : Timeout(w)
  \/ \E s \in DOMAIN tab.ws : Event(s)

\* A socket that is closing closes, and timers fire.  Nothing else is promised:
\* neither an answer of the server nor a click.
Spec ==
  /\ Init /\ [][Next]_vars
  /\ \A s \in Sock : WF_vars(s \in DOMAIN tab.ws /\ CloseEvent(s))
  /\ WF_vars(\E w \in waiting : Timeout(w))

-----------------------------------------------------------------------------
\* One live socket per tab, that of the current session, and every earlier
\* session has had its keys zeroed (closeCurrentSession, teardown), however late
\* the close events of old sockets come.  The exception: a click while a connect
\* still waits starts a second one.
OldSessionsEnded ==
  hasty \/ \A s \in DOMAIN tab.ws :
    s = tab.session \/ (s \in tab.wiped /\ tab.ws[s] \in {"closing", "closed"})

\* redeem_ok finds its pendingJoin, unless the join form had to close an older
\* session first: that teardown clears what the form had just set, so a join
\* retried from a pending one is never answered.
JoinArmed ==
  hasty \/ \A s \in DOMAIN tab.ws :
    tab.session = s /\ tab.hello[s] = "redeem" /\ srv[s] \in {"none", "hello"} =>
      (tab.pendingJoin <=> s \notin behind)

\* A room view whose connection is dead goes back to the lobby by itself (onClose).
\* The exceptions: a leave dialog answered late sets intentionalClose without a
\* socket whose close event would take it back, and a hasty click.
DeadRoomEnds ==
  (tab.view = "room" /\ (tab.session = None \/ tab.ws[tab.session] = "closed"))
    ~> (tab.view = "lobby" \/ late \/ hasty)
=============================================================================
