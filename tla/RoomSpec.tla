------------------------------ MODULE RoomSpec ------------------------------
(***************************************************************************)
(* What a room promises, with every critical section of the server taken   *)
(* as one atomic step on the room: it is opened once, its first member     *)
(* owns it, members come up to the configured size and go, ownership moves *)
(* only to a member, nobody but a non-owner can be taken out of a living   *)
(* room, and its destruction empties it for good.                          *)
(***************************************************************************)
CONSTANTS
  Conn, Room, None,
  HasSpace(_)  \* HasSpace(S): a room with the members S takes one more

VARIABLES status, members, owner

roomSpecVars == <<status, members, owner>>

Init ==
  /\ status = [r \in Room |-> "absent"]
  /\ members = [r \in Room |-> {}]
  /\ owner = [r \in Room |-> None]

Open(r) ==
  /\ status[r] = "absent"
  /\ status' = [status EXCEPT ![r] = "open"]
  /\ UNCHANGED <<members, owner>>

Join(r, c) ==
  /\ status[r] = "open"
  /\ c \notin members[r]
  /\ HasSpace(members[r])
  /\ members' = [members EXCEPT ![r] = @ \cup {c}]
  /\ owner' = [owner EXCEPT ![r] = IF members[r] = {} THEN c ELSE @]
  /\ UNCHANGED status

\* By its own leave, a lost connection or a kick.
Depart(r, c) ==
  /\ status[r] = "open"
  /\ c \in members[r] /\ c # owner[r]
  /\ members' = [members EXCEPT ![r] = @ \ {c}]
  /\ UNCHANGED <<status, owner>>

Transfer(r, c) ==
  /\ status[r] = "open"
  /\ c \in members[r]
  /\ owner' = [owner EXCEPT ![r] = c]
  /\ UNCHANGED <<status, members>>

Destroy(r) ==
  /\ status[r] = "open"
  /\ status' = [status EXCEPT ![r] = "closed"]
  /\ members' = [members EXCEPT ![r] = {}]
  /\ owner' = [owner EXCEPT ![r] = None]

Next ==
  \E r \in Room : \/ Open(r) \/ Destroy(r)
                  \/ \E c \in Conn : Join(r, c) \/ Depart(r, c) \/ Transfer(r, c)

Spec == Init /\ [][Next]_roomSpecVars
=============================================================================
