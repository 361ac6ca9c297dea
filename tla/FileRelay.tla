------------------------------ MODULE FileRelay ------------------------------
(***************************************************************************)
(* The relay's accounting of file transfers: handleFile, abortFile,        *)
(* finishFile, the atomic counter Hub.inflight and its release when a      *)
(* sender disconnects.                                                     *)
(*                                                                         *)
(* Every connection has one goroutine, which alone uses its own map        *)
(* FileTransfers; the counter is shared.  A step is one atomic addition    *)
(* together with the private work around it, so reservations, rollbacks    *)
(* and releases of different senders interleave.  Frame contents are not   *)
(* modelled; last records what the other members saw of a transfer.        *)
(***************************************************************************)
EXTENDS Integers, FiniteSets, Functions

CONSTANTS
  Conn,              \* connections of room members
  Transfer,          \* transfer ids, each chosen by its sender
  ChunkSize,         \* len(m.Data) of a chunk frame
  MaxFileBytes,      \* cfg.MaxFileBytes
  MaxInflightBytes,  \* cfg.MaxInflightBytes
  None               \* no transfer

ASSUME ConnAssumption == IsFiniteSet(Conn)
ASSUME SizesAssumption == ChunkSize \subseteq Nat
ASSUME CapsAssumption == MaxFileBytes \in Nat /\ MaxInflightBytes \in Nat
ASSUME NoneAssumption == None \notin Transfer

VARIABLES
  fpc,        \* fpc[c]: where the goroutine of c is
  transfers,  \* transfers[c]: Client.FileTransfers, a map of running transfers
  now,        \* now[c]: transfer and size of the chunk being handled
  inflight,   \* Hub.inflight
  kicked,     \* connections whose outbound channel was closed by a kick
  last,       \* last[c][x]: the latest frame of c's transfer x that was relayed
  leaked      \* history: bytes counted by transfers that were then started again

vars == <<fpc, transfers, now, inflight, kicked, last, leaked>>

Idle == [x |-> None, n |-> 0]

Init ==
  /\ fpc = [c \in Conn |-> "read"]
  /\ transfers = [c \in Conn |-> <<>>]
  /\ now = [c \in Conn |-> Idle]
  /\ inflight = 0
  /\ kicked = {}
  /\ last = [c \in Conn |-> [x \in Transfer |-> "none"]]
  /\ leaked = 0

-----------------------------------------------------------------------------
Goto(c, l) == fpc' = [fpc EXCEPT ![c] = l]

Running(c, x) == x \in DOMAIN transfers[c]
Counted(c, x) == IF Running(c, x) THEN transfers[c][x] ELSE 0

SetBytes(c, x, n) ==
  transfers' = [transfers EXCEPT ![c] = [y \in DOMAIN @ \cup {x} |->
                                           IF y = x THEN n ELSE @[y]]]

\* BroadcastExcept asks for no membership: a kicked sender is relayed too.
Relayed(c, x, f) == last' = [last EXCEPT ![c][x] = f]

\* finishFile: release what the transfer counted, then forget it.
FinishFileForgets(c, x) ==  \* mutant: the bytes are not given back
  /\ transfers' = [transfers EXCEPT ![c] = Restrict(@, DOMAIN @ \ {x})]
  /\ UNCHANGED inflight
FinishFile(c, x) ==
  /\ inflight' = inflight - Counted(c, x)
  /\ transfers' = [transfers EXCEPT ![c] = Restrict(@, DOMAIN @ \ {x})]

-----------------------------------------------------------------------------
(* handleFile. *)

\* A repeated file_start sets the counter of the transfer back to zero.
FileStart(c, x) ==
  /\ fpc[c] = "read"
  /\ SetBytes(c, x, 0)
  /\ leaked' = leaked + Counted(c, x)
  /\ Relayed(c, x, "start")
  /\ UNCHANGED <<fpc, now, inflight, kicked>>

TooLargeBefore(c, x, n) == Counted(c, x) > MaxFileBytes  \* mutant: the old total
TooLarge(c, x, n) == Counted(c, x) + n > MaxFileBytes

\* The per-file cap: straight to abortFile.
ChunkTooLarge(c, x, n) ==
  /\ fpc[c] = "read" /\ Running(c, x) /\ TooLarge(c, x, n)
  /\ now' = [now EXCEPT ![c] = [x |-> x, n |-> 0]]
  /\ Goto(c, "abort")
  /\ UNCHANGED <<transfers, inflight, kicked, last, leaked>>

\* AddInflight(size) and the test of its result.
OverCapBefore(n) == inflight > MaxInflightBytes  \* mutant: the old total is tested
OverCap(n) == inflight + n > MaxInflightBytes

ChunkUnknown(c, x, n) ==  \* mutant: chunks of an unknown transfer are accepted
  /\ fpc[c] = "read" /\ ~TooLarge(c, x, n) /\ ~OverCap(n)
  /\ inflight' = inflight + n
  /\ SetBytes(c, x, Counted(c, x) + n)
  /\ Relayed(c, x, "chunk")
  /\ UNCHANGED <<fpc, now, kicked, leaked>>
Chunk(c, x, n) ==
  /\ fpc[c] = "read" /\ Running(c, x) /\ ~TooLarge(c, x, n) /\ ~OverCap(n)
  /\ inflight' = inflight + n
  /\ SetBytes(c, x, Counted(c, x) + n)
  /\ Relayed(c, x, "chunk")
  /\ UNCHANGED <<fpc, now, kicked, leaked>>

ChunkOverCap(c, x, n) ==
  /\ fpc[c] = "read" /\ Running(c, x) /\ ~TooLarge(c, x, n) /\ OverCap(n)
  /\ inflight' = inflight + n
  /\ now' = [now EXCEPT ![c] = [x |-> x, n |-> n]]
  /\ Goto(c, "rollback")
  /\ UNCHANGED <<transfers, kicked, last, leaked>>

\* AddInflight(-size)
Rollback(c) ==
  /\ fpc[c] = "rollback"
  /\ inflight' = inflight - now[c].n
  /\ now' = [now EXCEPT ![c].n = 0]
  /\ Goto(c, "abort")
  /\ UNCHANGED <<transfers, kicked, last, leaked>>

\* abortFile: the error frame to the sender comes before the broadcast; on the
\* closed channel of a kicked sender it panics and the deferred calls run.
Abort(c) ==
  /\ fpc[c] = "abort"
  /\ FinishFile(c, now[c].x)
  /\ IF c \in kicked
       THEN Goto(c, "release") /\ UNCHANGED last
       ELSE Goto(c, "read") /\ Relayed(c, now[c].x, "abort")
  /\ now' = [now EXCEPT ![c] = Idle]
  /\ UNCHANGED <<kicked, leaked>>

\* file_end and file_abort are relayed for unknown transfers too.
FileEnd(c, x) ==
  /\ fpc[c] = "read"
  /\ FinishFile(c, x)
  /\ \E f \in {"end", "abort"} : Relayed(c, x, f)
  /\ UNCHANGED <<fpc, now, kicked, leaked>>

-----------------------------------------------------------------------------
(* Around handleFile: kicks, and the deferred release in session. *)

Kick(c) ==
  /\ c \notin kicked /\ fpc[c] \notin {"release", "done"}
  /\ kicked' = kicked \cup {c}
  /\ UNCHANGED <<fpc, transfers, now, inflight, last, leaked>>

Disconnect(c) ==
  /\ fpc[c] = "read"
  /\ Goto(c, "release")
  /\ UNCHANGED <<transfers, now, inflight, kicked, last, leaked>>

Release(c) ==
  /\ fpc[c] = "release"
  /\ \E x \in DOMAIN transfers[c] : FinishFile(c, x)
  /\ UNCHANGED <<fpc, now, kicked, last, leaked>>

Released(c) ==
  /\ fpc[c] = "release" /\ DOMAIN transfers[c] = {}
  /\ Goto(c, "done")
  /\ UNCHANGED <<transfers, now, inflight, kicked, last, leaked>>

AllGone == (\A c \in Conn : fpc[c] = "done") /\ UNCHANGED vars

Next ==
  \/ \E c \in Conn, x \in Transfer :
       \/ FileStart(c, x) \/ FileEnd(c, x)
       \/ \E n \in ChunkSize : \/ ChunkTooLarge(c, x, n) \/ Chunk(c, x, n)
                               \/ ChunkOverCap(c, x, n)
  \/ \E c \in Conn : \/ Rollback(c) \/ Abort(c) \/ Kick(c) \/ Disconnect(c)
                     \/ Release(c) \/ Released(c)
  \/ AllGone

Spec == Init /\ [][Next]_vars

-----------------------------------------------------------------------------
TotalCounted == SumFunction([c \in Conn |-> SumFunction(transfers[c])])
TotalReserved == SumFunction([c \in Conn |-> now[c].n])

\* Type invariant; the counted bytes of a transfer respect the per-file cap.
TypeInv ==
  /\ fpc \in [Conn -> {"read", "rollback", "abort", "release", "done"}]
  /\ \A c \in Conn : /\ DOMAIN transfers[c] \subseteq Transfer
                     /\ \A x \in DOMAIN transfers[c] :
                          transfers[c][x] \in 0 .. MaxFileBytes
  /\ now \in [Conn -> [x : Transfer \cup {None}, n : ChunkSize \cup {0}]]
  /\ inflight \in Int /\ leaked \in Nat
  /\ kicked \subseteq Conn
  /\ last \in [Conn -> [Transfer -> {"none", "start", "chunk", "end", "abort"}]]

\* Hub.inflight is exactly what the running transfers counted plus the
\* reservations that are about to be rolled back, whatever end, abort, panic
\* or disconnect interleaves; so it never goes negative, and a rejected sender
\* inflates it only until its rollback.  The one leak is a file_start repeated
\* for a running transfer: its bytes so far are never released, not even when
\* every sender is gone.
ExactAccounting == inflight = TotalCounted + TotalReserved + leaked

\* The bytes of accepted chunks of all concurrent transfers never exceed
\* MaxInflightBytes, although reserving and checking is one addition after
\* which the counter may be over the cap for a while.
AcceptedWithinCap == TotalCounted <= MaxInflightBytes

\* The other members see a chunk only inside a transfer they saw start and that
\* was neither ended nor aborted since.
ChunkInsideTransfer ==
  [][\A c \in Conn, x \in Transfer :
       last'[c][x] = "chunk" => last[c][x] \in {"start", "chunk"}]_vars
=============================================================================
