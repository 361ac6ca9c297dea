------------------------------ MODULE FileShare ------------------------------
(***************************************************************************)
(* A file on its way from one browser to the others: staging, the upload   *)
(* loop of sendFile, which gives up the event loop between two chunks, the *)
(* relay, and reassembly by the receivers, while the room key rotates and  *)
(* the sender may leave and enter another room.                            *)
(*                                                                         *)
(* A room key is a number in the order of generation.  Keys are arrays     *)
(* that wipeKey zeroes in place: whoever still refers to a key that has    *)
(* left session.keys seals and opens with the zero key.  The relay does    *)
(* with a transfer what FileRelay says and delivers in order (Outbound);   *)
(* it may reject any chunk.  What goes to another room is lost there:      *)
(* nobody in it holds the key that the transfer names.                     *)
(***************************************************************************)
EXTENDS Naturals, Sequences, Functions

CONSTANTS
  Receiver,     \* the other browsers of the room
  Sender,
  Transfer,     \* files, each sent once under a random id
  Chunks,       \* number of chunks of a file
  MaxKeptKeys,  \* MAX_KEPT_KEYS
  MaxKey,       \* bound of the model: keys generated
  None

ASSUME SenderAssumption == Sender \notin Receiver
ASSUME CountsAssumption == {Chunks, MaxKeptKeys, MaxKey} \subseteq Nat \ {0}
ASSUME NoneAssumption == None \notin Transfer

Browser == Receiver \cup {Sender}
Index == 0 .. Chunks - 1
Zero == 0               \* the content of a wiped key
Foreign == MaxKey + 1   \* the key of another room

VARIABLES
  place,     \* the sender's session: in the "room", "none", or in an "other" room
  keys,      \* keys[b]: session.keys, newest first
  staged,    \* the attachment shown below the input
  upload,    \* upload[x]: the activation of sendFile
  relay,     \* relay[x]: "new", "running" or "over" at the server
  down,      \* down[r]: frames on their way to receiver r
  notices,   \* rejections on their way to the sender
  incoming,  \* incoming[r][x]: the key of a transfer being received
  got,       \* got[r][x]: chunks opened, the parts
  shown      \* shown[b][x]: the file message of x in browser b

vars == <<place, keys, staged, upload, relay, down, notices, incoming, got, shown>>

Init ==
  /\ place = "room"
  /\ keys = [b \in Browser |-> <<1>>]
  /\ staged = None
  /\ upload = [x \in Transfer |-> [pc |-> "idle", key |-> None, i |-> 0]]
  /\ relay = [x \in Transfer |-> "new"]
  /\ down = [r \in Receiver |-> <<>>]
  /\ notices = {}
  /\ incoming = [r \in Receiver |-> [x \in Transfer |-> None]]
  /\ got = [r \in Receiver |-> [x \in Transfer |-> {}]]
  /\ shown = [b \in Browser |-> [x \in Transfer |-> "none"]]

-----------------------------------------------------------------------------
Held(b) == Range(keys[b])

\* What a reference to key k refers to: wipeKey has zeroed what is not held.
Content(b, k) == IF k \in Held(b) THEN k ELSE Zero

\* A file message that is still in fileMsgs gets its outcome, once.
Outcome(b, x, what) ==
  shown' = [shown EXCEPT ![b][x] = IF @ = "progress" THEN what ELSE @]

-----------------------------------------------------------------------------
(* The room around the transfer. *)

\* pushKey: a rotation reaches browser b.
PushKey(b) ==
  /\ keys[b] # <<>> /\ Head(keys[b]) < MaxKey
  /\ keys' = [keys EXCEPT ![b] =
       SubSeq(<<Head(@) + 1>> \o @, 1, IF Len(@) < MaxKeptKeys THEN Len(@) + 1
                                                               ELSE MaxKeptKeys)]
  /\ UNCHANGED <<place, staged, upload, relay, down, notices, incoming, got, shown>>

\* The sender leaves or loses its connection: teardown.  The relay releases the
\* counters of its transfers and tells nobody.
Leave ==
  /\ place = "room"
  /\ place' = "none"
  /\ keys' = [keys EXCEPT ![Sender] = <<>>]
  /\ staged' = None
  /\ notices' = {}
  /\ shown' = [shown EXCEPT ![Sender] = [x \in Transfer |-> "none"]]
  /\ UNCHANGED <<upload, relay, down, incoming, got>>

Rejoin ==
  /\ place = "none"
  /\ place' = "other"
  /\ keys' = [keys EXCEPT ![Sender] = <<Foreign>>]
  /\ UNCHANGED <<staged, upload, relay, down, notices, incoming, got, shown>>

-----------------------------------------------------------------------------
(* The sender. *)

\* onFileSelected: replaces what was staged.
OnFileSelected(x) ==
  /\ place = "room" /\ upload[x].pc = "idle"
  /\ staged' = x
  /\ UNCHANGED <<place, keys, upload, relay, down, notices, incoming, got, shown>>

\* The form is submitted: sendFile refers to the newest key and reads the file.
SendFile(x) ==
  /\ place = "room" /\ staged = x
  /\ staged' = None
  /\ upload' = [upload EXCEPT ![x] = [pc |-> "read", key |-> Head(keys[Sender]), i |-> 0]]
  /\ UNCHANGED <<place, keys, relay, down, notices, incoming, got, shown>>

\* sealBytes, with the array that the upload refers to.
SealBytes(x) == Content(Sender, upload[x].key)

Start(x) == [t |-> "file_start", x |-> x, i |-> 0, kid |-> upload[x].key,
             seal |-> SealBytes(x)]
NewestChunk(x) ==  \* mutant: every chunk is sealed under the newest key
  [t |-> "file_chunk", x |-> x, i |-> upload[x].i, kid |-> None, seal |-> Head(keys[Sender])]
Chunk(x) == [t |-> "file_chunk", x |-> x, i |-> upload[x].i, kid |-> None,
             seal |-> SealBytes(x)]
Note(t, x) == [t |-> t, x |-> x, i |-> 0, kid |-> None, seal |-> None]

\* send, and handleFile for the frames of this room: the chunk is relayed or
\* the transfer is rejected and its chunks ignored from then on.
Sends(x, first, reject) ==
  LET live == place = "room" /\ (first # <<>> \/ relay[x] = "running")
      f == IF reject THEN Note("file_abort", x) ELSE Chunk(x)
  IN /\ reject => live
     /\ down' = [r \in Receiver |-> IF live THEN down[r] \o first \o <<f>> ELSE down[r]]
     /\ relay' = [relay EXCEPT ![x] = IF ~live THEN @
                                      ELSE IF reject THEN "over" ELSE "running"]
     /\ notices' = IF reject THEN notices \cup {x} ELSE notices

\* The file is read: its metadata and the first chunk go out in one task.
Begin(x, reject) ==
  /\ upload[x].pc = "read"
  /\ shown' = [shown EXCEPT ![Sender][x] = IF place = "none" THEN @ ELSE "progress"]
  /\ Sends(x, <<Start(x)>>, reject)
  /\ upload' = [upload EXCEPT ![x].pc = "loop", ![x].i = 1]
  /\ UNCHANGED <<place, keys, staged, incoming, got>>

\* The timer between two chunks has fired: give up without a session, ...
Abandon(x) ==
  /\ upload[x].pc = "loop" /\ place = "none"
  /\ upload' = [upload EXCEPT ![x].pc = "done"]
  /\ UNCHANGED <<place, keys, staged, relay, down, notices, incoming, got, shown>>

\* ... send the next chunk, ...
NextChunk(x, reject) ==
  /\ upload[x].pc = "loop" /\ place # "none" /\ upload[x].i < Chunks
  /\ Sends(x, <<>>, reject)
  /\ upload' = [upload EXCEPT ![x].i = @ + 1]
  /\ UNCHANGED <<place, keys, staged, incoming, got, shown>>

\* ... or end the transfer and show the own copy.  The relay passes file_end on
\* whether it knows the transfer or not.
Finish(x) ==
  /\ upload[x].pc = "loop" /\ place # "none" /\ upload[x].i = Chunks
  /\ upload' = [upload EXCEPT ![x].pc = "done"]
  /\ down' = [r \in Receiver |-> IF place = "room" THEN Append(down[r], Note("file_end", x))
                                                   ELSE down[r]]
  /\ relay' = [relay EXCEPT ![x] = IF place = "room" THEN "over" ELSE @]
  /\ Outcome(Sender, x, "done")
  /\ UNCHANGED <<place, keys, staged, notices, incoming, got>>

\* handleError, file_rejected: the loop goes on regardless.
OnRejected(x) ==
  /\ x \in notices
  /\ notices' = notices \ {x}
  /\ Outcome(Sender, x, "failed")
  /\ UNCHANGED <<place, keys, staged, upload, relay, down, incoming, got>>

-----------------------------------------------------------------------------
(* A receiver. *)

NextFrame(r, t) == down[r] # <<>> /\ Head(down[r]).t = t
Handled(r) == down' = [down EXCEPT ![r] = Tail(@)]

\* openBytes with key k: authenticated, so another key is noticed.
Opens(f, k) == f.seal = k

\* findKeyById: the tag of a key is a hash of it.
FindKeyById(r, kid) == kid \in Held(r)

\* onFileStart: the key that the tag names must be held and open the metadata,
\* else the transfer is ignored.
OnFileStart(r) ==
  /\ NextFrame(r, "file_start")
  /\ LET f == Head(down[r]) IN
       IF FindKeyById(r, f.kid) /\ Opens(f, f.kid)
         THEN /\ incoming' = [incoming EXCEPT ![r][f.x] = f.kid]
              /\ shown' = [shown EXCEPT ![r][f.x] = "progress"]
         ELSE UNCHANGED <<incoming, shown>>
  /\ Handled(r)
  /\ UNCHANGED <<place, keys, staged, upload, relay, notices, got>>

\* All parts are there.
CompleteEarly(parts) == \E i \in Index : Index \ {i} \subseteq parts  \* mutant: one short
Complete(parts) == parts = Index

\* onFileChunk: place the chunk by its index, finishIncoming with the last one.
OnFileChunk(r) ==
  /\ NextFrame(r, "file_chunk")
  /\ LET f == Head(down[r])
         k == incoming[r][f.x]
         parts == got[r][f.x] \cup {f.i}
     IN IF k # None /\ f.i \notin got[r][f.x] /\ Opens(f, Content(r, k))
          THEN /\ got' = [got EXCEPT ![r][f.x] = parts]
               /\ IF Complete(parts)
                    THEN /\ incoming' = [incoming EXCEPT ![r][f.x] = None]
                         /\ Outcome(r, f.x, "done")
                    ELSE UNCHANGED <<incoming, shown>>
          ELSE UNCHANGED <<got, incoming, shown>>
  /\ Handled(r)
  /\ UNCHANGED <<place, keys, staged, upload, relay, notices>>

\* onFileEnd with a gap, and file_abort.
OnFileEndLenient(r) ==  \* mutant: a gap at the end goes unnoticed
  /\ NextFrame(r, "file_end")
  /\ Handled(r)
  /\ UNCHANGED <<place, keys, staged, upload, relay, notices, incoming, got, shown>>
OnFileEnd(r) ==
  /\ NextFrame(r, "file_end")
  /\ LET x == Head(down[r]).x IN
       IF incoming[r][x] # None
         THEN /\ incoming' = [incoming EXCEPT ![r][x] = None]
              /\ Outcome(r, x, "failed")
         ELSE UNCHANGED <<incoming, shown>>
  /\ Handled(r)
  /\ UNCHANGED <<place, keys, staged, upload, relay, notices, got>>

OnFileAbort(r) ==
  /\ NextFrame(r, "file_abort")
  /\ LET x == Head(down[r]).x IN
       /\ incoming' = [incoming EXCEPT ![r][x] = None]
       /\ Outcome(r, x, "failed")
  /\ Handled(r)
  /\ UNCHANGED <<place, keys, staged, upload, relay, notices, got>>

-----------------------------------------------------------------------------
Receive(r) == OnFileStart(r) \/ OnFileChunk(r) \/ OnFileEnd(r) \/ OnFileAbort(r)

Upload(x) ==
  \/ \E reject \in BOOLEAN : Begin(x, reject) \/ NextChunk(x, reject)
  \/ Abandon(x) \/ Finish(x)

Next ==
  \/ \E b \in Browser : PushKey(b)
  \/ Leave \/ Rejoin
  \/ \E x \in Transfer : OnFileSelected(x) \/ SendFile(x) \/ Upload(x) \/ OnRejected(x)
  \/ \E r \in Receiver : Receive(r)

\* Timers fire, promises resolve and frames are handled.
Spec ==
  /\ Init /\ [][Next]_vars
  /\ \A x \in Transfer : WF_vars(Upload(x)) /\ WF_vars(OnRejected(x))
  /\ \A r \in Receiver : WF_vars(Receive(r))

-----------------------------------------------------------------------------
\* A receiver shows a file exactly when it has opened every chunk of it: nothing
\* partial after an abort, a gap or a rotation, and no complete file thrown away.
WholeOrNothing ==
  \A r \in Receiver : \A x \in Transfer : shown[r][x] = "done" <=> got[r][x] = Index

\* A transfer uses one key epoch: every chunk is sealed under the key that its
\* file_start names, while the sender still holds that key.  The exception is what
\* the in-place wipe does to a running upload: after MaxKeptKeys rotations, or
\* after leaving, the rest of the file is sealed under the zero key.
OneEpoch ==
  \A r \in Receiver : \A n \in DOMAIN down[r] :
    LET f == down[r][n]
        k == upload[f.x].key
    IN f.t \in {"file_start", "file_chunk"} =>
         f.seal = k \/ (f.seal = Zero /\ k \notin Held(Sender))

\* Every file message ends, as a file or as a failure, at the sender and at the
\* receivers, unless the sender leaves in the middle: nobody tells the receivers.
TransfersSettle ==
  \A x \in Transfer : \A b \in Browser :
    shown[b][x] = "progress" ~>
      (shown[b][x] # "progress" \/ (b # Sender /\ place # "room" /\ relay[x] = "running"))
=============================================================================
