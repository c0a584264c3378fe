--------------------------- MODULE SubagentFollowing ---------------------------
(***************************************************************************)
(* The output of a subagent while it is written: the threads of its PTY     *)
(* (src-tauri/src/pty.rs), one that reads and one that waits for the child   *)
(* and publishes its end, and a client that follows the output cursor by     *)
(* cursor (registry.rs, cli.rs).                                             *)
(*                                                                         *)
(* An operator whose comment starts with "Slip" is a plausible mistake in   *)
(* the definition below it; no specification uses it.                       *)
(***************************************************************************)
EXTENDS OutputHistory

CONSTANTS
  Stream,     \* what may be written: bytes, each marked as text or not
  Chunk,      \* numbers of bytes one read of the PTY may return
  ReadLimit   \* output limits asked for, within 1 .. MAX_OUTPUT_READ

ASSUME FollowingAssumption ==
  /\ Stream \subseteq Seq([byte : Byte, text : BOOLEAN])
  /\ Chunk \subseteq Nat \ {0} /\ ReadLimit \subseteq Nat \ {0}

Bytes(marked) == [k \in DOMAIN marked |-> marked[k].byte]

(* Text is what is shown outside an escape sequence. *)
ASSUME MarkAssumption ==
  \A marked \in Stream : \A n \in DOMAIN marked :
    marked[n].text <=>
      /\ marked[n].byte \in Shown
      /\ Strip("ground", Bytes(SubSeq(marked, 1, n - 1))).state = "ground"

VARIABLES
  record,    \* whether the registry has the subagent's record
  stream,    \* what is written to the terminal, by the child and its descendants
  held,      \* whether a descendant keeps the terminal open for ever
  written,   \* how much of it the reader has dealt with
  output,    \* the record's SubagentOutput
  reader,    \* the reader thread: reading, done, or the bytes in its buffer
  waiter,    \* the thread that waits for the child
  client     \* the command the client runs

ptyVars == <<stream, held>>
vars == <<record, ptyVars, written, output, reader, waiter, client>>

Idle == [op |-> "idle"]
Reading == 0
Done == -1

(* The threads start after attach. *)
Init ==
  /\ record = TRUE
  /\ stream \in Stream
  /\ held \in BOOLEAN
  /\ written = 0
  /\ output = NoOutput
  /\ reader = Reading
  /\ waiter = "waiting"
  /\ client = Idle

(* prune_completed_records, rollback_reservation *)
Forget ==
  /\ record
  /\ record' = FALSE
  /\ UNCHANGED <<ptyVars, written, output, reader, waiter, client>>

-----------------------------------------------------------------------------
(* The reader *)

(* read returns; append_output is another step. *)
ReaderReads ==
  /\ reader = Reading
  /\ \E n \in Chunk : n <= Len(stream) - written /\ reader' = n
  /\ UNCHANGED <<record, ptyVars, written, output, waiter, client>>

(* Without a record the bytes are ignored. *)
ReaderAppends ==
  LET new == Bytes(SubSeq(stream, written + 1, written + reader))
  IN /\ reader > 0
     /\ output' = IF record THEN AppendOutput(output, new) ELSE output
     /\ written' = written + reader
     /\ reader' = Reading
     /\ UNCHANGED <<record, ptyVars, waiter, client>>

(* Nothing is left to read and nobody has the terminal open any more; a child *)
(* may close it before it ends.                                               *)
EndOfFile == ~held /\ written = Len(stream)

(* The flag is seen before the next read; on Unix a read that blocks is        *)
(* interrupted by a signal.                                                   *)
Cancelled == waiter \in {"cancelling", "publishedLate"}

(* Slip: a cancelled reader waits for the end of the file all the same. *)
ReaderEndsAtEof ==
  /\ reader = Reading
  /\ EndOfFile
  /\ reader' = Done
  /\ UNCHANGED <<record, ptyVars, written, output, waiter, client>>

ReaderEnds ==
  /\ reader = Reading
  /\ EndOfFile \/ Cancelled
  /\ reader' = Done
  /\ UNCHANGED <<record, ptyVars, written, output, waiter, client>>

-----------------------------------------------------------------------------
(* The waiter *)

WaiterGoes(from, to) ==
  /\ waiter = from
  /\ waiter' = to
  /\ UNCHANGED <<record, ptyVars, written, output, reader, client>>

ChildEnds == WaiterGoes("waiting", "draining")

(* Slip: the end is published while the reader still drains. *)
WaiterPublishesFirst == WaiterGoes("draining", "published")

(* finish_pty_reader: the reader is done within PTY_EXIT_DRAIN_TIMEOUT ... *)
WaiterPublishes == reader = Done /\ WaiterGoes("draining", "published")

(* ... or is cancelled, and waited for once more, but not for ever. *)
WaiterCancels == reader # Done /\ WaiterGoes("draining", "cancelling")

WaiterGivesUp == WaiterGoes("cancelling", "publishedLate")

-----------------------------------------------------------------------------
(* The client: each read continues at the cursor that the one before         *)
(* returned; the first is 0 or the cursor in a status.                       *)

FollowBegin(format) ==
  /\ client = Idle
  /\ record
  /\ \E after \in {0, EndCursor(output[format])} :
       client' = [op |-> "following", format |-> format, cursor |-> after]
  /\ UNCHANGED <<record, ptyVars, written, output, reader, waiter>>

(* end is not part of the answer: how much there was to read. *)
FollowRead(limit) ==
  /\ client.op \in {"following", "read"}
  /\ client' =
       IF ~record THEN [op |-> "unknown"]
       ELSE IF client.cursor > EndCursor(output[client.format]) THEN [op |-> "invalid"]
       ELSE LET chunk == Read(output[client.format], client.cursor, limit)
            IN [op |-> "read", format |-> client.format, cursor |-> chunk.cursor,
                chunk |-> chunk, end |-> EndCursor(output[client.format])]
  /\ UNCHANGED <<record, ptyVars, written, output, reader, waiter>>

FollowEnds ==
  /\ client # Idle
  /\ client' = Idle
  /\ UNCHANGED <<record, ptyVars, written, output, reader, waiter>>

-----------------------------------------------------------------------------
Reader == ReaderReads \/ ReaderAppends \/ ReaderEnds
Waiter == WaiterPublishes \/ WaiterCancels \/ WaiterGivesUp

Client ==
  \/ \E format \in {"raw", "plain"} : FollowBegin(format)
  \/ \E limit \in ReadLimit : FollowRead(limit)
  \/ FollowEnds

Next == Reader \/ ChildEnds \/ Waiter \/ Client \/ Forget

Spec == Init /\ [][Next]_vars

(* append_output returns: the one step of ReaderAppends that concerns reader. *)
AppendReturns == reader > 0 /\ reader' = Reading

(* The threads run, and their timeouts expire.  Nothing obliges a child to    *)
(* end, or a client to ask.                                                   *)
FairSpec ==
  /\ Spec
  /\ WF_vars(ReaderReads \/ ReaderEnds) /\ WF_reader(AppendReturns)
  /\ WF_vars(Waiter)

-----------------------------------------------------------------------------
(* Properties *)

(* What has been written, in each format. *)
TextOnly(marked) ==
  LET kept[n \in 0 .. Len(marked)] ==
        IF n = 0 THEN <<>>
        ELSE IF marked[n].text THEN Append(kept[n - 1], marked[n]) ELSE kept[n - 1]
  IN kept[Len(marked)]

History(format) ==
  LET marked == SubSeq(stream, 1, written)
  IN Bytes(IF format = "raw" THEN marked ELSE TextOnly(marked))

(* Each buffer holds the newest bytes of what was written, and its cursor     *)
(* counts all of them, however the writes were cut into chunks; the plain one *)
(* holds the text and nothing of an escape sequence.                         *)
HistoryIsNewest ==
  record => \A format \in {"raw", "plain"} :
    LET all == History(format)
        start == Larger(0, Len(all) - Capacity)
    IN output[format] = [start |-> start, bytes |-> SubSeq(all, start + 1, Len(all))]

(* A client that follows an output gets every byte once, in order, or is told *)
(* where bytes are missing; it misses only what no buffer could still hold,   *)
(* an empty answer means that it has caught up, and its cursor stays valid.   *)
FollowerMissesNothing ==
  /\ client.op # "invalid"
  /\ client.op = "read" =>
       LET chunk == client.chunk
       IN /\ chunk.data = SubSeq(History(client.format), chunk.from + 1, chunk.cursor)
          /\ chunk.cursor = chunk.from + Len(chunk.data)
          /\ chunk.from = Larger(chunk.asked, client.end - Capacity)
          /\ chunk.truncated <=> chunk.from # chunk.asked
          /\ chunk.data = <<>> => chunk.cursor = client.end

(* An exit is published after the output: a client that sees it can read all  *)
(* that was written, and nothing is added, unless the reader had to be        *)
(* cancelled because a descendant kept the terminal or the reader was slow.   *)
ExitIsLast ==
  waiter = "published" => reader = Done /\ written = Len(stream)

(* The end of a child is published, and its reader ends, also when a          *)
(* descendant keeps the terminal open and when a read blocks for ever.        *)
ExitIsPublished ==
  (waiter = "draining") ~> (waiter \in {"published", "publishedLate"} /\ reader = Done)
=============================================================================
