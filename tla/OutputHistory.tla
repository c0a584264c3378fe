---------------------------- MODULE OutputHistory ----------------------------
(***************************************************************************)
(* The output kept of a subagent, src-tauri/src/subagents/output.rs: the    *)
(* newest bytes of its terminal, once as they came and once without escape  *)
(* sequences.  Cursors count bytes from the first one ever written.         *)
(*                                                                         *)
(* A byte is told apart by its class only.  An operator whose comment       *)
(* starts with "Slip" is a plausible mistake in the definition below it.    *)
(***************************************************************************)
EXTENDS Integers, Sequences

CONSTANT Capacity    \* OUTPUT_BUFFER_CAPACITY

ASSUME CapacityAssumption == Capacity \in Nat \ {0}

-----------------------------------------------------------------------------
(* BoundedOutput *)

NoBytes == [start |-> 0, bytes |-> <<>>]

EndCursor(buffer) == buffer.start + Len(buffer.bytes)

Larger(a, b) == IF a >= b THEN a ELSE b
Smaller(a, b) == IF a <= b THEN a ELSE b

Overflow(buffer, new) == Larger(0, Len(buffer.bytes) + Len(new) - Capacity)

(* append: a chunk that fills the buffer replaces it; otherwise as many old *)
(* bytes leave as the new ones need.                                        *)
AppendTo(buffer, new) ==
  IF Len(new) >= Capacity
  THEN [start |-> buffer.start + Len(buffer.bytes) + Len(new) - Capacity,
        bytes |-> SubSeq(new, Len(new) - Capacity + 1, Len(new))]
  ELSE [start |-> buffer.start + Overflow(buffer, new),
        bytes |-> SubSeq(buffer.bytes, Overflow(buffer, new) + 1, Len(buffer.bytes)) \o new]

(* Slip: the cursor is counted from the one asked for. *)
ReadAsked(buffer, after, limit) ==
  LET from == Larger(after, buffer.start)
      data == SubSeq(buffer.bytes, from - buffer.start + 1,
                     Smaller(Len(buffer.bytes), from - buffer.start + limit))
  IN [asked |-> after, from |-> from, data |-> data, cursor |-> after + Len(data),
      truncated |-> after < buffer.start]

(* read: from the first byte that is still held. *)
Read(buffer, after, limit) ==
  LET from == Larger(after, buffer.start)
      data == SubSeq(buffer.bytes, from - buffer.start + 1,
                     Smaller(Len(buffer.bytes), from - buffer.start + limit))
  IN [asked |-> after, from |-> from, data |-> data, cursor |-> from + Len(data),
      truncated |-> after < buffer.start]

-----------------------------------------------------------------------------
(* AnsiStripper *)

Final == {"letter", "[", "]", "\\"}                       \* 0x40 .. 0x7e
Shown == Final \cup {"digit", "space", "newline", "high"}  \* pushed in Ground
Byte == Shown \cup {"esc", "bell", "control", "del"}

(* What a byte makes of the stripper's state. *)
AfterByte(state, byte) ==
  CASE state = "ground" /\ byte = "esc" -> "escape"
    [] state = "escape" /\ byte = "[" -> "csi"
    [] state = "escape" /\ byte = "]" -> "osc"
    [] \/ state = "escape" /\ byte \in {"letter", "\\", "digit"}
       \/ state = "csi" /\ byte \in Final
       \/ state = "osc" /\ byte = "bell"
       \/ state = "oscEscape" /\ byte = "\\" -> "ground"
    [] state \in {"osc", "oscEscape"} /\ byte = "esc" -> "oscEscape"
    [] state = "oscEscape" /\ byte \notin {"esc", "\\"} -> "osc"
    [] OTHER -> state

StripByte(stripped, byte) ==
  [state |-> AfterByte(stripped.state, byte),
   plain |-> IF stripped.state = "ground" /\ byte \in Shown
             THEN Append(stripped.plain, byte) ELSE stripped.plain]

(* The bytes of a chunk, one after the other. *)
StripFrom(stripped, bytes) ==
  LET after[n \in 0 .. Len(bytes)] ==
        IF n = 0 THEN stripped ELSE StripByte(after[n - 1], bytes[n])
  IN after[Len(bytes)]

(* Slip: each chunk is stripped on its own. *)
StripAlone(state, bytes) == StripFrom([state |-> "ground", plain |-> <<>>], bytes)

Strip(state, bytes) == StripFrom([state |-> state, plain |-> <<>>], bytes)

-----------------------------------------------------------------------------
(* SubagentOutput *)

NoOutput == [raw |-> NoBytes, plain |-> NoBytes, state |-> "ground"]

AppendOutput(output, bytes) ==
  LET stripped == Strip(output.state, bytes)
  IN [raw |-> AppendTo(output.raw, bytes),
      plain |-> AppendTo(output.plain, stripped.plain),
      state |-> stripped.state]
=============================================================================
