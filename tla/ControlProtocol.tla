---------------------------- MODULE ControlProtocol ----------------------------
(***************************************************************************)
(* The messages of the control socket: control/protocol.rs, the answers    *)
(* control/dispatch.rs builds, and how control/client.rs takes them apart. *)
(*                                                                         *)
(* A request is tagged with its type, so it is told apart by its kind.  A  *)
(* result is not: ControlResult is an untagged enum, and the client takes  *)
(* the first variant whose structure fits the fields it received.  What is *)
(* modelled of a result is the set of its fields; the types of the fields, *)
(* which serde compares as well, could only tell more results apart.       *)
(***************************************************************************)
EXTENDS Naturals, Sequences, FiniteSets

(* ControlRequest *)
RequestKind ==
  {"status", "subagentSpawn", "subagentList", "subagentStatus", "subagentOutput",
   "subagentResult", "subagentResultUpdate", "subagentProgressUpdate",
   "subagentResultClear", "subagentInput", "subagentWait", "subagentStop",
   "subagentClose", "workspace"}

(* ControlResult, in the order of its variants: the order serde tries them. *)
Variants ==
  <<"Status", "Spawn", "List", "SubagentStatus", "Output", "SubagentResult",
    "Wait", "Workspace", "Empty">>

Variant == {Variants[n] : n \in DOMAIN Variants}

(* The variant the dispatcher answers each kind of request with. *)
ResultOf(kind) ==
  CASE kind = "status"         -> "Status"
    [] kind = "subagentSpawn"  -> "Spawn"
    [] kind = "subagentList"   -> "List"
    [] kind = "subagentStatus" -> "SubagentStatus"
    [] kind = "subagentOutput" -> "Output"
    [] kind \in {"subagentResult", "subagentResultUpdate"} -> "SubagentResult"
    [] kind = "subagentWait"   -> "Wait"
    [] kind = "workspace"      -> "Workspace"
    [] OTHER                   -> "Empty"

-----------------------------------------------------------------------------
(* Structures.  always: written with every value.  some: written only when  *)
(* there is a value (skip_serializing_if).  A reader needs the fields of     *)
(* "always" that are not in "null": an absent Option reads as None.          *)

Structure(always, null, some) == [always |-> always, null |-> null, some |-> some]

StatusFields ==
  Structure({"id", "terminalId", "ptyId", "projectId", "name", "processKind", "command",
             "cwd", "lifecycle", "pid", "exitCode", "error", "createdAt", "startedAt",
             "endedAt", "rawOutputCursor", "plainOutputCursor", "resultAvailable"},
            {"pid", "exitCode", "error", "endedAt"},
            {"parentTerminalId", "piState", "resultUpdatedAt", "progress"})

Fields ==
  [Status         |-> Structure({"protocolVersion", "version", "ready"}, {}, {"subagents"}),
   Spawn          |-> Structure({"id"}, {}, {}),
   List           |-> Structure({"items"}, {}, {"nextCursor"}),
   SubagentStatus |-> StatusFields,
   Output         |-> Structure({"format", "after", "cursor", "truncated", "data"}, {}, {}),
   SubagentResult |-> Structure({"id", "text", "updatedAt"}, {}, {}),
   Wait           |-> Structure({"timedOut", "status"}, {}, {}),
   Workspace      |-> Structure({"workspace"}, {}, {}),
   Empty          |-> Structure({}, {}, {})]

(* Slip: the answer to a spawn is read leniently. *)
ClosedButSpawn == {"List", "Empty"}

(* deny_unknown_fields *)
Closed == {"Spawn", "List", "Empty"}

Encodings(v) == {Fields[v].always \cup given : given \in SUBSET Fields[v].some}

Reads(v, fields) ==
  /\ Fields[v].always \ Fields[v].null \subseteq fields
  /\ v \in Closed => fields \subseteq Fields[v].always \cup Fields[v].some

Undecodable == "undecodable"

Decode(fields) ==
  LET fits == {n \in DOMAIN Variants : Reads(Variants[n], fields)} IN
    IF fits = {} THEN Undecodable
    ELSE Variants[CHOOSE n \in fits : \A m \in fits : n <= m]

(* ControlResponse: success and error, and what request_at makes of them.    *)
Success(fields) == [ok |-> TRUE, result |-> fields]
Failure == [ok |-> FALSE, result |-> {}]

Received(response) == IF response.ok THEN Decode(response.result) ELSE "serviceError"

(* What the command line insists on: it prints whatever the other requests   *)
(* are answered with.                                                        *)
Insists == {"status", "subagentList", "subagentOutput", "subagentResult", "workspace"}

CliTakes(kind, v) == v # Undecodable /\ (kind \in Insists => v = ResultOf(kind))

-----------------------------------------------------------------------------
(* Time, in seconds.  Waits and workspace requests carry a timeout.  (Left   *)
(* out of a workspace request, the client reckons with five, the server with *)
(* none.)                                                                    *)

MaxWait == 24 * 60 * 60
Given == {0, 1, 300, MaxWait}

(* parse_subagent_command and execute_workspace_with_control: how long the   *)
(* command line is prepared to wait.                                         *)
CliTimeout(kind, given) ==
  CASE kind = "subagentWait"  -> given
    [] kind = "workspace"     -> given + 5
    [] kind = "subagentSpawn" -> 12
    [] OTHER                  -> 2

(* request_at adds to it. *)
ReadTimeout(kind, given) == CliTimeout(kind, given) + 2

(* The longest the server takes: spawns wait five seconds for their          *)
(* acknowledgement, workspace requests as much on top of their own timeout,  *)
(* a wait its timeout.                                                       *)
ServerTimeout(kind, given) ==
  CASE kind = "subagentWait"  -> given
    [] kind = "workspace"     -> given + 5
    [] kind = "subagentSpawn" -> 5
    [] OTHER                  -> 0

-----------------------------------------------------------------------------
(* Whatever optional parts a result has, the client decodes the variant the  *)
(* dispatcher sent, and the command line accepts it: no two results can be    *)
(* mistaken for each other, although none of them is tagged, and no error for *)
(* a result.                                                                 *)
ResultsDecodeAsSent ==
  \A kind \in RequestKind : \A fields \in Encodings(ResultOf(kind)) :
    /\ Received(Success(fields)) = ResultOf(kind)
    /\ CliTakes(kind, Received(Success(fields)))
    /\ Received(Failure) \notin Variant

(* The client always waits longer than the server may take, so that it does  *)
(* not report as failed what the server is about to complete.                *)
ClientOutlastsServer ==
  \A kind \in RequestKind, given \in Given :
    ServerTimeout(kind, given) < ReadTimeout(kind, given)

EndsAgree == ResultsDecodeAsSent /\ ClientOutlastsServer
=============================================================================
