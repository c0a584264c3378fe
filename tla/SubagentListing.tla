---------------------------- MODULE SubagentListing ----------------------------
(***************************************************************************)
(* Listing a registry that changes between the pages of the listing:        *)
(* list_page of src-tauri/src/subagents/registry.rs, followed from cursor   *)
(* to cursor by execute_subagent_list (cli.rs) and listSubagents            *)
(* (extensions/pi/termarc/cli.ts).                                          *)
(*                                                                         *)
(* Ids are given out in order, but records appear in any order: each spawn  *)
(* is routed by a thread of its own.  They disappear by retention and       *)
(* rollback, and lose their parent by detach.                               *)
(*                                                                         *)
(* An operator whose comment starts with "Slip" is a plausible mistake in   *)
(* the definition below it; no specification uses it.                       *)
(***************************************************************************)
EXTENDS Integers, FiniteSets
LOCAL INSTANCE FiniteSetsExt

CONSTANTS
  MaxId,      \* bound: subagents ever reserved
  Terminal,   \* parents
  None,       \* Rust's Option::None
  Limit,      \* page sizes asked for, within 1 .. MAX_LIST_LIMIT
  Size,       \* bytes a status may take on the wire
  Budget      \* MAX_LIST_ITEMS_BYTES

Id == 1 .. MaxId

ASSUME ListingAssumption ==
  /\ MaxId \in Nat
  /\ None \notin Terminal
  /\ Limit \subseteq Nat \ {0} /\ Limit # {}
  /\ Size \subseteq Nat /\ Budget \in Nat

VARIABLES
  life,      \* whether each id has a record: not yet, now, or no more
  parent,    \* parent_terminal_id of the records
  command,   \* the client's list command, and how it ended
  wanted,    \* its --parent
  limit,     \* its page size
  after,     \* its cursor; 0 before the first page
  seen,      \* seen_cursors
  times,     \* how often each id is among the items collected so far
  steady     \* ids that have matched since the command began; not state of the program

registryVars == <<life, parent>>
clientVars == <<command, wanted, limit, after, seen, times>>
vars == <<registryVars, clientVars, steady>>

Init ==
  /\ life = [i \in Id |-> "none"]
  /\ parent = [i \in Id |-> None]
  /\ command = "none"
  /\ wanted = None /\ limit \in Limit /\ after = 0
  /\ seen = {} /\ times = [i \in Id |-> 0]
  /\ steady = {}

Live == {i \in Id : life[i] = "live"}

(* The records list_page looks at; without a parent it lists them all. *)
Matching(owner) == {i \in Live : owner = None \/ parent[i] = owner}

-----------------------------------------------------------------------------
(* The registry *)

(* attach: without a parent when the spawn was detached before. *)
Attach(i, owner) ==
  /\ life[i] = "none"
  /\ life' = [life EXCEPT ![i] = "live"]
  /\ parent' = [parent EXCEPT ![i] = owner]
  /\ UNCHANGED <<clientVars, steady>>

NoLongerMatches(i) == steady' = steady \ {i}

Detach(i) ==
  /\ i \in Live
  /\ parent' = [parent EXCEPT ![i] = None]
  /\ IF wanted = None THEN UNCHANGED steady ELSE NoLongerMatches(i)
  /\ UNCHANGED <<life, clientVars>>

(* prune_completed_records, rollback_reservation *)
Forget(i) ==
  /\ i \in Live
  /\ life' = [life EXCEPT ![i] = "gone"]
  /\ parent' = [parent EXCEPT ![i] = None]
  /\ NoLongerMatches(i)
  /\ UNCHANGED clientVars

-----------------------------------------------------------------------------
(* One page *)

(* Slip: the record at the cursor is listed again. *)
RestFrom(owner, cursor) == {i \in Matching(owner) : i >= cursor}

Rest(owner, cursor) == {i \in Matching(owner) : i > cursor}

(* The bytes of a page: its statuses and the commas between them. *)
PageBytes(page, size) == MapThenSumSet(LAMBDA i : size[i], page) + Cardinality(page) - 1

(* record_too_large: the status would not fit on a page of its own. *)
TooLarge(i, size) == size[i] > Budget

(* None is too large alone, nor are they together. *)
Fits(page, size) ==
  /\ Cardinality(page) <= limit
  /\ \A i \in page : ~TooLarge(i, size)
  /\ Cardinality(page) > 1 => PageBytes(page, size) <= Budget

FirstOf(i, ids) == i \in ids /\ \A j \in ids : i <= j

(* The longest prefix of the rest that fits. *)
IsPage(page, rest, size) ==
  /\ page \subseteq rest
  /\ \A i \in page, j \in rest \ page : i < j
  /\ Fits(page, size)
  /\ \A j \in rest \ page : FirstOf(j, rest \ page) =>
       ~Fits(page \cup {j}, size)

(* The loop meets a status that is too large only while the page has room. *)
MeetsTooLarge(page, rest, size) ==
  Cardinality(page) < limit /\ \E j \in rest \ page : FirstOf(j, rest \ page) /\ TooLarge(j, size)

LastOf(i, ids) == i \in ids /\ \A j \in ids : i >= j

(* next_cursor is given when any record that matches comes after the page. *)
More(page) == \E i \in page : LastOf(i, page) /\ Rest(wanted, i) # {}

-----------------------------------------------------------------------------
(* The client repeats the request until a page has no cursor, and gives up   *)
(* when a cursor comes twice.                                                *)

ListBegin(owner, size) ==
  /\ command # "listing"
  /\ command' = "listing"
  /\ wanted' = owner /\ limit' = size /\ after' = 0
  /\ seen' = {} /\ times' = [i \in Id |-> 0]
  /\ steady' = Matching(owner)
  /\ UNCHANGED registryVars

ListFails(size, page) ==
  /\ command = "listing"
  /\ IsPage(page, Rest(wanted, after), size)
  /\ MeetsTooLarge(page, Rest(wanted, after), size)
  /\ command' = "failed"
  /\ UNCHANGED <<registryVars, wanted, limit, after, seen, times, steady>>

ListPage(size, page) ==
  /\ command = "listing"
  /\ IsPage(page, Rest(wanted, after), size)
  /\ ~MeetsTooLarge(page, Rest(wanted, after), size)
  /\ times' = [i \in Id |-> IF i \in page THEN times[i] + 1 ELSE times[i]]
  /\ \/ /\ ~More(page)
        /\ command' = "listed"
        /\ UNCHANGED <<after, seen>>
     \/ \E cursor \in page :
          /\ LastOf(cursor, page) /\ More(page)
          /\ command' = IF cursor \in seen THEN "repeated" ELSE "listing"
          /\ after' = cursor
          /\ seen' = seen \cup {cursor}
  /\ UNCHANGED <<registryVars, wanted, limit, steady>>

-----------------------------------------------------------------------------
Next ==
  \/ \E i \in Id, owner \in Terminal \cup {None} : Attach(i, owner)
  \/ \E i \in Id : Detach(i) \/ Forget(i)
  \/ \E owner \in Terminal \cup {None}, size \in Limit : ListBegin(owner, size)
  \/ \E size \in [Id -> Size], page \in SUBSET Id : ListFails(size, page) \/ ListPage(size, page)

Spec == Init /\ [][Next]_vars

-----------------------------------------------------------------------------
(* Properties *)

(* Every variable has its type, and only a record has a parent.              *)
ListingTypeOK ==
  /\ life \in [Id -> {"none", "live", "gone"}]
  /\ parent \in [Id -> Terminal \cup {None}]
  /\ \A i \in Id \ Live : parent[i] = None
  /\ command \in {"none", "listing", "listed", "failed", "repeated"}
  /\ wanted \in Terminal \cup {None} /\ limit \in Limit /\ after \in Id \cup {0}
  /\ seen \subseteq Id /\ times \in [Id -> Nat]
  /\ steady \subseteq Id

(* A listing that ends has listed every subagent that matched all along,     *)
(* exactly once, whatever came, went or was detached between its pages; no    *)
(* subagent is listed twice, and no cursor comes twice.                      *)
ListingIsExact ==
  /\ command # "repeated"
  /\ \A i \in Id : times[i] <= 1
  /\ command = "listed" => \A i \in steady : times[i] = 1

=============================================================================
