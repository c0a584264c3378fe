-------------------------- MODULE WorkspaceActions --------------------------
(***************************************************************************)
(* The requests of `termarc terminals | subterminals | agents | commands`, *)
(* and the three places that interpret one: cli.rs lets it through,        *)
(* workspace_router.rs looks for the window that has what it names, and    *)
(* workspaceControl.ts carries it out there.  The router and the script    *)
(* look at its fields each in an order of their own.                       *)
(*                                                                         *)
(* Left out: cwd, name and timeout, which decide nothing here.             *)
(***************************************************************************)
CONSTANTS
  Terminal,   \* terminal ids
  Project,    \* project ids
  Item,       \* ids of commands and agents
  Home,       \* Home[t]: the project of a terminal
  Items,      \* Items[resource][p]: the agents, and the commands, of a project
  None        \* Rust's Option::None

ASSUME ActionAssumption ==
  /\ Home \in [Terminal -> Project]
  /\ Items \in [{"agents", "commands"} -> [Project -> SUBSET Item]]
  /\ Terminal \cap Project = {} /\ Item \cap (Terminal \cup Project) = {}
  /\ None \notin Terminal \cup Project \cup Item

(* What a window has loaded, and may register. *)
Thing == Terminal \cup Project

(* A tab belongs to a loaded project. *)
Loadable(things) == \A t \in things \cap Terminal : Home[t] \in things

TerminalResources == {"terminals", "subterminals"}
ItemResources == {"agents", "commands"}
OfOneThing == {"status", "run", "send", "wait", "stop", "close"}

WorkspaceAction ==
  [resource : TerminalResources \cup ItemResources,
   action   : {"list", "create"} \cup OfOneThing,
   id       : Terminal \cup Item \cup {None},
   project  : Project \cup {None},
   parent   : Terminal \cup {None},
   text     : BOOLEAN]

(* parse_workspace_action: an id is read only where one is needed, and a      *)
(* terminal is created in a project or next to a terminal.  Every operation   *)
(* takes every option.                                                       *)
Parsed(a) ==
  /\ (a.id # None) <=> (a.action \in OfOneThing)
  /\ a.action = "create" =>
       /\ a.resource \in TerminalResources
       /\ a.project # None \/ a.parent # None

OneTerminal(a) == a.resource \in TerminalResources /\ a.action \in OfOneThing

(* Slip: the project is looked for before the terminal. *)
NamesProjectFirst(a) ==
  CASE a.project # None -> a.project
    [] a.project = None /\ a.parent # None -> a.parent
    [] OTHER -> IF OneTerminal(a) THEN a.id ELSE None

(* WorkspaceRouter::target: the thing whose window is looked for, None for    *)
(* the only window there is.                                                 *)
Names(a) ==
  CASE a.parent # None -> a.parent
    [] a.parent = None /\ OneTerminal(a) -> a.id
    [] OTHER -> a.project

-----------------------------------------------------------------------------
(* dispatch, in a window that has loaded things: a request is refused with a  *)
(* code, answered from what is there, or carried out.                        *)

Creates(a, things) ==
  IF a.project \notin things /\ a.parent \notin things THEN "project_not_found"
  ELSE IF a.resource = "subterminals" /\ a.parent \notin things THEN "terminal_not_found"
  ELSE "performed"

OnItem(a, things) ==
  IF a.project \notin things THEN "project_required"
  ELSE IF a.id \notin Items[a.resource][a.project] THEN "not_found"
  ELSE IF a.action = "send" THEN "unsupported_operation"
  ELSE IF a.action \in {"status", "wait"} THEN "read"
  ELSE "performed"

OnTerminal(a, things) ==
  IF a.id \notin things THEN "terminal_not_found"
  ELSE IF a.action \in {"status", "wait"} THEN "read"
  ELSE IF a.action = "send" /\ ~a.text THEN "invalid_request"
  ELSE "performed"

Lists(a, things) ==
  IF a.resource \in TerminalResources \/ a.project \in things THEN "read"
  ELSE "project_required"

Dispatched(a, things) ==
  CASE a.action = "list"   -> Lists(a, things)
    [] a.action = "create" -> Creates(a, things)
    [] OneTerminal(a)      -> OnTerminal(a, things)
    [] OTHER               -> OnItem(a, things)

-----------------------------------------------------------------------------
(* A request with a parent is routed by it alone, whatever else it names.     *)
Mixed(a) == a.parent # None /\ (a.id # None \/ a.project # None)

Missing == {"project_not_found", "terminal_not_found"}

(* A window that carries a request out has what it was routed by; and a       *)
(* window that has that does not answer that something is missing, unless a   *)
(* child terminal is wanted and no parent given.  Requests that are mixed     *)
(* keep neither promise.                                                      *)
SameSubject ==
  \A a \in WorkspaceAction, things \in SUBSET Thing :
    Parsed(a) /\ ~Mixed(a) /\ Loadable(things) =>
      /\ Dispatched(a, things) = "performed" => Names(a) \in things
      /\ Names(a) \in things /\ Dispatched(a, things) \in Missing =>
           a.action = "create" /\ a.resource = "subterminals" /\ a.parent = None
=============================================================================
