---------------------------- MODULE Registration ----------------------------
(***************************************************************************)
(* install.rs: the install and uninstall subcommands.  Each MCP client is  *)
(* brought up to date through its own command line tool, one call after    *)
(* the other; a client without its tool on PATH is left to the user; the   *)
(* outcomes are aggregated into one exit status.  A step is one call of a  *)
(* client's tool, or what the subcommand does between two.                 *)
(***************************************************************************)
EXTENDS Naturals, Sequences, FiniteSets

CONSTANTS Dirs,        \* directories a command may be run from
          Scopes,      \* the Claude scopes in use, "User" among them
          MaxFaults    \* bound: how many calls fail and commands are killed

ASSUME ScopesAssumption == /\ "User" \in Scopes /\ Scopes \subseteq {"User", "Local", "Project"}
                           /\ MaxFaults \in Nat
ASSUME DirsAssumption == Dirs # {}

VARIABLES
  entries,   \* the registrations in the clients' configurations
  config,    \* the products whose files are on the machine
  onPath,    \* the clients whose tool is on PATH
  cache,     \* the cache directory
  task,      \* the command that runs: its arguments
  pc,        \* where it stands
  todo,      \* the clients it has yet to deal with
  outcome,   \* what became of each target
  before,    \* the registrations when it began
  faults     \* how many faults there were

clientVars == <<entries, config, onPath>>
taskVars   == <<task, before>>

Clients  == <<"Claude", "Codex", "Qoder">>
Tools    == {"Claude", "Codex"}
Names    == {"Server", "Legacy"}          \* SERVER_NAME and LEGACY_SERVER_NAME
Targets  == {"Claude", "Codex", "Qoder", "Cache"}
Products == {"Claude", "Desktop", "Codex", "Qoder"}
Outcomes == {"Done", "Skipped", "Failed", "Absent", "Manual", "Blocking"}

\* A registration is kept for the user, or under the directory the command ran in;
\* Codex knows no scopes.
Place(c, scope, dir) ==
  IF c = "Codex" \/ scope = "User" THEN [scope |-> "User", dir |-> "home"]
                                   ELSE [scope |-> scope, dir |-> dir]
Places == {Place(c, s, d) : c \in Tools, s \in Scopes, d \in Dirs}
Entries == [client : Tools, place : Places, name : Names]

Own(c, name) == [client |-> c, place |-> Place(c, task.scope, task.dir), name |-> name]
Client       == Head(todo)
Installing   == task.kind # "Uninstall"
-----------------------------------------------------------------------------
Fault    == faults < MaxFaults /\ faults' = faults + 1
NoFault  == UNCHANGED faults
Goto(l)  == pc' = l

\* The next client's turn, or what follows the last one.
Settle(o) ==
  /\ outcome' = [outcome EXCEPT ![Client] = o]
  /\ todo' = Tail(todo)
  /\ Goto(IF Tail(todo) # <<>> THEN "turn" ELSE IF Installing THEN "report" ELSE "cache")

\* The desktop application has no scopes: it counts for the user's scope only.
DetectClaudeProducts == "Claude" \in config \/ (task.scope = "User" /\ "Desktop" \in config)
CodexPresentIndirectly == "Codex" \in config
DetectQoder == "Qoder" \in config

Detected(c) ==
  CASE c = "Claude" -> DetectClaudeProducts
    [] c = "Codex"  -> CodexPresentIndirectly
    [] c = "Qoder"  -> DetectQoder

\* Without a tool the user has the last word; an uninstall that leaves a known
\* configuration behind must not look like a success.
ManualOutcome(c) == IF Installing \/ c = "Qoder" THEN "Manual" ELSE "Blocking"

Turn ==
  /\ pc = "turn"
  /\ IF Client \in task.skip THEN Settle("Skipped")
     ELSE IF Client \in onPath THEN Goto("legacy") /\ UNCHANGED <<outcome, todo>>
     ELSE Settle(IF Detected(Client) THEN ManualOutcome(Client) ELSE "Absent")
  /\ NoFault
  /\ UNCHANGED <<clientVars, cache, taskVars>>

\* Both names go in the best-effort call.
RemoveNamesTogether ==
  /\ pc = "legacy"
  /\ \/ entries' = entries \ {Own(Client, n) : n \in Names} /\ NoFault
     \/ UNCHANGED entries /\ Fault
  /\ Goto("remove")
  /\ UNCHANGED <<config, onPath, cache, taskVars, todo, outcome>>

\* The best-effort removal of the name used before; its failure is swallowed.
RemoveLegacy ==
  /\ pc = "legacy"
  /\ \/ entries' = entries \ {Own(Client, "Legacy")} /\ NoFault
     \/ UNCHANGED entries /\ Fault
  /\ Goto("remove")
  /\ UNCHANGED <<config, onPath, cache, taskVars, todo, outcome>>

\* claude says when there is nothing to remove, codex does not; a message that also
\* tells of an error is not taken for that (claude_remove_error_is_not_found).
NotFound == Client = "Claude" /\ Own(Client, "Server") \notin entries

\* A scope kept by directory: nothing found may mean the wrong directory.
FoundNothingSkips == "Skipped"
FoundNothing      == IF task.scope = "User" THEN "Skipped" ELSE "Failed"

RemoveServer ==
  /\ pc = "remove"
  /\ entries' = entries \ {Own(Client, "Server")}
  /\ IF Installing THEN Goto("add") /\ UNCHANGED <<outcome, todo>>
                   ELSE Settle(IF NotFound THEN FoundNothing ELSE "Done")
  /\ NoFault
  /\ UNCHANGED <<config, onPath, cache, taskVars>>

RemoveFails ==
  /\ pc = "remove"
  /\ Settle("Failed")
  /\ Fault
  /\ UNCHANGED <<clientVars, cache, taskVars>>

AddIgnored == "Skipped"
AddFailure == "Failed"

\* claude mcp add, codex mcp add: the tool writes its configuration.
Add ==
  /\ pc = "add"
  /\ \/ /\ entries' = entries \cup {Own(Client, "Server")}
        /\ config' = config \cup {Client}
        /\ Settle("Done") /\ NoFault
     \/ /\ UNCHANGED <<entries, config>>
        /\ Settle(AddFailure) /\ Fault
  /\ UNCHANGED <<onPath, cache, taskVars>>

\* clean_cache: a cache in use by a live server is left behind without a failure.
CleanCache ==
  /\ pc = "cache"
  /\ \/ /\ cache # "locked" /\ cache' = "absent" /\ NoFault
        /\ outcome' = [outcome EXCEPT !["Cache"] = "Done"]
     \/ /\ cache = "locked" /\ UNCHANGED cache /\ NoFault
        /\ outcome' = [outcome EXCEPT !["Cache"] = "Skipped"]
     \/ /\ UNCHANGED cache /\ Fault
        /\ outcome' = [outcome EXCEPT !["Cache"] = "Failed"]
  /\ Goto("report")
  /\ UNCHANGED <<clientVars, taskVars, todo>>

\* aggregate: the subcommand succeeds unless a step failed or blocks.
Succeeded == \A t \in Targets : outcome[t] \notin {"Failed", "Blocking"}

Subcommand == Turn \/ RemoveLegacy \/ RemoveServer \/ RemoveFails \/ Add \/ CleanCache
-----------------------------------------------------------------------------
RegistrationTypeOK ==
  /\ entries \subseteq Entries
  /\ config \subseteq Products
  /\ onPath \subseteq Tools
  /\ cache \in {"absent", "present", "locked"}
  /\ todo \in {<<>>, Clients, Tail(Clients), Tail(Tail(Clients))}
  /\ outcome \in [Targets -> Outcomes]
  /\ before \subseteq Entries
  /\ faults \in 0..MaxFaults

\* A client that the install leaves without its registration is reported as failed,
\* also when it had one before the removal that goes before every registration.
RegisteredOrReported ==
  pc = "report" /\ Installing => \A c \in onPath \ task.skip :
    \/ Own(c, "Server") \in entries
    \/ outcome[c] = "Failed" /\ ~Succeeded
=============================================================================
