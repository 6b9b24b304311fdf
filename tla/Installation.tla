---------------------------- MODULE Installation ----------------------------
(***************************************************************************)
(* The life of an installed server: install.sh and uninstall.sh around the *)
(* subcommands of Registration, self_update.rs, which runs the official    *)
(* installer, check_update.rs, and main.rs, which tells them apart from    *)
(* the server itself.  Commands run one after the other; a command can be  *)
(* killed at any step.                                                     *)
(***************************************************************************)
EXTENDS Registration

CONSTANTS MaxVersion,    \* bound: releases there may be
          OldVersion,    \* releases up to this one have no uninstall subcommand
          MaxCommands    \* bound: how many commands are run

ASSUME VersionsAssumption == /\ MaxVersion \in Nat /\ OldVersion \in Nat /\ MaxCommands \in Nat
                            /\ OldVersion <= MaxVersion

VARIABLES
  binary,     \* the version in INSTALL_DIR, 0 when there is none
  latest,     \* the latest release
  said,       \* how the last command ended
  behind,     \* the version check-update last called behind, 0 if none
  commands,   \* how many commands were run
  asset       \* the version of the file downloaded

own  == <<binary, latest, said, behind, commands, asset>>
vars == <<entries, config, onPath, cache, task, pc, todo, outcome, before, faults, own>>

Versions == 1..MaxVersion
Kinds    == {"None", "Install", "Installer", "Update", "Uninstall"}
Task     == [kind : Kinds, scope : Scopes, dir : Dirs, skip : SUBSET Tools,
             self : 0..MaxVersion, target : 0..MaxVersion, pinned : BOOLEAN]
Said     == {"nothing", "ok", "failed", "killed", "latest", "behind", "no_update",
             "updated", "serving"}

TypeOK ==
  /\ RegistrationTypeOK
  /\ task \in Task
  /\ pc \in {"idle", "check", "turn", "legacy", "remove", "add", "cache", "report",
             "resolve", "fetch", "download", "place", "verify", "probe", "unlink"}
  /\ binary \in 0..MaxVersion
  /\ latest \in Versions
  /\ said \in Said
  /\ behind \in 0..MaxVersion
  /\ commands \in 0..MaxCommands
  /\ asset \in 0..MaxVersion
  /\ pc \in {"turn", "legacy", "remove", "add"} <=> todo # <<>>

\* A machine that never had the server, or one with a release of the old name.
Init ==
  /\ \/ /\ entries = {} /\ binary = 0
        /\ config \in {{}, {"Desktop", "Codex"}}
     \/ /\ binary = OldVersion
        /\ entries = {[client |-> c, place |-> Place(c, "User", "home"), name |-> "Legacy"] : c \in Tools}
        /\ config = {"Claude", "Codex", "Qoder"}
  /\ onPath \in {Tools, {"Codex"}}
  /\ cache = "absent"
  /\ task = [kind |-> "None", scope |-> "User", dir |-> CHOOSE d \in Dirs : TRUE,
             skip |-> {}, self |-> 0, target |-> 0, pinned |-> FALSE]
  /\ pc = "idle" /\ todo = <<>> /\ before = {}
  /\ outcome = [t \in Targets |-> "Absent"]
  /\ faults = 0
  /\ latest \in Versions \ {OldVersion}
  /\ said = "nothing" /\ behind = 0 /\ commands = 0 /\ asset = 0
-----------------------------------------------------------------------------
\* What happens between commands; a command looks at the latest release only once.
Release ==
  /\ pc = "idle" /\ latest < MaxVersion /\ latest' = latest + 1
  /\ UNCHANGED <<clientVars, cache, taskVars, pc, todo, outcome, faults, binary, said, behind, commands, asset>>

\* A client's tool is put on PATH or taken off it; a server fills and maps the cache.
ChangePath ==
  /\ pc = "idle"
  /\ \E c \in Tools : onPath' = (onPath \cup {c}) \ (onPath \cap {c})
  /\ UNCHANGED <<entries, config, cache, taskVars, pc, todo, outcome, faults, own>>

\* main: the timeouts come from a flag, the environment or the default; a value of the
\* environment that is no positive number stops the server and no other command.
ResolveTimeout(flag, env, default) ==
  IF flag > 0 THEN flag ELSE IF env = "unset" THEN default ELSE IF env = "invalid" THEN 0 ELSE 1

Serve(flag, env) ==
  /\ pc = "idle" /\ binary # 0 /\ cache = "absent"
  /\ said' = IF ResolveTimeout(flag, env, 1) = 0 THEN "failed" ELSE "serving"
  /\ cache' = IF said' = "serving" THEN "locked" ELSE cache
  /\ UNCHANGED <<clientVars, taskVars, pc, todo, outcome, faults, binary, latest, behind, commands, asset>>

ServerExits ==
  /\ pc = "idle" /\ cache = "locked" /\ cache' = "present"
  /\ UNCHANGED <<clientVars, taskVars, pc, todo, outcome, faults, own>>

Command(kind, scope, dir, skip, self, target, start) ==
  /\ pc = "idle" /\ commands < MaxCommands
  /\ commands' = commands + 1
  /\ task' = [kind |-> kind, scope |-> scope, dir |-> dir, skip |-> skip,
              self |-> self, target |-> target, pinned |-> target # 0]
  /\ before' = entries
  /\ outcome' = [t \in Targets |-> "Absent"]
  /\ Goto(start)
  /\ UNCHANGED <<clientVars, cache, todo, faults, binary, latest, said, behind, asset>>

\* result_to_exit_code and the exit code of update: the process ends, and with it what
\* it knew.
Exit(s) ==
  /\ said' = s
  /\ Goto("idle")
  /\ todo' = <<>>
  /\ outcome' = [t \in Targets |-> "Absent"]
  /\ asset' = 0
  /\ before' = {}

Proceed(l) == Goto(l) /\ UNCHANGED <<said, todo, outcome, asset, before>>

Kill ==
  /\ pc # "idle" /\ Fault
  /\ Exit("killed")
  /\ UNCHANGED <<clientVars, cache, task, binary, latest, behind, commands>>
-----------------------------------------------------------------------------
\* check-update: exit 0 when up to date or ahead, 2 when behind, 1 on an error.
CheckUpdate(self) ==
  /\ pc = "idle"
  /\ \/ /\ said' = IF self < latest THEN "behind" ELSE "latest"
        /\ behind' = IF self < latest THEN self ELSE 0
        /\ NoFault
     \/ said' = "failed" /\ UNCHANGED behind /\ Fault
  /\ UNCHANGED <<clientVars, cache, taskVars, pc, todo, outcome, binary, latest, commands, asset>>

NoUpdate == latest <= task.self

\* run_inner of update: the release to install.
Resolve ==
  /\ pc = "resolve"
  /\ IF ~task.pinned /\ NoUpdate
     THEN Exit("no_update") /\ UNCHANGED task
     ELSE /\ task' = IF task.pinned THEN task ELSE [task EXCEPT !.target = latest]
          /\ Proceed("fetch")
  /\ NoFault
  /\ UNCHANGED <<clientVars, cache, binary, latest, behind, commands>>

\* fetch_installer and validate_installer: a script cut short is not run.
FetchInstaller ==
  /\ pc = "fetch" /\ Goto("download") /\ NoFault
  /\ UNCHANGED <<clientVars, cache, taskVars, todo, outcome, own>>

\* No answer of the release API, no installer, no asset.
StepFails ==
  /\ pc \in {"resolve", "fetch", "download"} /\ Fault
  /\ Exit("failed")
  /\ UNCHANGED <<clientVars, cache, task, binary, latest, behind, commands>>

\* install.sh: the asset of the release, which may not be what its tag says.
Download ==
  /\ pc = "download"
  /\ \/ asset' = task.target /\ NoFault
     \/ asset' \in Versions \ {task.target} /\ Fault
  /\ Goto("place")
  /\ UNCHANGED <<clientVars, cache, taskVars, todo, outcome, binary, latest, said, behind, commands>>

\* The asset is put into place and registers itself; a release without the subcommand
\* fails to, which the script only warns of.
PlaceBinary ==
  /\ pc = "place"
  /\ binary' = asset
  /\ IF asset > OldVersion THEN Goto("turn") /\ todo' = Clients /\ UNCHANGED outcome
                           ELSE /\ Goto("report") /\ UNCHANGED todo
                                /\ outcome' = [outcome EXCEPT !["Claude"] = "Failed", !["Codex"] = "Failed"]
  /\ NoFault
  /\ UNCHANGED <<clientVars, cache, taskVars, latest, said, behind, commands, asset>>

\* A copy that fails leaves the old binary, or none: it was removed or moved aside before.
PlaceFails ==
  /\ pc = "place" /\ Fault
  /\ binary' \in {binary, 0}
  /\ Exit("failed")
  /\ UNCHANGED <<clientVars, cache, task, latest, behind, commands>>

\* run_install: a path without an executable file is not registered.
CheckBinary ==
  /\ pc = "check"
  /\ IF binary = 0 THEN Exit("failed")
                   ELSE Goto("turn") /\ todo' = Clients /\ UNCHANGED <<said, outcome, asset, before>>
  /\ NoFault
  /\ UNCHANGED <<clientVars, cache, task, binary, latest, behind, commands>>

\* The subcommand has ended: its exit status is the command's, or install.sh warns and
\* goes on, or uninstall.sh goes on to the binary or keeps it.
Report ==
  /\ pc = "report"
  /\ CASE task.kind = "Install"   -> Exit(IF Succeeded THEN "ok" ELSE "failed")
       [] task.kind = "Installer" -> Exit("ok")
       [] task.kind = "Update"    -> Proceed("verify")
       [] OTHER -> IF Succeeded THEN Proceed("unlink") ELSE Exit("ok")
  /\ NoFault
  /\ UNCHANGED <<clientVars, cache, task, binary, latest, behind, commands>>

VerifiedAny == binary # 0
Verified    == binary = task.target

\* verify_installed_version: what is in place must be what was asked for.
Verify ==
  /\ pc = "verify"
  /\ Exit(IF Verified THEN "updated" ELSE "failed")
  /\ NoFault
  /\ UNCHANGED <<clientVars, cache, task, binary, latest, behind, commands>>
-----------------------------------------------------------------------------
\* uninstall.sh: a binary with the subcommand deregisters itself, an older one is only
\* removed.
Probe ==
  /\ pc = "probe" /\ binary # 0 /\ NoFault
  /\ IF binary > OldVersion
     THEN Goto("turn") /\ todo' = Clients /\ UNCHANGED <<said, outcome, asset, before>>
     ELSE Proceed("unlink")
  /\ UNCHANGED <<clientVars, cache, task, binary, latest, behind, commands>>

\* A binary that does not answer --help is kept for inspection, and the script ends well.
ProbeFails ==
  /\ pc = "probe" /\ binary # 0 /\ Fault
  /\ Exit("ok")
  /\ UNCHANGED <<clientVars, cache, task, binary, latest, behind, commands>>

\* Without a binary the tools are called from here, for the user's scope, whatever the
\* scope asked for; a call that fails is passed over.
Fallback ==
  /\ pc = "probe" /\ binary = 0
  /\ \E deaf \in SUBSET onPath :
       /\ entries' = {e \in entries : ~(/\ e.name = "Server" /\ e.place.scope = "User"
                                        /\ e.client \in onPath \ deaf)}
       /\ IF deaf = {} THEN NoFault ELSE Fault
  /\ Exit("ok")
  /\ UNCHANGED <<config, onPath, cache, task, binary, latest, behind, commands>>

\* A binary that cannot be removed ends the script, or is warned of where it is renamed
\* aside.
Unlink ==
  /\ pc = "unlink"
  /\ \/ binary' = 0 /\ Exit("ok") /\ NoFault
     \/ UNCHANGED binary /\ (Exit("ok") \/ Exit("failed")) /\ Fault
  /\ UNCHANGED <<clientVars, cache, task, latest, behind, commands>>
-----------------------------------------------------------------------------
\* For the scope of the user it does not matter where a command is run.
Contexts == {x \in Scopes \X Dirs : x[1] = "User" => x[2] = CHOOSE d \in Dirs : TRUE}

Start ==
  \E x \in Contexts :
    \/ \E skip \in {{}, {"Claude"}} :
         \/ Command("Install", x[1], x[2], skip, 0, 0, "check")
         \/ Command("Uninstall", x[1], x[2], skip, 0, 0, "probe")
    \/ \E v \in Versions : Command("Installer", x[1], x[2], {}, 0, v, "download")
    \/ \E self \in Versions \ {OldVersion}, v \in (0..MaxVersion) \ {OldVersion} :
         Command("Update", x[1], x[2], {}, self, v, "resolve")

Next ==
  \/ Release \/ ChangePath \/ ServerExits \/ Start \/ Kill
  \/ \E flag \in {0, 1}, env \in {"unset", "invalid", "valid"} : Serve(flag, env)
  \/ \E self \in Versions \ {OldVersion} : CheckUpdate(self)
  \/ Resolve \/ FetchInstaller \/ Download \/ PlaceBinary \/ PlaceFails \/ CheckBinary
  \/ StepFails \/ Report \/ Verify \/ Probe \/ ProbeFails \/ Fallback \/ Unlink
  \/ Subcommand /\ UNCHANGED own

Spec == Init /\ [][Next]_vars
-----------------------------------------------------------------------------
Registered(c, set) == {e \in set : e.client = c /\ e.name = "Server"
                                   /\ e.place.scope = Own(c, "Server").place.scope}

\* The binary goes only when no client that the uninstall was to clean still has it
\* registered in the scope named: not after a failure, not for a client without its
\* tool, and not when it was run from another directory than the one registered.
RemovedClean ==
  [][task.kind = "Uninstall" /\ binary > OldVersion /\ binary' = 0 =>
       \A c \in Tools \ task.skip :
         Cardinality(Registered(c, before)) <= 1 => Registered(c, entries) = {}]_vars

\* While an install runs, a registration of its scope that was there before and is gone
\* is one whose failure is noted for the exit status, or the one whose add is the next
\* call: a command killed anywhere loses no more than that one registration unsaid.
Lost(c) == Own(c, "Server") \in before /\ Own(c, "Server") \notin entries

KillLosesOne ==
  Installing /\ pc # "idle" =>
    \A c \in Tools : Lost(c) => outcome[c] = "Failed" \/ (pc = "add" /\ c = Client)

\* "Update complete" is said of the release asked for, or of one newer than the
\* updater, also when the asset is not what its tag says or the copy failed.
UpdateHonest ==
  said = "updated" /\ pc = "idle" =>
    binary = task.target /\ (task.pinned \/ task.target > task.self)

\* Once check-update has called a version behind, update never finds that version
\* without an update, whatever is released in between.
CheckAgrees ==
  [][pc = "resolve" /\ pc' = "idle" /\ said' = "no_update" => behind # task.self]_vars

\* README.md:269 of update: it "re-registers the MCP server with Claude Code / Codex":
\* it completes without, install.sh only warns of a failure.
UpdateRegisters ==
  pc = "verify" /\ Verified => \A c \in onPath : Own(c, "Server") \in entries
=============================================================================
