------------------------- MODULE InstallationProofs -------------------------
(***************************************************************************)
(* What the commands of an installation may lose and what they may claim,  *)
(* for all values of the constants: any number of releases, directories,   *)
(* scopes and commands, and any number of faults.                          *)
(***************************************************************************)
EXTENDS Installation, TLAPS, FiniteSetTheorems

\* The client whose turn it is and the ones after it.
Ahead == {todo[i] : i \in 1..Len(todo)}

Turns == {"turn", "legacy", "remove", "add"}

\* What the steps rely on without saying so.
CommandInv ==
  /\ task = [kind |-> task.kind, scope |-> task.scope, dir |-> task.dir, skip |-> task.skip,
             self |-> task.self, target |-> task.target, pinned |-> task.pinned]
  /\ task.self \in Nat /\ latest \in Nat /\ behind \in Nat
  /\ onPath \subseteq Tools
  /\ DOMAIN outcome = Targets
  /\ pc \in Turns <=> todo # <<>>
  /\ todo \in {<<>>, Clients, <<"Codex", "Qoder">>, <<"Qoder">>}

\* Which command can be where.
KindInv ==
  /\ pc # "idle" => task.kind \in {"Install", "Installer", "Update", "Uninstall"}
  /\ pc = "probe" => ~Installing
  /\ pc \in {"cache", "unlink"} => ~Installing
  /\ pc \in {"check", "add", "resolve", "fetch", "download", "place"} => Installing
  /\ pc = "verify" => task.kind = "Update"
  /\ pc = "resolve" => task.self # 0

\* An update goes on only to a newer release, or to one it was told.
TargetInv == task.kind = "Update" /\ pc \notin {"idle", "resolve"} /\ ~task.pinned => task.target > task.self

\* A version called behind stays behind.
BehindInv == behind # 0 => behind < latest

\* A client that was dealt with has its registration, or a failure.
DoneInv ==
  /\ pc \in {"legacy", "remove", "add"} => Client \in onPath \ task.skip
  /\ Installing /\ pc \in Turns \cup {"report"} =>
       \A c \in onPath \ task.skip :
         Own(c, "Server") \in entries \/ outcome[c] = "Failed" \/ c \in Ahead

InstallInv == CommandInv /\ KindInv /\ TargetInv /\ BehindInv /\ DoneInv
-----------------------------------------------------------------------------
\* The clients in turn.
LEMMA ClientsInTurn ==
  ASSUME todo \in {Clients, <<"Codex", "Qoder">>, <<"Qoder">>}
  PROVE  /\ Tail(todo) \in {<<>>, <<"Codex", "Qoder">>, <<"Qoder">>}
         /\ Client \in Targets
         /\ todo # <<>>
         /\ \A c : c \in Ahead => c = Client \/ c \in {Tail(todo)[i] : i \in 1..Len(Tail(todo))}
PROOF
  <1>1. CASE todo = Clients
    BY <1>1 DEF Clients, Client, Targets, Ahead
  <1>2. CASE todo = <<"Codex", "Qoder">>
    BY <1>2 DEF Client, Targets, Ahead
  <1>3. CASE todo = <<"Qoder">>
    BY <1>3 DEF Client, Targets, Ahead
  <1> QED BY <1>1, <1>2, <1>3
-----------------------------------------------------------------------------
LEMMA InstallInvStarts == Init => InstallInv
  BY VersionsAssumption
    DEF Init, InstallInv, CommandInv, KindInv, TargetInv, BehindInv, DoneInv, Installing, Turns,
        Tools, Versions

\* Each command begins where it can.
LEMMA CommandStarts ==
  ASSUME InstallInv, NEW kind \in {"Install", "Installer", "Update", "Uninstall"},
         NEW scope, NEW dir, NEW skip, NEW self \in Nat, NEW target, NEW start,
         Command(kind, scope, dir, skip, self, target, start),
         \/ kind \in {"Install", "Installer"} /\ start \in {"check", "download"}
         \/ kind = "Uninstall" /\ start = "probe"
         \/ kind = "Update" /\ start = "resolve" /\ self # 0
  PROVE  InstallInv'
  BY DEF Command, Goto, clientVars, InstallInv, CommandInv, KindInv, TargetInv, BehindInv, DoneInv,
         Installing, Turns

\* Nothing runs: a command that begins has nothing to answer for yet.
LEMMA IdleKeepsInstallInv ==
  ASSUME InstallInv,
         \/ Release \/ ChangePath \/ ServerExits \/ Start
         \/ \E flag \in {0, 1}, env \in {"unset", "invalid", "valid"} : Serve(flag, env)
         \/ \E self \in Versions \ {OldVersion} : CheckUpdate(self)
  PROVE  InstallInv'
PROOF
  <1>1. CASE Release \/ ServerExits
    BY <1>1, VersionsAssumption
      DEF Release, ServerExits, clientVars, taskVars, own, InstallInv, CommandInv, KindInv, TargetInv,
          BehindInv, DoneInv, Installing, Turns
  <1>2. CASE ChangePath
    BY <1>2
      DEF ChangePath, taskVars, own, InstallInv, CommandInv, KindInv, TargetInv,
          BehindInv, DoneInv, Installing, Turns
  <1>3. CASE \E flag \in {0, 1}, env \in {"unset", "invalid", "valid"} : Serve(flag, env)
    BY <1>3
      DEF Serve, clientVars, taskVars, InstallInv, CommandInv, KindInv, TargetInv,
          BehindInv, DoneInv, Installing, Turns
  <1>4. CASE \E self \in Versions \ {OldVersion} : CheckUpdate(self)
    BY <1>4, VersionsAssumption
      DEF CheckUpdate, clientVars, taskVars, Versions, InstallInv, CommandInv, KindInv, TargetInv,
          BehindInv, DoneInv, Installing, Turns
  <1>5. CASE Start
    <2>1. CASE \E x \in Contexts, skip \in {{}, {"Claude"}} :
                 \/ Command("Install", x[1], x[2], skip, 0, 0, "check")
                 \/ Command("Uninstall", x[1], x[2], skip, 0, 0, "probe")
      BY <2>1, CommandStarts
    <2>2. CASE \E x \in Contexts, v \in Versions : Command("Installer", x[1], x[2], {}, 0, v, "download")
      BY <2>2, CommandStarts DEF Versions
    <2>3. CASE \E x \in Contexts, self \in Versions \ {OldVersion}, v \in (0..MaxVersion) \ {OldVersion} :
                 Command("Update", x[1], x[2], {}, self, v, "resolve")
      BY <2>3, CommandStarts, VersionsAssumption DEF Versions
    <2> QED BY <1>5, <2>1, <2>2, <2>3 DEF Start
  <1> QED BY <1>1, <1>2, <1>3, <1>4, <1>5

\* Wherever a command ends.
LEMMA ExitKeepsInstallInv ==
  ASSUME InstallInv, NEW s, Exit(s), UNCHANGED <<onPath, task, latest, behind>>
  PROVE  InstallInv'
  BY DEF Exit, Goto, InstallInv, CommandInv, KindInv, TargetInv, BehindInv, DoneInv, Installing, Turns

\* The steps of a command around the subcommand.
LEMMA CommandKeepsInstallInv ==
  ASSUME InstallInv,
         \/ Kill \/ Resolve \/ FetchInstaller \/ Download \/ PlaceBinary \/ PlaceFails \/ CheckBinary
         \/ StepFails \/ Report \/ Verify \/ Probe \/ ProbeFails \/ Fallback \/ Unlink
  PROVE  InstallInv'
PROOF
  <1>1. CASE Kill \/ PlaceFails \/ StepFails \/ Verify \/ ProbeFails \/ Fallback \/ Unlink
    BY <1>1, ExitKeepsInstallInv
      DEF Kill, PlaceFails, StepFails, Verify, ProbeFails, Fallback, Unlink, clientVars
  <1>2. CASE Resolve
    <2>1. CASE \E s : Exit(s) /\ UNCHANGED task
      BY <1>2, <2>1, ExitKeepsInstallInv DEF Resolve, clientVars
    <2>2. CASE Proceed("fetch") /\ ~NoUpdate /\ task' = [task EXCEPT !.target = latest]
      BY <1>2, <2>2
        DEF Resolve, Proceed, Goto, NoUpdate, clientVars, InstallInv, CommandInv, KindInv,
            TargetInv, BehindInv, DoneInv, Installing, Turns
    <2>3. CASE Proceed("fetch") /\ task.pinned /\ task' = task
      BY <1>2, <2>3
        DEF Resolve, Proceed, Goto, clientVars, InstallInv, CommandInv, KindInv, TargetInv,
            BehindInv, DoneInv, Installing, Turns
    <2> QED BY <1>2, <2>1, <2>2, <2>3 DEF Resolve
  <1>3. CASE FetchInstaller \/ Download
    BY <1>3
      DEF FetchInstaller, Download, Goto, clientVars, taskVars, own, InstallInv, CommandInv, KindInv,
          TargetInv, BehindInv, DoneInv, Installing, Turns
  <1>4. CASE PlaceBinary
    <2>1. CASE Goto("turn") /\ todo' = Clients /\ UNCHANGED outcome
      BY <1>4, <2>1
        DEF PlaceBinary, Goto, clientVars, taskVars, InstallInv, CommandInv, KindInv, TargetInv,
            BehindInv, DoneInv, Installing, Turns, Clients, Tools, Ahead
    <2>2. CASE /\ Goto("report") /\ UNCHANGED todo
               /\ outcome' = [outcome EXCEPT !["Claude"] = "Failed", !["Codex"] = "Failed"]
      <3>1. \A c \in Tools : outcome'[c] = "Failed"
        BY <2>2 DEF InstallInv, CommandInv, Tools, Targets
      <3> QED BY <1>4, <2>2, <3>1
        DEF PlaceBinary, Goto, clientVars, taskVars, InstallInv, CommandInv, KindInv, TargetInv,
            BehindInv, DoneInv, Installing, Turns, Clients, Targets
    <2> QED BY <1>4, <2>1, <2>2 DEF PlaceBinary
  <1>5. CASE CheckBinary
    <2>1. CASE Exit("failed")
      BY <1>5, <2>1, ExitKeepsInstallInv DEF CheckBinary, clientVars
    <2>2. CASE Goto("turn") /\ todo' = Clients /\ UNCHANGED <<said, outcome, asset, before>>
      BY <1>5, <2>2
        DEF CheckBinary, Goto, clientVars, InstallInv, CommandInv, KindInv, TargetInv, BehindInv,
            DoneInv, Installing, Turns, Clients, Tools, Ahead
    <2> QED BY <1>5, <2>1, <2>2 DEF CheckBinary
  <1>6. CASE Report
    <2>1. CASE \E s : Exit(s)
      BY <1>6, <2>1, ExitKeepsInstallInv DEF Report, clientVars
    <2>2. CASE Proceed("verify") /\ task.kind = "Update"
      BY <1>6, <2>2
        DEF Report, Proceed, Goto, clientVars, InstallInv, CommandInv, KindInv, TargetInv, BehindInv,
            DoneInv, Installing, Turns
    <2>3. CASE Proceed("unlink") /\ task.kind \notin {"Install", "Installer", "Update"}
      BY <1>6, <2>3
        DEF Report, Proceed, Goto, clientVars, InstallInv, CommandInv, KindInv, TargetInv, BehindInv,
            DoneInv, Installing, Turns
    <2> QED BY <1>6, <2>1, <2>2, <2>3 DEF Report
  <1>7. CASE Probe
    <2>2. CASE Proceed("unlink")
      BY <1>7, <2>2
        DEF Probe, Proceed, Goto, clientVars, InstallInv, CommandInv, KindInv, TargetInv, BehindInv, DoneInv,
            Installing, Turns
    <2>3. CASE Goto("turn") /\ todo' = Clients /\ UNCHANGED outcome
      BY <1>7, <2>3
        DEF Probe, Goto, clientVars, InstallInv, CommandInv, KindInv, TargetInv, BehindInv, DoneInv,
            Installing, Turns, Clients
    <2> QED BY <1>7, <2>2, <2>3 DEF Probe
  <1> QED BY <1>1, <1>2, <1>3, <1>4, <1>5, <1>6, <1>7

\* The next client's turn.
LEMMA SettleKeepsInstallInv ==
  ASSUME InstallInv, pc \in Turns, NEW o, Settle(o),
         UNCHANGED <<onPath, task, latest, behind>>,
         \A c \in Tools : c # Client /\ Own(c, "Server") \in entries => Own(c, "Server") \in entries',
         Installing /\ Client \in onPath \ task.skip => Own(Client, "Server") \in entries' \/ o = "Failed"
  PROVE  InstallInv'
PROOF
  <1>1. /\ todo \in {Clients, <<"Codex", "Qoder">>, <<"Qoder">>}
        /\ todo' = Tail(todo)
        /\ outcome' = [outcome EXCEPT ![Client] = o]
    BY DEF Settle, InstallInv, CommandInv
  <1>2. pc' = IF todo' # <<>> THEN "turn" ELSE IF Installing THEN "report" ELSE "cache"
    BY DEF Settle, Goto
  <1>3. Installing' = Installing /\ \A c : Own(c, "Server")' = Own(c, "Server")
    BY DEF Installing, Own
  <1>4. CommandInv' /\ KindInv' /\ TargetInv' /\ BehindInv'
    BY <1>1, <1>2, <1>3, ClientsInTurn
      DEF InstallInv, CommandInv, KindInv, TargetInv, BehindInv, Installing, Turns, Clients
  <1>5. ASSUME Installing, NEW c \in onPath \ task.skip
        PROVE  Own(c, "Server") \in entries' \/ outcome'[c] = "Failed" \/ c \in Ahead'
    <2>1. c \in Tools /\ c \in Targets /\ DOMAIN outcome = Targets
      BY DEF InstallInv, CommandInv, Tools, Targets
    <2>2. CASE c = Client
      BY <1>1, <1>5, <2>1, <2>2
    <2>3. CASE c # Client /\ c \in Ahead
      BY <1>1, <2>3, ClientsInTurn DEF Ahead
    <2>4. CASE c # Client /\ c \notin Ahead
      BY <1>1, <1>5, <2>1, <2>4 DEF InstallInv, DoneInv, Turns
    <2> QED BY <2>2, <2>3, <2>4
  <1>6. DoneInv'
    BY <1>2, <1>3, <1>5 DEF DoneInv
  <1> QED BY <1>4, <1>6 DEF InstallInv

\* Registrations have a name and a client each.
LEMMA OwnApart ==
  ASSUME NEW c, NEW d
  PROVE  /\ Own(c, "Server") # Own(d, "Legacy")
         /\ c # d => Own(c, "Server") # Own(d, "Server")
         /\ Own(c, "Server").client = c
  BY DEF Own

\* The calls of the clients' tools.
LEMMA SubcommandKeepsInstallInv ==
  ASSUME InstallInv, Subcommand, UNCHANGED own
  PROVE  InstallInv'
PROOF
  <1> USE DEF Turns
  <1>1. CASE Turn
    <2>1. CASE \E o : Settle(o) /\ (Client \in task.skip \/ Client \notin onPath)
      BY <1>1, <2>1, SettleKeepsInstallInv DEF Turn, clientVars, taskVars, own
    <2>2. CASE Client \in onPath \ task.skip /\ Goto("legacy") /\ UNCHANGED <<outcome, todo>>
      BY <1>1, <2>2
        DEF Turn, Goto, clientVars, taskVars, own, InstallInv, CommandInv, KindInv, TargetInv, BehindInv,
            DoneInv, Client, Installing, Own, Ahead
    <2> QED BY <1>1, <2>1, <2>2 DEF Turn
  <1>2. CASE RemoveLegacy
    <2>1. \A c : Own(c, "Server") \in entries => Own(c, "Server") \in entries'
      BY <1>2, OwnApart DEF RemoveLegacy
    <2> QED BY <1>2, <2>1
      DEF RemoveLegacy, Goto, taskVars, own, InstallInv, CommandInv, KindInv, TargetInv, BehindInv,
          DoneInv, Client, Installing, Own, Ahead
  <1>3. CASE RemoveServer
    <2>1. \A c : c # Client /\ Own(c, "Server") \in entries => Own(c, "Server") \in entries'
      BY <1>3, OwnApart DEF RemoveServer
    <2>2. CASE ~Installing
      BY <1>3, <2>1, <2>2, SettleKeepsInstallInv DEF RemoveServer, taskVars, own
    <2>3. CASE Installing /\ Goto("add") /\ UNCHANGED <<outcome, todo>>
      <3>1. Client \in Ahead
        BY <1>3, ClientsInTurn DEF RemoveServer, InstallInv, CommandInv, Ahead, Client, Clients
      <3> QED BY <1>3, <2>1, <2>3, <3>1
        DEF RemoveServer, Goto, taskVars, own, InstallInv, CommandInv, KindInv, TargetInv, BehindInv,
            DoneInv, Client, Installing, Own, Ahead
    <2> QED BY <1>3, <2>2, <2>3 DEF RemoveServer
  <1>4. CASE RemoveFails
    BY <1>4, SettleKeepsInstallInv DEF RemoveFails, clientVars, taskVars, own
  <1>5. CASE Add
    BY <1>5, SettleKeepsInstallInv DEF Add, AddFailure, taskVars, own
  <1>6. CASE CleanCache
    BY <1>6
      DEF CleanCache, Goto, clientVars, taskVars, own, InstallInv, CommandInv, KindInv, TargetInv,
          BehindInv, DoneInv, Client, Installing
  <1> QED BY <1>1, <1>2, <1>3, <1>4, <1>5, <1>6 DEF Subcommand

LEMMA InstallInvKept == InstallInv /\ [Next]_vars => InstallInv'
PROOF
  <1> SUFFICES ASSUME InstallInv, [Next]_vars PROVE InstallInv'
    OBVIOUS
  <1>1. CASE UNCHANGED vars
    BY <1>1
      DEF vars, own, InstallInv, CommandInv, KindInv, TargetInv, BehindInv, DoneInv, Client,
          Installing, Own, Ahead
  <1> QED BY <1>1, IdleKeepsInstallInv, CommandKeepsInstallInv, SubcommandKeepsInstallInv DEF Next
-----------------------------------------------------------------------------
LEMMA InstallInvHolds == Spec => []InstallInv
PROOF
  <1> QED BY InstallInvStarts, InstallInvKept, PTL DEF Spec

\* install.rs, add after remove: a client whose registration the install took away or could
\* not make is among the failures, and the exit status says so.
THEOREM RegistrationIsReported == Spec => []RegisteredOrReported
PROOF
  <1>1. InstallInv => RegisteredOrReported
    <2> SUFFICES ASSUME InstallInv, pc = "report", Installing, NEW c \in onPath \ task.skip
                 PROVE  Own(c, "Server") \in entries \/ (outcome[c] = "Failed" /\ ~Succeeded)
      BY DEF RegisteredOrReported
    <2>1. c \in Targets /\ Ahead = {}
      BY DEF InstallInv, CommandInv, Turns, Tools, Targets, Ahead
    <2> QED BY <2>1 DEF InstallInv, DoneInv, Succeeded
  <1> QED BY <1>1, InstallInvHolds, PTL

\* self_update.rs: "Update complete" is said only when what is in place is what was asked
\* for, or a release newer than the updater.
THEOREM UpdateIsHonest == Spec => []UpdateHonest
PROOF
  <1>1. Init => UpdateHonest
    BY DEF Init, UpdateHonest
  <1>2. InstallInv /\ UpdateHonest /\ [Next]_vars => UpdateHonest'
    <2> SUFFICES ASSUME InstallInv, UpdateHonest, [Next]_vars, said' = "updated", pc' = "idle"
                 PROVE  binary' = task'.target /\ (task'.pinned \/ task'.target > task'.self)
      BY DEF UpdateHonest
    <2>1. CASE Verify
      <3>1. binary = task.target /\ UNCHANGED <<task, binary>>
        BY <2>1 DEF Verify, Verified, Exit
      <3>2. task.pinned \/ task.target > task.self
        BY <2>1 DEF Verify, InstallInv, KindInv, TargetInv
      <3> QED BY <3>1, <3>2
    <2>2. CASE UNCHANGED <<said, pc, binary, task>>
      BY <2>2 DEF UpdateHonest
    <2>3. CASE Release \/ ChangePath \/ ServerExits \/ UNCHANGED vars
      BY <2>2, <2>3 DEF vars, own, taskVars, Release, ChangePath, ServerExits
    <2>4. ~Start /\ ~FetchInstaller /\ ~Download /\ ~PlaceBinary /\ ~Subcommand
      BY DEF Start, Command, Goto, FetchInstaller, Download, PlaceBinary, Subcommand, Turn, RemoveLegacy,
             RemoveServer, RemoveFails, Add, CleanCache, Settle, InstallInv, CommandInv
    <2>5. ~Kill /\ ~Resolve /\ ~PlaceFails /\ ~CheckBinary /\ ~StepFails /\ ~Report
          /\ ~Probe /\ ~ProbeFails /\ ~Fallback /\ ~Unlink
      BY DEF Kill, Resolve, PlaceFails, CheckBinary, StepFails, Report, Probe, ProbeFails, Fallback, Unlink, Exit, Proceed, Goto
    <2>6. /\ ~\E flag \in {0, 1}, env \in {"unset", "invalid", "valid"} : Serve(flag, env)
          /\ ~\E self \in Versions \ {OldVersion} : CheckUpdate(self)
      BY DEF Serve, CheckUpdate
    <2> QED BY <2>1, <2>3, <2>4, <2>5, <2>6 DEF Next
  <1> QED BY <1>1, <1>2, InstallInvHolds, PTL DEF Spec

-----------------------------------------------------------------------------
(***************************************************************************)
(* What an install may lose.                                               *)
(***************************************************************************)
\* Before the subcommand begins nothing is lost; from then on a loss is noted, or is that of
\* the client whose add comes next.
Begins == {"check", "resolve", "fetch", "download", "place"}

LossInv ==
  Installing /\ pc # "idle" =>
    /\ pc \in Begins => \A c \in Tools : ~Lost(c)
    /\ \A c \in Tools : Lost(c) =>
         \/ outcome[c] = "Failed" /\ c \notin Ahead
         \/ pc = "add" /\ c = Client

\* Each client has one turn.
LEMMA OneTurn ==
  ASSUME InstallInv, pc \in Turns
  PROVE  /\ Client \in Ahead
         /\ Client \notin {Tail(todo)[i] : i \in 1..Len(Tail(todo))}
         /\ {Tail(todo)[i] : i \in 1..Len(Tail(todo))} \subseteq Ahead
PROOF
  <1>1. CASE todo = Clients
    BY <1>1 DEF Clients, Client, Ahead
  <1>2. CASE todo = <<"Codex", "Qoder">>
    BY <1>2 DEF Client, Ahead
  <1>3. CASE todo = <<"Qoder">>
    BY <1>3 DEF Client, Ahead
  <1> QED BY <1>1, <1>2, <1>3 DEF InstallInv, CommandInv

\* What is lost after a step that leaves the registrations and the task as they are.
LEMMA LostKept ==
  ASSUME UNCHANGED <<before, task.scope, task.dir>>, entries \subseteq entries'
  PROVE  \A c : Lost(c)' => Lost(c)
  BY DEF Lost, Own

\* The end of a client's turn: what it lost is a failure.
LEMMA SettleKeepsLossInv ==
  ASSUME InstallInv, LossInv, Installing, pc \in Turns, NEW o, Settle(o), UNCHANGED task,
         \A c \in Tools : Lost(c)' => Lost(c) /\ (c = Client => o = "Failed")
  PROVE  LossInv'
PROOF
  <1>1. todo' = Tail(todo) /\ outcome' = [outcome EXCEPT ![Client] = o] /\ DOMAIN outcome = Targets
    BY DEF Settle, InstallInv, CommandInv
  <1>2. pc' \in {"turn", "report"}
    BY DEF Settle, Goto
  <1>3. Ahead' \subseteq Ahead /\ Client \notin Ahead'
    BY <1>1, OneTurn DEF Ahead
  <1>4. ASSUME NEW c \in Tools, Lost(c)' PROVE outcome'[c] = "Failed" /\ c \notin Ahead'
    <2>1. c \in Targets
      BY DEF Tools, Targets
    <2>2. CASE c = Client
      BY <1>1, <1>3, <1>4, <2>1, <2>2
    <2>3. CASE c # Client
      <3>1. outcome[c] = "Failed" /\ c \notin Ahead
        BY <1>4, <2>3 DEF LossInv, Turns
      <3> QED BY <1>1, <1>3, <2>1, <2>3, <3>1
    <2> QED BY <2>2, <2>3
  <1> QED BY <1>2, <1>4 DEF LossInv, Begins

\* The calls of the clients' tools.
LEMMA SubcommandKeepsLossInv ==
  ASSUME InstallInv, LossInv, Installing, Subcommand
  PROVE  LossInv'
PROOF
  <1>0. UNCHANGED <<task, before>>
    BY DEF Subcommand, Turn, RemoveLegacy, RemoveServer, RemoveFails, Add, CleanCache, taskVars
  <1>1. CASE Turn
    <2>1. \A c \in Tools : Lost(c)' => Lost(c) /\ c # Client
      BY <1>0, <1>1, LostKept, OneTurn DEF Turn, clientVars, LossInv, Turns
    <2>2. CASE \E o : Settle(o)
      BY <1>0, <1>1, <2>1, <2>2, SettleKeepsLossInv DEF Turn, Turns
    <2>3. CASE Goto("legacy") /\ UNCHANGED <<outcome, todo>>
      BY <1>0, <1>1, <2>1, <2>3 DEF Turn, Goto, LossInv, Begins, Ahead
    <2> QED BY <1>1, <2>2, <2>3 DEF Turn
  <1>2. CASE RemoveLegacy
    <2>1. \A c \in Tools : Lost(c)' => Lost(c)
      BY <1>0, <1>2, OwnApart DEF RemoveLegacy, Lost, Own
    <2> QED BY <1>0, <1>2, <2>1 DEF RemoveLegacy, Goto, LossInv, Begins, Ahead
  <1>3. CASE RemoveServer
    <2>1. \A c \in Tools : Lost(c)' => Lost(c) \/ c = Client
      BY <1>0, <1>3, OwnApart DEF RemoveServer, Lost, Own
    <2>2. pc' = "add" /\ UNCHANGED <<outcome, todo>>
      BY <1>3 DEF RemoveServer, Goto
    <2> QED BY <1>0, <1>3, <2>1, <2>2 DEF RemoveServer, LossInv, Begins, Ahead, Client
  <1>4. CASE RemoveFails
    BY <1>0, <1>4, LostKept, SettleKeepsLossInv DEF RemoveFails, clientVars, Turns
  <1>5. CASE Add
    <2>1. CASE entries' = entries \cup {Own(Client, "Server")} /\ Settle("Done")
      <3>1. \A c \in Tools : Lost(c)' => Lost(c) /\ c # Client
        BY <1>0, <2>1, LostKept DEF Lost, Own
      <3> QED BY <1>0, <1>5, <2>1, <3>1, SettleKeepsLossInv DEF Add, Turns
    <2>2. CASE UNCHANGED entries /\ Settle("Failed")
      BY <1>0, <1>5, <2>2, LostKept, SettleKeepsLossInv DEF Add, Turns
    <2> QED BY <1>5, <2>1, <2>2 DEF Add, AddFailure
  <1>6. CASE CleanCache
    BY <1>6 DEF CleanCache, InstallInv, KindInv
  <1> QED BY <1>1, <1>2, <1>3, <1>4, <1>5, <1>6 DEF Subcommand

LEMMA LossInvKept == ASSUME InstallInv, LossInv, [Next]_vars PROVE LossInv'
PROOF
  <1>1. CASE UNCHANGED vars
    BY <1>1 DEF vars, own, taskVars, LossInv, Lost, Own, Installing, Ahead, Client
  <1>2. CASE pc' = "idle"
    BY <1>2 DEF LossInv
  <1>3. CASE Start
    <2>1. entries' = entries /\ before' = entries /\ pc' \in {"check", "download", "probe", "resolve"}
      BY <1>3 DEF Start, Command, Goto, clientVars
    <2> QED BY <2>1 DEF LossInv, Lost
  <1>4. CASE Subcommand
    <2>1. CASE Installing
      BY <1>4, <2>1, SubcommandKeepsLossInv
    <2>2. CASE ~Installing
      <3>1. task' = task
        BY <1>4 DEF Subcommand, Turn, RemoveLegacy, RemoveServer, RemoveFails, Add, CleanCache, taskVars
      <3> QED BY <2>2, <3>1 DEF LossInv, Installing
    <2> QED BY <2>1, <2>2
  <1>5. CASE (Resolve \/ FetchInstaller \/ Download \/ PlaceBinary \/ CheckBinary) /\ pc' # "idle"
    <2>1. UNCHANGED <<entries, before, task.scope, task.dir>> /\ pc \in Begins /\ pc # "idle"
      BY <1>5 DEF Resolve, FetchInstaller, Download, PlaceBinary, CheckBinary, Proceed, Exit, Goto,
                  clientVars, taskVars, own, Begins, InstallInv, CommandInv
    <2>2. Installing
      BY <2>1 DEF InstallInv, KindInv, Begins
    <2>3. \A c \in Tools : ~Lost(c)'
      BY <2>1, <2>2, LostKept DEF LossInv
    <2> QED BY <2>3 DEF LossInv
  <1>6. CASE Report /\ pc' # "idle"
    <2>1. UNCHANGED <<entries, before, task, outcome, todo>> /\ pc = "report"
      BY <1>6 DEF Report, Proceed, Exit, Goto, clientVars
    <2>2. pc' \in {"verify", "unlink"}
      BY <1>6 DEF Report, Proceed, Exit, Goto
    <2> QED BY <2>1, <2>2, LostKept DEF LossInv, Installing, Ahead, Begins
  <1>7. CASE Probe
    BY <1>7 DEF Probe, InstallInv, KindInv, LossInv, Installing
  <1>8. CASE Release \/ ChangePath \/ ServerExits
    BY <1>2, <1>8 DEF Release, ChangePath, ServerExits, own
  <1>9. CASE \/ \E flag \in {0, 1}, env \in {"unset", "invalid", "valid"} : Serve(flag, env)
             \/ \E self \in Versions \ {OldVersion} : CheckUpdate(self)
    BY <1>2, <1>9 DEF Serve, CheckUpdate
  <1>10. CASE Kill \/ PlaceFails \/ StepFails \/ Verify \/ ProbeFails \/ Fallback \/ Unlink
    BY <1>2, <1>10 DEF Kill, PlaceFails, StepFails, Verify, ProbeFails, Fallback, Unlink, Exit, Goto
  <1> QED BY <1>1, <1>2, <1>3, <1>4, <1>5, <1>6, <1>7, <1>8, <1>9, <1>10 DEF Next

\* install.rs, remove before add: wherever an install is killed, every registration it took
\* away is back or noted as a failure, but for the one whose add was the next call.
THEOREM KillLosesAtMostOne == Spec => []KillLosesOne
PROOF
  <1>1. Init => LossInv
    BY DEF Init, LossInv
  <1>2. LossInv => KillLosesOne
    BY DEF LossInv, KillLosesOne
  <1>3. InstallInv /\ LossInv /\ [Next]_vars => LossInv'
    BY LossInvKept
  <1> QED BY <1>1, <1>2, <1>3, InstallInvHolds, PTL DEF Spec
-----------------------------------------------------------------------------
\* check_update.rs and self_update.rs: a version called behind is never told afterwards that
\* there is no update.
THEOREM CheckAgreesWithUpdate == Spec => CheckAgrees
PROOF
  <1>1. InstallInv /\ [Next]_vars =>
          [pc = "resolve" /\ pc' = "idle" /\ said' = "no_update" => behind # task.self]_vars
    <2> SUFFICES ASSUME InstallInv, [Next]_vars, pc = "resolve", pc' = "idle", said' = "no_update"
                 PROVE  behind # task.self
      OBVIOUS
    <2>1. CASE Resolve
      BY <2>1 DEF Resolve, Proceed, Goto, NoUpdate, InstallInv, CommandInv, KindInv, BehindInv
    <2>2. Resolve
      BY DEF Next, vars, own, Release, ChangePath, ServerExits, Start, Command,
             Kill, Serve, CheckUpdate, FetchInstaller, Download, PlaceBinary, PlaceFails,
             CheckBinary, StepFails, Report, Verify, Probe, ProbeFails, Fallback, Unlink, Exit, Subcommand, Turn,
             RemoveLegacy, RemoveServer, RemoveFails, Add, CleanCache
    <2> QED BY <2>1, <2>2
  <1> QED BY <1>1, InstallInvHolds, PTL DEF Spec, CheckAgrees
-----------------------------------------------------------------------------
(***************************************************************************)
(* What an uninstall leaves.                                               *)
(***************************************************************************)
Cleaned(c) == Cardinality(Registered(c, before)) <= 1 => Registered(c, entries) = {}

Home == [scope |-> "User", dir |-> "home"]

\* A registration is of a client whose configuration is there, and the user's scope is one
\* place.
EntriesInv ==
  /\ IsFiniteSet(entries) /\ IsFiniteSet(before)
  /\ \A e \in entries :
       /\ e = [client |-> e.client, place |-> e.place, name |-> e.name]
       /\ e.client \in config
       /\ e.place.scope = "User" => e.place = Home

\* A client the uninstall has dealt with is clean, or a failure.
CleanInv ==
  ~Installing =>
    /\ pc # "idle" => entries \subseteq before
    /\ pc \in Turns \cup {"cache", "report"} =>
         \A c \in Tools \ task.skip :
           Cleaned(c) \/ outcome[c] \in {"Failed", "Blocking"} \/ c \in Ahead
    /\ pc = "unlink" /\ binary > OldVersion => \A c \in Tools \ task.skip : Cleaned(c)

RemovalInv == EntriesInv /\ CleanInv

LEMMA AtMostOne ==
  ASSUME NEW S, IsFiniteSet(S), Cardinality(S) <= 1, NEW x \in S, NEW y \in S
  PROVE  x = y
PROOF
  <1> SUFFICES ASSUME x # y PROVE FALSE
    OBVIOUS
  <1>1. IsFiniteSet({x, y}) /\ Cardinality({x, y}) = 2
    <2>1. IsFiniteSet({x}) /\ Cardinality({x}) = 1
      BY FS_Singleton
    <2>2. Cardinality({x} \cup {y}) = 2
      BY <2>1, FS_AddElement
    <2>3. {x} \cup {y} = {x, y}
      OBVIOUS
    <2>4. IsFiniteSet({x} \cup {y})
      BY <2>1, FS_AddElement
    <2> QED BY <2>2, <2>3, <2>4
  <1>2. Cardinality({x, y}) <= Cardinality(S)
    BY FS_Subset
  <1>3. Cardinality(S) \in Nat
    BY FS_CardinalityType
  <1> QED BY <1>1, <1>2, <1>3

LEMMA EntriesInvStarts == Init => EntriesInv
PROOF
  <1> SUFFICES ASSUME Init PROVE EntriesInv
    OBVIOUS
  <1>1. IsFiniteSet(before)
    BY FS_EmptySet DEF Init
  <1>2. CASE entries = {}
    BY <1>1, <1>2, FS_EmptySet DEF EntriesInv
  <1>3. CASE /\ entries = {[client |-> c, place |-> Place(c, "User", "home"), name |-> "Legacy"] : c \in Tools}
             /\ config = {"Claude", "Codex", "Qoder"}
    <2> DEFINE E(c) == [client |-> c, place |-> Place(c, "User", "home"), name |-> "Legacy"]
    <2>1. entries = {E("Claude")} \cup {E("Codex")}
      BY <1>3 DEF Tools
    <2>2. IsFiniteSet({E("Claude")}) /\ IsFiniteSet({E("Codex")})
      BY FS_Singleton
    <2>3. IsFiniteSet(entries)
      BY <2>1, <2>2, FS_Union
    <2> QED BY <1>1, <1>3, <2>3 DEF EntriesInv, Place, Tools, Home
  <1> QED BY <1>2, <1>3 DEF Init

\* Entries are taken away, or Own is added.
LEMMA EntriesInvKept ==
  ASSUME InstallInv, EntriesInv, [Next]_vars
  PROVE  EntriesInv'
PROOF
  <1>1. IsFiniteSet(before')
    <2>1. before' \in {{}, before, entries}
      BY DEF Next, vars, own, clientVars, taskVars, Release, ChangePath, ServerExits, Start, Command,
             Kill, Serve, CheckUpdate, Resolve, FetchInstaller, Download, PlaceBinary, PlaceFails,
             CheckBinary, StepFails, Report, Verify, Probe, ProbeFails, Fallback, Unlink, Exit, Proceed, Subcommand, Turn,
             RemoveLegacy, RemoveServer, RemoveFails, Add, CleanCache
    <2> QED BY <2>1, FS_EmptySet DEF EntriesInv
  <1>2. CASE entries' \subseteq entries /\ config' = config
    BY <1>1, <1>2, FS_Subset DEF EntriesInv
  <1>3. CASE Add /\ entries' = entries \cup {Own(Client, "Server")} /\ config' = config \cup {Client}
    <2>1. IsFiniteSet(entries')
      BY <1>3, FS_AddElement DEF EntriesInv
    <2> QED BY <1>1, <1>3, <2>1 DEF EntriesInv, Own, Place, Home
  <1>4. \/ entries' \subseteq entries /\ config' = config
        \/ Add /\ entries' = entries \cup {Own(Client, "Server")} /\ config' = config \cup {Client}
    BY DEF Next, vars, own, clientVars, taskVars, Release, ChangePath, ServerExits, Start, Command,
           Kill, Serve, CheckUpdate, Resolve, FetchInstaller, Download, PlaceBinary, PlaceFails,
           CheckBinary, StepFails, Report, Verify, Probe, ProbeFails, Fallback, Proceed, Unlink, Subcommand, Turn,
           RemoveLegacy, RemoveServer, RemoveFails, Add, CleanCache
  <1> QED BY <1>2, <1>3, <1>4

\* The one registration of a client that was there in the scope is the one removed.
LEMMA RemovalCleans ==
  ASSUME InstallInv, RemovalInv, RemoveServer, ~Installing
  PROVE  (Client \in Tools /\ Cardinality(Registered(Client, before)) <= 1
            => Registered(Client, entries') = {})
         \/ outcome'[Client] = "Failed"
PROOF
  <1> SUFFICES ASSUME Client \in Tools, Cardinality(Registered(Client, before)) <= 1,
                      outcome'[Client] # "Failed", NEW e \in Registered(Client, entries')
               PROVE  FALSE
    OBVIOUS
  <1>1. /\ e \in entries /\ e # Own(Client, "Server") /\ e \in before
        /\ e.client = Client /\ e.name = "Server" /\ e.place.scope = Place(Client, task.scope, task.dir).scope
    BY DEF RemoveServer, Registered, RemovalInv, CleanInv, Own
  <1>2. e.place # Place(Client, task.scope, task.dir)
    BY <1>1 DEF RemovalInv, EntriesInv, Own
  <1>3. Client = "Claude" /\ task.scope # "User"
    BY <1>1, <1>2 DEF Place, RemovalInv, EntriesInv, Home, Tools
  <1>4. Client \in Targets /\ DOMAIN outcome = Targets
    BY DEF Tools, Targets, InstallInv, CommandInv
  <1>5. Own(Client, "Server") \in entries
    BY <1>3, <1>4 DEF RemoveServer, Settle, NotFound, FoundNothing
  <1>6. Own(Client, "Server") \in Registered(Client, before) /\ e \in Registered(Client, before)
    BY <1>1, <1>5 DEF RemovalInv, CleanInv, RemoveServer, Registered, Own
  <1>7. IsFiniteSet(Registered(Client, before))
    BY FS_Subset DEF RemovalInv, EntriesInv, Registered
  <1> QED BY <1>1, <1>6, <1>7, AtMostOne

\* A client without a tool and without a configuration has no registration.
LEMMA AbsentIsClean ==
  ASSUME EntriesInv, NEW c \in Tools, ~Detected(c)
  PROVE  Registered(c, entries) = {}
  BY DEF EntriesInv, Detected, DetectClaudeProducts, CodexPresentIndirectly, Tools, Registered

\* The next client's turn, in an uninstall.
LEMMA SettleKeepsCleanInv ==
  ASSUME InstallInv, RemovalInv, ~Installing, pc \in Turns, NEW o, Settle(o),
         UNCHANGED <<task, before>>, entries' \subseteq entries,
         \A c \in Tools \ task.skip : c = Client /\ o \notin {"Failed", "Blocking"} => Cleaned(c)'
  PROVE  CleanInv'
PROOF
  <1>1. /\ todo \in {Clients, <<"Codex", "Qoder">>, <<"Qoder">>}
        /\ todo' = Tail(todo)
        /\ outcome' = [outcome EXCEPT ![Client] = o]
        /\ DOMAIN outcome = Targets
    BY DEF Settle, InstallInv, CommandInv
  <1>2. pc' \in {"turn", "cache"}
    BY DEF Settle, Goto
  <1>3. \A c : Cleaned(c) => Cleaned(c)'
    BY DEF Cleaned, Registered, Own
  <1>4. ASSUME NEW c \in Tools \ task.skip
        PROVE  Cleaned(c)' \/ outcome'[c] \in {"Failed", "Blocking"} \/ c \in Ahead'
    <2>1. c \in Targets
      BY DEF Tools, Targets
    <2>2. CASE c = Client
      BY <1>1, <2>1, <2>2
    <2>3. CASE c # Client /\ c \in Ahead
      BY <1>1, <2>3, ClientsInTurn DEF Ahead
    <2>4. CASE c # Client /\ c \notin Ahead
      BY <1>1, <1>3, <2>1, <2>4 DEF RemovalInv, CleanInv
    <2> QED BY <2>2, <2>3, <2>4
  <1> QED BY <1>2, <1>4 DEF RemovalInv, CleanInv, Turns, Installing

LEMMA SubcommandKeepsCleanInv ==
  ASSUME InstallInv, RemovalInv, ~Installing, Subcommand, UNCHANGED own
  PROVE  CleanInv'
PROOF
  <1> USE DEF Turns
  <1>1. CASE Turn
    <2>1. CASE Client \in task.skip /\ Settle("Skipped")
      BY <1>1, <2>1, SettleKeepsCleanInv DEF Turn, clientVars, taskVars
    <2>2. CASE /\ Client \notin onPath
               /\ Settle(IF Detected(Client) THEN ManualOutcome(Client) ELSE "Absent")
      <3>1. \A c \in Tools : c = Client /\ ~Detected(c) => Cleaned(c)'
        BY <1>1, AbsentIsClean DEF Turn, clientVars, taskVars, RemovalInv, Cleaned, Registered, Own
      <3>2. \A c \in Tools : c = Client => ManualOutcome(c) = "Blocking"
        BY DEF ManualOutcome, Tools
      <3> QED BY <1>1, <2>2, <3>1, <3>2, SettleKeepsCleanInv DEF Turn, clientVars, taskVars
    <2>3. CASE Goto("legacy") /\ UNCHANGED <<outcome, todo>>
      BY <1>1, <2>3
        DEF Turn, Goto, clientVars, taskVars, own, RemovalInv, CleanInv, Cleaned, Registered, Own, Ahead,
            Installing
    <2> QED BY <1>1, <2>1, <2>2, <2>3 DEF Turn
  <1>2. CASE RemoveLegacy
    <2>1. \A c : Cleaned(c) => Cleaned(c)'
      BY <1>2 DEF RemoveLegacy, taskVars, Cleaned, Registered, Own
    <2> QED BY <1>2, <2>1
      DEF RemoveLegacy, Goto, taskVars, own, RemovalInv, CleanInv, Ahead, Installing
  <1>3. CASE RemoveServer
    <2>1. PICK o : Settle(o)
      BY <1>3 DEF RemoveServer
    <2>2. Client \in Targets => outcome'[Client] = o
      BY <2>1 DEF Settle, InstallInv, CommandInv
    <2>3. ASSUME NEW c \in Tools \ task.skip, c = Client, o \notin {"Failed", "Blocking"} PROVE Cleaned(c)'
      <3>1. Cardinality(Registered(c, before)) <= 1 => Registered(c, entries') = {}
        BY <1>3, <2>2, <2>3, RemovalCleans DEF Tools, Targets
      <3>2. /\ Registered(c, before)' = Registered(c, before)
            /\ Registered(c, entries)' = Registered(c, entries')
        BY <1>3 DEF RemoveServer, taskVars, Registered, Own
      <3> QED BY <3>1, <3>2 DEF Cleaned
    <2> QED BY <1>3, <2>1, <2>3, SettleKeepsCleanInv DEF RemoveServer, taskVars
  <1>4. CASE RemoveFails
    BY <1>4, SettleKeepsCleanInv DEF RemoveFails, clientVars, taskVars
  <1>5. CASE Add
    BY <1>5 DEF Add, InstallInv, KindInv
  <1>6. CASE CleanCache
    <2>1. \A c : (Cleaned(c) => Cleaned(c)') /\ (c \in Tools => outcome'[c] = outcome[c])
      BY <1>6 DEF CleanCache, clientVars, taskVars, Cleaned, Registered, Own, InstallInv, CommandInv, Tools, Targets
    <2> QED BY <1>6, <2>1
      DEF CleanCache, Goto, clientVars, taskVars, own, RemovalInv, CleanInv, Ahead, Installing
  <1> QED BY <1>1, <1>2, <1>3, <1>4, <1>5, <1>6 DEF Subcommand

\* Where an uninstall is not a subcommand, only the end of the subcommand says that its
\* clients are clean.
LEMMA OthersKeepCleanInv ==
  ASSUME InstallInv, RemovalInv, [Next]_vars, ~(Subcommand /\ UNCHANGED own)
  PROVE  CleanInv'
PROOF
  <1>1. CASE UNCHANGED vars
    BY <1>1 DEF vars, own, RemovalInv, CleanInv, Cleaned, Registered, Own, Ahead, Installing
  <1>2. CASE pc' = "idle"
    BY <1>2 DEF CleanInv, Turns
  <1>3. CASE Start
    BY <1>3 DEF Start, Command, Goto, clientVars, CleanInv, Turns
  <1>4. CASE Resolve \/ FetchInstaller \/ Download \/ PlaceBinary \/ CheckBinary
    <2>1. Installing /\ task'.kind = task.kind
      BY <1>4 DEF Resolve, FetchInstaller, Download, PlaceBinary, CheckBinary, taskVars, InstallInv, CommandInv, KindInv
    <2> QED BY <2>1 DEF CleanInv, Installing
  <1>5. CASE Report /\ pc' # "idle"
    <2>1. CASE ~Installing
      <3>1. /\ Succeeded /\ Proceed("unlink") /\ UNCHANGED <<clientVars, task, binary>>
        BY <1>5, <2>1 DEF Report, Exit, Goto, Installing, InstallInv, KindInv
      <3>2. \A c \in Tools : outcome[c] \notin {"Failed", "Blocking"}
        BY <3>1 DEF Succeeded, Tools, Targets
      <3>3. Ahead = {}
        BY <1>5 DEF Report, InstallInv, CommandInv, Turns, Ahead
      <3>4. \A c \in Tools \ task.skip : Cleaned(c)'
        BY <1>5, <2>1, <3>1, <3>2, <3>3
          DEF Report, Proceed, clientVars, RemovalInv, CleanInv, Cleaned, Registered, Own
      <3> QED BY <1>5, <2>1, <3>1, <3>4
        DEF Report, Proceed, Goto, clientVars, RemovalInv, CleanInv, Turns, Installing
    <2> QED BY <1>5, <2>1 DEF Report, CleanInv, Installing
  <1>6. CASE Probe
    <2>1. /\ UNCHANGED <<entries, before, task, binary>>
          /\ \/ pc' = "turn" /\ todo' = Clients /\ binary > OldVersion
             \/ pc' = "unlink" /\ ~(binary > OldVersion)
      BY <1>6 DEF Probe, Proceed, Goto, clientVars
    <2>2. entries \subseteq before
      BY <1>6 DEF Probe, RemovalInv, CleanInv, InstallInv, KindInv
    <2>3. CASE pc' = "turn"
      BY <2>1, <2>2, <2>3 DEF CleanInv, Turns, Clients, Tools, Ahead, Installing
    <2>4. CASE pc' = "unlink"
      BY <2>1, <2>2, <2>4 DEF CleanInv, Turns, Installing
    <2> QED BY <2>1, <2>3, <2>4
  <1>7. CASE Release \/ ChangePath \/ ServerExits
    BY <1>2, <1>7 DEF Release, ChangePath, ServerExits, own
  <1>8. CASE \/ \E flag \in {0, 1}, env \in {"unset", "invalid", "valid"} : Serve(flag, env)
             \/ \E self \in Versions \ {OldVersion} : CheckUpdate(self)
    BY <1>2, <1>8 DEF Serve, CheckUpdate
  <1>9. CASE Kill \/ PlaceFails \/ StepFails \/ Verify \/ ProbeFails \/ Fallback \/ Unlink
    BY <1>2, <1>9 DEF Kill, PlaceFails, StepFails, Verify, ProbeFails, Fallback, Unlink, Exit, Goto
  <1> QED BY <1>1, <1>2, <1>3, <1>4, <1>5, <1>6, <1>7, <1>8, <1>9 DEF Next

LEMMA RemovalInvHolds == Spec => []RemovalInv
PROOF
  <1>1. Init => RemovalInv
    BY EntriesInvStarts DEF Init, RemovalInv, CleanInv, Installing
  <1>2. InstallInv /\ RemovalInv /\ [Next]_vars => RemovalInv'
    <2> SUFFICES ASSUME InstallInv, RemovalInv, [Next]_vars PROVE RemovalInv'
      OBVIOUS
    <2>1. CASE Subcommand /\ UNCHANGED own /\ Installing
      <3>1. task' = task
        BY <2>1 DEF Subcommand, Turn, RemoveLegacy, RemoveServer, RemoveFails, Add, CleanCache, taskVars
      <3>2. CleanInv'
        BY <2>1, <3>1 DEF CleanInv, Installing
      <3> QED BY <3>2, EntriesInvKept DEF RemovalInv
    <2> QED BY <2>1, EntriesInvKept, SubcommandKeepsCleanInv, OthersKeepCleanInv DEF RemovalInv
  <1> QED BY <1>1, <1>2, InstallInvHolds, PTL DEF Spec

\* uninstall.sh: the binary goes only when every client the uninstall was to clean is clean.
THEOREM RemovesWhenClean == Spec => RemovedClean
PROOF
  <1>1. InstallInv /\ RemovalInv /\ [Next]_vars =>
          [task.kind = "Uninstall" /\ binary > OldVersion /\ binary' = 0 =>
             \A c \in Tools \ task.skip :
               Cardinality(Registered(c, before)) <= 1 => Registered(c, entries) = {}]_vars
    <2> SUFFICES ASSUME InstallInv, RemovalInv, [Next]_vars, task.kind = "Uninstall",
                        binary > OldVersion, binary' = 0
                 PROVE  \A c \in Tools \ task.skip : Cleaned(c)
      BY DEF Cleaned
    <2>1. CASE Unlink
      BY <2>1 DEF Unlink, RemovalInv, CleanInv, Installing
    <2>2. ~PlaceBinary /\ ~PlaceFails
      BY DEF PlaceBinary, PlaceFails, InstallInv, KindInv, Installing
    <2>3. binary' # binary
      BY VersionsAssumption
    <2>4. Unlink
      BY <2>2, <2>3
        DEF Next, vars, own, Release, ChangePath, ServerExits, Start, Command, Kill, Serve, CheckUpdate,
            Resolve, FetchInstaller, Download, CheckBinary, StepFails, Report, Verify, Probe, ProbeFails,
            Fallback
    <2> QED BY <2>1, <2>4
  <1> QED BY <1>1, InstallInvHolds, RemovalInvHolds, PTL DEF Spec, RemovedClean
-----------------------------------------------------------------------------
(***************************************************************************)
(* Type correctness, variable by variable.                                 *)
(***************************************************************************)
\* A registration is of a tool, in a scope in use; so is what a command is asked for.
TaskTyped    == task \in Task
EntriesTyped == entries \subseteq Entries /\ config \subseteq Products /\ before \subseteq Entries
CountsTyped  == /\ binary \in 0..MaxVersion /\ latest \in Versions /\ behind \in 0..MaxVersion
                /\ commands \in 0..MaxCommands /\ asset \in 0..MaxVersion /\ faults \in 0..MaxFaults
NamesTyped   == /\ cache \in {"absent", "present", "locked"} /\ said \in Said
                /\ outcome \in [Targets -> Outcomes]
PcTyped      == pc \in {"idle", "check", "turn", "legacy", "remove", "add", "cache", "report",
                        "resolve", "fetch", "download", "place", "verify", "probe", "unlink"}
TypeInv == TaskTyped /\ EntriesTyped /\ CountsTyped /\ NamesTyped /\ PcTyped

LEMMA CommandTask ==
  ASSUME TypeInv,
         NEW kind \in {"Install", "Installer", "Update", "Uninstall"}, NEW x \in Contexts,
         NEW skip \in {{}, {"Claude"}}, NEW self \in 0..MaxVersion, NEW target \in 0..MaxVersion,
         NEW start \in {"check", "download", "probe", "resolve"},
         Command(kind, x[1], x[2], skip, self, target, start)
  PROVE  TypeInv'
PROOF
  <1>1. x[1] \in Scopes /\ x[2] \in Dirs
    BY DEF Contexts
  <1>2. TaskTyped'
    BY <1>1 DEF Command, TaskTyped, Task, Kinds, Tools
  <1>3. commands' \in 0..MaxCommands
    BY VersionsAssumption DEF Command, TypeInv, CountsTyped
  <1>4. outcome' \in [Targets -> Outcomes]
    BY DEF Command, Outcomes
  <1> QED
    BY <1>2, <1>3, <1>4
       DEF Command, Goto, clientVars, TypeInv, EntriesTyped, CountsTyped, NamesTyped, PcTyped

LEMMA StartTyped == ASSUME TypeInv, Start PROVE TypeInv'
PROOF
  <1>1. 0 \in 0..MaxVersion /\ Versions \subseteq 0..MaxVersion
    BY VersionsAssumption DEF Versions
  <1>2. PICK x \in Contexts :
    \/ \E skip \in {{}, {"Claude"}} :
         \/ Command("Install", x[1], x[2], skip, 0, 0, "check")
         \/ Command("Uninstall", x[1], x[2], skip, 0, 0, "probe")
    \/ \E v \in Versions : Command("Installer", x[1], x[2], {}, 0, v, "download")
    \/ \E self \in Versions \ {OldVersion}, v \in (0..MaxVersion) \ {OldVersion} :
         Command("Update", x[1], x[2], {}, self, v, "resolve")
    BY DEF Start
  <1> QED BY <1>1, <1>2, CommandTask

\* What is said at the end of a command.
LEMMA ExitTyped ==
  ASSUME NEW s, Exit(s)
  PROVE  /\ pc' = "idle" /\ said' = s /\ outcome' \in [Targets -> Outcomes]
         /\ asset' = 0 /\ before' = {}
BY DEF Exit, Goto, Outcomes

LEMMA SettleTyped ==
  ASSUME NEW o \in Outcomes, Settle(o), outcome \in [Targets -> Outcomes]
  PROVE  outcome' \in [Targets -> Outcomes] /\ pc' \in {"turn", "report", "cache"}
BY DEF Settle, Goto

LEMMA FaultTyped ==
  ASSUME faults \in 0..MaxFaults, Fault \/ NoFault
  PROVE  faults' \in 0..MaxFaults
BY ScopesAssumption DEF Fault, NoFault

LEMMA OwnTyped ==
  ASSUME TaskTyped, NEW c \in Tools, NEW n \in Names
  PROVE  Own(c, n) \in Entries
PROOF
  <1>1. task.scope \in Scopes /\ task.dir \in Dirs
    BY DEF TaskTyped, Task
  <1>2. Place(c, task.scope, task.dir) \in Places
    BY <1>1 DEF Places
  <1> QED BY <1>2 DEF Own, Entries

\* Between commands.
LEMMA IdleTyped ==
  ASSUME TypeInv, \/ Release \/ ChangePath \/ ServerExits
                  \/ \E flag \in {0, 1}, env \in {"unset", "invalid", "valid"} : Serve(flag, env)
                  \/ \E self \in Versions \ {OldVersion} : CheckUpdate(self)
  PROVE  TypeInv'
PROOF
  <1>1. CASE Release
    BY <1>1, VersionsAssumption
       DEF Release, clientVars, taskVars, Versions, TypeInv, TaskTyped, EntriesTyped, CountsTyped,
           NamesTyped, PcTyped
  <1>2. CASE ChangePath \/ ServerExits
    BY <1>2
       DEF ChangePath, ServerExits, clientVars, taskVars, own, TypeInv, TaskTyped, EntriesTyped,
           CountsTyped, NamesTyped, PcTyped
  <1>3. CASE \E flag \in {0, 1}, env \in {"unset", "invalid", "valid"} : Serve(flag, env)
    BY <1>3
       DEF Serve, clientVars, taskVars, Said, TypeInv, TaskTyped, EntriesTyped, CountsTyped,
           NamesTyped, PcTyped
  <1>4. ASSUME NEW self \in Versions \ {OldVersion}, CheckUpdate(self)
        PROVE  TypeInv'
    <2>1. faults' \in 0..MaxFaults
      BY <1>4, FaultTyped DEF CheckUpdate, TypeInv, CountsTyped
    <2>2. behind' \in 0..MaxVersion /\ said' \in Said
      BY <1>4, VersionsAssumption DEF CheckUpdate, Versions, Said, TypeInv, CountsTyped
    <2> QED BY <1>4, <2>1, <2>2
      DEF CheckUpdate, clientVars, taskVars, TypeInv, TaskTyped, EntriesTyped, CountsTyped,
          NamesTyped, PcTyped
  <1> QED BY <1>1, <1>2, <1>3, <1>4

\* The steps of a command around the subcommand.
LEMMA CommandTyped ==
  ASSUME TypeInv,
         \/ Kill \/ Resolve \/ FetchInstaller \/ Download \/ PlaceBinary \/ PlaceFails \/ CheckBinary
         \/ StepFails \/ Report \/ Verify \/ Probe \/ ProbeFails \/ Fallback \/ Unlink
  PROVE  TypeInv'
PROOF
  <1>0. Versions \subseteq 0..MaxVersion /\ 0 \in 0..MaxVersion /\ latest \in 0..MaxVersion
    BY VersionsAssumption DEF Versions, TypeInv, CountsTyped
  <1>1. faults' \in 0..MaxFaults
    BY FaultTyped
       DEF TypeInv, CountsTyped, Kill, Resolve, FetchInstaller, Download, PlaceBinary, PlaceFails,
           CheckBinary, StepFails, Report, Verify, Probe, ProbeFails, Fallback, Unlink
  <1>2. TaskTyped'
    <2>1. task' = task \/ task' = [task EXCEPT !.target = latest]
      BY DEF Kill, Resolve, FetchInstaller, Download, PlaceBinary, PlaceFails, CheckBinary, StepFails,
             Report, Verify, Probe, ProbeFails, Fallback, Unlink, taskVars
    <2> QED BY <1>0, <2>1 DEF TypeInv, TaskTyped, Task
  <1>3. EntriesTyped'
    <2>1. entries' \subseteq entries /\ config' = config /\ before' \in {{}, before}
      BY ExitTyped
         DEF Kill, Resolve, FetchInstaller, Download, PlaceBinary, PlaceFails, CheckBinary, StepFails,
             Report, Verify, Probe, ProbeFails, Fallback, Unlink, Proceed, taskVars, clientVars
    <2> QED BY <2>1 DEF TypeInv, EntriesTyped
  <1>4. CountsTyped'
    <2>1. latest' = latest /\ behind' = behind /\ commands' = commands
      BY DEF Kill, Resolve, FetchInstaller, Download, PlaceBinary, PlaceFails, CheckBinary, StepFails,
             Report, Verify, Probe, ProbeFails, Fallback, Unlink, own
    <2>2. binary' \in {binary, 0, asset}
      BY DEF Kill, Resolve, FetchInstaller, Download, PlaceBinary, PlaceFails, CheckBinary, StepFails,
             Report, Verify, Probe, ProbeFails, Fallback, Unlink, own
    <2>3. asset' \in {asset, 0, task.target} \cup Versions
      BY ExitTyped
         DEF Kill, Resolve, FetchInstaller, Download, PlaceBinary, PlaceFails, CheckBinary, StepFails,
             Report, Verify, Probe, ProbeFails, Fallback, Unlink, Proceed, own
    <2>4. task.target \in 0..MaxVersion
      BY DEF TypeInv, TaskTyped, Task
    <2> QED BY <1>0, <1>1, <2>1, <2>2, <2>3, <2>4 DEF TypeInv, CountsTyped
  <1>5. NamesTyped'
    <2>1. cache' = cache
      BY DEF Kill, Resolve, FetchInstaller, Download, PlaceBinary, PlaceFails, CheckBinary, StepFails,
             Report, Verify, Probe, ProbeFails, Fallback, Unlink
    <2>2. said' \in {said} \cup Said
      BY ExitTyped
         DEF Kill, Resolve, FetchInstaller, Download, PlaceBinary, PlaceFails, CheckBinary, StepFails,
             Report, Verify, Probe, ProbeFails, Fallback, Unlink, Proceed, own, Said
    <2>3. CASE PlaceBinary
      BY <2>1, <2>2, <2>3 DEF PlaceBinary, TypeInv, NamesTyped, Outcomes
    <2>4. CASE ~PlaceBinary
      <3>1. outcome' = outcome \/ \E s : Exit(s)
        BY <2>4
           DEF Kill, Resolve, FetchInstaller, Download, PlaceFails, CheckBinary, StepFails, Report,
               Verify, Probe, ProbeFails, Fallback, Unlink, Proceed
      <3> QED BY <2>1, <2>2, <3>1, ExitTyped DEF TypeInv, NamesTyped
    <2> QED BY <2>3, <2>4
  <1>6. PcTyped'
    BY ExitTyped
       DEF PcTyped, Kill, Resolve, FetchInstaller, Download, PlaceBinary, PlaceFails, CheckBinary,
           StepFails, Report, Verify, Probe, ProbeFails, Fallback, Unlink, Proceed, Goto
  <1> QED BY <1>2, <1>3, <1>4, <1>5, <1>6 DEF TypeInv

LEMMA SubcommandTyped ==
  ASSUME InstallInv, TypeInv, Subcommand, UNCHANGED own
  PROVE  TypeInv'
PROOF
  <1>1. faults' \in 0..MaxFaults
    BY FaultTyped
       DEF TypeInv, CountsTyped, Subcommand, Turn, RemoveLegacy, RemoveServer, RemoveFails, Add, CleanCache
  <1>2. UNCHANGED taskVars
    BY DEF Subcommand, Turn, RemoveLegacy, RemoveServer, RemoveFails, Add, CleanCache
  <1>3. EntriesTyped'
    <2>1. CASE Add
      <3>1. Client \in Tools
        BY <2>1 DEF Add, InstallInv, CommandInv, DoneInv
      <3>2. Own(Client, "Server") \in Entries
        BY <3>1, OwnTyped DEF TypeInv, Names
      <3> QED BY <1>2, <2>1, <3>1, <3>2 DEF Add, taskVars, TypeInv, EntriesTyped, Tools, Products
    <2>2. CASE ~Add
      <3>1. entries' \subseteq entries /\ config' = config
        BY <2>2 DEF Subcommand, Turn, RemoveLegacy, RemoveServer, RemoveFails, CleanCache, clientVars
      <3> QED BY <1>2, <3>1 DEF taskVars, TypeInv, EntriesTyped
    <2> QED BY <2>1, <2>2
  <1>4. outcome' \in [Targets -> Outcomes] /\ PcTyped'
    <2>0. outcome \in [Targets -> Outcomes]
      BY DEF TypeInv, NamesTyped
    <2>1. CASE \E o \in Outcomes : Settle(o)
      BY <2>0, <2>1, SettleTyped DEF PcTyped
    <2>2. CASE UNCHANGED outcome /\ pc' \in {"legacy", "remove", "add"}
      BY <2>0, <2>2 DEF PcTyped
    <2>3. CASE CleanCache
      BY <2>0, <2>3 DEF CleanCache, Goto, PcTyped, Outcomes
    <2>4. CASE ~CleanCache
      <3>0. /\ (IF Detected(Client) THEN ManualOutcome(Client) ELSE "Absent") \in Outcomes
            /\ (IF NotFound THEN FoundNothing ELSE "Done") \in Outcomes /\ "Skipped" \in Outcomes
        BY DEF ManualOutcome, FoundNothing, Outcomes
      <3>1. Turn => (\E o \in Outcomes : Settle(o)) \/ (UNCHANGED outcome /\ pc' = "legacy")
        BY <3>0 DEF Turn, Goto
      <3>2. RemoveServer => (\E o \in Outcomes : Settle(o)) \/ (UNCHANGED outcome /\ pc' = "add")
        BY <3>0 DEF RemoveServer, Goto
      <3>3. RemoveFails \/ Add => \E o \in Outcomes : Settle(o)
        BY DEF RemoveFails, Add, AddFailure, Outcomes
      <3>4. RemoveLegacy => UNCHANGED outcome /\ pc' = "remove"
        BY DEF RemoveLegacy, Goto
      <3> QED BY <2>1, <2>2, <2>4, <3>1, <3>2, <3>3, <3>4 DEF Subcommand
    <2> QED BY <2>3, <2>4
  <1>5. cache' \in {cache, "absent"}
    BY DEF Subcommand, Turn, RemoveLegacy, RemoveServer, RemoveFails, Add, CleanCache
  <1> QED BY <1>1, <1>2, <1>3, <1>4, <1>5
    DEF own, taskVars, TypeInv, TaskTyped, CountsTyped, NamesTyped

LEMMA InitTyped == Init => TypeInv
PROOF
  <1> SUFFICES ASSUME Init PROVE TypeInv
    OBVIOUS
  <1>0. PICK d \in Dirs : d = CHOOSE e \in Dirs : TRUE
    BY DirsAssumption
  <1>1. TaskTyped
    BY <1>0, ScopesAssumption, VersionsAssumption DEF Init, TaskTyped, Task, Kinds
  <1>2. ASSUME NEW c \in Tools
        PROVE  [client |-> c, place |-> Place(c, "User", "home"), name |-> "Legacy"] \in Entries
    <2>1. Place(c, "User", "home") = Place(c, "User", d)
      BY DEF Place
    <2>2. Place(c, "User", d) \in Places
      BY ScopesAssumption DEF Places
    <2> QED BY <2>1, <2>2 DEF Entries, Names
  <1>3. EntriesTyped
    <2>1. entries \subseteq Entries
      <3>1. CASE entries = {}
        BY <3>1
      <3>2. CASE entries = {[client |-> c, place |-> Place(c, "User", "home"), name |-> "Legacy"] : c \in Tools}
        BY <1>2, <3>2
      <3> QED BY <3>1, <3>2 DEF Init
    <2> QED BY <2>1 DEF Init, EntriesTyped, Products
  <1>4. CountsTyped
    BY VersionsAssumption, ScopesAssumption DEF Init, CountsTyped, Versions
  <1>5. NamesTyped /\ PcTyped
    BY DEF Init, NamesTyped, PcTyped, Said, Outcomes
  <1> QED BY <1>1, <1>3, <1>4, <1>5 DEF TypeInv

\* Every variable has its type: a registration is made in a scope and a directory a command
\* was run for, a binary is a release or absent, and a subcommand has clients before it
\* exactly while it deals with one.
THEOREM InstallationTypeCorrect == Spec => []TypeOK
PROOF
  <1>1. InstallInv /\ TypeInv /\ [Next]_vars => TypeInv'
    <2> SUFFICES ASSUME InstallInv, TypeInv, [Next]_vars PROVE TypeInv'
      OBVIOUS
    <2>1. CASE UNCHANGED vars
      BY <2>1 DEF vars, own, TypeInv, TaskTyped, EntriesTyped, CountsTyped, NamesTyped, PcTyped
    <2> QED BY <2>1, StartTyped, IdleTyped, CommandTyped, SubcommandTyped DEF Next
  <1>2. InstallInv /\ TypeInv => TypeOK
    <2>1. Tail(Clients) = <<"Codex", "Qoder">> /\ Tail(Tail(Clients)) = <<"Qoder">>
      BY DEF Clients
    <2> QED BY <2>1
      DEF InstallInv, CommandInv, Turns, TypeInv, TaskTyped, EntriesTyped, CountsTyped, NamesTyped,
          PcTyped, TypeOK, RegistrationTypeOK
  <1> QED BY <1>1, <1>2, InitTyped, InstallInvHolds, PTL DEF Spec
=============================================================================
