------------------------------ MODULE Loading ------------------------------
(***************************************************************************)
(* One trace loaded again and again while others write its file:           *)
(* load_trace reads the trace key, get_client the fingerprint, the manager *)
(* reuses the registered instance or gives a new child a port, the child   *)
(* loads the file, and load_trace reads the key again.  Every read of the  *)
(* file is a step, so writes fall between any two of them.                 *)
(*                                                                         *)
(* Time is in ticks of the clock that stamps files: two writes in one tick *)
(* leave the same times.  Another call spawns a child of another trace and *)
(* takes its port from the same counter.                                   *)
(***************************************************************************)
EXTENDS TraceFiles, PortSweep

CONSTANTS Sizes,       \* the sizes the file may have
          Places,      \* the cells that are overwritten
          MaxWrites, MaxClock, MaxLoads

ASSUME LoadingAssumption == Sizes \subseteq Nat /\ MaxClock \in Nat \ {0}

VARIABLES file,        \* [cells, modified, changed]
          clock,
          writes,      \* how often the file was written
          setting,     \* [system, full]: the platform, and the full-hash variable
          pc,          \* where the load stands
          loads,       \* how many loads there were
          reading,     \* the pass over the file in progress
          key,         \* the key the load began with
          fp,          \* the fingerprint of its get_client
          instance,    \* what the registry has for the path, or None
          session,     \* what the load's client reads
          nextPort,    \* ManagerInner.next_port
          port,        \* the port of each spawn in progress
          \* What the properties look back on:
          atKey, atStat,      \* the cells when the key, and the last metadata, were read
          keySettled, fpSettled,  \* the times were of an earlier tick when they were read
          disturbed,          \* the file was written since the load began
          passed              \* the ports probed since each spawn got its own

fileVars == <<file, clock, writes>>
pastVars == <<atKey, atStat, keySettled, fpSettled>>
portVars == <<nextPort, port, passed>>
vars == <<file, clock, writes, setting, pc, loads, reading, key, fp, instance, session,
          nextPort, port, atKey, atStat, keySettled, fpSettled, disturbed, passed>>

None == [none |-> TRUE]
Spawns == {"load", "other"}
NoReading == Begun([size |-> 0, modified |-> NoTime, platform |-> NoTime])

Init ==
  /\ \E n \in Sizes : file = [cells |-> [i \in 1..n |-> 0], modified |-> 0, changed |-> 0]
  /\ clock \in {0, 1}
  /\ writes = 0
  /\ setting \in [system : Systems, full : BOOLEAN]
  /\ pc = "idle" /\ loads = 0
  /\ reading = NoReading /\ key = None /\ fp = None
  /\ instance = None /\ session = None
  /\ nextPort \in Ports
  /\ port = [s \in Spawns |-> NoPort]
  /\ atKey = <<>> /\ atStat = <<>>
  /\ keySettled = FALSE /\ fpSettled = FALSE /\ disturbed = FALSE
  /\ passed = [s \in Spawns |-> {}]

-----------------------------------------------------------------------------
(* Those who write the file.  A tool may set the modification time back to   *)
(* what it was; nobody sets the change time.                                 *)
Written(cells) ==
  /\ writes < MaxWrites
  /\ writes' = writes + 1
  /\ \E t \in {clock, file.modified} :
       file' = [cells |-> cells, modified |-> t, changed |-> clock]
  /\ disturbed' = TRUE
  /\ UNCHANGED <<clock, setting, pc, loads, key, fp, instance, session>>
  /\ UNCHANGED <<pastVars, portVars>>

Flipped(cells, where) == [i \in DOMAIN cells |-> IF i \in where THEN 1 - cells[i] ELSE cells[i]]

Overwrite ==
  /\ \E i \in Places \cap DOMAIN file.cells : Written(Flipped(file.cells, {i}))
  /\ UNCHANGED reading

Resize ==
  /\ \E n \in Sizes \ {Len(file.cells)} :
       Written([i \in 1..n |-> IF i <= Len(file.cells) THEN file.cells[i] ELSE 1])
  /\ UNCHANGED reading

\* Another file is renamed over this one: an open handle keeps the old one.
Replace ==
  /\ Written(Flipped(file.cells, DOMAIN file.cells))
  /\ reading' = Replaced(reading, file.cells)

Tick ==
  /\ clock < MaxClock
  /\ clock' = clock + 1
  /\ UNCHANGED <<file, writes, setting, pc, loads, reading, key, fp, instance, session, disturbed>>
  /\ UNCHANGED <<pastVars, portVars>>

-----------------------------------------------------------------------------
Settled == setting.system = "unix" /\ file.changed < clock
Stat == Metadata(file, setting.system)

\* load_trace begins with the key, and trace_schema_cache_key with the metadata.
LoadTrace ==
  /\ pc = "idle" /\ loads < MaxLoads
  /\ pc' = "key" /\ loads' = loads + 1
  /\ reading' = Begun(Stat)
  /\ disturbed' = FALSE
  /\ atKey' = file.cells /\ atStat' = file.cells
  /\ keySettled' = Settled
  /\ UNCHANGED <<fileVars, setting, key, fp, instance, session, fpSettled, portVars>>

\* Bug: the setting is not looked at.
FullHashNever(pass) == FALSE

\* trace_file_full_hash_enabled: only the fingerprint asks, the key never does.
FullHash(pass) == pass = "fingerprint" /\ setting.full

ReadBlock ==
  /\ pc \in {"key", "fingerprint", "check"}
  /\ ~Complete(reading, file, FullHash(pc))
  /\ ~TooShort(reading, file, FullHash(pc))
  /\ reading' = ReadOn(reading, file, FullHash(pc))
  /\ UNCHANGED <<fileVars, setting, pc, loads, key, fp, instance, session>>
  /\ UNCHANGED <<disturbed, pastVars, portVars>>

Fail ==
  /\ pc' = "failed"
  /\ reading' = NoReading
  /\ UNCHANGED <<fileVars, setting, loads, key, fp, session, disturbed, pastVars>>

ReadFails ==
  /\ pc \in {"key", "fingerprint", "check"}
  /\ ~Complete(reading, file, FullHash(pc))
  /\ TooShort(reading, file, FullHash(pc))
  /\ Fail
  /\ UNCHANGED <<instance, portVars>>

Ended(pass) == pc = pass /\ Complete(reading, file, FullHash(pass))

\* get_client begins with resolve_trace_identity.
KeyRead ==
  /\ Ended("key")
  /\ key' = Identity(reading)
  /\ pc' = "stat"
  /\ reading' = NoReading
  /\ UNCHANGED <<fileVars, setting, loads, fp, instance, session, disturbed, pastVars, portVars>>

BeginFingerprint ==
  /\ pc = "stat"
  /\ pc' = "fingerprint"
  /\ reading' = Begun(Stat)
  /\ atStat' = file.cells
  /\ fpSettled' = Settled
  /\ UNCHANGED <<fileVars, setting, loads, key, fp, instance, session, disturbed, atKey, keySettled, portVars>>

\* Bug: the metadata are not compared again.
StableUnchecked(reading1) == TRUE

\* ensure_trace_file_metadata_stable
Stable(reading1) == Stat = reading1.meta

FingerprintRead ==
  /\ Ended("fingerprint") /\ Stable(reading)
  /\ fp' = Identity(reading)
  /\ pc' = "lookup"
  /\ reading' = NoReading
  /\ UNCHANGED <<fileVars, setting, loads, key, instance, session, disturbed, pastVars, portVars>>

FingerprintChanged ==
  /\ Ended("fingerprint") /\ ~Stable(reading)
  /\ Fail
  /\ UNCHANGED <<instance, portVars>>

-----------------------------------------------------------------------------
(* The registry, and the ports.                                              *)
Reusable == IF instance = None THEN FALSE ELSE instance.fp = fp

Reuse ==
  /\ pc = "lookup" /\ Reusable
  /\ session' = [cells |-> instance.cells, settled |-> instance.settled, clean |-> instance.clean]
  /\ pc' = "served"
  /\ UNCHANGED <<fileVars, setting, loads, reading, key, fp, instance, disturbed, pastVars, portVars>>

\* One spawn takes its port: what it probes counts for the spawns in progress.
Take(spawn, swept) ==
  /\ nextPort' = swept.next
  /\ port' = [port EXCEPT ![spawn] = swept.port]
  /\ passed' = [s \in Spawns |->
       IF s = spawn \/ port[s] = NoPort THEN {} ELSE passed[s] \cup swept.probes]

\* Nothing reusable: the entry goes, if there is one, and a port is sought.
Allocate ==
  /\ pc = "lookup" /\ ~Reusable
  /\ instance' = None
  /\ \E busy \in SUBSET Ports :
       /\ Sweep(nextPort, busy).port # NoPort
       /\ Take("load", Sweep(nextPort, busy))
  /\ pc' = "spawn"
  /\ UNCHANGED <<fileVars, setting, loads, reading, key, fp, session, disturbed, pastVars>>

NoFreePort ==
  /\ pc = "lookup" /\ ~Reusable
  /\ instance' = None
  /\ Sweep(nextPort, Ports).port = NoPort
  /\ Take("load", Sweep(nextPort, Ports))
  /\ Fail

\* Another trace's child, while ours starts: the spawn lock is one per path.
OtherSpawns ==
  /\ pc = "spawn" /\ port["other"] = NoPort
  /\ \E busy \in SUBSET Ports : Take("other", Sweep(nextPort, busy))
  /\ UNCHANGED <<fileVars, setting, pc, loads, reading, key, fp, instance, session, disturbed, pastVars>>

Landed(spawns) ==
  /\ port' = [s \in Spawns |-> IF s \in spawns THEN NoPort ELSE port[s]]
  /\ passed' = [s \in Spawns |-> IF s \in spawns THEN {} ELSE passed[s]]
  /\ UNCHANGED nextPort

OtherEnds ==
  /\ pc = "spawn" /\ port["other"] # NoPort
  /\ Landed({"other"})
  /\ UNCHANGED <<fileVars, setting, pc, loads, reading, key, fp, instance, session, disturbed, pastVars>>

\* The child has loaded the file and listens; it is registered under the
\* fingerprint the call computed before.
SpawnReady ==
  /\ pc = "spawn"
  /\ instance' = [fp |-> fp, cells |-> file.cells, settled |-> fpSettled, clean |-> ~disturbed]
  /\ session' = [cells |-> file.cells, settled |-> TRUE, clean |-> ~disturbed]
  /\ pc' = "served"
  /\ Landed(Spawns)
  /\ UNCHANGED <<fileVars, setting, loads, reading, key, fp, disturbed, pastVars>>

SpawnFails ==
  /\ pc = "spawn"
  /\ Fail
  /\ Landed(Spawns)
  /\ UNCHANGED instance

-----------------------------------------------------------------------------
(* ensure_trace_key_matches, after the status and the summary.               *)
BeginCheck ==
  /\ pc = "served"
  /\ pc' = "check"
  /\ reading' = Begun(Stat)
  /\ atStat' = file.cells
  /\ UNCHANGED <<fileVars, setting, loads, key, fp, instance, session, disturbed, atKey, keySettled, fpSettled, portVars>>

\* Bug: what the samples do not show is not compared.
SameSample(key1, key2) == key1.sample = key2.sample

SameKey(key1, key2) == key1 = key2

Loaded ==
  /\ Ended("check") /\ SameKey(Identity(reading), key)
  /\ pc' = "loaded"
  /\ reading' = NoReading
  /\ UNCHANGED <<fileVars, setting, loads, key, fp, instance, session, disturbed, pastVars, portVars>>

Changed ==
  /\ Ended("check") /\ ~SameKey(Identity(reading), key)
  /\ Fail
  /\ UNCHANGED <<instance, portVars>>

\* The caller has its answer and may load again.
Answered ==
  /\ pc \in {"loaded", "failed"}
  /\ pc' = "idle"
  /\ key' = None /\ fp' = None /\ session' = None
  /\ atKey' = <<>> /\ atStat' = <<>> /\ keySettled' = FALSE /\ fpSettled' = FALSE
  /\ disturbed' = FALSE
  /\ UNCHANGED <<fileVars, setting, loads, reading, instance, portVars>>

Next ==
  \/ Overwrite \/ Resize \/ Replace \/ Tick
  \/ LoadTrace \/ ReadBlock \/ ReadFails \/ KeyRead
  \/ BeginFingerprint \/ FingerprintRead \/ FingerprintChanged
  \/ Reuse \/ Allocate \/ NoFreePort \/ OtherSpawns \/ OtherEnds
  \/ SpawnReady \/ SpawnFails
  \/ BeginCheck \/ Loaded \/ Changed \/ Answered

Spec == Init /\ [][Next]_vars

-----------------------------------------------------------------------------
\* The state is what the code can hold; in particular next_port and every port
\* handed out stay between the starting port and the last one.
TypeOK ==
  /\ file \in [cells : UNION {[1..n -> Cells] : n \in Sizes}, modified : 0..MaxClock, changed : 0..MaxClock]
  /\ pc \in {"idle", "key", "stat", "fingerprint", "lookup", "spawn", "served", "check", "loaded", "failed"}
  /\ nextPort \in Ports
  /\ port \in [Spawns -> Ports \cup {NoPort}]
  /\ \A s \in Spawns : passed[s] \subseteq Ports

\* from_path: on Unix, a fingerprint whose times are of an earlier tick is that of
\* the content the file had when they were read, although head, middle and tail
\* were read later and one after the other; any write in between is an error.
FingerprintExact ==
  pc = "lookup" /\ fpSettled => fp.sample = Covered(atStat, setting.full)

\* load_trace: on Unix, when the times in the key are of an earlier tick (and so
\* were those of the instance it reuses), the client reads what the file held when
\* the key was read, and the file holds it still when the key is compared.
LoadNamesContent ==
  pc = "loaded" /\ keySettled /\ session.settled => session.cells = atKey /\ atStat = atKey

\* On every platform, whatever times the writers leave: a load that nobody
\* disturbs, on an instance whose own load nobody disturbed, reads what the file
\* holds, as far as the fingerprint covers it: all of it with the full hash.
AgreesWhereCovered ==
  pc = "loaded" /\ ~disturbed /\ session.clean =>
    Covered(session.cells, setting.full) = Covered(file.cells, setting.full)

\* The sweep gives up only when every port is taken, and gives no port that is
\* taken: wherever the counter has come to, no port is left out at the wrap.
SweepTriesAll ==
  \A busy \in SUBSET Ports :
    LET swept == Sweep(nextPort, busy)
    IN  IF busy = Ports THEN swept.port = NoPort ELSE swept.port \in Ports \ busy

\* A child has its port only once it has loaded its trace; until then another call
\* is given that port only after every other port was probed in between.
PortsApart ==
  port["load"] = port["other"] /\ port["load"] # NoPort =>
    \E s \in Spawns : passed[s] = Ports

\* allocate_next_port: a port is found when there is one, and is nobody's meanwhile.
PortsExact == SweepTriesAll /\ PortsApart
=============================================================================
