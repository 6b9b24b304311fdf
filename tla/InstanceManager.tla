-------------------------- MODULE InstanceManager --------------------------
(***************************************************************************)
(* TraceProcessorManager (tp_manager.rs): concurrent get_client calls for  *)
(* a few trace files, the registry of trace_processor_shell instances, the *)
(* idle LRU, the semaphore that bounds the active generations, the         *)
(* per-path spawn locks, and the leases a returned client holds.           *)
(*                                                                         *)
(* A step is a critical section of the code or what runs between two       *)
(* awaits; `inner`, a std Mutex never held across an await, makes each of  *)
(* its sections atomic.  An Arc is an identity: Instances are the Arcs of  *)
(* spawned processes, Permits the semaphore's permits, LockIds the Arcs of *)
(* the per-path mutexes.  What an Arc guards is freed when nobody refers   *)
(* to it any more.                                                         *)
(***************************************************************************)
EXTENDS Naturals, FiniteSets, SequencesExt

CONSTANTS Paths,       \* canonical trace paths
          Tasks,       \* concurrent callers of get_client
          Instances,   \* identities of Arc<TraceProcessorInstance>
          Permits,     \* permits of active_instance_slots
          LockIds,     \* identities of the Arcs in spawn_locks
          MaxIdle,     \* max_instances: the capacity of the idle LRU
          Asks,        \* bound: the traces each caller asks for
          MaxVersion,  \* bound: how often the environment rewrites a trace
          None         \* no path, no Arc, no registry entry

ASSUME ManagerAssumption ==
  /\ MaxIdle \in Nat \ {0}
  /\ MaxVersion \in Nat
  /\ Asks \in [Tasks -> SUBSET Paths]
  /\ None \notin Paths \cup Instances \cup Permits \cup LockIds

VARIABLES
  version,     \* version of each trace file on disk, what a fingerprint names
  instances,   \* ManagerInner.instances
  idle,        \* ManagerInner.idle_instances, least recently used first
  process,     \* the process behind each instance Arc
  spawnLocks,  \* spawn_locks
  pc,          \* where each get_client call, or the lease it returned, stands
  path,        \* the canonical path of the call
  fp,          \* the fingerprint it computed
  lock,        \* its Arc of the path lock
  holder,      \* the calls that hold their path lock
  permit,      \* its Arc of an active permit
  inst,        \* its Arc of an instance
  doomed       \* an entry it took out of the registry and has yet to drop

world    == <<version, process>>
registry == <<instances, idle>>
call     == <<path, fp>>
locking  == <<spawnLocks, lock, holder>>
held     == <<permit, inst, doomed>>
vars     == <<version, process, instances, idle, spawnLocks, pc, path, fp,
              lock, holder, permit, inst, doomed>>
-----------------------------------------------------------------------------
\* CachedTraceProcessorInstance, idle without a lease or active on a permit, and a
\* process, which began to read its trace at version `from`.
IdleEntry   == [inst : Instances, fp : Nat, leases : {0}, permit : {None}]
ActiveEntry == [inst : Instances, fp : Nat, leases : Nat \ {0}, permit : Permits]
Entry   == IdleEntry \cup ActiveEntry
Process == [from : Nat, exited : BOOLEAN]

ASSUME NoneAssumption == None \notin Entry \cup Process

PCs == {"idle", "resolved", "queued", "removing", "wait", "replacing", "spawn",
        "spawning", "cleanup", "returning", "leased", "evicting", "releasing", "dropping"}

\* An entry holds a permit exactly while it has a lease ("active instance must
\* hold a semaphore permit").
TypeOK ==
  /\ version \in [Paths -> Nat]
  /\ instances \in [Paths -> Entry \cup {None}]
  /\ idle \in Seq(Paths)
  /\ process \in [Instances -> Process \cup {None}]
  /\ spawnLocks \in [Paths -> LockIds \cup {None}]
  /\ pc \in [Tasks -> PCs]
  /\ path \in [Tasks -> Paths \cup {None}]
  /\ fp \in [Tasks -> Nat]
  /\ lock \in [Tasks -> LockIds \cup {None}]
  /\ holder \subseteq Tasks
  /\ permit \in [Tasks -> Permits \cup {None}]
  /\ inst \in [Tasks -> Instances \cup {None}]
  /\ doomed \in [Tasks -> Entry \cup {None}]

Init ==
  /\ version = [p \in Paths |-> 0]
  /\ instances = [p \in Paths |-> None]
  /\ idle = <<>>
  /\ process = [i \in Instances |-> None]
  /\ spawnLocks = [p \in Paths |-> None]
  /\ pc = [t \in Tasks |-> "idle"]
  /\ path = [t \in Tasks |-> None]
  /\ fp = [t \in Tasks |-> 0]
  /\ lock = [t \in Tasks |-> None]
  /\ holder = {}
  /\ permit = [t \in Tasks |-> None]
  /\ inst = [t \in Tasks |-> None]
  /\ doomed = [t \in Tasks |-> None]
-----------------------------------------------------------------------------
\* Who refers to an Arc.
InstanceHeld(i) ==
  \/ \E p \in Paths : instances[p] # None /\ instances[p].inst = i
  \/ \E t \in Tasks : inst[t] = i
  \/ \E t \in Tasks : doomed[t] # None /\ doomed[t].inst = i

EntryPermitHeld(s) == \E p \in Paths : instances[p] # None /\ instances[p].permit = s

PermitHeld(s) ==
  \/ \E p \in Paths : instances[p] # None /\ instances[p].permit = s
  \/ \E t \in Tasks : permit[t] = s
  \/ \E t \in Tasks : doomed[t] # None /\ doomed[t].permit = s

LockHeld(l) ==
  \/ \E p \in Paths : spawnLocks[p] = l
  \/ \E t \in Tasks : lock[t] = l

FreePermits   == {s \in Permits : ~PermitHeld(s)}
FreeInstances == {i \in Instances : ~InstanceHeld(i)}
FreeLocks     == {l \in LockIds : ~LockHeld(l)}

AnyOf(S) == CHOOSE x \in S : TRUE

\* kill_on_drop: the process goes with the last Arc of its instance.
KillUnreferenced ==
  process' = [i \in Instances |-> IF InstanceHeld(i)' THEN process[i] ELSE None]

\* LruCache::pop, and LruCache::push with the key it returns, if any.
PopNothing(q, p) == q

Pop(q, p) == IF p \in ToSet(q)
             THEN RemoveAt(q, CHOOSE k \in DOMAIN q : q[k] = p)
             ELSE q

PushFull(q, p) == p \notin ToSet(q) /\ Len(q) >= MaxIdle
Push(q, p) == Append(IF PushFull(q, p) THEN Tail(q) ELSE Pop(q, p), p)
-----------------------------------------------------------------------------
\* The environment: the trace is rewritten, a trace_processor_shell dies.
WriteFile(p) ==
  /\ version[p] < MaxVersion
  /\ version' = [version EXCEPT ![p] = @ + 1]
  /\ UNCHANGED <<process, registry, locking, pc, call, held>>

Exit(i) ==
  /\ process[i] # None
  /\ ~process[i].exited
  /\ process' = [process EXCEPT ![i].exited = TRUE]
  /\ UNCHANGED <<version, registry, locking, pc, call, held>>

\* get_client: the fingerprint is computed before any lock is taken.
Resolve(t, p) ==
  /\ pc[t] = "idle"
  /\ path' = [path EXCEPT ![t] = p]
  /\ fp' = [fp EXCEPT ![t] = version[p]]
  /\ pc' = [pc EXCEPT ![t] = "resolved"]
  /\ UNCHANGED <<world, registry, locking, held>>

\* spawn_lock: the map's Arc for the path, created when there is none.
TakeSpawnLock(t) ==
  /\ pc[t] = "resolved"
  /\ spawnLocks[path[t]] = None => FreeLocks # {}
  /\ LET l == IF spawnLocks[path[t]] = None THEN AnyOf(FreeLocks)
                                            ELSE spawnLocks[path[t]]
     IN  /\ spawnLocks' = [spawnLocks EXCEPT ![path[t]] = l]
         /\ lock' = [lock EXCEPT ![t] = l]
  /\ pc' = [pc EXCEPT ![t] = "queued"]
  /\ UNCHANGED <<world, registry, holder, call, held>>
-----------------------------------------------------------------------------
\* cached_client(canonical, fingerprint, active_permit), outcome by outcome: `s`
\* is the permit the caller offers, None in the first lookup of a call.
Registered(t) == instances[path[t]] # None
StaleNever(t) == FALSE
Stale(t)      == Registered(t) /\ instances[path[t]].fp # fp[t]
Exited(t)     == Registered(t) /\ process[instances[path[t]].inst].exited
Reusable(t)   == Registered(t) /\ ~Stale(t) /\ ~Exited(t)

Miss(t, s) ==
  /\ ~Registered(t)
  /\ pc' = [pc EXCEPT ![t] = IF s = None THEN "wait" ELSE "spawn"]
  /\ permit' = [permit EXCEPT ![t] = s]
  /\ UNCHANGED <<registry, inst, doomed>>

\* remove_instance; the entry is dropped once `inner` is unlocked.
Invalidate(t, s) ==
  /\ Stale(t) \/ Exited(t)
  /\ doomed' = [doomed EXCEPT ![t] = instances[path[t]]]
  /\ instances' = [instances EXCEPT ![path[t]] = None]
  /\ idle' = Pop(idle, path[t])
  /\ pc' = [pc EXCEPT ![t] = IF s = None THEN "removing" ELSE "replacing"]
  /\ permit' = [permit EXCEPT ![t] = s]
  /\ UNCHANGED inst

\* A hit: on an active generation one more lease on the permit it has (an offered
\* one goes back), on an idle one the first lease, on the permit offered.
PermitUnasked(e, s)  == TRUE
PermitSuffices(e, s) == e.leases > 0 \/ s # None
PermitOffered(e, s)  == s
PermitUsed(e, s)     == IF e.leases > 0 THEN e.permit ELSE s

Hit(t, s) ==
  LET p == path[t]
      e == instances[p]
  IN  /\ Reusable(t)
      /\ PermitSuffices(e, s)
      /\ instances' = [instances EXCEPT
                         ![p] = [e EXCEPT !.leases = @ + 1, !.permit = PermitUsed(e, s)]]
      /\ permit' = [permit EXCEPT ![t] = PermitUsed(e, s)]
      /\ inst' = [inst EXCEPT ![t] = e.inst]
      /\ idle' = Pop(idle, p)
      /\ pc' = [pc EXCEPT ![t] = "cleanup"]
      /\ UNCHANGED doomed

\* NeedsActivePermit: the entry is idle and no permit was offered.
NeedsPermit(t, s) ==
  /\ Reusable(t)
  /\ instances[path[t]].leases = 0
  /\ s = None
  /\ pc' = [pc EXCEPT ![t] = "wait"]
  /\ UNCHANGED <<registry, held>>

\* try_wait failed: the call ends with an error and the entry stays.
PollFails(t) ==
  /\ Registered(t)
  /\ ~Stale(t)
  /\ pc' = [pc EXCEPT ![t] = "cleanup"]
  /\ UNCHANGED <<registry, held>>

CachedClient(t, s) ==
  Miss(t, s) \/ Invalidate(t, s) \/ Hit(t, s) \/ NeedsPermit(t, s) \/ PollFails(t)
-----------------------------------------------------------------------------
\* get_or_spawn_instance: the path lock is granted, and the first lookup, which
\* has no permit, follows without an await.
PathLockFree(t) == \A u \in holder : lock[u] # lock[t]

FirstLookup(t) ==
  /\ pc[t] = "queued"
  /\ PathLockFree(t)
  /\ holder' = holder \cup {t}
  /\ CachedClient(t, None)
  /\ UNCHANGED <<world, spawnLocks, lock, call>>

\* acquire_owned grants a permit, and the second lookup follows at once.
SecondLookup(t) ==
  /\ pc[t] = "wait"
  /\ FreePermits # {}
  /\ CachedClient(t, AnyOf(FreePermits))
  /\ UNCHANGED <<world, locking, call>>

\* drop(removed), with its permit: the process dies unless a lease still refers to it.
DropRemoved(t) ==
  /\ \/ pc[t] = "removing"  /\ pc' = [pc EXCEPT ![t] = "wait"]
     \/ pc[t] = "replacing" /\ pc' = [pc EXCEPT ![t] = "spawn"]
  /\ doomed' = [doomed EXCEPT ![t] = None]
  /\ UNCHANGED <<version, registry, locking, call, permit, inst>>
  /\ KillUnreferenced

\* TraceProcessorInstance::spawn starts the child, which begins to read the trace.
SpawnStart(t) ==
  /\ pc[t] = "spawn"
  /\ FreeInstances # {}
  /\ LET i == AnyOf(FreeInstances) IN
       /\ inst' = [inst EXCEPT ![t] = i]
       /\ process' = [process EXCEPT ![i] = [from |-> version[path[t]], exited |-> FALSE]]
  /\ pc' = [pc EXCEPT ![t] = "spawning"]
  /\ UNCHANGED <<version, registry, locking, call, permit, doomed>>

\* The child is ready: it is registered under the fingerprint of the call, with
\* the call's lease and permit.  It may have exited since wait_ready last polled it.
SpawnReady(t) ==
  /\ pc[t] = "spawning"
  /\ instances' = [instances EXCEPT ![path[t]] =
                     [inst |-> inst[t], fp |-> fp[t], leases |-> 1, permit |-> permit[t]]]
  /\ pc' = [pc EXCEPT ![t] = "cleanup"]
  /\ UNCHANGED <<world, idle, locking, call, held>>

\* No free port, the spawn failed, the child exited or was not ready in time.
SpawnFails(t) ==
  /\ pc[t] \in {"spawn", "spawning"}
  /\ permit' = [permit EXCEPT ![t] = None]
  /\ inst' = [inst EXCEPT ![t] = None]
  /\ pc' = [pc EXCEPT ![t] = "cleanup"]
  /\ UNCHANGED <<version, registry, locking, call, doomed>>
  /\ KillUnreferenced

\* Dropping the guard of the path lock.
GuardLeft(t)   == IF inst[t] = None THEN holder ELSE holder \ {t}
GuardDropped(t) == holder \ {t}

\* Arc::strong_count is above 2: the map and this call are not alone.
NotCounted(t) == FALSE
LockShared(t) == \E u \in Tasks \ {t} : lock[u] = lock[t]

\* cleanup_spawn_lock: the map's Arc goes when only this call shares it; then
\* the guard is dropped.
CleanupSpawnLock(t) ==
  /\ pc[t] = "cleanup"
  /\ spawnLocks' = IF spawnLocks[path[t]] = lock[t] /\ ~LockShared(t)
                   THEN [spawnLocks EXCEPT ![path[t]] = None]
                   ELSE spawnLocks
  /\ holder' = GuardDropped(t)
  /\ pc' = [pc EXCEPT ![t] = "returning"]
  /\ UNCHANGED <<world, registry, lock, call, held>>

\* The call's own Arc of the path lock goes after the guard; the call returns
\* its client, or its error.
Return(t) ==
  /\ pc[t] = "returning"
  /\ lock' = [lock EXCEPT ![t] = None]
  /\ IF inst[t] # None
     THEN /\ pc' = [pc EXCEPT ![t] = "leased"]
          /\ UNCHANGED call
     ELSE /\ pc' = [pc EXCEPT ![t] = "idle"]
          /\ path' = [path EXCEPT ![t] = None]
          /\ fp' = [fp EXCEPT ![t] = 0]
  /\ UNCHANGED <<world, registry, spawnLocks, holder, held>>

\* The future is dropped at an await: on the binary (which may also fail), the
\* spawn_locks map, the path lock, the permit or the child.  Everything it holds
\* goes with it, the map entry does not.
Cancel(t) ==
  /\ \/ pc[t] \in {"resolved", "queued", "wait", "spawning"}
     \/ pc[t] = "cleanup" /\ inst[t] = None
  /\ pc' = [pc EXCEPT ![t] = "idle"]
  /\ path' = [path EXCEPT ![t] = None]
  /\ fp' = [fp EXCEPT ![t] = 0]
  /\ lock' = [lock EXCEPT ![t] = None]
  /\ holder' = GuardDropped(t)
  /\ permit' = [permit EXCEPT ![t] = None]
  /\ inst' = [inst EXCEPT ![t] = None]
  /\ UNCHANGED <<version, registry, spawnLocks, doomed>>
  /\ KillUnreferenced
-----------------------------------------------------------------------------
\* The last clone of a client is dropped (the call is done with it, or its future
\* was dropped while it awaited the map in cleanup_spawn_lock): Drop of the lease
\* runs release_lease in a section of `inner`.
CurrentByPath(t) == instances[path[t]] # None
Current(t) == instances[path[t]] # None /\ instances[path[t]].inst = inst[t]

\* The generation was replaced (or, logged as an underflow, has no lease left).
ReleaseNothing(t) ==
  /\ Current(t) => instances[path[t]].leases = 0
  /\ pc' = [pc EXCEPT ![t] = "releasing"]
  /\ UNCHANGED <<registry, doomed>>

ReleaseShared(t) ==
  /\ Current(t)
  /\ instances[path[t]].leases > 1
  /\ instances' = [instances EXCEPT ![path[t]].leases = @ - 1]
  /\ pc' = [pc EXCEPT ![t] = "releasing"]
  /\ UNCHANGED <<idle, doomed>>

\* The last lease: the entry enters the LRU, whose least recently used path is
\* evicted when the LRU is full and that path has no lease.
VictimAny(p) == IF \E q \in Paths \ {p} : instances[q] # None
                THEN CHOOSE q \in Paths \ {p} : instances[q] # None
                ELSE None
Victim(p) == IF PushFull(idle, p) /\ instances[Head(idle)] # None
                                  /\ instances[Head(idle)].leases = 0
             THEN Head(idle)
             ELSE None

ReleaseLast(t) ==
  LET p == path[t]
      victim == Victim(p)
  IN  /\ Current(t)
      /\ instances[p].leases = 1
      /\ instances' = [q \in Paths |->
                         IF q = p THEN [instances[p] EXCEPT !.leases = 0, !.permit = None]
                         ELSE IF q = victim THEN None ELSE instances[q]]
      /\ idle' = Push(idle, p)
      /\ IF victim # None
         THEN /\ doomed' = [doomed EXCEPT ![t] = instances[victim]]
              /\ pc' = [pc EXCEPT ![t] = "evicting"]
         ELSE /\ pc' = [pc EXCEPT ![t] = "releasing"]
              /\ UNCHANGED doomed

DropLease(t) ==
  /\ pc[t] \in {"leased", "cleanup"}
  /\ inst[t] # None
  /\ ReleaseNothing(t) \/ ReleaseShared(t) \/ ReleaseLast(t)
  /\ UNCHANGED <<world, locking, call, permit, inst>>

\* drop(evicted).
DropEvicted(t) ==
  /\ pc[t] = "evicting"
  /\ doomed' = [doomed EXCEPT ![t] = None]
  /\ pc' = [pc EXCEPT ![t] = "releasing"]
  /\ UNCHANGED <<version, registry, locking, call, permit, inst>>
  /\ KillUnreferenced

\* The fields of the lease are dropped in the order they are declared in: the instance,
\* then the permit (and, in a cancelled call, the path lock).
DropPermitFirst(t) ==
  /\ pc[t] = "releasing"
  /\ permit' = [permit EXCEPT ![t] = None]
  /\ UNCHANGED <<version, registry, locking, call, doomed>>
  /\ IF permit[t] # None
     THEN UNCHANGED <<pc, inst, process>>
     ELSE /\ pc' = [pc EXCEPT ![t] = "dropping"]
          /\ inst' = [inst EXCEPT ![t] = None]
          /\ KillUnreferenced

DropInstance(t) ==
  /\ pc[t] = "releasing"
  /\ pc' = [pc EXCEPT ![t] = "dropping"]
  /\ inst' = [inst EXCEPT ![t] = None]
  /\ UNCHANGED <<version, registry, locking, call, permit, doomed>>
  /\ KillUnreferenced

DropPermit(t) ==
  /\ pc[t] = "dropping"
  /\ pc' = [pc EXCEPT ![t] = "idle"]
  /\ path' = [path EXCEPT ![t] = None]
  /\ fp' = [fp EXCEPT ![t] = 0]
  /\ lock' = [lock EXCEPT ![t] = None]
  /\ holder' = GuardDropped(t)
  /\ permit' = [permit EXCEPT ![t] = None]
  /\ UNCHANGED <<world, registry, spawnLocks, inst, doomed>>

DropFields(t) == DropInstance(t) \/ DropPermit(t)
-----------------------------------------------------------------------------
\* What a call does on its own, once it is not blocked.
Proceed(t) ==
  \/ TakeSpawnLock(t) \/ FirstLookup(t) \/ SecondLookup(t) \/ DropRemoved(t)
  \/ SpawnStart(t) \/ SpawnReady(t) \/ SpawnFails(t)
  \/ CleanupSpawnLock(t) \/ Return(t)
  \/ DropLease(t) \/ DropEvicted(t) \/ DropFields(t)

Next ==
  \/ \E p \in Paths : WriteFile(p)
  \/ \E i \in Instances : Exit(i)
  \/ \E t \in Tasks : \/ \E p \in Asks[t] : Resolve(t, p)
                      \/ Proceed(t)
                      \/ Cancel(t)

Spec == Init /\ [][Next]_vars

\* A call that can run does.  tokio's Mutex and Semaphore are FIFO, so a call that
\* could be granted its lock or a permit again and again is: fairness is strong.
Fairness == \A t \in Tasks : SF_vars(Proceed(t))

FairSpec == Spec /\ Fairness
-----------------------------------------------------------------------------
\* Roles of the calls.
Searching == {t \in Tasks : pc[t] \in {"removing", "wait", "replacing", "spawn", "spawning"}}
Leasing   == {t \in Tasks : inst[t] # None /\ pc[t] \in {"cleanup", "returning", "leased"}}
Dropping  == {t \in Tasks : pc[t] = "dropping"}

\* The per-path lock does its work although its Arc leaves the map and is made
\* anew: two calls never search or spawn for one path at a time, and the path of
\* a call that spawns is unregistered (debug_assert "path spawn lock must prevent
\* replacement").
SpawnExclusive ==
  /\ \A t, u \in Searching : path[t] = path[u] => t = u
  /\ \A t \in Searching : pc[t] \in {"replacing", "spawn", "spawning"} => ~Registered(t)

\* active_leases counts the calls whose lease is on the registered generation: a
\* lease of a replaced generation (fingerprint change, exit) never counts for the
\* replacement.
LeasesCounted ==
  \A p \in Paths : instances[p] # None =>
    instances[p].leases = Cardinality({t \in Leasing : inst[t] = instances[p].inst})

\* The idle LRU holds exactly the registered paths without a lease, once each
\* and MaxIdle of them at most: none is kept for ever, none is evicted in use.
IdleExact ==
  /\ ToSet(idle) = {p \in Paths : instances[p] # None /\ instances[p].leases = 0}
  /\ Len(idle) = Cardinality(ToSet(idle))
  /\ Len(idle) <= MaxIdle

\* A permit covers one generation at a time: calls that share one share the
\* instance, but for those that have dropped theirs and are about to let the permit go;
\* and every lease has one, the registered one if its generation is.
\* None is lost: a permit that is not free is with a call that waits for neither a lock
\* nor a permit, so that nobody waits in a circle.
PermitsCover ==
  /\ \A t, u \in Tasks \ Dropping : permit[t] # None /\ permit[t] = permit[u] /\ t # u
        => inst[t] # None /\ inst[t] = inst[u]
  /\ \A t \in Leasing : permit[t] # None /\ (Current(t) => instances[path[t]].permit = permit[t])
  /\ \A s \in Permits \ FreePermits :
       \E t \in Tasks : /\ pc[t] \notin {"idle", "resolved", "queued", "wait"}
                        /\ permit[t] = s \/ (doomed[t] # None /\ doomed[t].permit = s)

\* At most Cardinality(Permits) generations have a lease (--max-active-instances),
\* detached generations included.
ActiveBounded == Cardinality({inst[t] : t \in Leasing}) <= Cardinality(Permits)

\* However calls interleave, the processes alive are bounded by the two limits and
\* the entries being dropped: an evicted process is killed before the permit of the
\* lease that evicted it is returned, and that of a replaced generation before the
\* permit of its last lease is, which another call may be waiting for to spawn its own.
ProcessesBounded ==
  Cardinality({i \in Instances : process[i] # None}) <=
    MaxIdle + Cardinality(Permits) + Cardinality({t \in Tasks : pc[t] \in {"removing", "evicting"}})

\* A client never reads content older than the fingerprint its call computed,
\* although that was computed before any lock was taken.
ContentFresh ==
  /\ \A t \in Leasing : process[inst[t]].from >= fp[t]
  /\ \A p \in Paths : instances[p] # None => process[instances[p].inst].from >= instances[p].fp

\* A registered generation in use is unregistered only by a lookup that found its
\* fingerprint changed or its process gone, never to make room.
ActiveStays ==
  [][\A p \in Paths :
       instances[p] # None /\ instances[p].leases > 0 /\ instances'[p] = None =>
         \E t \in Tasks : /\ path[t] = p
                          /\ pc[t] \in {"queued", "wait"}
                          /\ Stale(t) \/ Exited(t)]_vars

\* README.md:176 promises more, "active instances stay registered until their
\* queries finish": what the code does not do when the trace file changes or the
\* process exits under a lease.
ActiveStaysRegistered ==
  [][\A p \in Paths : instances[p] # None /\ instances[p].leases > 0 =>
       instances'[p] # None]_vars

\* Every call returns, with a client or an error, provided a permit is free again
\* and again: nothing else blocks a call for ever, and no path lock held across
\* the wait for a permit does.
CallsReturn ==
  \A t \in Tasks :
    []<>(FreePermits # {}) => (pc[t] = "resolved" ~> pc[t] \in {"idle", "leased"})

-----------------------------------------------------------------------------
\* The manager implements the pool it promises: a call is a session that opens
\* with the lookup or the spawn that gives it an instance and closes when its lease
\* has dropped it.
Session(t) ==
  CASE pc[t] \in {"idle", "dropping"} -> [state |-> "closed"]
    [] pc[t] \notin {"idle", "dropping"} /\ (inst[t] = None \/ pc[t] = "spawning") ->
         [state |-> "asking", path |-> path[t], asked |-> fp[t]]
    [] OTHER ->
         [state |-> "open", path |-> path[t], asked |-> fp[t],
          from |-> process[inst[t]].from, slot |-> permit[t]]

Pool == INSTANCE TracePool WITH Slots <- Permits, session <- [t \in Tasks |-> Session(t)]

ImplementsPool == Pool!PoolSpec
=============================================================================
