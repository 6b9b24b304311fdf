----------------------- MODULE InstanceManagerProofs -----------------------
(***************************************************************************)
(* Proofs about InstanceManager for any number of traces, callers,         *)
(* instances, permits and locks, any LRU capacity and any number of        *)
(* rewrites of the traces: the calls and the path locks, then leases and   *)
(* permits (an instance belongs to one path and one fingerprint,           *)
(* active_leases counts the leases, a permit covers one generation), then  *)
(* the idle LRU, which holds exactly the entries without a lease, the      *)
(* bound on the processes alive and the refinement of TracePool.           *)
(***************************************************************************)
EXTENDS InstanceManager, FiniteSetTheorems, SequenceTheorems, TLAPS

SearchPCs == {"removing", "wait", "replacing", "spawn", "spawning"}

\* What each local of a call holds at each point of it.
CallShape ==
  \A t \in Tasks :
    /\ path[t] = None <=> pc[t] = "idle"
    /\ pc[t] \in {"idle", "resolved", "leased"} => lock[t] = None
    /\ pc[t] \in SearchPCs \cup {"queued", "cleanup", "returning"} => lock[t] # None
    /\ pc[t] \in SearchPCs \cup {"cleanup"} => t \in holder
    /\ t \in holder => lock[t] # None /\ pc[t] \notin {"queued", "returning"}
    /\ pc[t] \in {"spawning", "leased", "evicting", "releasing"} => inst[t] # None
    /\ inst[t] # None => pc[t] \in {"spawning", "cleanup", "returning", "leased",
                                    "evicting", "releasing"}
    /\ permit[t] # None <=> pc[t] \in {"replacing", "spawn", "dropping"} \/ inst[t] # None
    /\ doomed[t] # None <=> pc[t] \in {"removing", "replacing", "evicting"}

\* The path locks: one Arc per path, in the map for as long as a call that may
\* yet lock it has it.
LockInv ==
  /\ \A p, q \in Paths : spawnLocks[p] # None /\ spawnLocks[p] = spawnLocks[q] => p = q
  /\ \A t \in Tasks, p \in Paths : lock[t] # None /\ lock[t] = spawnLocks[p] => path[t] = p
  /\ \A t \in Tasks : lock[t] # None /\ pc[t] # "returning" => spawnLocks[path[t]] = lock[t]
  /\ \A t, u \in holder : lock[t] = lock[u] => t = u

\* Fingerprints are of the past, and what is read for a call is not older.
VersionInv ==
  /\ \A t \in Tasks : pc[t] # "idle" => fp[t] <= version[path[t]]
  /\ \A t \in Tasks : inst[t] # None => process[inst[t]].from >= fp[t]
  /\ \A p \in Paths : instances[p] # None => process[instances[p].inst].from >= instances[p].fp
-----------------------------------------------------------------------------
LEMMA AnyOfMember ==
  ASSUME NEW S, S # {}
  PROVE  AnyOf(S) \in S
BY DEF AnyOf

\* What pop and push make of the LRU.
LEMMA PopSeq ==
  ASSUME NEW q \in Seq(Paths), NEW p \in Paths
  PROVE  Pop(q, p) \in Seq(Paths)
<1>1. CASE p \notin ToSet(q)
  BY <1>1 DEF Pop
<1>2. CASE p \in ToSet(q)
  <2>1. PICK k \in DOMAIN q : k = CHOOSE j \in DOMAIN q : q[j] = p
    BY <1>2 DEF ToSet
  <2>2. k \in 1..Len(q)
    BY <2>1
  <2>3. SubSeq(q, 1, k-1) \in Seq(Paths)
    BY <2>2, SubSeqProperties
  <2>4. SubSeq(q, k+1, Len(q)) \in Seq(Paths)
    BY <2>2, SubSeqProperties
  <2> QED
    BY <1>2, <2>1, <2>3, <2>4, ConcatProperties DEF Pop, RemoveAt
<1> QED BY <1>1, <1>2

LEMMA PushSeq ==
  ASSUME NEW q \in Seq(Paths), NEW p \in Paths
  PROVE  Push(q, p) \in Seq(Paths)
<1>1. CASE PushFull(q, p)
  <2>1. q # <<>>
    BY <1>1, ManagerAssumption DEF PushFull
  <2>2. Tail(q) \in Seq(Paths)
    BY <2>1, HeadTailProperties
  <2> QED BY <1>1, <2>2, AppendProperties DEF Push
<1>2. CASE ~PushFull(q, p)
  BY <1>2, PopSeq, AppendProperties DEF Push
<1> QED BY <1>1, <1>2
-----------------------------------------------------------------------------
Typed == TypeOK /\ CallShape

LEMMA InitTyped == Init => Typed
BY ManagerAssumption DEF Init, Typed, TypeOK, CallShape, PCs, SearchPCs

LEMMA WriteFileTyped ==
  ASSUME Typed, NEW p \in Paths, WriteFile(p)
  PROVE  Typed'
BY ManagerAssumption DEF WriteFile, Typed, TypeOK, CallShape, registry, locking, call, held

LEMMA ExitTyped ==
  ASSUME Typed, NEW i \in Instances, Exit(i)
  PROVE  Typed'
<1>1. process[i] \in Process
  BY DEF Exit, Typed, TypeOK
<1>2. process' \in [Instances -> Process \cup {None}]
  BY <1>1 DEF Exit, Typed, TypeOK, Process
<1> QED
  BY <1>2 DEF Exit, Typed, TypeOK, CallShape, registry, locking, call, held

LEMMA ResolveTyped ==
  ASSUME Typed, NEW t \in Tasks, NEW p \in Paths, Resolve(t, p)
  PROVE  Typed'
BY ManagerAssumption DEF Resolve, Typed, TypeOK, CallShape, world, registry, locking, held, PCs, SearchPCs

LEMMA TakeSpawnLockTyped ==
  ASSUME Typed, NEW t \in Tasks, TakeSpawnLock(t)
  PROVE  Typed'
<1>1. path[t] \in Paths
  BY DEF TakeSpawnLock, Typed, TypeOK, CallShape
<1>2. PICK l \in LockIds : /\ spawnLocks' = [spawnLocks EXCEPT ![path[t]] = l]
                           /\ lock' = [lock EXCEPT ![t] = l]
  <2>1. CASE spawnLocks[path[t]] = None
    BY <1>1, <2>1, AnyOfMember DEF TakeSpawnLock, FreeLocks
  <2>2. CASE spawnLocks[path[t]] # None
    BY <1>1, <2>2 DEF TakeSpawnLock, Typed, TypeOK
  <2> QED BY <2>1, <2>2
<1> QED
  BY <1>1, <1>2, ManagerAssumption
     DEF TakeSpawnLock, Typed, TypeOK, CallShape, world, registry, call, held, PCs, SearchPCs

\* A lookup with the permit `s` it offers: the first of a call, which has just
\* been granted its path lock, or the second.
LookupWith(t, s) ==
  /\ \/ pc[t] = "queued" /\ s = None /\ holder' = holder \cup {t} /\ PathLockFree(t)
     \/ pc[t] = "wait" /\ s \in FreePermits /\ holder' = holder
  /\ UNCHANGED <<world, spawnLocks, lock, call>>

LEMMA LookupSteps ==
  ASSUME NEW t \in Tasks, FirstLookup(t) \/ SecondLookup(t)
  PROVE  \E s \in Permits \cup {None} : LookupWith(t, s) /\ CachedClient(t, s)
<1>1. CASE FirstLookup(t)
  BY <1>1 DEF FirstLookup, LookupWith
<1>2. CASE SecondLookup(t)
  <2>1. AnyOf(FreePermits) \in FreePermits
    BY <1>2, AnyOfMember DEF SecondLookup
  <2> QED
    BY <1>2, <2>1 DEF SecondLookup, LookupWith, locking, FreePermits
<1> QED BY <1>1, <1>2

LEMMA LookupCall ==
  ASSUME Typed, NEW t \in Tasks, NEW s \in Permits \cup {None}, LookupWith(t, s)
  PROVE  path[t] \in Paths
BY DEF Typed, TypeOK, CallShape, LookupWith

LEMMA MissTyped ==
  ASSUME Typed, NEW t \in Tasks, NEW s \in Permits \cup {None}, LookupWith(t, s), Miss(t, s)
  PROVE  Typed'
BY LookupCall, ManagerAssumption
   DEF LookupWith, Miss, Typed, TypeOK, CallShape, world, registry, call, PCs, SearchPCs, FreePermits

LEMMA InvalidateTyped ==
  ASSUME Typed, NEW t \in Tasks, NEW s \in Permits \cup {None}, LookupWith(t, s), Invalidate(t, s)
  PROVE  Typed'
<1>1. path[t] \in Paths
  BY LookupCall
<1>2. instances[path[t]] # None /\ instances[path[t]].inst \in Instances
  BY <1>1 DEF Invalidate, Stale, Exited, Registered, Typed, TypeOK, Entry, IdleEntry, ActiveEntry
<1>3. idle' \in Seq(Paths)
  BY <1>1, PopSeq DEF Invalidate, Typed, TypeOK
<1> QED
  BY <1>1, <1>2, <1>3, ManagerAssumption
     DEF LookupWith, Invalidate, Typed, TypeOK, CallShape, world, call, PCs, SearchPCs, FreePermits

\* One more lease makes an entry active.
LEMMA LeaseEntry ==
  ASSUME NEW e \in Entry, NEW s \in Permits
  PROVE  [e EXCEPT !.leases = @ + 1, !.permit = s] \in ActiveEntry
<1> DEFINE f == [e EXCEPT !.leases = @ + 1, !.permit = s]
<1>1. e \in [inst : Instances, fp : Nat, leases : Nat, permit : Permits \cup {None}]
  BY DEF Entry, IdleEntry, ActiveEntry
<1>2. e.leases + 1 \in Nat \ {0}
  BY <1>1
<1> QED BY <1>1, <1>2 DEF ActiveEntry

LEMMA HitTyped ==
  ASSUME Typed, NEW t \in Tasks, NEW s \in Permits \cup {None}, LookupWith(t, s), Hit(t, s)
  PROVE  Typed'
<1>1. path[t] \in Paths
  BY LookupCall
<1> DEFINE e == instances[path[t]]
           f == [e EXCEPT !.leases = @ + 1, !.permit = PermitUsed(e, s)]
<1>2. e \in Entry
  BY <1>1 DEF Hit, Reusable, Registered, Typed, TypeOK
<1>3. PermitUsed(e, s) \in Permits
  BY <1>2 DEF Hit, PermitSuffices, PermitUsed, Entry, IdleEntry, ActiveEntry
<1>4. f \in ActiveEntry
  BY <1>2, <1>3, LeaseEntry
<1>5. idle' \in Seq(Paths)
  BY <1>1, PopSeq DEF Hit, Typed, TypeOK
<1>6. e.inst \in Instances
  BY <1>2 DEF Entry, IdleEntry, ActiveEntry
<1>7. instances' = [instances EXCEPT ![path[t]] = f]
  BY DEF Hit
<1>8. instances' \in [Paths -> Entry \cup {None}]
  BY <1>1, <1>4, <1>7 DEF Typed, TypeOK, Entry
<1> HIDE DEF f
<1> QED
  BY <1>1, <1>3, <1>5, <1>6, <1>8, ManagerAssumption
     DEF LookupWith, Hit, Typed, TypeOK, CallShape, world, call, PCs, SearchPCs, FreePermits

LEMMA NeedsPermitTyped ==
  ASSUME Typed, NEW t \in Tasks, NEW s \in Permits \cup {None}, LookupWith(t, s), NeedsPermit(t, s)
  PROVE  Typed'
BY LookupCall, ManagerAssumption
   DEF LookupWith, NeedsPermit, Typed, TypeOK, CallShape, world, registry, call, held, PCs, SearchPCs,
       FreePermits

LEMMA PollFailsTyped ==
  ASSUME Typed, NEW t \in Tasks, NEW s \in Permits \cup {None}, LookupWith(t, s), PollFails(t)
  PROVE  Typed'
BY LookupCall, ManagerAssumption
   DEF LookupWith, PollFails, Typed, TypeOK, CallShape, world, registry, call, held, PCs, SearchPCs

LEMMA DropRemovedTyped ==
  ASSUME Typed, NEW t \in Tasks, DropRemoved(t)
  PROVE  Typed'
<1>1. process' \in [Instances -> Process \cup {None}]
  BY DEF DropRemoved, KillUnreferenced, Typed, TypeOK
<1>2. TypeOK'
  BY <1>1 DEF DropRemoved, Typed, TypeOK, registry, locking, call, PCs
<1>3. CallShape'
  <2>1. CASE pc[t] = "removing"
    BY <2>1, ManagerAssumption
       DEF DropRemoved, Typed, TypeOK, CallShape, locking, call, PCs, SearchPCs
  <2>2. CASE pc[t] = "replacing"
    BY <2>2, ManagerAssumption
       DEF DropRemoved, Typed, TypeOK, CallShape, locking, call, PCs, SearchPCs
  <2> QED BY <2>1, <2>2 DEF DropRemoved
<1> QED BY <1>2, <1>3 DEF Typed

LEMMA SpawnStartTyped ==
  ASSUME Typed, NEW t \in Tasks, SpawnStart(t)
  PROVE  Typed'
<1>1. path[t] \in Paths
  BY DEF SpawnStart, Typed, TypeOK, CallShape
<1>2. PICK i \in Instances :
        /\ inst' = [inst EXCEPT ![t] = i]
        /\ process' = [process EXCEPT ![i] = [from |-> version[path[t]], exited |-> FALSE]]
  BY AnyOfMember DEF SpawnStart, FreeInstances
<1>3. process' \in [Instances -> Process \cup {None}]
  BY <1>1, <1>2 DEF Typed, TypeOK, Process
<1>4. TypeOK'
  BY <1>1, <1>2, <1>3 DEF SpawnStart, Typed, TypeOK, registry, locking, call, PCs
<1>5. CallShape'
  BY <1>2, ManagerAssumption
     DEF SpawnStart, Typed, TypeOK, CallShape, registry, locking, call, PCs, SearchPCs
<1> QED BY <1>4, <1>5 DEF Typed

LEMMA SpawnReadyTyped ==
  ASSUME Typed, NEW t \in Tasks, SpawnReady(t)
  PROVE  Typed'
<1>1. path[t] \in Paths /\ inst[t] \in Instances /\ permit[t] \in Permits
  BY DEF SpawnReady, Typed, TypeOK, CallShape
<1>2. [inst |-> inst[t], fp |-> fp[t], leases |-> 1, permit |-> permit[t]] \in ActiveEntry
  BY <1>1 DEF ActiveEntry, Typed, TypeOK
<1>3. instances' \in [Paths -> Entry \cup {None}]
  BY <1>1, <1>2 DEF SpawnReady, Typed, TypeOK, Entry
<1> QED
  BY <1>1, <1>3, ManagerAssumption
     DEF SpawnReady, Typed, TypeOK, CallShape, world, locking, call, held, PCs, SearchPCs

LEMMA SpawnFailsTyped ==
  ASSUME Typed, NEW t \in Tasks, SpawnFails(t)
  PROVE  Typed'
<1>1. process' \in [Instances -> Process \cup {None}]
  BY DEF SpawnFails, KillUnreferenced, Typed, TypeOK
<1> QED
  BY <1>1, ManagerAssumption
     DEF SpawnFails, Typed, TypeOK, CallShape, registry, locking, call, PCs, SearchPCs

LEMMA CleanupTyped ==
  ASSUME Typed, NEW t \in Tasks, CleanupSpawnLock(t)
  PROVE  Typed'
<1>1. spawnLocks' \in [Paths -> LockIds \cup {None}]
  BY DEF CleanupSpawnLock, Typed, TypeOK
<1> QED
  BY <1>1, ManagerAssumption
     DEF CleanupSpawnLock, GuardDropped, Typed, TypeOK, CallShape, world, registry, call, held, PCs,
         SearchPCs

LEMMA ReturnTyped ==
  ASSUME Typed, NEW t \in Tasks, Return(t)
  PROVE  Typed'
<1>1. \/ inst[t] # None /\ pc' = [pc EXCEPT ![t] = "leased"] /\ path' = path /\ fp' = fp
      \/ /\ inst[t] = None
         /\ pc' = [pc EXCEPT ![t] = "idle"]
         /\ path' = [path EXCEPT ![t] = None]
         /\ fp' = [fp EXCEPT ![t] = 0]
  BY DEF Return, call
<1>2. TypeOK'
  <2>1. pc' \in [Tasks -> PCs]
    BY <1>1 DEF Typed, TypeOK, PCs
  <2>2. path' \in [Tasks -> Paths \cup {None}]
    BY <1>1 DEF Typed, TypeOK
  <2>3. fp' \in [Tasks -> Nat]
    <3>1. CASE fp' = fp
      BY <3>1 DEF Typed, TypeOK
    <3>2. CASE fp' = [fp EXCEPT ![t] = 0]
      BY <3>2 DEF Typed, TypeOK
    <3> QED BY <1>1, <3>1, <3>2
  <2> QED
    BY <2>1, <2>2, <2>3 DEF Return, Typed, TypeOK, world, registry, held
<1>3. CallShape'
  BY <1>1, ManagerAssumption
     DEF Return, Typed, TypeOK, CallShape, held, PCs, SearchPCs
<1> QED BY <1>2, <1>3 DEF Typed

LEMMA CancelTyped ==
  ASSUME Typed, NEW t \in Tasks, Cancel(t)
  PROVE  Typed'
<1>1. process' \in [Instances -> Process \cup {None}]
  BY DEF Cancel, KillUnreferenced, Typed, TypeOK
<1> QED
  BY <1>1, ManagerAssumption
     DEF Cancel, GuardDropped, Typed, TypeOK, CallShape, registry, PCs, SearchPCs

\* What release_lease may do to the registry: nothing; or count one lease less;
\* or make the entry idle, and perhaps take another, unleased, one out.
LEMMA DropLeaseTyped ==
  ASSUME Typed, NEW t \in Tasks, DropLease(t)
  PROVE  Typed'
<1>1. path[t] \in Paths
  BY ManagerAssumption DEF DropLease, Typed, TypeOK, CallShape
<1>2. CASE ReleaseNothing(t)
  BY <1>2, ManagerAssumption
     DEF DropLease, ReleaseNothing, Typed, TypeOK, CallShape, world, registry, locking, call, PCs,
         SearchPCs
<1>3. CASE ReleaseShared(t)
  <2> DEFINE e == instances[path[t]]
  <2>1. e \in ActiveEntry
    BY <1>1, <1>3 DEF ReleaseShared, Current, Typed, TypeOK, Entry, IdleEntry
  <2>2. [e EXCEPT !.leases = @ - 1] \in ActiveEntry
    BY <2>1, <1>3 DEF ReleaseShared, ActiveEntry
  <2>3. instances' \in [Paths -> Entry \cup {None}]
    BY <1>1, <1>3, <2>2 DEF ReleaseShared, Typed, TypeOK, Entry
  <2> QED
    BY <1>3, <2>3, ManagerAssumption
       DEF DropLease, ReleaseShared, Typed, TypeOK, CallShape, world, registry, locking, call, PCs,
           SearchPCs
<1>4. CASE ReleaseLast(t)
  <2> DEFINE e == instances[path[t]]
             f == [e EXCEPT !.leases = 0, !.permit = None]
             v == Victim(path[t])
  <2>1. e \in Entry
    BY <1>1, <1>4 DEF ReleaseLast, Current, Typed, TypeOK
  <2>2. f \in IdleEntry
    <3>1. CASE e \in IdleEntry
      BY <3>1 DEF IdleEntry
    <3>2. CASE e \in ActiveEntry
      BY <3>2 DEF IdleEntry, ActiveEntry
    <3> QED BY <2>1, <3>1, <3>2 DEF Entry
  <2>3. instances' = [q \in Paths |->
                        IF q = path[t] THEN f ELSE IF q = v THEN None ELSE instances[q]]
    BY <1>4 DEF ReleaseLast
  <2>4. instances' \in [Paths -> Entry \cup {None}]
    <3> HIDE DEF f, v
    <3> SUFFICES ASSUME NEW q \in Paths
                 PROVE  instances'[q] \in Entry \cup {None}
      BY <2>3
    <3>1. CASE q = path[t]
      BY <2>2, <2>3, <3>1 DEF Entry
    <3>2. CASE q # path[t]
      BY <2>3, <3>2 DEF Typed, TypeOK
    <3> QED BY <3>1, <3>2
  <2>5. idle' \in Seq(Paths)
    BY <1>1, <1>4, PushSeq DEF ReleaseLast, Typed, TypeOK
  <2>6. v # None => instances[v] \in Entry
    <3> SUFFICES ASSUME v # None
                 PROVE  instances[v] \in Entry
      OBVIOUS
    <3>1. PushFull(idle, path[t]) /\ v = Head(idle) /\ instances[Head(idle)] # None
      BY DEF Victim
    <3>2. idle # <<>>
      BY <3>1, ManagerAssumption DEF PushFull
    <3>3. Head(idle) \in Paths
      BY <3>2, HeadTailProperties DEF Typed, TypeOK
    <3> QED
      BY <3>1, <3>3 DEF Typed, TypeOK
  <2>7. \/ v # None /\ doomed' = [doomed EXCEPT ![t] = instances[v]]
                    /\ pc' = [pc EXCEPT ![t] = "evicting"]
        \/ v = None /\ doomed' = doomed /\ pc' = [pc EXCEPT ![t] = "releasing"]
    BY <1>4 DEF ReleaseLast
  <2> HIDE DEF e, f, v
  <2>8. TypeOK'
    <3>1. pc' \in [Tasks -> PCs] /\ doomed' \in [Tasks -> Entry \cup {None}]
      BY <2>6, <2>7 DEF Typed, TypeOK, PCs
    <3> QED BY <2>4, <2>5, <3>1 DEF DropLease, Typed, TypeOK, world, locking, call
  <2>9. CallShape'
    <3>1. CASE v = None
      <4>1. /\ pc'[t] = "releasing" /\ doomed' = doomed
            /\ \A u \in Tasks \ {t} : pc'[u] = pc[u]
        BY <2>7, <3>1 DEF Typed, TypeOK
      <4>2. UNCHANGED <<locking, call, permit, inst>> /\ pc[t] \in {"leased", "cleanup"} /\ inst[t] # None
        BY DEF DropLease
      <4> QED
        BY <4>1, <4>2 DEF Typed, CallShape, locking, call, SearchPCs
    <3>2. CASE v # None
      <4>1. pc' = [pc EXCEPT ![t] = "evicting"] /\ doomed'[t] # None
        BY <2>6, <2>7, <3>2, NoneAssumption DEF Typed, TypeOK
      <4>2. \A u \in Tasks \ {t} : doomed'[u] = doomed[u]
        BY <2>7, <3>2 DEF Typed, TypeOK
      <4> QED
        BY <4>1, <4>2 DEF DropLease, Typed, TypeOK, CallShape, locking, call, PCs, SearchPCs
    <3> QED BY <3>1, <3>2
  <2> QED BY <2>8, <2>9 DEF Typed
<1> QED BY <1>2, <1>3, <1>4 DEF DropLease

LEMMA DropEvictedTyped ==
  ASSUME Typed, NEW t \in Tasks, DropEvicted(t)
  PROVE  Typed'
<1>1. process' \in [Instances -> Process \cup {None}]
  BY DEF DropEvicted, KillUnreferenced, Typed, TypeOK
<1> QED
  BY <1>1, ManagerAssumption
     DEF DropEvicted, Typed, TypeOK, CallShape, registry, locking, call, PCs, SearchPCs

LEMMA DropFieldsTyped ==
  ASSUME Typed, NEW t \in Tasks, DropFields(t)
  PROVE  Typed'
<1>1. CASE DropInstance(t)
  <2>1. process' \in [Instances -> Process \cup {None}]
    BY <1>1 DEF DropInstance, KillUnreferenced, Typed, TypeOK
  <2> QED
    BY <1>1, <2>1, ManagerAssumption
       DEF DropInstance, Typed, TypeOK, CallShape, registry, locking, call, PCs, SearchPCs
<1>2. CASE DropPermit(t)
  BY <1>2, ManagerAssumption
     DEF DropPermit, GuardDropped, Typed, TypeOK, CallShape, world, registry, PCs, SearchPCs
<1> QED BY <1>1, <1>2 DEF DropFields

LEMMA LookupTyped ==
  ASSUME Typed, NEW t \in Tasks, FirstLookup(t) \/ SecondLookup(t)
  PROVE  Typed'
<1>1. PICK s \in Permits \cup {None} : LookupWith(t, s) /\ CachedClient(t, s)
  BY LookupSteps
<1> QED
  BY <1>1, MissTyped, InvalidateTyped, HitTyped, NeedsPermitTyped, PollFailsTyped DEF CachedClient

LEMMA NextTyped == Typed /\ [Next]_vars => Typed'
<1> SUFFICES ASSUME Typed, [Next]_vars
             PROVE  Typed'
  OBVIOUS
<1>1. ASSUME NEW p \in Paths, WriteFile(p)
      PROVE  Typed'
  BY <1>1, WriteFileTyped
<1>2. ASSUME NEW i \in Instances, Exit(i)
      PROVE  Typed'
  BY <1>2, ExitTyped
<1>3. ASSUME NEW t \in Tasks, NEW p \in Asks[t], Resolve(t, p)
      PROVE  Typed'
  BY <1>3, ResolveTyped, ManagerAssumption
<1>4. ASSUME NEW t \in Tasks, Proceed(t)
      PROVE  Typed'
  BY <1>4, TakeSpawnLockTyped, LookupTyped, DropRemovedTyped, SpawnStartTyped, SpawnReadyTyped,
     SpawnFailsTyped, CleanupTyped, ReturnTyped, DropLeaseTyped, DropEvictedTyped, DropFieldsTyped
     DEF Proceed
<1>5. ASSUME NEW t \in Tasks, Cancel(t)
      PROVE  Typed'
  BY <1>5, CancelTyped
<1>6. CASE UNCHANGED vars
  BY <1>6 DEF vars, Typed, TypeOK, CallShape
<1> QED BY <1>1, <1>2, <1>3, <1>4, <1>5, <1>6 DEF Next

\* The manager's state is well formed in every reachable state: in particular an
\* entry of the registry holds a semaphore permit exactly while it has a lease,
\* what `expect("active instance must hold a semaphore permit")` relies on.
THEOREM TypeCorrect == Spec => []TypeOK
<1>1. Init => Typed
  BY InitTyped
<1>2. Typed /\ [Next]_vars => Typed'
  BY NextTyped
<1>3. Typed => TypeOK
  BY DEF Typed
<1> QED BY <1>1, <1>2, <1>3, PTL DEF Spec
-----------------------------------------------------------------------------
\* An unregistered path is registered by nothing but a child that became ready.
LEMMA OnlySpawnRegisters ==
  ASSUME Typed, [Next]_vars, NEW p \in Paths, instances[p] = None
  PROVE  \/ instances'[p] = None
         \/ \E t \in Tasks : SpawnReady(t) /\ path[t] = p
<1>1. ASSUME NEW t \in Tasks, FirstLookup(t) \/ SecondLookup(t)
      PROVE  instances'[p] = None
  <2>1. PICK s \in Permits \cup {None} : LookupWith(t, s) /\ CachedClient(t, s)
    BY <1>1, LookupSteps
  <2>2. path[t] \in Paths
    BY <2>1, LookupCall
  <2>3. CASE Invalidate(t, s)
    BY <2>2, <2>3 DEF Invalidate, Typed, TypeOK
  <2>4. CASE Hit(t, s)
    BY <2>2, <2>4 DEF Hit, Reusable, Registered, Typed, TypeOK
  <2> QED
    BY <2>1, <2>3, <2>4 DEF CachedClient, Miss, NeedsPermit, PollFails, registry
<1>2. ASSUME NEW t \in Tasks, DropLease(t)
      PROVE  instances'[p] = None
  <2>1. CASE ReleaseNothing(t)
    BY <2>1 DEF ReleaseNothing, registry
  <2>2. CASE ReleaseShared(t)
    BY <2>2 DEF ReleaseShared, Current, Typed, TypeOK
  <2>3. CASE ReleaseLast(t)
    <3>1. p # path[t]
      BY <2>3 DEF ReleaseLast, Current
    <3> QED BY <2>3, <3>1 DEF ReleaseLast
  <2> QED BY <1>2, <2>1, <2>2, <2>3 DEF DropLease
<1>3. ASSUME NEW t \in Tasks, SpawnReady(t), path[t] # p
      PROVE  instances'[p] = None
  BY <1>3 DEF SpawnReady, Typed, TypeOK
<1>4. ASSUME NEW t \in Tasks, Proceed(t)
      PROVE  instances'[p] = None \/ (SpawnReady(t) /\ path[t] = p)
  BY <1>1, <1>2, <1>3, <1>4
     DEF Proceed, TakeSpawnLock, DropRemoved, SpawnStart, SpawnFails, CleanupSpawnLock, Return,
         DropEvicted, DropFields, DropInstance, DropPermit, registry
<1> QED
  BY <1>4 DEF Next, WriteFile, Exit, Resolve, Cancel, registry, vars

\* An entry in use leaves the registry by nothing but a lookup that found its
\* fingerprint changed or its process gone.
LEMMA OnlyLookupUnregisters ==
  ASSUME Typed, [Next]_vars, NEW p \in Paths,
         instances[p] # None, instances[p].leases > 0, instances'[p] = None
  PROVE  \E t \in Tasks : path[t] = p /\ pc[t] \in {"queued", "wait"} /\ (Stale(t) \/ Exited(t))
<1> SUFFICES ASSUME \A t \in Tasks : ~(/\ path[t] = p /\ pc[t] \in {"queued", "wait"}
                                       /\ Stale(t) \/ Exited(t))
             PROVE  FALSE
  OBVIOUS
<1>1. ASSUME NEW t \in Tasks, FirstLookup(t) \/ SecondLookup(t)
      PROVE  FALSE
  <2>1. PICK s \in Permits \cup {None} : LookupWith(t, s) /\ CachedClient(t, s)
    BY <1>1, LookupSteps
  <2>2. path[t] \in Paths
    BY <2>1, LookupCall
  <2>3. CASE Invalidate(t, s)
    <3>1. path[t] # p
      BY <2>1, <2>3 DEF Invalidate, LookupWith
    <3> QED BY <2>2, <2>3, <3>1 DEF Invalidate, Typed, TypeOK
  <2>4. CASE Hit(t, s)
    <3>1. instances'[path[t]] \in Entry
      <4>1. PermitUsed(instances[path[t]], s) \in Permits
        BY <2>2, <2>4
           DEF Hit, Reusable, Registered, PermitSuffices, PermitUsed, Typed, TypeOK, Entry, IdleEntry,
               ActiveEntry
      <4> QED
        BY <2>2, <2>4, <4>1, LeaseEntry DEF Hit, Reusable, Registered, Typed, TypeOK, Entry
    <3>2. instances'[path[t]] # None
      BY <3>1, NoneAssumption
    <3> QED BY <2>2, <2>4, <3>2 DEF Hit, Typed, TypeOK
  <2> QED
    BY <2>1, <2>3, <2>4 DEF CachedClient, Miss, NeedsPermit, PollFails, registry
<1>2. ASSUME NEW t \in Tasks, DropLease(t)
      PROVE  FALSE
  <2>1. CASE ReleaseNothing(t)
    BY <2>1 DEF ReleaseNothing, registry
  <2>2. CASE ReleaseShared(t)
    <3>1. instances[path[t]] \in Entry /\ path[t] \in Paths
      BY <1>2, <2>2, ManagerAssumption
         DEF ReleaseShared, Current, DropLease, Typed, TypeOK, CallShape
    <3>2. [instances[path[t]] EXCEPT !.leases = @ - 1] \in Entry
      <4>1. instances[path[t]] \in ActiveEntry
        BY <2>2, <3>1 DEF ReleaseShared, Entry, IdleEntry
      <4> QED BY <2>2, <4>1 DEF ReleaseShared, ActiveEntry, Entry
    <3> QED BY <2>2, <3>1, <3>2, NoneAssumption DEF ReleaseShared, Typed, TypeOK
  <2>3. CASE ReleaseLast(t)
    <3>1. path[t] \in Paths /\ instances[path[t]] \in Entry
      BY <1>2, <2>3, ManagerAssumption
         DEF ReleaseLast, Current, DropLease, Typed, TypeOK, CallShape
    <3>2. p # Victim(path[t])
      BY ManagerAssumption DEF Victim
    <3>3. CASE p = path[t]
      <4> DEFINE f == [instances[p] EXCEPT !.leases = 0, !.permit = None]
      <4>1. instances[p] \in [inst : Instances, fp : Nat, leases : Nat, permit : Permits \cup {None}]
        BY <3>1, <3>3 DEF Entry, IdleEntry, ActiveEntry
      <4>2. f \in Entry
        BY <4>1 DEF Entry, IdleEntry
      <4>3. instances'[p] = f
        BY <2>3, <3>3 DEF ReleaseLast
      <4> QED BY <4>2, <4>3, NoneAssumption
    <3>4. CASE p # path[t]
      BY <2>3, <3>2, <3>4 DEF ReleaseLast
    <3> QED BY <3>3, <3>4
  <2> QED BY <1>2, <2>1, <2>2, <2>3 DEF DropLease
<1>3. ASSUME NEW t \in Tasks, SpawnReady(t)
      PROVE  FALSE
  <2>1. path[t] \in Paths /\ inst[t] \in Instances /\ permit[t] \in Permits /\ fp[t] \in Nat
    BY <1>3 DEF SpawnReady, Typed, TypeOK, CallShape
  <2>2. [inst |-> inst[t], fp |-> fp[t], leases |-> 1, permit |-> permit[t]] \in Entry
    BY <2>1 DEF Entry, ActiveEntry
  <2> QED BY <1>3, <2>1, <2>2, NoneAssumption DEF SpawnReady, Typed, TypeOK
<1>4. ASSUME NEW t \in Tasks, Proceed(t)
      PROVE  FALSE
  BY <1>1, <1>2, <1>3, <1>4
     DEF Proceed, TakeSpawnLock, DropRemoved, SpawnStart, SpawnFails, CleanupSpawnLock, Return,
         DropEvicted, DropFields, DropInstance, DropPermit, registry
<1> QED
  BY <1>4 DEF Next, WriteFile, Exit, Resolve, Cancel, registry, vars

\* The idle LRU never makes room at the expense of an instance in use: "active
\* instances are never evicted" (tp_manager.rs:679).
THEOREM ActiveNeverEvicted == Spec => ActiveStays
<1>1. Typed /\ [Next]_vars =>
        [\A p \in Paths :
           instances[p] # None /\ instances[p].leases > 0 /\ instances'[p] = None =>
             \E t \in Tasks : /\ path[t] = p
                              /\ pc[t] \in {"queued", "wait"}
                              /\ Stale(t) \/ Exited(t)]_vars
  BY OnlyLookupUnregisters
<1>2. Init => Typed
  BY InitTyped
<1>3. Typed /\ [Next]_vars => Typed'
  BY NextTyped
<1> QED BY <1>1, <1>2, <1>3, PTL DEF Spec, ActiveStays
-----------------------------------------------------------------------------
\* What a step leaves of the path locks when it neither takes, frees nor returns.
LEMMA LockFrame ==
  ASSUME LockInv, UNCHANGED <<spawnLocks, lock, holder, path>>,
         \A t \in Tasks : pc[t] = "returning" => pc'[t] = "returning"
  PROVE  LockInv'
BY DEF LockInv

\* An identity that is free is nobody's.
LEMMA TakeSpawnLockLocks ==
  ASSUME Typed, LockInv, NEW t \in Tasks, TakeSpawnLock(t)
  PROVE  LockInv'
<1>1. path[t] \in Paths /\ lock[t] = None /\ t \notin holder
  BY DEF TakeSpawnLock, Typed, TypeOK, CallShape
<1>2. PICK l \in LockIds :
        /\ spawnLocks' = [spawnLocks EXCEPT ![path[t]] = l]
        /\ lock' = [lock EXCEPT ![t] = l]
        /\ spawnLocks[path[t]] = None => ~LockHeld(l)
        /\ spawnLocks[path[t]] # None => l = spawnLocks[path[t]]
  <2>1. CASE spawnLocks[path[t]] = None
    BY <1>1, <2>1, AnyOfMember DEF TakeSpawnLock, FreeLocks
  <2>2. CASE spawnLocks[path[t]] # None
    BY <1>1, <2>2 DEF TakeSpawnLock, Typed, TypeOK
  <2> QED BY <2>1, <2>2
<1>3. UNCHANGED <<path, holder>> /\ pc' = [pc EXCEPT ![t] = "queued"]
  BY DEF TakeSpawnLock, call
<1>4. l # None
  BY ManagerAssumption
<1>5. CASE spawnLocks[path[t]] = None
  BY <1>1, <1>2, <1>3, <1>4, <1>5 DEF LockInv, LockHeld, Typed, TypeOK
<1>6. CASE spawnLocks[path[t]] # None
  BY <1>1, <1>2, <1>3, <1>4, <1>6 DEF LockInv, Typed, TypeOK
<1> QED BY <1>5, <1>6

LEMMA LookupLocks ==
  ASSUME Typed, LockInv, NEW t \in Tasks, FirstLookup(t) \/ SecondLookup(t)
  PROVE  LockInv'
<1>1. PICK s \in Permits \cup {None} : LookupWith(t, s) /\ CachedClient(t, s)
  BY LookupSteps
<1>2. \A u \in Tasks : pc[u] = "returning" <=> pc'[u] = "returning"
  BY <1>1 DEF LookupWith, CachedClient, Miss, Invalidate, Hit, NeedsPermit, PollFails, Typed, TypeOK
<1>3. CASE holder' = holder
  BY <1>1, <1>2, <1>3, LockFrame DEF LookupWith, call
<1>4. CASE holder' = holder \cup {t} /\ PathLockFree(t)
  BY <1>1, <1>2, <1>4 DEF LockInv, LookupWith, call, PathLockFree
<1> QED BY <1>1, <1>3, <1>4 DEF LookupWith

LEMMA CleanupLocks ==
  ASSUME Typed, LockInv, NEW t \in Tasks, CleanupSpawnLock(t)
  PROVE  LockInv'
<1>1. path[t] \in Paths /\ lock[t] # None
  BY DEF CleanupSpawnLock, Typed, TypeOK, CallShape
<1>2. CASE spawnLocks' = spawnLocks
  BY <1>1, <1>2 DEF CleanupSpawnLock, GuardDropped, LockInv, call, Typed, TypeOK
<1>3. CASE ~LockShared(t) /\ spawnLocks' = [spawnLocks EXCEPT ![path[t]] = None]
  BY <1>1, <1>3 DEF CleanupSpawnLock, GuardDropped, LockShared, LockInv, call, Typed, TypeOK
<1> QED BY <1>2, <1>3 DEF CleanupSpawnLock

\* A call that ends lets go of its Arc and its guard.
LEMMA EndLocks ==
  ASSUME Typed, LockInv, NEW t \in Tasks, spawnLocks' = spawnLocks,
         lock' = [lock EXCEPT ![t] = None], holder' = holder \ {t},
         \A u \in Tasks \ {t} : path'[u] = path[u] /\ pc'[u] = pc[u]
  PROVE  LockInv'
BY DEF LockInv, Typed, TypeOK

LEMMA NextLocks == Typed /\ LockInv /\ [Next]_vars => LockInv'
<1> SUFFICES ASSUME Typed, LockInv, [Next]_vars
             PROVE  LockInv'
  OBVIOUS
<1>1. ASSUME NEW p \in Paths, WriteFile(p)
      PROVE  LockInv'
  BY <1>1, LockFrame DEF WriteFile, locking, call
<1>2. ASSUME NEW i \in Instances, Exit(i)
      PROVE  LockInv'
  BY <1>2, LockFrame DEF Exit, locking, call
<1>3. ASSUME NEW t \in Tasks, NEW p \in Asks[t], Resolve(t, p)
      PROVE  LockInv'
  <2>1. p \in Paths /\ lock[t] = None /\ t \notin holder
    BY <1>3, ManagerAssumption DEF Resolve, Typed, TypeOK, CallShape
  <2> QED
    BY <1>3, <2>1 DEF Resolve, LockInv, locking, Typed, TypeOK
<1>4. ASSUME NEW t \in Tasks, Proceed(t)
      PROVE  LockInv'
  <2>1. CASE DropRemoved(t)
    BY <2>1, LockFrame DEF DropRemoved, locking, call, Typed, TypeOK
  <2>2. CASE SpawnStart(t)
    BY <2>2, LockFrame DEF SpawnStart, locking, call, Typed, TypeOK
  <2>3. CASE SpawnReady(t)
    BY <2>3, LockFrame DEF SpawnReady, locking, call, Typed, TypeOK
  <2>4. CASE SpawnFails(t)
    BY <2>4, LockFrame DEF SpawnFails, locking, call, Typed, TypeOK
  <2>5. CASE Return(t)
    <3>1. t \notin holder
      BY <2>5 DEF Return, Typed, TypeOK, CallShape
    <3>2. holder' = holder \ {t}
      BY <2>5, <3>1 DEF Return
    <3>3. \A u \in Tasks \ {t} : path'[u] = path[u] /\ pc'[u] = pc[u]
      <4>1. CASE inst[t] # None
        BY <2>5, <4>1 DEF Return, call, Typed, TypeOK
      <4>2. CASE inst[t] = None
        BY <2>5, <4>2 DEF Return, Typed, TypeOK
      <4> QED BY <4>1, <4>2
    <3> QED BY <2>5, <3>2, <3>3, EndLocks DEF Return
  <2>6. CASE DropLease(t)
    BY <2>6, LockFrame
       DEF DropLease, ReleaseNothing, ReleaseShared, ReleaseLast, locking, call, Typed, TypeOK
  <2>7. CASE DropEvicted(t)
    BY <2>7, LockFrame DEF DropEvicted, locking, call, Typed, TypeOK
  <2>8. CASE DropFields(t)
    <3>1. CASE DropInstance(t)
      BY <3>1, LockFrame DEF DropInstance, locking, call, Typed, TypeOK
    <3>2. CASE DropPermit(t)
      BY <3>2, EndLocks DEF DropPermit, GuardDropped, Typed, TypeOK
    <3> QED BY <2>8, <3>1, <3>2 DEF DropFields
  <2> QED
    BY <1>4, <2>1, <2>2, <2>3, <2>4, <2>5, <2>6, <2>7, <2>8, TakeSpawnLockLocks, LookupLocks,
       CleanupLocks DEF Proceed
<1>5. ASSUME NEW t \in Tasks, Cancel(t)
      PROVE  LockInv'
  BY <1>5, EndLocks DEF Cancel, GuardDropped, Typed, TypeOK
<1>6. CASE UNCHANGED vars
  BY <1>6, LockFrame DEF vars
<1> QED BY <1>1, <1>2, <1>3, <1>4, <1>5, <1>6 DEF Next

\* One call at a time searches or spawns for a path: whichever Arc guards the
\* path, both calls would hold the same one.
LEMMA OneSearcher ==
  ASSUME Typed, LockInv, NEW t \in Searching, NEW u \in Searching, path[t] = path[u]
  PROVE  t = u
<1>1. t \in holder /\ u \in holder /\ lock[t] # None /\ lock[u] # None
  BY DEF Searching, Typed, CallShape, SearchPCs
<1>2. pc[t] # "returning" /\ pc[u] # "returning" /\ t \in Tasks /\ u \in Tasks
  BY DEF Searching
<1>3. lock[t] = lock[u]
  BY <1>1, <1>2 DEF LockInv
<1> QED BY <1>1, <1>3 DEF LockInv

Unregistered ==
  \A t \in Tasks : pc[t] \in {"replacing", "spawn", "spawning"} => instances[path[t]] = None

\* A step of one call leaves the locals of the others alone.
SameLocals(t) ==
  /\ pc'[t] = pc[t] /\ path'[t] = path[t] /\ fp'[t] = fp[t] /\ lock'[t] = lock[t]
  /\ permit'[t] = permit[t] /\ inst'[t] = inst[t] /\ doomed'[t] = doomed[t]

LEMMA OthersKeep ==
  ASSUME Typed, NEW t \in Tasks, NEW u \in Tasks \ {t},
         Proceed(t) \/ Cancel(t) \/ \E p \in Asks[t] : Resolve(t, p)
  PROVE  SameLocals(u)
<1>1. CASE FirstLookup(t) \/ SecondLookup(t)
  <2>1. PICK s \in Permits \cup {None} : LookupWith(t, s) /\ CachedClient(t, s)
    BY <1>1, LookupSteps
  <2> QED
    BY <2>1 DEF CachedClient, Miss, Invalidate, Hit, NeedsPermit, PollFails, LookupWith, call, held,
                SameLocals, Typed, TypeOK
<1>2. CASE TakeSpawnLock(t) \/ CleanupSpawnLock(t)
  BY <1>2 DEF TakeSpawnLock, CleanupSpawnLock, call, held, SameLocals, Typed, TypeOK
<1>3. CASE DropRemoved(t) \/ SpawnStart(t) \/ SpawnReady(t) \/ SpawnFails(t) \/ DropEvicted(t)
  BY <1>3 DEF DropRemoved, SpawnStart, SpawnReady, SpawnFails, DropEvicted, locking, call, held,
              SameLocals, Typed, TypeOK
<1>4. CASE Return(t)
  BY <1>4 DEF Return, call, held, SameLocals, Typed, TypeOK
<1>5. CASE DropLease(t)
  BY <1>5 DEF DropLease, ReleaseNothing, ReleaseShared, ReleaseLast, locking, call, SameLocals,
              Typed, TypeOK
<1>6. CASE DropFields(t) \/ Cancel(t)
  BY <1>6 DEF DropFields, DropInstance, DropPermit, Cancel, locking, call, SameLocals, Typed, TypeOK
<1>7. CASE \E p \in Asks[t] : Resolve(t, p)
  BY <1>7 DEF Resolve, locking, held, SameLocals, Typed, TypeOK
<1> QED BY <1>1, <1>2, <1>3, <1>4, <1>5, <1>6, <1>7 DEF Proceed

\* A call begins to spawn only where its second lookup found, or left, no entry.
LEMMA SpawnBegins ==
  ASSUME Typed, [Next]_vars, NEW t \in Tasks,
         pc'[t] \in {"replacing", "spawn", "spawning"}
  PROVE  \/ pc[t] \in {"replacing", "spawn", "spawning"} /\ path'[t] = path[t]
         \/ path'[t] \in Paths /\ instances'[path'[t]] = None
<1>1. ASSUME SecondLookup(t) \/ FirstLookup(t)
      PROVE  path'[t] \in Paths /\ instances'[path'[t]] = None
  <2>1. PICK s \in Permits \cup {None} : LookupWith(t, s) /\ CachedClient(t, s)
    BY <1>1, LookupSteps
  <2>2. path[t] \in Paths /\ path'[t] = path[t]
    BY <2>1, LookupCall DEF LookupWith, call
  <2>3. Miss(t, s) \/ Invalidate(t, s)
    BY <2>1 DEF CachedClient, Hit, NeedsPermit, PollFails, Typed, TypeOK
  <2> QED
    BY <2>2, <2>3 DEF Miss, Invalidate, Registered, registry, Typed, TypeOK
<1>2. ASSUME Proceed(t)
      PROVE  \/ pc[t] \in {"replacing", "spawn", "spawning"} /\ path'[t] = path[t]
             \/ path'[t] \in Paths /\ instances'[path'[t]] = None
  BY <1>1, <1>2
     DEF Proceed, TakeSpawnLock, DropRemoved, SpawnStart, SpawnReady, SpawnFails, CleanupSpawnLock,
         Return, DropLease, ReleaseNothing, ReleaseShared, ReleaseLast, DropEvicted, DropFields, DropInstance, DropPermit, call,
         Typed, TypeOK
<1>3. ASSUME Cancel(t) \/ \E p \in Asks[t] : Resolve(t, p)
      PROVE  FALSE
  BY <1>3 DEF Cancel, Resolve, Typed, TypeOK
<1>4. ASSUME NEW u \in Tasks \ {t},
             Proceed(u) \/ Cancel(u) \/ \E p \in Asks[u] : Resolve(u, p)
      PROVE  pc[t] \in {"replacing", "spawn", "spawning"} /\ path'[t] = path[t]
  BY <1>4, OthersKeep DEF SameLocals
<1>5. ASSUME \/ \E p \in Paths : WriteFile(p)
             \/ \E i \in Instances : Exit(i)
             \/ UNCHANGED vars
      PROVE  pc[t] \in {"replacing", "spawn", "spawning"} /\ path'[t] = path[t]
  BY <1>5 DEF WriteFile, Exit, call, vars
<1> QED BY <1>2, <1>3, <1>4, <1>5 DEF Next

LEMMA NextUnregistered ==
  Typed /\ LockInv /\ Unregistered /\ [Next]_vars => Unregistered'
<1> SUFFICES ASSUME Typed, LockInv, Unregistered, [Next]_vars,
                    NEW t \in Tasks, pc'[t] \in {"replacing", "spawn", "spawning"},
                    pc[t] \in {"replacing", "spawn", "spawning"}, path'[t] = path[t]
             PROVE  instances'[path'[t]] = None
  BY SpawnBegins DEF Unregistered
<1>1. path[t] \in Paths /\ instances[path[t]] = None
  BY DEF Unregistered, Typed, TypeOK, CallShape
<1>2. ASSUME NEW u \in Tasks, SpawnReady(u), path[u] = path[t]
      PROVE  FALSE
  <2>1. u = t
    BY <1>2, OneSearcher DEF SpawnReady, Searching
  <2> QED BY <1>2, <2>1 DEF SpawnReady, Typed, TypeOK
<1> QED BY <1>1, <1>2, OnlySpawnRegisters

\* The spawn lock excludes: at most one call searches or spawns for a path, and a
\* child that becomes ready replaces no registered instance (the debug_assert
\* "path spawn lock must prevent replacement").
THEOREM SpawnIsExclusive == Spec => []SpawnExclusive
<1> DEFINE Inv == Typed /\ LockInv /\ Unregistered
<1>1. Init => Inv
  BY InitTyped DEF Init, LockInv, Unregistered
<1>2. Inv /\ [Next]_vars => Inv'
  BY NextTyped, NextLocks, NextUnregistered
<1>3. Inv => SpawnExclusive
  <2> SUFFICES ASSUME Inv
               PROVE  SpawnExclusive
    OBVIOUS
  <2>1. \A t, u \in Searching : path[t] = path[u] => t = u
    BY OneSearcher
  <2>2. \A t \in Searching : pc[t] \in {"replacing", "spawn", "spawning"} => ~Registered(t)
    BY DEF Unregistered, Searching, Registered
  <2> QED BY <2>1, <2>2 DEF SpawnExclusive
<1> HIDE DEF Inv
<1> QED BY <1>1, <1>2, <1>3, PTL DEF Spec
-----------------------------------------------------------------------------
\* A process remains, and what it has read, while an Arc of its instance does.
Froze(i) == /\ process'[i].from = process[i].from
            /\ process[i] # None => process'[i] # None

LEMMA HeldProcessesKeep ==
  ASSUME Typed, [Next]_vars, NEW i \in Instances,
         InstanceHeld(i), InstanceHeld(i)'
  PROVE  Froze(i)
<1>1. ASSUME NEW t \in Tasks, Proceed(t)
      PROVE  Froze(i)
  <2>1. CASE FirstLookup(t) \/ SecondLookup(t)
    BY <2>1 DEF FirstLookup, SecondLookup, world, Froze
  <2>2. CASE KillUnreferenced
    BY <2>2 DEF KillUnreferenced, Froze
  <2>3. CASE SpawnStart(t)
    <3>1. PICK j \in FreeInstances :
            process' = [process EXCEPT ![j] = [from |-> version[path[t]], exited |-> FALSE]]
      BY <2>3, AnyOfMember DEF SpawnStart
    <3>2. j # i
      BY DEF FreeInstances
    <3> QED BY <3>1, <3>2 DEF FreeInstances, Froze, Typed, TypeOK
  <2> QED
    BY <1>1, <2>1, <2>2, <2>3
       DEF Proceed, TakeSpawnLock, DropRemoved, SpawnReady, SpawnFails, CleanupSpawnLock, Return,
           DropLease, DropEvicted, DropFields, DropInstance, DropPermit, world, Froze
<1>2. ASSUME NEW j \in Instances, Exit(j)
      PROVE  Froze(i)
  <2>1. process[j] \in Process
    BY <1>2 DEF Exit, Typed, TypeOK
  <2>2. process'[i] \in Process \/ process'[i] = process[i]
    BY <1>2, <2>1 DEF Exit, Process, Typed, TypeOK
  <2>3. process'[i].from = process[i].from
    BY <1>2, <2>1 DEF Exit, Process, Typed, TypeOK
  <2> QED BY <2>2, <2>3, NoneAssumption DEF Froze
<1>3. ASSUME NEW t \in Tasks, Cancel(t)
      PROVE  Froze(i)
  BY <1>3 DEF Cancel, KillUnreferenced, Froze
<1>4. CASE \/ \E p \in Paths : WriteFile(p)
           \/ \E t \in Tasks : \E p \in Asks[t] : Resolve(t, p)
           \/ UNCHANGED vars
  BY <1>4 DEF WriteFile, Resolve, world, vars, Froze
<1> QED BY <1>1, <1>2, <1>3, <1>4 DEF Next

\* Files only gain versions, so a fingerprint computed stays of the past.
LEMMA VersionGrows ==
  ASSUME Typed, [Next]_vars, NEW p \in Paths
  PROVE  version'[p] >= version[p]
<1>1. version \in [Paths -> Nat]
  BY DEF Typed, TypeOK
<1>2. ASSUME NEW q \in Paths, WriteFile(q)
      PROVE  version'[p] >= version[p]
  <2>1. version' = [version EXCEPT ![q] = version[q] + 1]
    BY <1>2 DEF WriteFile
  <2> QED BY <1>1, <2>1
<1>3. CASE UNCHANGED version
  BY <1>1, <1>3
<1>4. (\E q \in Paths : WriteFile(q)) \/ UNCHANGED version
  BY DEF Next, Proceed, Exit, Resolve, TakeSpawnLock, FirstLookup, SecondLookup, DropRemoved,
         SpawnStart, SpawnReady, SpawnFails, CleanupSpawnLock, Return, DropLease, DropEvicted,
         DropFields, DropInstance, DropPermit, Cancel, world, vars
<1> QED BY <1>2, <1>3, <1>4

\* Where the fingerprint of a call comes from.
LEMMA CallKeeps ==
  ASSUME Typed, [Next]_vars, NEW t \in Tasks, pc'[t] # "idle"
  PROVE  \/ pc[t] # "idle" /\ path'[t] = path[t] /\ fp'[t] = fp[t]
         \/ pc[t] = "idle" /\ path'[t] \in Paths /\ fp'[t] = version[path'[t]]
<1>1. ASSUME Proceed(t) \/ Cancel(t) \/ \E p \in Asks[t] : Resolve(t, p)
      PROVE  \/ pc[t] # "idle" /\ path'[t] = path[t] /\ fp'[t] = fp[t]
             \/ pc[t] = "idle" /\ path'[t] \in Paths /\ fp'[t] = version[path'[t]]
  BY <1>1, ManagerAssumption
     DEF Proceed, Cancel, Resolve, TakeSpawnLock, FirstLookup, SecondLookup, DropRemoved, SpawnStart,
         SpawnReady, SpawnFails, CleanupSpawnLock, Return, DropLease, DropEvicted, DropFields, DropInstance, DropPermit, call, held,
         Typed, TypeOK
<1>2. ASSUME NEW u \in Tasks \ {t},
             Proceed(u) \/ Cancel(u) \/ \E p \in Asks[u] : Resolve(u, p)
      PROVE  pc[t] # "idle" /\ path'[t] = path[t] /\ fp'[t] = fp[t]
  BY <1>2, OthersKeep DEF SameLocals
<1>3. ASSUME \/ \E p \in Paths : WriteFile(p)
             \/ \E i \in Instances : Exit(i)
             \/ UNCHANGED vars
      PROVE  pc[t] # "idle" /\ path'[t] = path[t] /\ fp'[t] = fp[t]
  BY <1>3 DEF WriteFile, Exit, call, vars
<1> QED BY <1>1, <1>2, <1>3 DEF Next

\* Where the instance of a call comes from.
LEMMA InstanceOrigin ==
  ASSUME Typed, [Next]_vars, NEW t \in Tasks, inst'[t] # None
  PROVE  \/ inst'[t] = inst[t]
         \/ /\ path[t] \in Paths /\ instances[path[t]] # None
            /\ inst'[t] = instances[path[t]].inst /\ fp[t] = instances[path[t]].fp
            /\ pc[t] # "idle" /\ fp'[t] = fp[t]
         \/ SpawnStart(t)
<1>1. CASE FirstLookup(t) \/ SecondLookup(t)
  <2>1. PICK s \in Permits \cup {None} : LookupWith(t, s) /\ CachedClient(t, s)
    BY <1>1, LookupSteps
  <2>2. path[t] \in Paths
    BY <2>1, LookupCall
  <2>3. CASE Hit(t, s)
    BY <2>1, <2>2, <2>3 DEF Hit, Reusable, Registered, Stale, LookupWith, call, Typed, TypeOK
  <2> QED
    BY <2>1, <2>3 DEF CachedClient, Miss, Invalidate, NeedsPermit, PollFails, held
<1>2. ASSUME NEW u \in Tasks \ {t},
             Proceed(u) \/ Cancel(u) \/ \E p \in Asks[u] : Resolve(u, p)
      PROVE  inst'[t] = inst[t]
  BY <1>2, OthersKeep DEF SameLocals
<1>3. CASE \/ DropFields(t) \/ Cancel(t) \/ SpawnFails(t)
  BY <1>3 DEF DropFields, DropInstance, DropPermit, Cancel, SpawnFails, Typed, TypeOK
<1>4. CASE \/ TakeSpawnLock(t) \/ DropRemoved(t) \/ SpawnReady(t) \/ CleanupSpawnLock(t) \/ Return(t)
           \/ DropLease(t) \/ DropEvicted(t) \/ \E p \in Asks[t] : Resolve(t, p)
  BY <1>4 DEF TakeSpawnLock, DropRemoved, SpawnReady, CleanupSpawnLock, Return, DropLease, DropEvicted,
              Resolve, held
<1>5. CASE \/ \E p \in Paths : WriteFile(p)
           \/ \E i \in Instances : Exit(i)
           \/ UNCHANGED vars
  BY <1>5 DEF WriteFile, Exit, held, vars
<1> QED BY <1>1, <1>2, <1>3, <1>4, <1>5 DEF Next, Proceed

\* Where an entry of the registry comes from.
LEMMA EntryOrigin ==
  ASSUME Typed, [Next]_vars, NEW p \in Paths, instances'[p] # None
  PROVE  \/ /\ instances[p] # None
            /\ instances'[p].inst = instances[p].inst
            /\ instances'[p].fp = instances[p].fp
         \/ \E t \in Tasks : /\ inst[t] # None /\ path[t] = p
                             /\ instances'[p].inst = inst[t]
                             /\ instances'[p].fp = fp[t]
<1>1. ASSUME NEW t \in Tasks, FirstLookup(t) \/ SecondLookup(t)
      PROVE  /\ instances[p] # None
             /\ instances'[p].inst = instances[p].inst
             /\ instances'[p].fp = instances[p].fp
  <2>1. PICK s \in Permits \cup {None} : LookupWith(t, s) /\ CachedClient(t, s)
    BY <1>1, LookupSteps
  <2>2. path[t] \in Paths
    BY <2>1, LookupCall
  <2>3. CASE Hit(t, s)
    <3>1. CASE p = path[t]
      <4>1. instances[p] \in [inst : Instances, fp : Nat, leases : Nat, permit : Permits \cup {None}]
        BY <2>3, <3>1 DEF Hit, Reusable, Registered, Typed, TypeOK, Entry, IdleEntry, ActiveEntry
      <4> QED BY <2>3, <3>1, <4>1 DEF Hit, Reusable, Registered, Typed, TypeOK
    <3>2. CASE p # path[t]
      BY <2>2, <2>3, <3>2 DEF Hit, Typed, TypeOK
    <3> QED BY <3>1, <3>2
  <2>4. CASE Invalidate(t, s)
    BY <2>2, <2>4 DEF Invalidate, Typed, TypeOK
  <2> QED
    BY <2>1, <2>3, <2>4 DEF CachedClient, Miss, NeedsPermit, PollFails, registry
<1>2. ASSUME NEW t \in Tasks, SpawnReady(t)
      PROVE  \/ /\ instances[p] # None
                /\ instances'[p].inst = instances[p].inst
                /\ instances'[p].fp = instances[p].fp
             \/ /\ inst[t] # None /\ path[t] = p
                /\ instances'[p].inst = inst[t] /\ instances'[p].fp = fp[t]
  BY <1>2 DEF SpawnReady, Typed, TypeOK, CallShape
<1>3. ASSUME NEW t \in Tasks, DropLease(t)
      PROVE  /\ instances[p] # None
             /\ instances'[p].inst = instances[p].inst
             /\ instances'[p].fp = instances[p].fp
  <2>1. ASSUME instances[p] # None
        PROVE  instances[p] \in [inst : Instances, fp : Nat, leases : Nat, permit : Permits \cup {None}]
    BY <2>1 DEF Typed, TypeOK, Entry, IdleEntry, ActiveEntry
  <2>2. CASE ReleaseNothing(t)
    BY <2>2 DEF ReleaseNothing, registry
  <2>3. CASE ReleaseShared(t)
    BY <2>1, <2>3 DEF ReleaseShared, Current, Typed, TypeOK
  <2>4. CASE ReleaseLast(t)
    BY <2>1, <2>4 DEF ReleaseLast, Current, Typed, TypeOK
  <2> QED BY <1>3, <2>2, <2>3, <2>4 DEF DropLease
<1>4. CASE UNCHANGED instances
  BY <1>4
<1> QED
  BY <1>1, <1>2, <1>3, <1>4
     DEF Next, Proceed, TakeSpawnLock, DropRemoved, SpawnStart, SpawnFails, CleanupSpawnLock, Return,
         DropEvicted, DropFields, DropInstance, DropPermit, WriteFile, Exit, Resolve, Cancel, registry, vars

\* A call that keeps its instance keeps its fingerprint.
LEMMA LeasedKeepsCall ==
  ASSUME Typed, [Next]_vars, NEW t \in Tasks, inst'[t] # None, inst'[t] = inst[t]
  PROVE  fp'[t] = fp[t]
<1>1. TypeOK' /\ CallShape'
  BY NextTyped DEF Typed
<1>2. pc[t] # "idle" /\ pc'[t] # "idle"
  BY <1>1 DEF Typed, CallShape
<1>3. ASSUME NEW p \in Asks[t], Resolve(t, p)
      PROVE  FALSE
  BY <1>2, <1>3 DEF Resolve
<1> QED BY <1>2, CallKeeps

LEMMA NextVersion ==
  Typed /\ VersionInv /\ [Next]_vars => VersionInv'
<1> SUFFICES ASSUME Typed, VersionInv, [Next]_vars
             PROVE  VersionInv'
  OBVIOUS
<1> USE DEF VersionInv
<1>0. TypeOK'
  BY NextTyped DEF Typed
<1>1. ASSUME NEW t \in Tasks, pc'[t] # "idle"
      PROVE  fp'[t] <= version'[path'[t]]
  <2>1. CASE pc[t] # "idle" /\ path'[t] = path[t] /\ fp'[t] = fp[t]
    <3>1. path[t] \in Paths /\ fp[t] <= version[path[t]]
      BY <2>1 DEF Typed, TypeOK, CallShape
    <3>2. fp[t] \in Nat /\ version[path[t]] \in Nat /\ version'[path[t]] \in Nat
      BY <1>0, <3>1 DEF Typed, TypeOK
    <3>3. version'[path[t]] >= version[path[t]]
      BY <3>1, VersionGrows
    <3> QED BY <2>1, <3>1, <3>2, <3>3
  <2>2. CASE path'[t] \in Paths /\ fp'[t] = version[path'[t]]
    <3>1. version'[path'[t]] >= version[path'[t]]
      BY <2>2, VersionGrows
    <3>2. version[path'[t]] \in Nat /\ version'[path'[t]] \in Nat
      BY <1>0, <2>2 DEF Typed, TypeOK
    <3> QED BY <2>2, <3>1, <3>2
  <2> QED BY <1>1, <2>1, <2>2, CallKeeps
<1>2. ASSUME NEW t \in Tasks, inst'[t] # None
      PROVE  process'[inst'[t]].from >= fp'[t]
  <2>1. PICK i \in Instances : i = inst'[t] /\ InstanceHeld(i)'
    BY <1>0, <1>2 DEF TypeOK, InstanceHeld
  <2>2. CASE SpawnStart(t)
    <3>1. PICK j \in FreeInstances :
            /\ inst' = [inst EXCEPT ![t] = j]
            /\ process' = [process EXCEPT ![j] = [from |-> version[path[t]], exited |-> FALSE]]
      BY <2>2, AnyOfMember DEF SpawnStart
    <3>2. inst'[t] = j /\ process'[j].from = version[path[t]]
      BY <3>1 DEF FreeInstances, Typed, TypeOK
    <3>3. fp'[t] = fp[t] /\ fp[t] <= version[path[t]]
      BY <2>2 DEF SpawnStart, call
    <3>4. fp[t] \in Nat /\ version[path[t]] \in Nat
      BY <2>2 DEF SpawnStart, Typed, TypeOK, CallShape
    <3> QED BY <3>2, <3>3, <3>4
  <2>3. CASE inst'[t] = inst[t]
    <3>1. fp'[t] = fp[t]
      BY <1>2, <2>3, LeasedKeepsCall
    <3>2. InstanceHeld(i)
      BY <1>2, <2>1, <2>3 DEF InstanceHeld
    <3>3. Froze(i)
      BY <2>1, <3>2, HeldProcessesKeep
    <3> QED BY <1>2, <2>1, <2>3, <3>1, <3>3 DEF Froze
  <2>4. CASE /\ path[t] \in Paths /\ instances[path[t]] # None
             /\ inst'[t] = instances[path[t]].inst /\ fp[t] = instances[path[t]].fp
             /\ pc[t] # "idle" /\ fp'[t] = fp[t]
    <3>1. InstanceHeld(i)
      BY <2>1, <2>4 DEF InstanceHeld
    <3>2. Froze(i)
      BY <2>1, <3>1, HeldProcessesKeep
    <3> QED BY <2>1, <2>4, <3>2 DEF Froze
  <2> QED BY <1>2, <2>2, <2>3, <2>4, InstanceOrigin
<1>3. ASSUME NEW p \in Paths, instances'[p] # None
      PROVE  process'[instances'[p].inst].from >= instances'[p].fp
  <2>1. instances'[p] \in Entry
    BY <1>0, <1>3 DEF TypeOK
  <2>2. PICK i \in Instances : i = instances'[p].inst /\ InstanceHeld(i)'
    BY <1>3, <2>1 DEF Entry, IdleEntry, ActiveEntry, InstanceHeld
  <2>3. CASE /\ instances[p] # None
             /\ instances'[p].inst = instances[p].inst
             /\ instances'[p].fp = instances[p].fp
    <3>1. InstanceHeld(i)
      BY <2>2, <2>3 DEF InstanceHeld
    <3>2. Froze(i)
      BY <2>2, <3>1, HeldProcessesKeep
    <3> QED BY <2>2, <2>3, <3>2 DEF Froze
  <2>4. ASSUME NEW t \in Tasks, inst[t] # None, instances'[p].inst = inst[t], instances'[p].fp = fp[t]
        PROVE  process'[instances'[p].inst].from >= instances'[p].fp
    <3>1. InstanceHeld(i)
      BY <2>2, <2>4 DEF InstanceHeld
    <3>2. Froze(i)
      BY <2>2, <3>1, HeldProcessesKeep
    <3> QED BY <2>2, <2>4, <3>2 DEF Froze
  <2> QED BY <1>3, <2>3, <2>4, EntryOrigin
<1> QED BY <1>1, <1>2, <1>3

\* A client reads nothing older than the fingerprint its call computed before it
\* took any lock, and no registered instance is older than the fingerprint it is
\* registered under.
THEOREM ContentIsFresh == Spec => []ContentFresh
<1> DEFINE Inv == Typed /\ VersionInv
<1>1. Init => Inv
  BY InitTyped DEF Init, VersionInv
<1>2. Inv /\ [Next]_vars => Inv'
  BY NextTyped, NextVersion
<1>3. Inv => ContentFresh
  BY DEF VersionInv, ContentFresh, Leasing
<1> HIDE DEF Inv
<1> QED BY <1>1, <1>2, <1>3, PTL DEF Spec

-----------------------------------------------------------------------------
\* Leases and permits.

\* An instance belongs to one path and one fingerprint, and to one call until it is ready.
GenerationInv ==
  /\ \A p, q \in Paths :
       instances[p] # None /\ instances[q] # None /\ instances[p].inst = instances[q].inst => p = q
  /\ \A t \in Tasks, p \in Paths :
       inst[t] # None /\ instances[p] # None /\ instances[p].inst = inst[t] =>
         pc[t] # "spawning" /\ path[t] = p /\ fp[t] = instances[p].fp
  /\ \A t, u \in Tasks :
       inst[t] # None /\ inst[t] = inst[u] =>
         path[t] = path[u] /\ fp[t] = fp[u] /\ (pc[t] = "spawning" => t = u)

\* A permit is of one call, or of one instance, but for the calls that have dropped
\* their instance and not yet the permit.
PermitInv ==
  /\ \A t, u \in Tasks :
       /\ permit[t] # None /\ permit[t] = permit[u] /\ t # u
       /\ pc[t] # "dropping" /\ pc[u] # "dropping"
       => inst[t] # None /\ inst[t] = inst[u]
  /\ \A t \in Tasks, p \in Paths :
       /\ permit[t] # None /\ instances[p] # None /\ instances[p].permit = permit[t]
       /\ pc[t] # "dropping"
       => inst[t] = instances[p].inst
  /\ \A p, q \in Paths :
       /\ instances[p] # None /\ instances[q] # None
       /\ instances[p].permit # None /\ instances[p].permit = instances[q].permit
       => p = q

\* The calls with a lease on an instance, and what they share with it.
LeasesOn(i) == {t \in Leasing : inst[t] = i}

LeaseInv ==
  /\ IsFiniteSet(Leasing)
  /\ \A p \in Paths : instances[p] # None => instances[p].leases = Cardinality(LeasesOn(instances[p].inst))
  /\ \A t \in Leasing : Current(t) => instances[path[t]].permit = permit[t]
  /\ \A t, u \in Leasing : inst[t] = inst[u] => permit[t] = permit[u]

OwnInv == GenerationInv /\ PermitInv /\ LeaseInv
-----------------------------------------------------------------------------
LEMMA InitOwn == Init => OwnInv
PROOF
  <1> SUFFICES ASSUME Init PROVE OwnInv
    OBVIOUS
  <1>1. Leasing = {}
    BY DEF Init, Leasing
  <1> QED BY <1>1, FS_EmptySet DEF Init, OwnInv, GenerationInv, PermitInv, LeaseInv

\* An entry has the fields of an entry.
LEMMA EntryFields ==
  ASSUME Typed, NEW p \in Paths, instances[p] # None
  PROVE  /\ instances[p] \in [inst : Instances, fp : Nat, leases : Nat, permit : Permits \cup {None}]
         /\ instances[p].leases > 0 <=> instances[p].permit # None
  BY ManagerAssumption DEF Typed, TypeOK, Entry, IdleEntry, ActiveEntry

\* Steps that neither take nor give an instance, a permit or a lease.
Quiet ==
  /\ inst' = inst /\ permit' = permit /\ instances' = instances
  /\ \A t \in Tasks : inst[t] # None => path'[t] = path[t] /\ fp'[t] = fp[t] /\ (pc'[t] = "spawning" => pc[t] = "spawning")
  /\ \A t \in Tasks : pc'[t] # "dropping" => pc[t] # "dropping"
  /\ Leasing' = Leasing

LEMMA QuietKeepsOwn == ASSUME Typed, OwnInv, Quiet PROVE OwnInv'
PROOF
  <1>1. GenerationInv'
    BY DEF Quiet, OwnInv, GenerationInv
  <1>2. PermitInv'
    BY DEF Quiet, OwnInv, PermitInv
  <1>3. LeaseInv'
    <2>1. \A t \in Leasing : inst[t] # None /\ (Current(t)' <=> Current(t)) /\ path'[t] = path[t]
      BY DEF Quiet, Leasing, Current
    <2>2. \A i : LeasesOn(i)' = LeasesOn(i)
      BY DEF Quiet, LeasesOn
    <2>3. \A p \in Paths : instances'[p] # None => LeasesOn(instances[p].inst)' = LeasesOn(instances[p].inst)
      BY <2>2 DEF Quiet
    <2> QED BY <2>1, <2>3 DEF Quiet, OwnInv, LeaseInv, LeasesOn
  <1> QED BY <1>1, <1>2, <1>3 DEF OwnInv

LEMMA QuietSteps ==
  ASSUME Typed, NEW t \in Tasks,
         \/ TakeSpawnLock(t) \/ DropRemoved(t) \/ CleanupSpawnLock(t) \/ Return(t) \/ DropEvicted(t)
         \/ \E p \in Asks[t] : Resolve(t, p)
         \/ \E s \in Permits \cup {None} : LookupWith(t, s) /\ (NeedsPermit(t, s) \/ PollFails(t))
  PROVE  Quiet
  BY DEF TakeSpawnLock, DropRemoved, CleanupSpawnLock, Return, DropEvicted, Resolve, LookupWith,
         NeedsPermit, PollFails, Quiet, Leasing, registry, held, call, locking, Typed, TypeOK, CallShape,
         SearchPCs

LEMMA QuietWorld ==
  ASSUME \/ \E p \in Paths : WriteFile(p)
         \/ \E i \in Instances : Exit(i)
         \/ UNCHANGED vars
  PROVE  Quiet
  BY DEF WriteFile, Exit, Quiet, Leasing, registry, held, call, vars

\* A call that searches has nothing yet, and is offered what nobody has.
LEMMA Offer ==
  ASSUME Typed, NEW t \in Tasks, NEW s \in Permits \cup {None}, LookupWith(t, s)
  PROVE  /\ path[t] \in Paths /\ inst[t] = None /\ permit[t] = None /\ t \notin Leasing
         /\ \A u \in Tasks : s # None => permit[u] # s
         /\ \A p \in Paths : s # None /\ instances[p] # None => instances[p].permit # s
         /\ path' = path /\ fp' = fp
  BY LookupCall DEF LookupWith, call, FreePermits, PermitHeld, Typed, TypeOK, CallShape, SearchPCs, Leasing

\* Without an entry, or when it took the entry out, the call only takes the permit offered.
LEMMA MissKeepsOwn ==
  ASSUME Typed, OwnInv, NEW t \in Tasks, NEW s \in Permits \cup {None}, LookupWith(t, s),
         Miss(t, s) \/ Invalidate(t, s)
  PROVE  OwnInv'
PROOF
  <1>1. /\ inst' = inst /\ permit' = [permit EXCEPT ![t] = s]
        /\ pc' = [pc EXCEPT ![t] = pc'[t]] /\ pc'[t] \in {"wait", "spawn", "removing", "replacing"}
    BY DEF Miss, Invalidate, Typed, TypeOK
  <1>2. \A p \in Paths : instances'[p] # None => instances'[p] = instances[p]
    BY Offer DEF Miss, Invalidate, registry, Typed, TypeOK
  <1>3. \A u \in Tasks : (u # t => permit'[u] = permit[u] /\ pc'[u] = pc[u]) /\ permit'[t] = s
    BY <1>1 DEF Typed, TypeOK
  <1>4. GenerationInv'
    BY <1>1, <1>2, <1>3, Offer DEF OwnInv, GenerationInv
  <1>5. PermitInv'
    <2>1. ASSUME NEW u \in Tasks, NEW v \in Tasks, permit'[u] # None, permit'[u] = permit'[v], u # v
          PROVE  pc'[u] = "dropping" \/ pc'[v] = "dropping" \/ (inst[u] # None /\ inst[u] = inst[v])
      BY <1>3, <2>1, Offer DEF OwnInv, PermitInv
    <2>2. ASSUME NEW u \in Tasks, NEW p \in Paths, permit'[u] # None, instances'[p] # None,
                 instances'[p].permit = permit'[u]
          PROVE  pc'[u] = "dropping" \/ inst[u] = instances'[p].inst
      BY <1>2, <1>3, <2>2, Offer DEF OwnInv, PermitInv
    <2> QED BY <1>1, <1>2, <2>1, <2>2 DEF OwnInv, PermitInv
  <1>6. LeaseInv'
    <2>1. Leasing' = Leasing
      BY <1>1, <1>3, Offer DEF Leasing
    <2>2. \A i : LeasesOn(i)' = LeasesOn(i)
      BY <1>1, <2>1 DEF LeasesOn
    <2>3. \A u \in Leasing : u # t /\ permit'[u] = permit[u] /\ inst'[u] = inst[u] /\ path'[u] = path[u]
      BY <1>1, <1>3, Offer
    <2>4. \A p \in Paths : instances'[p] # None =>
            instances'[p].leases = Cardinality(LeasesOn(instances'[p].inst)) /\ LeasesOn(instances'[p].inst) = LeasesOn(instances[p].inst)'
      BY <1>2, <2>2 DEF OwnInv, LeaseInv
    <2>5. \A u \in Leasing : path[u] \in Paths
      BY DEF Leasing, Typed, TypeOK, CallShape
    <2> QED BY <1>2, <2>1, <2>2, <2>3, <2>4, <2>5 DEF OwnInv, LeaseInv, Current, LeasesOn
  <1> QED BY <1>4, <1>5, <1>6 DEF OwnInv

\* An entry without a lease has no call with one.
LEMMA Counted ==
  ASSUME Typed, OwnInv, NEW u \in Leasing, NEW p \in Paths, instances[p] # None, instances[p].inst = inst[u]
  PROVE  /\ instances[p].leases > 0 /\ path[u] = p /\ instances[p].permit = permit[u]
         /\ \A v \in Leasing : instances[p].leases = 1 /\ inst[v] = inst[u] => u = v
PROOF
  <1>1. u \in LeasesOn(inst[u]) /\ IsFiniteSet(LeasesOn(inst[u]))
    BY FS_Subset DEF LeasesOn, OwnInv, LeaseInv
  <1>2. instances[p].leases = Cardinality(LeasesOn(inst[u]))
    BY DEF OwnInv, LeaseInv
  <1>3. Cardinality(LeasesOn(inst[u])) # 0 /\ Cardinality(LeasesOn(inst[u])) \in Nat
    BY <1>1, FS_EmptySet, FS_CardinalityType
  <1>4. path[u] = p
    BY DEF Leasing, OwnInv, GenerationInv
  <1>5. instances[p].permit = permit[u]
    BY <1>4 DEF OwnInv, LeaseInv, Current
  <1>6. ASSUME NEW v \in Leasing, Cardinality(LeasesOn(inst[u])) = 1, inst[v] = inst[u]
        PROVE  u = v
    <2>1. PICK x : LeasesOn(inst[u]) = {x}
      BY <1>1, <1>6, FS_Singleton
    <2>2. v \in LeasesOn(inst[u])
      BY <1>6 DEF LeasesOn
    <2> QED BY <1>1, <2>1, <2>2
  <1> QED BY <1>2, <1>3, <1>4, <1>5, <1>6

LEMMA HitKeepsOwn ==
  ASSUME Typed, OwnInv, NEW t \in Tasks, NEW s \in Permits \cup {None}, LookupWith(t, s), Hit(t, s)
  PROVE  OwnInv'
PROOF
  <1> DEFINE q == path[t]
             e == instances[q]
             x == PermitUsed(e, s)
  <1>1. /\ q \in Paths /\ e # None /\ e.inst \in Instances /\ e.fp = fp[t]
        /\ e.leases \in Nat /\ (e.leases > 0 <=> e.permit # None)
    BY Offer, EntryFields DEF Hit, Reusable, Registered, Stale
  <1>2. /\ instances'[q] # None /\ instances'[q].inst = e.inst /\ instances'[q].fp = e.fp
        /\ instances'[q].leases = e.leases + 1 /\ instances'[q].permit = x
        /\ \A p \in Paths : p # q => instances'[p] = instances[p]
    <2>1. e \in [inst : Instances, fp : Nat, leases : Nat, permit : Permits \cup {None}]
      BY <1>1, EntryFields
    <2>2. instances' = [instances EXCEPT ![q] = [e EXCEPT !.leases = @ + 1, !.permit = x]]
      BY DEF Hit
    <2>3. [e EXCEPT !.leases = @ + 1, !.permit = x] # None
      <3>1. x \in Permits
        BY <1>1, <2>1 DEF Hit, PermitSuffices, PermitUsed
      <3>2. e \in Entry
        BY <1>1 DEF Typed, TypeOK
      <3>3. [e EXCEPT !.leases = @ + 1, !.permit = x] \in ActiveEntry
        BY <3>1, <3>2, LeaseEntry
      <3> QED BY <3>3, NoneAssumption DEF Entry
    <2> QED BY <1>1, <2>1, <2>2, <2>3 DEF Typed, TypeOK
  <1>3. /\ inst'[t] = e.inst /\ permit'[t] = x /\ pc'[t] = "cleanup"
        /\ \A u \in Tasks : u # t => inst'[u] = inst[u] /\ permit'[u] = permit[u] /\ pc'[u] = pc[u]
        /\ path' = path /\ fp' = fp
    BY Offer DEF Hit, Typed, TypeOK
  <1>4. /\ x # None
        /\ x # e.permit => /\ e.leases = 0
                          /\ \A u \in Tasks : permit[u] # x
                          /\ \A p \in Paths : instances[p] # None => instances[p].permit # x
    BY <1>1, Offer, ManagerAssumption DEF Hit, PermitSuffices, PermitUsed
  <1>5. \A u \in Tasks, p \in Paths : inst[u] # None /\ instances[p] # None /\ instances[p].inst = inst[u] =>
          pc[u] # "spawning" /\ path[u] = p /\ fp[u] = instances[p].fp
    BY DEF OwnInv, GenerationInv
  <1>6. e.inst # None
    BY <1>1, ManagerAssumption
  <1> HIDE DEF q, e, x
  <1>7. GenerationInv'
    <2>1. \A p \in Paths : /\ instances'[p] # None <=> instances[p] # None
                           /\ instances'[p] # None => instances'[p].inst = instances[p].inst /\ instances'[p].fp = instances[p].fp
      BY <1>1, <1>2 DEF e
    <2>2. \A p \in Paths, r \in Paths :
            instances'[p] # None /\ instances'[r] # None /\ instances'[p].inst = instances'[r].inst => p = r
      BY <2>1 DEF OwnInv, GenerationInv
    <2>3. ASSUME NEW u \in Tasks, NEW p \in Paths, inst'[u] # None, instances'[p] # None, instances'[p].inst = inst'[u]
          PROVE  pc'[u] # "spawning" /\ path[u] = p /\ fp[u] = instances'[p].fp
      <3>1. CASE u = t
        <4>1. p = q
          BY <1>1, <1>2, <1>3, <2>1, <2>2, <2>3, <3>1 DEF e
        <4> QED BY <1>1, <1>2, <1>3, <3>1, <4>1 DEF q
      <3>2. CASE u # t
        BY <1>3, <1>5, <2>1, <2>3, <3>2
      <3> QED BY <3>1, <3>2
    <2>4. ASSUME NEW u \in Tasks, NEW v \in Tasks, inst'[u] # None, inst'[u] = inst'[v]
          PROVE  path[u] = path[v] /\ fp[u] = fp[v] /\ (pc'[u] = "spawning" => u = v)
      <3>1. ASSUME NEW w \in Tasks, w # t, inst[w] = e.inst
            PROVE  path[w] = path[t] /\ fp[w] = fp[t] /\ pc[w] # "spawning"
        BY <1>1, <1>5, <1>6, <3>1 DEF e, q
      <3>2. CASE u # t /\ v # t
        BY <1>3, <2>4, <3>2 DEF OwnInv, GenerationInv
      <3> QED BY <1>3, <2>4, <3>1, <3>2
    <2> QED BY <1>3, <2>2, <2>3, <2>4 DEF GenerationInv
  <1>8. ASSUME NEW u \in Tasks, u # t, permit[u] = x, pc[u] # "dropping"
        PROVE  inst[u] = e.inst
    BY <1>1, <1>4, <1>8 DEF e, OwnInv, PermitInv
  <1>9. ASSUME NEW p \in Paths, p # q, instances[p] # None
        PROVE  instances[p].permit # x
    BY <1>1, <1>4, <1>9 DEF e, OwnInv, PermitInv
  <1>10. PermitInv'
    <2>1. ASSUME NEW u \in Tasks, NEW v \in Tasks, permit'[u] # None, permit'[u] = permit'[v], u # v,
                 pc'[u] # "dropping", pc'[v] # "dropping"
          PROVE  inst'[u] # None /\ inst'[u] = inst'[v]
      <3>1. CASE u # t /\ v # t
        BY <1>3, <2>1, <3>1 DEF OwnInv, PermitInv
      <3> QED BY <1>3, <1>6, <1>8, <2>1, <3>1
    <2>2. ASSUME NEW u \in Tasks, NEW p \in Paths, permit'[u] # None, instances'[p] # None,
                 instances'[p].permit = permit'[u], pc'[u] # "dropping"
          PROVE  inst'[u] = instances'[p].inst
      <3>1. CASE u # t /\ p # q
        BY <1>2, <1>3, <2>2, <3>1 DEF OwnInv, PermitInv
      <3> QED BY <1>2, <1>3, <1>8, <1>9, <2>2, <3>1
    <2>3. ASSUME NEW p \in Paths, NEW r \in Paths, instances'[p] # None, instances'[r] # None,
                 instances'[p].permit # None, instances'[p].permit = instances'[r].permit
          PROVE  p = r
      <3>1. CASE p # q /\ r # q
        BY <1>2, <2>3, <3>1 DEF OwnInv, PermitInv
      <3> QED BY <1>2, <1>9, <2>3, <3>1
    <2> QED BY <2>1, <2>2, <2>3 DEF PermitInv
  <1>11. LeaseInv'
    <2>1. Leasing' = Leasing \cup {t} /\ t \notin Leasing
      BY <1>3, <1>6, Offer DEF Leasing
    <2>0. \A u \in Leasing : u \in Tasks /\ u # t /\ inst[u] # None /\ path[u] \in Paths
      BY <2>1 DEF Leasing, Typed, TypeOK, CallShape
    <2>2. IsFiniteSet(Leasing')
      BY <2>1, FS_AddElement DEF OwnInv, LeaseInv
    <2>3. \A i : LeasesOn(i)' = IF i = e.inst THEN LeasesOn(i) \cup {t} ELSE LeasesOn(i)
      BY <1>3, <2>1 DEF LeasesOn, Leasing
    <2>4. ASSUME NEW p \in Paths, instances'[p] # None, NEW i, i = instances'[p].inst
          PROVE  instances'[p].leases = Cardinality(LeasesOn(i)')
      <3>1. CASE p = q
        <4>1. IsFiniteSet(LeasesOn(e.inst)) /\ t \notin LeasesOn(e.inst)
          BY <2>1, FS_Subset DEF OwnInv, LeaseInv, LeasesOn
        <4>2. Cardinality(LeasesOn(e.inst) \cup {t}) = Cardinality(LeasesOn(e.inst)) + 1
          BY <4>1, FS_AddElement
        <4>3. e.leases = Cardinality(LeasesOn(e.inst))
          BY <1>1 DEF e, OwnInv, LeaseInv
        <4> QED BY <1>2, <2>3, <2>4, <3>1, <4>2, <4>3
      <3>2. CASE p # q
        <4>1. instances'[p] = instances[p] /\ instances[p].inst # e.inst
          BY <1>1, <1>2, <2>4, <3>2 DEF e, OwnInv, GenerationInv
        <4> QED BY <2>3, <2>4, <4>1 DEF OwnInv, LeaseInv
      <3> QED BY <3>1, <3>2
    <2>5. ASSUME NEW u \in Leasing, inst[u] = e.inst
          PROVE  permit[u] = x
      BY <1>1, <1>4, <2>5, Counted DEF e
    <2>6. ASSUME NEW u \in Leasing', Current(u)'
          PROVE  instances'[path[u]].permit = permit'[u]
      <3>1. CASE u = t
        BY <1>2, <1>3, <3>1 DEF q
      <3>2. CASE u # t /\ path[u] = q
        BY <1>2, <1>3, <2>0, <2>1, <2>5, <2>6, <3>2 DEF Current
      <3>3. CASE u # t /\ path[u] # q
        BY <1>2, <1>3, <2>0, <2>1, <2>6, <3>3 DEF Current, OwnInv, LeaseInv
      <3> QED BY <3>1, <3>2, <3>3
    <2>7. ASSUME NEW u \in Leasing', NEW v \in Leasing', inst'[u] = inst'[v]
          PROVE  permit'[u] = permit'[v]
      <3>1. CASE u # t /\ v # t
        BY <1>3, <2>0, <2>1, <2>7, <3>1 DEF OwnInv, LeaseInv
      <3> QED BY <1>3, <2>0, <2>1, <2>5, <2>7, <3>1
    <2>8. \A p \in Paths : instances'[p] # None => instances'[p].leases = Cardinality(LeasesOn(instances[p].inst)')
      BY <2>4 DEF LeasesOn
    <2> QED BY <1>3, <2>2, <2>6, <2>7, <2>8 DEF LeaseInv
  <1> QED BY <1>7, <1>10, <1>11 DEF OwnInv

\* A new process has an identity that nobody refers to.
LEMMA SpawnStartKeepsOwn ==
  ASSUME Typed, OwnInv, NEW t \in Tasks, SpawnStart(t)
  PROVE  OwnInv'
PROOF
  <1>1. PICK i \in Instances : /\ ~InstanceHeld(i) /\ inst' = [inst EXCEPT ![t] = i]
                              /\ pc' = [pc EXCEPT ![t] = "spawning"]
                              /\ UNCHANGED <<registry, path, fp, permit>>
    BY AnyOfMember DEF SpawnStart, FreeInstances, call
  <1>2. /\ inst'[t] = i /\ pc'[t] = "spawning" /\ inst[t] = None /\ i # None
        /\ \A u \in Tasks : u # t => inst'[u] = inst[u] /\ pc'[u] = pc[u]
        /\ \A u \in Tasks : inst[u] # i
        /\ \A p \in Paths : instances[p] # None => instances[p].inst # i
    BY <1>1, ManagerAssumption DEF SpawnStart, InstanceHeld, Typed, TypeOK, CallShape
  <1>3. GenerationInv'
    BY <1>1, <1>2 DEF registry, OwnInv, GenerationInv
  <1>4. PermitInv'
    <2>1. \A p \in Paths : instances[p] # None => instances[p].inst # None
      BY EntryFields, ManagerAssumption
    <2>2. permit' = permit /\ instances' = instances /\ \A u \in Tasks : pc'[u] # "dropping" /\ u # t => pc[u] # "dropping"
      BY <1>1, <1>2 DEF registry
    <2>3. pc[t] # "dropping"
      BY DEF SpawnStart
    <2> QED BY <1>2, <2>1, <2>2, <2>3 DEF OwnInv, PermitInv
  <1>5. LeaseInv'
    <2>1. Leasing' = Leasing /\ t \notin Leasing
      BY <1>1, <1>2 DEF SpawnStart, Leasing
    <2>2. \A u \in Leasing : u \in Tasks /\ u # t /\ inst'[u] = inst[u]
      BY <1>2, <2>1 DEF Leasing
    <2>3. \A j : LeasesOn(j)' = LeasesOn(j)
      BY <2>1, <2>2 DEF LeasesOn
    <2>4. \A p \in Paths : LeasesOn(instances[p].inst)' = LeasesOn(instances[p].inst)
      BY <1>1, <2>3 DEF registry, LeasesOn
    <2> QED BY <1>1, <2>1, <2>2, <2>4 DEF registry, OwnInv, LeaseInv, Current
  <1> QED BY <1>3, <1>4, <1>5 DEF OwnInv

LEMMA SpawnReadyKeepsOwn ==
  ASSUME Typed, OwnInv, NEW t \in Tasks, SpawnReady(t)
  PROVE  OwnInv'
PROOF
  <1> DEFINE q == path[t]
  <1>1. /\ q \in Paths /\ pc[t] = "spawning" /\ inst[t] # None /\ permit[t] # None
        /\ UNCHANGED <<inst, permit, path, fp>>
        /\ pc'[t] = "cleanup" /\ \A u \in Tasks : u # t => pc'[u] = pc[u]
    BY DEF SpawnReady, call, held, Typed, TypeOK, CallShape
  <1>2. /\ instances'[q] # None /\ instances'[q].inst = inst[t] /\ instances'[q].fp = fp[t]
        /\ instances'[q].leases = 1 /\ instances'[q].permit = permit[t]
        /\ \A p \in Paths : p # q => instances'[p] = instances[p]
    <2>1. [inst |-> inst[t], fp |-> fp[t], leases |-> 1, permit |-> permit[t]] \in ActiveEntry
      BY <1>1 DEF ActiveEntry, Typed, TypeOK
    <2> QED BY <1>1, <2>1, NoneAssumption DEF SpawnReady, Typed, TypeOK, Entry
  <1>3. /\ \A u \in Tasks : inst[u] = inst[t] => u = t
        /\ \A p \in Paths : instances[p] # None => instances[p].inst # inst[t]
    BY <1>1 DEF OwnInv, GenerationInv
  <1> HIDE DEF q
  <1>4. GenerationInv'
    <2>1. ASSUME NEW p \in Paths, NEW r \in Paths, instances'[p] # None, instances'[r] # None,
                 instances'[p].inst = instances'[r].inst
          PROVE  p = r
      BY <1>2, <1>3, <2>1 DEF OwnInv, GenerationInv
    <2>2. ASSUME NEW u \in Tasks, NEW p \in Paths, inst[u] # None, instances'[p] # None, instances'[p].inst = inst[u]
          PROVE  pc'[u] # "spawning" /\ path[u] = p /\ fp[u] = instances'[p].fp
      <3>1. CASE p = q
        BY <1>1, <1>2, <1>3, <2>2, <3>1 DEF q
      <3>2. CASE p # q
        BY <1>1, <1>2, <1>3, <2>2, <3>2 DEF OwnInv, GenerationInv
      <3> QED BY <3>1, <3>2
    <2>3. ASSUME NEW u \in Tasks, NEW v \in Tasks, inst[u] # None, inst[u] = inst[v]
          PROVE  path[u] = path[v] /\ fp[u] = fp[v] /\ (pc'[u] = "spawning" => u = v)
      BY <1>1, <1>3, <2>3 DEF OwnInv, GenerationInv
    <2> QED BY <1>1, <2>1, <2>2, <2>3 DEF GenerationInv
  <1>5. ASSUME NEW p \in Paths, p # q, instances[p] # None
        PROVE  instances[p].permit # permit[t]
    BY <1>1, <1>3, <1>5 DEF OwnInv, PermitInv
  <1>6. PermitInv'
    BY <1>1, <1>2, <1>3, <1>5 DEF OwnInv, PermitInv
  <1>7. LeaseInv'
    <2>1. Leasing' = Leasing \cup {t} /\ t \notin Leasing
      BY <1>1 DEF Leasing
    <2>2. IsFiniteSet(Leasing')
      BY <2>1, FS_AddElement DEF OwnInv, LeaseInv
    <2>3. /\ \A u \in Leasing : u \in Tasks /\ u # t /\ inst[u] # inst[t] /\ path[u] \in Paths
          /\ \A i : LeasesOn(i)' = IF i = inst[t] THEN {t} ELSE LeasesOn(i)
      BY <1>1, <1>3, <2>1 DEF LeasesOn, Leasing, Typed, TypeOK, CallShape
    <2>4. ASSUME NEW p \in Paths, instances'[p] # None, NEW i, i = instances'[p].inst
          PROVE  instances'[p].leases = Cardinality(LeasesOn(i)')
      <3>1. CASE p = q
        BY <1>2, <2>3, <2>4, <3>1, FS_Singleton
      <3>2. CASE p # q
        BY <1>2, <1>3, <2>3, <2>4, <3>2 DEF OwnInv, LeaseInv
      <3> QED BY <3>1, <3>2
    <2>5. \A p \in Paths : instances'[p] # None => instances'[p].leases = Cardinality(LeasesOn(instances[p].inst)')
      BY <2>4 DEF LeasesOn
    <2>6. ASSUME NEW u \in Leasing', Current(u)'
          PROVE  instances'[path[u]].permit = permit[u]
      BY <1>1, <1>2, <2>1, <2>3, <2>6 DEF q, Current, OwnInv, LeaseInv
    <2>7. ASSUME NEW u \in Leasing', NEW v \in Leasing', inst[u] = inst[v]
          PROVE  permit[u] = permit[v]
      BY <2>1, <2>3, <2>7 DEF OwnInv, LeaseInv
    <2> QED BY <1>1, <2>2, <2>5, <2>6, <2>7 DEF LeaseInv
  <1> QED BY <1>4, <1>6, <1>7 DEF OwnInv

\* A call that has no lease gives back what it has.
LEMMA EndKeepsOwn ==
  ASSUME Typed, OwnInv, NEW t \in Tasks,
         SpawnFails(t) \/ Cancel(t) \/ DropInstance(t) \/ DropPermit(t)
  PROVE  OwnInv'
PROOF
  <1>1. /\ inst'[t] = None /\ pc'[t] # "spawning" /\ UNCHANGED instances
        /\ permit'[t] = None \/ pc'[t] = "dropping"
        /\ \A u \in Tasks : u # t => /\ inst'[u] = inst[u] /\ permit'[u] = permit[u] /\ pc'[u] = pc[u]
                                    /\ path'[u] = path[u] /\ fp'[u] = fp[u]
    BY DEF SpawnFails, Cancel, DropInstance, DropPermit, registry, locking, call, Typed, TypeOK, CallShape
  <1>2. t \notin Leasing
    BY DEF SpawnFails, Cancel, DropInstance, DropPermit, Leasing, Typed, CallShape
  <1>3. GenerationInv'
    BY <1>1 DEF OwnInv, GenerationInv
  <1>4. PermitInv'
    BY <1>1 DEF OwnInv, PermitInv
  <1>5. LeaseInv'
    <2>1. Leasing' = Leasing
      BY <1>1, <1>2 DEF Leasing
    <2>2. \A u \in Leasing : /\ u \in Tasks /\ u # t /\ inst'[u] = inst[u] /\ permit'[u] = permit[u]
                            /\ path'[u] = path[u]
      BY <1>1, <1>2 DEF Leasing
    <2>3. \A i : LeasesOn(i)' = LeasesOn(i)
      BY <2>1, <2>2 DEF LeasesOn
    <2>4. \A p \in Paths : LeasesOn(instances[p].inst)' = LeasesOn(instances[p].inst)
      BY <1>1, <2>3 DEF LeasesOn
    <2> QED BY <1>1, <2>1, <2>2, <2>4 DEF OwnInv, LeaseInv, Current
  <1> QED BY <1>3, <1>4, <1>5 DEF OwnInv

\* A lease less, which the entry of its generation no longer counts.
LEMMA DropLeaseKeepsOwn ==
  ASSUME Typed, OwnInv, NEW t \in Tasks, DropLease(t)
  PROVE  OwnInv'
PROOF
  <1>1. /\ UNCHANGED <<inst, permit, path, fp>> /\ t \in Leasing /\ path[t] \in Paths
        /\ \A u \in Tasks : pc'[u] = pc[u] \/ (u = t /\ pc'[u] \in {"releasing", "evicting"})
        /\ pc'[t] \in {"releasing", "evicting"}
    BY DEF DropLease, ReleaseNothing, ReleaseShared, ReleaseLast, call, Leasing, Typed, TypeOK, CallShape
  <1>2. Leasing' = Leasing \ {t}
    BY <1>1 DEF Leasing
  <1>3. \A i : LeasesOn(i)' = LeasesOn(i) \ {t}
    BY <1>1, <1>2 DEF LeasesOn
  <1>4. \A p \in Paths : instances'[p] # None =>
          /\ instances[p] # None /\ instances'[p].inst = instances[p].inst /\ instances'[p].fp = instances[p].fp
          /\ \/ instances'[p] = instances[p] /\ instances[p].inst # inst[t]
             \/ /\ instances[p].inst = inst[t] /\ instances'[p].leases = instances[p].leases - 1
                /\ \/ instances'[p].permit = instances[p].permit
                   \/ instances'[p].permit = None /\ instances[p].leases = 1
    <2>1. \A p \in Paths : instances[p] # None =>
             /\ instances[p] \in [inst : Instances, fp : Nat, leases : Nat, permit : Permits \cup {None}]
             /\ (instances[p].inst = inst[t] => p = path[t] /\ instances[p].leases > 0)
      BY EntryFields, Counted, <1>1
    <2>2. CASE ReleaseNothing(t)
      BY <2>1, <2>2 DEF ReleaseNothing, registry, Current
    <2>3. CASE ReleaseShared(t)
      BY <1>1, <2>1, <2>3 DEF ReleaseShared, Current, Typed, TypeOK
    <2>4. CASE ReleaseLast(t)
      <3>1. instances[path[t]].leases = 1 /\ instances[path[t]] # None /\ instances[path[t]].inst = inst[t]
        BY <2>4 DEF ReleaseLast, Current
      <3>2. \A p \in Paths : \/ p = path[t] /\ instances'[p] = [instances[p] EXCEPT !.leases = 0, !.permit = None]
                             \/ p # path[t] /\ instances'[p] \in {instances[p], None}
        BY <2>4 DEF ReleaseLast
      <3>3. ASSUME NEW p \in Paths, p = path[t], instances'[p] # None
            PROVE  /\ instances'[p].inst = instances[p].inst /\ instances'[p].fp = instances[p].fp
                   /\ instances'[p].leases = instances[p].leases - 1 /\ instances'[p].permit = None
        <4>1. PICK e : e = instances[p]
          OBVIOUS
        <4>2. instances'[p] = [e EXCEPT !.leases = 0, !.permit = None] /\ e.leases = 1
          BY <3>1, <3>2, <3>3, <4>1
        <4>3. e \in [inst : Instances, fp : Nat, leases : Nat, permit : Permits \cup {None}]
          BY <2>1, <3>1, <3>3, <4>1
        <4> QED BY <4>1, <4>2, <4>3
      <3>4. ASSUME NEW p \in Paths, p # path[t], instances'[p] # None
            PROVE  instances'[p] = instances[p] /\ instances[p] # None /\ instances[p].inst # inst[t]
        <4>1. instances'[p] = instances[p]
          BY <3>2, <3>4
        <4> QED BY <2>1, <3>4, <4>1
      <3> QED BY <1>1, <3>1, <3>3, <3>4
    <2> QED BY <2>2, <2>3, <2>4 DEF DropLease
  <1>5. GenerationInv'
    BY <1>1, <1>4 DEF OwnInv, GenerationInv
  <1>6. PermitInv'
    BY <1>1, <1>4 DEF OwnInv, PermitInv, Leasing
  <1>7. LeaseInv'
    <2>1. IsFiniteSet(Leasing')
      BY <1>2, FS_RemoveElement DEF OwnInv, LeaseInv
    <2>2. ASSUME NEW p \in Paths, instances'[p] # None, NEW i, i = instances'[p].inst
          PROVE  instances'[p].leases = Cardinality(LeasesOn(i)')
      <3>1. IsFiniteSet(LeasesOn(i)) /\ instances[p].leases = Cardinality(LeasesOn(i)) /\ i = instances[p].inst
        BY <1>4, <2>2, FS_Subset DEF OwnInv, LeaseInv, LeasesOn
      <3>2. CASE i # inst[t]
        <4>1. LeasesOn(i) \ {t} = LeasesOn(i)
          BY <3>2 DEF LeasesOn
        <4> QED BY <1>3, <1>4, <2>2, <3>1, <3>2, <4>1
      <3>3. CASE i = inst[t]
        <4>1. t \in LeasesOn(i)
          BY <1>1, <3>3 DEF LeasesOn
        <4>2. Cardinality(LeasesOn(i) \ {t}) = Cardinality(LeasesOn(i)) - 1
          BY <3>1, <4>1, FS_RemoveElement
        <4> QED BY <1>3, <1>4, <2>2, <3>1, <3>3, <4>2
      <3> QED BY <3>2, <3>3
    <2>3. \A p \in Paths : instances'[p] # None => instances'[p].leases = Cardinality(LeasesOn(instances[p].inst)')
      BY <2>2 DEF LeasesOn
    <2>4. \A u \in Leasing : u \in Tasks /\ path[u] \in Paths
      BY DEF Leasing, Typed, TypeOK, CallShape
    <2>5. ASSUME NEW u \in Leasing', Current(u)'
          PROVE  instances'[path[u]].permit = permit[u]
      <3>1. u \in Leasing /\ u # t /\ Current(u) /\ instances'[path[u]].inst = inst[u] /\ path[u] \in Paths
            /\ instances'[path[u]] # None
        BY <1>1, <1>2, <1>4, <2>4, <2>5 DEF Current
      <3>2. instances[path[u]].permit = permit[u]
        BY <3>1 DEF OwnInv, LeaseInv
      <3>3. instances[path[u]].leases = 1 => instances[path[u]].inst # inst[t]
        BY <1>1, <3>1, Counted DEF Current
      <3> QED BY <1>4, <3>1, <3>2, <3>3
    <2> QED BY <1>1, <1>2, <2>1, <2>3, <2>5 DEF OwnInv, LeaseInv
  <1> QED BY <1>5, <1>6, <1>7 DEF OwnInv

LEMMA OwnInvKept == Typed /\ OwnInv /\ [Next]_vars => OwnInv'
PROOF
  <1> SUFFICES ASSUME Typed, OwnInv, [Next]_vars PROVE OwnInv'
    OBVIOUS
  <1>1. ASSUME NEW t \in Tasks, FirstLookup(t) \/ SecondLookup(t)
        PROVE  OwnInv'
    <2>1. PICK s \in Permits \cup {None} : LookupWith(t, s) /\ CachedClient(t, s)
      BY <1>1, LookupSteps
    <2>2. CASE NeedsPermit(t, s) \/ PollFails(t)
      BY <2>1, <2>2, QuietSteps, QuietKeepsOwn
    <2> QED BY <2>1, <2>2, MissKeepsOwn, HitKeepsOwn DEF CachedClient
  <1>2. ASSUME NEW t \in Tasks, Proceed(t), ~FirstLookup(t), ~SecondLookup(t)
        PROVE  OwnInv'
    BY <1>2, QuietSteps, QuietKeepsOwn, SpawnStartKeepsOwn, SpawnReadyKeepsOwn, EndKeepsOwn, DropLeaseKeepsOwn
      DEF Proceed, DropFields
  <1>3. ASSUME NEW t \in Tasks, Cancel(t) \/ \E p \in Asks[t] : Resolve(t, p)
        PROVE  OwnInv'
    BY <1>3, EndKeepsOwn, QuietSteps, QuietKeepsOwn
  <1>4. CASE \/ \E p \in Paths : WriteFile(p)
             \/ \E i \in Instances : Exit(i)
             \/ UNCHANGED vars
    BY <1>4, QuietWorld, QuietKeepsOwn
  <1> QED BY <1>1, <1>2, <1>3, <1>4 DEF Next
-----------------------------------------------------------------------------
LEMMA OwnInvHolds == Spec => [](Typed /\ OwnInv)
PROOF
  <1>1. Init => Typed /\ OwnInv
    BY InitTyped, InitOwn
  <1>2. Typed /\ OwnInv /\ [Next]_vars => (Typed /\ OwnInv)'
    BY NextTyped, OwnInvKept
  <1> QED BY <1>1, <1>2, PTL DEF Spec

\* release_lease and cached_client: active_leases is the number of leases on the registered
\* generation, however many generations of the path are detached.
THEOREM LeasesAreCounted == Spec => []LeasesCounted
PROOF
  <1>1. OwnInv => LeasesCounted
    BY DEF OwnInv, LeaseInv, LeasesCounted, LeasesOn
  <1> QED BY <1>1, OwnInvHolds, PTL

\* A permit in use is with a call that has an instance, spawns one, or drops one.
LEMMA PermitsHaveHolders ==
  ASSUME Typed, OwnInv, NEW s \in Permits \ FreePermits
  PROVE  \E t \in Tasks : /\ pc[t] \notin {"idle", "resolved", "queued", "wait"}
                          /\ permit[t] = s \/ (doomed[t] # None /\ doomed[t].permit = s)
PROOF
  <1>0. s # None
    BY ManagerAssumption
  <1>1. PermitHeld(s)
    BY DEF FreePermits
  <1>2. CASE \E t \in Tasks : permit[t] = s
    BY <1>0, <1>2 DEF Typed, CallShape
  <1>3. CASE \E t \in Tasks : doomed[t] # None /\ doomed[t].permit = s
    BY <1>3 DEF Typed, CallShape
  <1>4. CASE \E p \in Paths : instances[p] # None /\ instances[p].permit = s
    <2>1. PICK p \in Paths : instances[p] # None /\ instances[p].permit = s
      BY <1>4
    <2> DEFINE L == LeasesOn(instances[p].inst)
    <2>2. instances[p].leases > 0
      BY <1>0, <2>1, EntryFields
    <2>3. instances[p].leases = Cardinality(L)
      BY <2>1 DEF OwnInv, LeaseInv
    <2>4. L # {}
      <3> SUFFICES ASSUME L = {} PROVE FALSE
        OBVIOUS
      <3> HIDE DEF L
      <3>1. Cardinality(L) = 0
        BY FS_EmptySet
      <3> QED BY <2>2, <2>3, <3>1
    <2>5. PICK t \in Leasing : inst[t] = instances[p].inst
      BY <2>4 DEF LeasesOn
    <2>6. t \in Tasks /\ inst[t] # None /\ pc[t] \in {"cleanup", "returning", "leased"}
      BY <2>5 DEF Leasing
    <2>7. path[t] = p
      BY <2>1, <2>5, <2>6 DEF OwnInv, GenerationInv
    <2>8. permit[t] = s
      BY <2>1, <2>5, <2>7 DEF OwnInv, LeaseInv, Current
    <2> QED BY <2>6, <2>8
  <1> QED BY <1>1, <1>2, <1>3, <1>4 DEF PermitHeld

\* active_instance_slots: calls with one permit have one instance, a lease on the
\* registered generation has its permit, and a permit that is not free is with a call that
\* gives it back without waiting for a lock or a permit.
THEOREM PermitsAreApart == Spec => []PermitsCover
PROOF
  <1>1. ASSUME Typed, OwnInv
        PROVE  /\ \A t, u \in Tasks \ Dropping : permit[t] # None /\ permit[t] = permit[u] /\ t # u
                    => inst[t] # None /\ inst[t] = inst[u]
               /\ \A t \in Leasing : permit[t] # None /\ (Current(t) => instances[path[t]].permit = permit[t])
    BY <1>1 DEF OwnInv, PermitInv, LeaseInv, Leasing, Dropping, Typed, CallShape
  <1>2. Typed /\ OwnInv => PermitsCover
    BY <1>1, PermitsHaveHolders DEF PermitsCover
  <1> QED BY <1>2, OwnInvHolds, PTL

-----------------------------------------------------------------------------
\* The idle LRU, the processes alive and the pool.

\* A sequence without repetitions.
Once(q) == \A j, k \in 1..Len(q) : q[j] = q[k] => j = k

\* Pop removes the path, and nothing else.
LEMMA PopExact ==
  ASSUME NEW q \in Seq(Paths), NEW p \in Paths, Once(q)
  PROVE  /\ Once(Pop(q, p))
         /\ ToSet(Pop(q, p)) = ToSet(q) \ {p}
         /\ Len(Pop(q, p)) <= Len(q)
PROOF
  <1>1. CASE p \notin ToSet(q)
    BY <1>1 DEF Pop
  <1>2. CASE p \in ToSet(q)
    <2> DEFINE r == Pop(q, p)
    <2>1. PICK k \in 1..Len(q) : q[k] = p /\ r = RemoveAt(q, k)
      <3>1. \E k \in DOMAIN q : q[k] = p
        BY <1>2 DEF ToSet
      <3>2. PICK k \in DOMAIN q : k = CHOOSE j \in DOMAIN q : q[j] = p
        BY <3>1
      <3>3. q[k] = p /\ k \in 1..Len(q)
        BY <3>1, <3>2
      <3> QED BY <1>2, <3>2, <3>3 DEF Pop
    <2>2. /\ SubSeq(q, 1, k-1) \in Seq(Paths) /\ Len(SubSeq(q, 1, k-1)) = k - 1
          /\ \A i \in 1..k-1 : SubSeq(q, 1, k-1)[i] = q[i]
      BY <2>1, SubSeqProperties
    <2>3. /\ SubSeq(q, k+1, Len(q)) \in Seq(Paths) /\ Len(SubSeq(q, k+1, Len(q))) = Len(q) - k
          /\ \A i \in 1..Len(q)-k : SubSeq(q, k+1, Len(q))[i] = q[k+i]
      BY <2>1, SubSeqProperties
    <2>4. /\ r \in Seq(Paths) /\ Len(r) = Len(q) - 1
          /\ \A i \in 1..Len(q)-1 : r[i] = IF i < k THEN q[i] ELSE q[i+1]
      <3> DEFINE a == SubSeq(q, 1, k-1)
                 b == SubSeq(q, k+1, Len(q))
      <3>1. r = a \o b
        BY <2>1 DEF RemoveAt
      <3> HIDE DEF a, b, r
      <3>2. /\ a \in Seq(Paths) /\ Len(a) = k - 1 /\ \A i \in 1..k-1 : a[i] = q[i]
            /\ b \in Seq(Paths) /\ Len(b) = Len(q) - k /\ \A i \in 1..Len(q)-k : b[i] = q[k+i]
        BY <2>2, <2>3 DEF a, b
      <3>3. /\ r \in Seq(Paths) /\ Len(r) = Len(a) + Len(b)
            /\ \A i \in 1..Len(a)+Len(b) : r[i] = IF i <= Len(a) THEN a[i] ELSE b[i - Len(a)]
        BY <3>1, <3>2, ConcatProperties
      <3>4. k \in Nat /\ Len(q) \in Nat /\ 1 <= k /\ k <= Len(q)
        BY <2>1
      <3>5. Len(a) + Len(b) = Len(q) - 1
        BY <3>2, <3>4
      <3>6. ASSUME NEW i \in 1..Len(q)-1
            PROVE  r[i] = IF i < k THEN q[i] ELSE q[i+1]
        <4>1. CASE i < k
          <5>1. i \in 1..k-1 /\ i <= Len(a) /\ i \in 1..Len(a)+Len(b)
            BY <3>2, <3>4, <3>5, <4>1
          <5>2. r[i] = a[i] /\ a[i] = q[i]
            BY <3>2, <3>3, <5>1
          <5> QED BY <4>1, <5>2
        <4>2. CASE i >= k
          <5>1. i - Len(a) \in 1..Len(q)-k /\ k + (i - Len(a)) = i + 1 /\ ~(i <= Len(a))
            BY <3>2, <3>4, <4>2
          <5>2. r[i] = b[i - Len(a)]
            BY <3>3, <3>5, <5>1
          <5>3. b[i - Len(a)] = q[i+1]
            BY <3>2, <5>1
          <5> QED BY <3>4, <4>2, <5>2, <5>3
        <4> QED BY <3>4, <4>1, <4>2
      <3> QED BY <3>3, <3>5, <3>6
    <2>5. Once(r)
      BY <2>1, <2>4 DEF Once
    <2>6. ToSet(r) = ToSet(q) \ {p}
      <3> HIDE DEF r
      <3>1. ASSUME NEW i \in 1..Len(q)-1
            PROVE  r[i] \in ToSet(q) \ {p}
        BY <2>1, <2>4 DEF Once, ToSet
      <3>2. ASSUME NEW j \in 1..Len(q), q[j] # p
            PROVE  \E i \in 1..Len(q)-1 : r[i] = q[j]
        <4>1. CASE j < k
          BY <2>1, <2>4, <4>1
        <4>2. CASE j > k
          <5>1. j - 1 \in 1..Len(q)-1 /\ r[j-1] = q[j]
            BY <2>1, <2>4, <4>2
          <5> QED BY <5>1
        <4> QED BY <2>1, <3>2, <4>1, <4>2
      <3>3. ToSet(r) = {r[i] : i \in 1..Len(q)-1} /\ ToSet(q) = {q[j] : j \in 1..Len(q)}
        BY <2>4 DEF ToSet
      <3>4. \A x \in ToSet(q) \ {p} : x \in ToSet(r)
        BY <3>2, <3>3
      <3> QED BY <3>1, <3>3, <3>4
    <2> QED BY <2>4, <2>5, <2>6
  <1> QED BY <1>1, <1>2

\* A path pushed comes last, and in a full LRU takes the place of the first.
LEMMA PushExact ==
  ASSUME NEW q \in Seq(Paths), NEW p \in Paths, Once(q), p \notin ToSet(q), Len(q) <= MaxIdle
  PROVE  /\ Once(Push(q, p)) /\ Len(Push(q, p)) <= MaxIdle
         /\ ~PushFull(q, p) => ToSet(Push(q, p)) = ToSet(q) \cup {p}
         /\ PushFull(q, p) => /\ Head(q) \in ToSet(q)
                              /\ ToSet(Push(q, p)) = (ToSet(q) \ {Head(q)}) \cup {p}
PROOF
  <1> DEFINE r == Push(q, p)
  <1>1. CASE ~PushFull(q, p)
    <2>1. r = Append(q, p) /\ Len(q) < MaxIdle
      BY <1>1, ManagerAssumption DEF Push, Pop, PushFull
    <2>2. Len(r) = Len(q) + 1 /\ (\A i \in 1..Len(q) : r[i] = q[i]) /\ r[Len(q)+1] = p
      BY <2>1, AppendProperties
    <2> HIDE DEF r
    <2>3. Once(r)
      BY <2>2 DEF Once, ToSet
    <2>4. ToSet(r) = ToSet(q) \cup {p}
      <3>1. DOMAIN r = 1..Len(q)+1 /\ DOMAIN q = 1..Len(q)
        BY <2>1, <2>2, AppendProperties
      <3> QED BY <2>2, <3>1 DEF ToSet
    <2> QED BY <1>1, <2>1, <2>2, <2>3, <2>4, ManagerAssumption DEF r
  <1>2. CASE PushFull(q, p)
    <2>1. q # <<>> /\ Len(q) = MaxIdle
      BY <1>2, ManagerAssumption DEF PushFull
    <2>2. /\ Tail(q) \in Seq(Paths) /\ Len(Tail(q)) = Len(q) - 1
          /\ \A i \in 1..Len(q)-1 : Tail(q)[i] = q[i+1]
      BY <2>1, HeadTailProperties
    <2>3. r = Append(Tail(q), p)
      BY <1>2 DEF Push
    <2>4. /\ r \in Seq(Paths) /\ Len(r) = Len(q) /\ r[Len(q)] = p
          /\ \A i \in 1..Len(q)-1 : r[i] = q[i+1]
      BY <2>1, <2>2, <2>3, AppendProperties
    <2>5. Head(q) = q[1] /\ 1 \in 1..Len(q)
      BY <2>1
    <2> HIDE DEF r
    <2>6. Once(r)
      BY <2>4 DEF Once, ToSet
    <2>7. ToSet(r) = (ToSet(q) \ {Head(q)}) \cup {p}
      <3>1. ASSUME NEW i \in 1..Len(q)
            PROVE  r[i] \in (ToSet(q) \ {Head(q)}) \cup {p}
        BY <2>4, <2>5 DEF Once, ToSet
      <3>2. ASSUME NEW j \in 1..Len(q), q[j] # Head(q)
            PROVE  \E i \in 1..Len(q) : r[i] = q[j]
        <4>1. j - 1 \in 1..Len(q)-1 /\ r[j-1] = q[j]
          BY <2>4, <2>5, <3>2
        <4> QED BY <4>1
      <3> QED BY <2>4, <2>5, <3>1, <3>2 DEF ToSet
    <2>8. Head(q) \in ToSet(q)
      BY <2>5 DEF ToSet
    <2>9. Len(r) <= MaxIdle
      BY <2>1, <2>4, ManagerAssumption
    <2> QED BY <1>2, <2>6, <2>7, <2>8, <2>9 DEF r
  <1> QED BY <1>1, <1>2

IdlePaths == {p \in Paths : instances[p] # None /\ instances[p].leases = 0}

IdleInv == ToSet(idle) = IdlePaths /\ Once(idle) /\ Len(idle) <= MaxIdle

LEMMA IdleInvKept == Typed /\ LockInv /\ Unregistered /\ IdleInv /\ [Next]_vars => IdleInv'
PROOF
  <1> SUFFICES ASSUME Typed, LockInv, Unregistered, IdleInv, [Next]_vars PROVE IdleInv'
    OBVIOUS
  <1>0. /\ idle \in Seq(Paths) /\ instances \in [Paths -> Entry \cup {None}]
        /\ \A p \in Paths : instances[p] # None =>
             instances[p] \in [inst : Instances, fp : Nat, leases : Nat, permit : Permits \cup {None}]
    BY EntryFields DEF Typed, TypeOK
  <1>1. ASSUME NEW p \in Paths, idle' = Pop(idle, p), IdlePaths' = IdlePaths \ {p}
        PROVE  IdleInv'
    <2>1. Once(idle') /\ ToSet(idle') = ToSet(idle) \ {p} /\ Len(idle') <= Len(idle)
      BY <1>0, <1>1, PopExact DEF IdleInv
    <2>2. Len(idle') \in Nat /\ Len(idle) \in Nat
      BY <1>0, <1>1, PopSeq
    <2>3. Len(idle') <= MaxIdle
      BY <2>1, <2>2, ManagerAssumption DEF IdleInv
    <2>4. ToSet(idle') = IdlePaths'
      BY <1>1, <2>1 DEF IdleInv
    <2> QED BY <2>1, <2>3, <2>4 DEF IdleInv, Once, ToSet
  <1>2. ASSUME idle' = idle, IdlePaths' = IdlePaths
        PROVE  IdleInv'
    BY <1>2 DEF IdleInv, Once, ToSet
  <1>3. ASSUME NEW t \in Tasks, FirstLookup(t) \/ SecondLookup(t)
        PROVE  IdleInv'
    <2>1. PICK s \in Permits \cup {None} : LookupWith(t, s) /\ CachedClient(t, s)
      BY <1>3, LookupSteps
    <2>2. path[t] \in Paths
      BY <2>1, LookupCall
    <2>3. CASE Miss(t, s) \/ NeedsPermit(t, s) \/ PollFails(t)
      BY <1>2, <2>3 DEF Miss, NeedsPermit, PollFails, registry, IdlePaths
    <2>4. CASE Invalidate(t, s)
      <3>1. IdlePaths' = IdlePaths \ {path[t]}
        BY <1>0, <2>2, <2>4 DEF Invalidate, IdlePaths
      <3> QED BY <1>1, <2>2, <2>4, <3>1 DEF Invalidate
    <2>5. CASE Hit(t, s)
      <3> DEFINE e == instances[path[t]]
      <3>1. e # None /\ e.leases + 1 # 0
        BY <1>0, <2>2, <2>5 DEF Hit, Reusable, Registered
      <3>2. /\ \A p \in Paths : p # path[t] => instances'[p] = instances[p]
            /\ instances'[path[t]].leases = e.leases + 1
        BY <1>0, <2>2, <2>5, <3>1 DEF Hit
      <3>3. IdlePaths' = IdlePaths \ {path[t]}
        BY <3>1, <3>2 DEF IdlePaths
      <3> QED BY <1>1, <2>2, <2>5, <3>3 DEF Hit
    <2> QED BY <2>1, <2>3, <2>4, <2>5 DEF CachedClient
  <1>4. ASSUME NEW t \in Tasks, SpawnReady(t)
        PROVE  IdleInv'
    <2>1. path[t] \in Paths /\ instances[path[t]] = None
      BY <1>4 DEF SpawnReady, Unregistered, Typed, TypeOK, CallShape
    <2>2. /\ \A p \in Paths : p # path[t] => instances'[p] = instances[p]
          /\ instances'[path[t]].leases = 1
      BY <1>0, <1>4, <2>1 DEF SpawnReady
    <2>3. IdlePaths' = IdlePaths
      BY <2>1, <2>2 DEF IdlePaths
    <2> QED BY <1>2, <1>4, <2>3 DEF SpawnReady
  <1>5. ASSUME NEW t \in Tasks, DropLease(t)
        PROVE  IdleInv'
    <2>1. path[t] \in Paths
      BY <1>5 DEF DropLease, Typed, TypeOK, CallShape
    <2>2. CASE ReleaseNothing(t)
      BY <1>2, <2>2 DEF ReleaseNothing, registry, IdlePaths
    <2>3. CASE ReleaseShared(t)
      <3>1. /\ \A p \in Paths : p # path[t] => instances'[p] = instances[p]
            /\ instances[path[t]].leases # 0 /\ instances'[path[t]].leases # 0
        BY <1>0, <2>1, <2>3 DEF ReleaseShared, Current
      <3>2. IdlePaths' = IdlePaths
        BY <3>1 DEF IdlePaths
      <3> QED BY <1>2, <2>3, <3>2 DEF ReleaseShared
    <2>4. CASE ReleaseLast(t)
      <3> DEFINE p == path[t]
      <3>1. /\ instances[p] # None /\ instances[p].leases = 1 /\ idle' = Push(idle, p)
            /\ p \notin ToSet(idle)
        BY <2>4 DEF ReleaseLast, Current, IdleInv, IdlePaths
      <3>2. /\ Once(idle') /\ Len(idle') <= MaxIdle
            /\ ~PushFull(idle, p) => ToSet(idle') = ToSet(idle) \cup {p}
            /\ PushFull(idle, p) => /\ Head(idle) \in ToSet(idle)
                                    /\ ToSet(idle') = (ToSet(idle) \ {Head(idle)}) \cup {p}
        BY <1>0, <2>1, <3>1, PushExact DEF IdleInv
      <3>3. instances'[p] # None /\ instances'[p].leases = 0
        <4>1. PICK e : e = instances[p] /\ e \in [inst : Instances, fp : Nat, leases : Nat, permit : Permits \cup {None}]
          BY <1>0, <2>1, <3>1
        <4>2. instances'[p] = [e EXCEPT !.leases = 0, !.permit = None]
          BY <2>1, <2>4, <4>1 DEF ReleaseLast
        <4>3. instances'[p].leases = 0 /\ instances'[p] \in IdleEntry
          BY <4>1, <4>2 DEF IdleEntry
        <4> QED BY <4>3, NoneAssumption DEF Entry
      <3>4. CASE ~PushFull(idle, p)
        <4>1. \A r \in Paths : r # p => instances'[r] = instances[r]
          BY <2>4, <3>4, ManagerAssumption DEF ReleaseLast, Victim
        <4>2. IdlePaths' = IdlePaths \cup {p}
          BY <2>1, <3>3, <4>1 DEF IdlePaths
        <4> QED BY <3>2, <3>4, <4>2 DEF IdleInv, Once, ToSet
      <3>5. CASE PushFull(idle, p)
        <4>1. Head(idle) \in IdlePaths /\ Head(idle) # p
          BY <3>1, <3>2, <3>5 DEF IdleInv
        <4>2. Victim(p) = Head(idle)
          BY <3>5, <4>1 DEF Victim, IdlePaths
        <4>3. /\ instances'[Head(idle)] = None
              /\ \A r \in Paths : r # p /\ r # Head(idle) => instances'[r] = instances[r]
          BY <2>4, <4>1, <4>2 DEF ReleaseLast, IdlePaths
        <4>4. IdlePaths' = (IdlePaths \ {Head(idle)}) \cup {p}
          BY <2>1, <3>3, <4>1, <4>3 DEF IdlePaths
        <4> QED BY <3>2, <3>5, <4>4 DEF IdleInv, Once, ToSet
      <3> QED BY <3>4, <3>5
    <2> QED BY <1>5, <2>2, <2>3, <2>4 DEF DropLease
  <1>6. CASE UNCHANGED <<instances, idle>>
    BY <1>2, <1>6 DEF IdlePaths
  <1> QED
    BY <1>3, <1>4, <1>5, <1>6
       DEF Next, Proceed, TakeSpawnLock, DropRemoved, SpawnStart, SpawnFails, CleanupSpawnLock, Return,
           DropEvicted, DropFields, DropInstance, DropPermit, WriteFile, Exit, Resolve, Cancel, registry, vars

\* A sequence without repetitions is as long as the set of its elements.
LEMMA OnceCounts ==
  ASSUME NEW q \in Seq(Paths), Once(q)
  PROVE  Len(q) = Cardinality(ToSet(q))
PROOF
  <1>1. q \in Bijection(1..Len(q), ToSet(q))
    BY DEF Once, ToSet, Bijection, Injection, Surjection, IsInjective
  <1>2. IsFiniteSet(1..Len(q)) /\ Cardinality(1..Len(q)) = Len(q)
    <2>1. Len(q) \in Nat
      OBVIOUS
    <2> QED BY <2>1, FS_Interval
  <1> QED BY <1>1, <1>2, FS_Bijection DEF ExistsBijection

LEMMA InitIdle == Init => Typed /\ LockInv /\ Unregistered /\ IdleInv
PROOF
  <1> SUFFICES ASSUME Init PROVE IdleInv
    BY InitTyped DEF Init, LockInv, Unregistered
  <1>1. idle = <<>> /\ ToSet(idle) = {} /\ IdlePaths = {}
    BY DEF Init, ToSet, IdlePaths
  <1> QED BY <1>1, ManagerAssumption DEF IdleInv, Once

\* release_lease and LruCache: what has no lease is in the LRU, once and within its
\* capacity, and nothing else is.
THEOREM IdleIsExact == Spec => []IdleExact
PROOF
  <1> DEFINE Inv == Typed /\ LockInv /\ Unregistered /\ IdleInv
  <1>1. Init => Inv
    BY InitIdle
  <1>2. Inv /\ [Next]_vars => Inv'
    BY NextTyped, NextLocks, NextUnregistered, IdleInvKept
  <1>3. Inv => IdleExact
    <2> SUFFICES ASSUME Inv PROVE IdleExact
      OBVIOUS
    <2>1. idle \in Seq(Paths)
      BY DEF Typed, TypeOK
    <2> QED BY <2>1, OnceCounts DEF IdleInv, IdleExact, IdlePaths
  <1> HIDE DEF Inv
  <1> QED BY <1>1, <1>2, <1>3, PTL DEF Spec
-----------------------------------------------------------------------------
\* A process lives while an Arc of its instance does: whatever takes an Arc away kills, or
\* hands the Arc on.
AliveInv == \A i \in Instances : process[i] # None => InstanceHeld(i)

LEMMA AliveInvKept == Typed /\ Unregistered /\ AliveInv /\ [Next]_vars => AliveInv'
PROOF
  <1> SUFFICES ASSUME Typed, Unregistered, AliveInv, [Next]_vars PROVE AliveInv'
    OBVIOUS
  <1>1. CASE KillUnreferenced
    BY <1>1 DEF KillUnreferenced, AliveInv
  <1>2. ASSUME \A i \in Instances : process'[i] # None => process[i] # None,
               \A i \in Instances : InstanceHeld(i) => InstanceHeld(i)'
        PROVE  AliveInv'
    BY <1>2 DEF AliveInv
  <1>3. ASSUME UNCHANGED <<instances, inst, doomed>>
        PROVE  \A i \in Instances : InstanceHeld(i) => InstanceHeld(i)'
    BY <1>3 DEF InstanceHeld
  <1>4. ASSUME NEW t \in Tasks, FirstLookup(t) \/ SecondLookup(t)
        PROVE  AliveInv'
    <2>1. PICK s \in Permits \cup {None} : LookupWith(t, s) /\ CachedClient(t, s)
      BY <1>4, LookupSteps
    <2>2. /\ path[t] \in Paths /\ inst[t] = None /\ doomed[t] = None /\ process' = process
          /\ \A p \in Paths : instances[p] # None =>
               instances[p] \in [inst : Instances, fp : Nat, leases : Nat, permit : Permits \cup {None}]
      BY <2>1, Offer, EntryFields DEF LookupWith, world, Typed, CallShape
    <2>3. CASE Miss(t, s) \/ NeedsPermit(t, s) \/ PollFails(t)
      BY <1>2, <2>2, <2>3 DEF Miss, NeedsPermit, PollFails, registry, held, InstanceHeld
    <2>4. CASE Invalidate(t, s)
      <3>1. /\ \A p \in Paths : p # path[t] => instances'[p] = instances[p]
            /\ instances[path[t]] # None /\ doomed'[t] = instances[path[t]] /\ inst' = inst
            /\ \A u \in Tasks : u # t => doomed'[u] = doomed[u]
        BY <2>2, <2>4 DEF Invalidate, Stale, Exited, Registered, Typed, TypeOK
      <3>2. \A i \in Instances : InstanceHeld(i) => InstanceHeld(i)'
        BY <2>2, <3>1 DEF InstanceHeld
      <3> QED BY <1>2, <2>2, <3>2
    <2>5. CASE Hit(t, s)
      <3>1. /\ \A p \in Paths : p # path[t] => instances'[p] = instances[p]
            /\ inst'[t] = instances[path[t]].inst /\ instances[path[t]] # None /\ doomed' = doomed
            /\ \A u \in Tasks : u # t => inst'[u] = inst[u]
        BY <2>2, <2>5 DEF Hit, Reusable, Registered, Typed, TypeOK
      <3>2. \A i \in Instances : InstanceHeld(i) => InstanceHeld(i)'
        BY <2>2, <3>1, ManagerAssumption DEF InstanceHeld
      <3> QED BY <1>2, <2>2, <3>2
    <2> QED BY <2>1, <2>3, <2>4, <2>5 DEF CachedClient
  <1>5. ASSUME NEW t \in Tasks, SpawnReady(t)
        PROVE  AliveInv'
    <2>1. path[t] \in Paths /\ instances[path[t]] = None /\ inst' = inst /\ doomed' = doomed /\ process' = process
      BY <1>5 DEF SpawnReady, held, world, Unregistered, Typed, TypeOK, CallShape
    <2>2. \A p \in Paths : instances[p] # None => instances'[p] = instances[p]
      BY <1>5, <2>1 DEF SpawnReady, Typed, TypeOK
    <2> QED BY <1>2, <2>1, <2>2 DEF InstanceHeld
  <1>6. ASSUME NEW t \in Tasks, DropLease(t)
        PROVE  AliveInv'
    <2>1. process' = process /\ inst' = inst /\ path[t] \in Paths /\ doomed[t] = None
      BY <1>6 DEF DropLease, world, Typed, TypeOK, CallShape
    <2>2. CASE ReleaseNothing(t)
      BY <1>2, <2>1, <2>2 DEF ReleaseNothing, registry, InstanceHeld
    <2>3. CASE ReleaseShared(t)
      <3>1. instances[path[t]] \in [inst : Instances, fp : Nat, leases : Nat, permit : Permits \cup {None}]
        BY <2>1, <2>3, EntryFields DEF ReleaseShared, Current
      <3>2. /\ \A p \in Paths : p # path[t] => instances'[p] = instances[p]
            /\ instances'[path[t]].inst = inst[t] /\ instances[path[t]].inst = inst[t] /\ doomed' = doomed
        BY <2>1, <2>3, <3>1 DEF ReleaseShared, Current, Typed, TypeOK
      <3> QED BY <1>2, <2>1, <3>2 DEF InstanceHeld
    <2>4. CASE ReleaseLast(t)
      <3>1. /\ instances[path[t]].inst = inst[t]
            /\ \A p \in Paths : p # path[t] /\ p # Victim(path[t]) => instances'[p] = instances[p]
            /\ Victim(path[t]) # None => doomed'[t] = instances[Victim(path[t])]
            /\ \A u \in Tasks : u # t => doomed'[u] = doomed[u]
        BY <2>4 DEF ReleaseLast, Current, Typed, TypeOK
      <3>2. \A p \in Paths : p = Victim(path[t]) => p # None
        BY ManagerAssumption
      <3> QED BY <1>2, <2>1, <3>1, <3>2 DEF InstanceHeld
    <2> QED BY <1>6, <2>2, <2>3, <2>4 DEF DropLease
  <1>7. ASSUME NEW t \in Tasks, SpawnStart(t)
        PROVE  AliveInv'
    <2>1. PICK j \in FreeInstances :
            /\ inst' = [inst EXCEPT ![t] = j]
            /\ process' = [process EXCEPT ![j] = [from |-> version[path[t]], exited |-> FALSE]]
      BY <1>7, AnyOfMember DEF SpawnStart
    <2>2. /\ inst'[t] = j /\ inst[t] = None /\ instances' = instances /\ doomed' = doomed
          /\ \A u \in Tasks : u # t => inst'[u] = inst[u]
          /\ \A i \in Instances : i # j => process'[i] = process[i]
      BY <1>7, <2>1 DEF SpawnStart, registry, Typed, TypeOK, CallShape
    <2> QED BY <2>2, ManagerAssumption DEF InstanceHeld, AliveInv
  <1>8. ASSUME NEW i \in Instances, Exit(i)
        PROVE  AliveInv'
    <2>1. \A j \in Instances : j # i => process'[j] = process[j]
      BY <1>8 DEF Exit, Typed, TypeOK
    <2> QED BY <1>2, <1>3, <1>8, <2>1 DEF Exit, registry, held
  <1>9. CASE UNCHANGED <<instances, inst, doomed, process>>
    BY <1>2, <1>3, <1>9
  <1> QED
    BY <1>1, <1>4, <1>5, <1>6, <1>7, <1>8, <1>9
       DEF Next, Proceed, TakeSpawnLock, DropRemoved, SpawnFails, CleanupSpawnLock, Return,
           DropEvicted, DropFields, DropInstance, DropPermit, WriteFile, Resolve, Cancel, registry, held, world, vars

\* The instances that a permit stands for: of its entry, of the calls with it, and the one
\* a call that replaces it has yet to drop.
Owned(s) ==
  {i \in Instances :
     \/ \E p \in Paths : instances[p] # None /\ instances[p].permit = s /\ instances[p].inst = i
     \/ \E t \in Tasks : permit[t] = s /\ inst[t] = i
     \/ \E t \in Tasks : permit[t] = s /\ pc[t] = "replacing" /\ doomed[t].inst = i}

LEMMA OneOwned ==
  ASSUME Typed, OwnInv, NEW s \in Permits, NEW i \in Owned(s), NEW j \in Owned(s)
  PROVE  i = j
PROOF
  <1>1. s # None /\ i # None /\ j # None
    BY ManagerAssumption DEF Owned
  <1>2. ASSUME NEW p \in Paths, instances[p] # None, instances[p].permit = s,
               NEW t \in Tasks, permit[t] = s, pc[t] # "dropping"
        PROVE  inst[t] = instances[p].inst /\ instances[p].inst # None
    <2>1. instances[p].inst # None
      BY <1>2, EntryFields, ManagerAssumption
    <2> QED BY <1>1, <1>2, <2>1 DEF OwnInv, PermitInv
  <1>3. \A t, u \in Tasks : /\ permit[t] = s /\ permit[u] = s /\ t # u
                            /\ pc[t] # "dropping" /\ pc[u] # "dropping"
                            => inst[t] # None /\ inst[t] = inst[u]
    BY <1>1 DEF OwnInv, PermitInv
  <1>4. \A t \in Tasks : pc[t] \in {"replacing", "dropping"} => inst[t] = None
    BY DEF Typed, CallShape
  <1>5. \A p, q \in Paths :
          instances[p] # None /\ instances[q] # None /\ instances[p].permit = s /\ instances[q].permit = s
          => p = q
    BY <1>1 DEF OwnInv, PermitInv
  <1> QED BY <1>1, <1>2, <1>3, <1>4, <1>5 DEF Owned

LEMMA ImageBounded ==
  ASSUME NEW S, IsFiniteSet(S), NEW f, DOMAIN f = S
  PROVE  IsFiniteSet({f[x] : x \in S}) /\ Cardinality({f[x] : x \in S}) <= Cardinality(S)
PROOF
  <1> DEFINE g == [x \in S |-> f[x]]
  <1>1. g \in Surjection(S, {f[x] : x \in S})
    BY DEF Surjection
  <1> QED BY <1>1, FS_Surjection

\* One instance at most for each permit.
LEMMA OwnedBounded ==
  ASSUME Typed, OwnInv, IsFiniteSet(Permits)
  PROVE  LET B == UNION {Owned(s) : s \in Permits}
         IN  IsFiniteSet(B) /\ Cardinality(B) <= Cardinality(Permits)
PROOF
  <1> DEFINE B == UNION {Owned(s) : s \in Permits}
             Used == {s \in Permits : Owned(s) # {}}
             g == [s \in Used |-> CHOOSE i : i \in Owned(s)]
  <1>1. IsFiniteSet(Used) /\ Cardinality(Used) <= Cardinality(Permits)
    BY FS_Subset
  <1>2. \A s \in Used : g[s] \in Owned(s)
    OBVIOUS
  <1>3. B = {g[s] : s \in Used}
    <2>1. ASSUME NEW i \in B
          PROVE  i \in {g[s] : s \in Used}
      <3>1. PICK s \in Permits : i \in Owned(s)
        BY <2>1
      <3>2. s \in Used /\ g[s] = i
        BY <1>2, <3>1, OneOwned
      <3> QED BY <3>2
    <2> QED BY <1>2, <2>1
  <1>4. IsFiniteSet(B) /\ Cardinality(B) <= Cardinality(Used)
    <2>1. DOMAIN g = Used
      OBVIOUS
    <2> HIDE DEF g, Used, B
    <2> QED BY <1>1, <1>3, <2>1, ImageBounded
  <1>5. Cardinality(B) \in Nat /\ Cardinality(Used) \in Nat /\ Cardinality(Permits) \in Nat
    BY <1>1, <1>4, FS_CardinalityType
  <1> HIDE DEF Used, B
  <1> QED BY <1>1, <1>4, <1>5 DEF B

LEMMA ProcessesCovered ==
  ASSUME Typed, OwnInv, IdleInv, AliveInv, NEW i \in Instances, process[i] # None
  PROVE  \/ \E k \in 1..Len(idle) : i = instances[idle[k]].inst
         \/ \E s \in Permits : i \in Owned(s)
         \/ \E t \in Tasks : pc[t] \in {"removing", "evicting"} /\ i = doomed[t].inst
PROOF
  <1>1. CASE \E p \in Paths : instances[p] # None /\ instances[p].inst = i
    <2>1. PICK p \in Paths : instances[p] # None /\ instances[p].inst = i
      BY <1>1
    <2>2. CASE instances[p].leases = 0
      <3>1. p \in ToSet(idle)
        BY <2>1, <2>2 DEF IdleInv, IdlePaths
      <3>2. PICK k \in 1..Len(idle) : idle[k] = p
        BY <3>1 DEF ToSet, Typed, TypeOK
      <3> QED BY <2>1, <3>2
    <2>3. CASE instances[p].leases # 0
      <3>1. instances[p].permit \in Permits
        BY <2>1, <2>3, EntryFields
      <3> QED BY <2>1, <3>1 DEF Owned
    <2> QED BY <2>2, <2>3
  <1>2. ASSUME NEW t \in Tasks, inst[t] = i
        PROVE  \E s \in Permits : i \in Owned(s)
    <2>1. permit[t] \in Permits
      BY <1>2, ManagerAssumption DEF Typed, TypeOK, CallShape
    <2> QED BY <1>2, <2>1 DEF Owned
  <1>3. ASSUME NEW t \in Tasks, doomed[t] # None, doomed[t].inst = i
        PROVE  \/ \E s \in Permits : i \in Owned(s)
               \/ pc[t] \in {"removing", "evicting"}
    <2>1. pc[t] \in {"removing", "evicting", "replacing"}
      BY <1>3 DEF Typed, CallShape
    <2>2. pc[t] = "replacing" => permit[t] \in Permits
      BY DEF Typed, TypeOK, CallShape
    <2> QED BY <1>3, <2>1, <2>2 DEF Owned
  <1> QED BY <1>1, <1>2, <1>3 DEF AliveInv, InstanceHeld

LEMMA ProcessesCount ==
  ASSUME Typed, OwnInv, IdleInv, AliveInv, IsFiniteSet(Permits), IsFiniteSet(Tasks)
  PROVE  ProcessesBounded
PROOF
  <1> DEFINE R == {t \in Tasks : pc[t] \in {"removing", "evicting"}}
             L == 1..Len(idle)
             f == [k \in L |-> instances[idle[k]].inst]
             h == [t \in R |-> doomed[t].inst]
             A == {f[k] : k \in L}
             B == UNION {Owned(s) : s \in Permits}
             C == {h[t] : t \in R}
             Alive == {i \in Instances : process[i] # None}
  <1>1. Len(idle) \in Nat /\ Len(idle) <= MaxIdle /\ MaxIdle \in Nat
    BY ManagerAssumption DEF Typed, TypeOK, IdleInv
  <1>2. IsFiniteSet(L) /\ Cardinality(L) = Len(idle)
    <2>1. 1 \in Int /\ Len(idle) \in Int
      BY <1>1
    <2>2. IsFiniteSet(L) /\ Cardinality(L) = IF 1 > Len(idle) THEN 0 ELSE Len(idle) - 1 + 1
      BY <2>1, FS_Interval
    <2> QED BY <1>1, <2>2
  <1>3. IsFiniteSet(R)
    BY FS_Subset
  <1>4. IsFiniteSet(A) /\ Cardinality(A) <= Len(idle)
    <2>1. DOMAIN f = L
      OBVIOUS
    <2> HIDE DEF f, L
    <2> QED BY <1>2, <2>1, ImageBounded
  <1>5. IsFiniteSet(B) /\ Cardinality(B) <= Cardinality(Permits)
    BY OwnedBounded
  <1>6. IsFiniteSet(C) /\ Cardinality(C) <= Cardinality(R)
    <2>1. DOMAIN h = R
      OBVIOUS
    <2> HIDE DEF h, R
    <2> QED BY <1>3, <2>1, ImageBounded
  <1>7. Alive \subseteq (A \cup B) \cup C
    BY ProcessesCovered
  <1> HIDE DEF R, L, A, B, C, Alive
  <1>8. IsFiniteSet(A \cup B) /\ Cardinality(A \cup B) <= Cardinality(A) + Cardinality(B)
    <2>1. IsFiniteSet(A \cap B)
      BY <1>4, FS_Subset
    <2>2. /\ Cardinality(A) \in Nat /\ Cardinality(B) \in Nat /\ Cardinality(A \cap B) \in Nat
      BY <1>4, <1>5, <2>1, FS_CardinalityType
    <2>3. /\ IsFiniteSet(A \cup B)
          /\ Cardinality(A \cup B) = Cardinality(A) + Cardinality(B) - Cardinality(A \cap B)
      BY <1>4, <1>5, FS_Union
    <2> QED BY <2>2, <2>3
  <1>9. /\ IsFiniteSet((A \cup B) \cup C)
        /\ Cardinality((A \cup B) \cup C) <= Cardinality(A \cup B) + Cardinality(C)
    <2>1. IsFiniteSet((A \cup B) \cap C)
      BY <1>6, FS_Subset
    <2>2. /\ Cardinality(A \cup B) \in Nat /\ Cardinality(C) \in Nat
          /\ Cardinality((A \cup B) \cap C) \in Nat
      BY <1>6, <1>8, <2>1, FS_CardinalityType
    <2>3. /\ IsFiniteSet((A \cup B) \cup C)
          /\ Cardinality((A \cup B) \cup C) =
               Cardinality(A \cup B) + Cardinality(C) - Cardinality((A \cup B) \cap C)
      BY <1>6, <1>8, FS_Union
    <2> QED BY <2>2, <2>3
  <1>10. Cardinality(Alive) <= Cardinality((A \cup B) \cup C)
    BY <1>7, <1>9, FS_Subset
  <1>11. /\ Cardinality(A) \in Nat /\ Cardinality(B) \in Nat /\ Cardinality(C) \in Nat
         /\ Cardinality(A \cup B) \in Nat /\ Cardinality((A \cup B) \cup C) \in Nat
         /\ Cardinality(R) \in Nat /\ Cardinality(Permits) \in Nat
         /\ IsFiniteSet(Alive)
    BY <1>3, <1>4, <1>5, <1>6, <1>7, <1>8, <1>9, FS_CardinalityType, FS_Subset
  <1>12. Cardinality(Alive) \in Nat
    BY <1>11, FS_CardinalityType
  <1>13. Cardinality(Alive) <= MaxIdle + Cardinality(Permits) + Cardinality(R)
    BY <1>1, <1>4, <1>5, <1>6, <1>8, <1>9, <1>10, <1>11, <1>12
  <1> QED BY <1>13 DEF ProcessesBounded, Alive, R

LEMMA ActiveCount ==
  ASSUME Typed, OwnInv, IsFiniteSet(Permits)
  PROVE  ActiveBounded
PROOF
  <1> DEFINE B == UNION {Owned(s) : s \in Permits}
             A == {inst[t] : t \in Leasing}
  <1>1. IsFiniteSet(B) /\ Cardinality(B) <= Cardinality(Permits)
    BY OwnedBounded
  <1>2. ASSUME NEW t \in Leasing
        PROVE  inst[t] \in B
    <2>1. permit[t] \in Permits /\ inst[t] \in Instances /\ t \in Tasks
      BY DEF Leasing, Typed, TypeOK, CallShape
    <2>2. inst[t] \in Owned(permit[t])
      BY <2>1 DEF Owned
    <2> QED BY <2>1, <2>2
  <1>3. A \subseteq B
    BY <1>2
  <1> HIDE DEF A, B
  <1>4. IsFiniteSet(A) /\ Cardinality(A) <= Cardinality(B)
    BY <1>1, <1>3, FS_Subset
  <1>5. Cardinality(A) \in Nat /\ Cardinality(B) \in Nat /\ Cardinality(Permits) \in Nat
    BY <1>1, <1>4, FS_CardinalityType
  <1>6. Cardinality(A) <= Cardinality(Permits)
    BY <1>1, <1>4, <1>5
  <1> QED BY <1>6 DEF ActiveBounded, A

LEMMA CountedHolds == Spec => [](Typed /\ OwnInv /\ IdleInv /\ AliveInv)
PROOF
  <1> DEFINE Inv == (Typed /\ LockInv /\ Unregistered /\ IdleInv) /\ OwnInv /\ AliveInv
  <1>1. Init => Inv
    BY InitIdle, InitOwn DEF Init, AliveInv
  <1>2. Inv /\ [Next]_vars => Inv'
    BY NextTyped, NextLocks, NextUnregistered, IdleInvKept, OwnInvKept, AliveInvKept
  <1>3. Inv => Typed /\ OwnInv /\ IdleInv /\ AliveInv
    OBVIOUS
  <1> HIDE DEF Inv
  <1> QED BY <1>1, <1>2, <1>3, PTL DEF Spec

\* --max-instances and --max-active-instances bound the processes alive, the ones that a
\* call is about to drop apart.
THEOREM ProcessesAreBounded ==
  ASSUME IsFiniteSet(Permits), IsFiniteSet(Tasks)
  PROVE  Spec => []ProcessesBounded
PROOF
  <1>1. Typed /\ OwnInv /\ IdleInv /\ AliveInv => ProcessesBounded
    BY ProcessesCount
  <1> QED BY <1>1, CountedHolds, PTL

\* --max-active-instances: at most so many generations have a lease, detached ones included.
THEOREM ActiveAreBounded ==
  ASSUME IsFiniteSet(Permits)
  PROVE  Spec => []ActiveBounded
PROOF
  <1>1. Typed /\ OwnInv => ActiveBounded
    BY ActiveCount
  <1> QED BY <1>1, OwnInvHolds, PTL
-----------------------------------------------------------------------------
\* An instance that someone has has a process, which began to read its path in the past.
OriginInv ==
  /\ \A t \in Tasks : inst[t] # None =>
       process[inst[t]] # None /\ process[inst[t]].from <= version[path[t]]
  /\ \A p \in Paths : instances[p] # None =>
       process[instances[p].inst] # None /\ process[instances[p].inst].from <= version[p]

LEMMA OriginInvKept == Typed /\ OriginInv /\ [Next]_vars => OriginInv'
PROOF
  <1> SUFFICES ASSUME Typed, OriginInv, [Next]_vars PROVE OriginInv'
    OBVIOUS
  <1>0. Typed'
    BY NextTyped
  <1>1. ASSUME NEW i \in Instances, NEW p \in Paths, InstanceHeld(i), InstanceHeld(i)',
               process[i] # None, process[i].from <= version[p]
        PROVE  process'[i] # None /\ process'[i].from <= version'[p]
    <2>1. process[i].from \in Nat /\ version[p] \in Nat /\ version'[p] \in Nat
      BY <1>0, <1>1 DEF Typed, TypeOK, Process
    <2>2. Froze(i) /\ version'[p] >= version[p]
      BY <1>1, HeldProcessesKeep, VersionGrows
    <2> QED BY <1>1, <2>1, <2>2 DEF Froze
  <1>2. ASSUME NEW t \in Tasks, inst'[t] # None
        PROVE  process'[inst'[t]] # None /\ process'[inst'[t]].from <= version'[path'[t]]
    <2>1. PICK i \in Instances : i = inst'[t] /\ InstanceHeld(i)' /\ pc'[t] # "idle"
      BY <1>0, <1>2 DEF Typed, TypeOK, CallShape, InstanceHeld
    <2>2. pc[t] # "idle" => path'[t] = path[t] /\ path[t] \in Paths
      BY <2>1, CallKeeps DEF Typed, TypeOK, CallShape
    <2>3. CASE inst'[t] = inst[t]
      <3>1. pc[t] # "idle" /\ InstanceHeld(i)
        BY <1>2, <2>1, <2>3 DEF Typed, CallShape, InstanceHeld
      <3> QED BY <1>1, <1>2, <2>1, <2>2, <2>3, <3>1 DEF OriginInv
    <2>4. CASE /\ path[t] \in Paths /\ instances[path[t]] # None
               /\ inst'[t] = instances[path[t]].inst /\ pc[t] # "idle"
      <3>1. InstanceHeld(i)
        BY <2>1, <2>4 DEF InstanceHeld
      <3> QED BY <1>1, <2>1, <2>2, <2>4, <3>1 DEF OriginInv
    <2>5. CASE SpawnStart(t)
      <3>1. PICK j \in FreeInstances :
              /\ inst' = [inst EXCEPT ![t] = j]
              /\ process' = [process EXCEPT ![j] = [from |-> version[path[t]], exited |-> FALSE]]
        BY <2>5, AnyOfMember DEF SpawnStart
      <3>2. /\ inst'[t] = j /\ process'[j].from = version[path[t]] /\ process'[j] \in Process
            /\ version' = version /\ path' = path /\ version[path[t]] \in Nat
        BY <2>5, <3>1 DEF SpawnStart, call, FreeInstances, Process, Typed, TypeOK, CallShape
      <3> QED BY <3>2, NoneAssumption
    <2> QED BY <1>2, <2>3, <2>4, <2>5, InstanceOrigin
  <1>3. ASSUME NEW p \in Paths, instances'[p] # None
        PROVE  process'[instances'[p].inst] # None /\ process'[instances'[p].inst].from <= version'[p]
    <2>1. PICK i \in Instances : i = instances'[p].inst /\ InstanceHeld(i)'
      BY <1>0, <1>3 DEF Typed, TypeOK, Entry, IdleEntry, ActiveEntry, InstanceHeld
    <2>2. CASE instances[p] # None /\ instances'[p].inst = instances[p].inst
      <3>1. InstanceHeld(i)
        BY <2>1, <2>2 DEF InstanceHeld
      <3> QED BY <1>1, <2>1, <2>2, <3>1 DEF OriginInv
    <2>3. ASSUME NEW t \in Tasks, inst[t] # None, path[t] = p, instances'[p].inst = inst[t]
          PROVE  process'[instances'[p].inst] # None /\ process'[instances'[p].inst].from <= version'[p]
      <3>1. InstanceHeld(i)
        BY <2>1, <2>3 DEF InstanceHeld
      <3> QED BY <1>1, <2>1, <2>3, <3>1 DEF OriginInv
    <2> QED BY <1>3, <2>2, <2>3, EntryOrigin
  <1> QED BY <1>2, <1>3 DEF OriginInv
-----------------------------------------------------------------------------
Ended(t)   == pc[t] \in {"idle", "dropping"}
Opened(t)  == ~Ended(t) /\ inst[t] # None /\ pc[t] # "spawning"
Waiting(t) == ~Ended(t) /\ ~Opened(t)

AskingSession(t) == [state |-> "asking", path |-> path[t], asked |-> fp[t]]
OpenSession(t)   == [state |-> "open", path |-> path[t], asked |-> fp[t],
                     from |-> process[inst[t]].from, slot |-> permit[t]]

\* What the session of a call is.
LEMMA SessionIs ==
  ASSUME NEW t
  PROVE  /\ Ended(t) => Session(t) = [state |-> "closed"]
         /\ Waiting(t) => Session(t) = AskingSession(t)
         /\ Opened(t) => Session(t) = OpenSession(t)
BY DEF Session, Ended, Waiting, Opened, AskingSession, OpenSession

LEMMA SessionBecomes ==
  ASSUME NEW t
  PROVE  /\ Ended(t)' => Session(t)' = [state |-> "closed"]
         /\ Waiting(t)' => Session(t)' = AskingSession(t)'
         /\ Opened(t)' => Session(t)' = OpenSession(t)'
BY DEF Session, Ended, Waiting, Opened, AskingSession, OpenSession

\* And that the sessions are those the pool knows.
LEMMA SessionKind ==
  ASSUME Typed, OriginInv, NEW t \in Tasks
  PROVE  /\ Session(t) \in Pool!Asking <=> Waiting(t)
         /\ Session(t) \in Pool!Open <=> Opened(t)
PROOF
  <1>1. CASE Ended(t)
    <2>1. Session(t) = [state |-> "closed"] /\ ~Waiting(t) /\ ~Opened(t)
      BY <1>1, SessionIs DEF Waiting, Opened
    <2> QED BY <2>1 DEF Pool!Asking, Pool!Open
  <1>2. CASE Waiting(t)
    <2>1. Session(t) = AskingSession(t) /\ path[t] \in Paths /\ fp[t] \in Nat
      BY <1>2, SessionIs DEF Ended, Waiting, Typed, TypeOK, CallShape
    <2> QED BY <1>2, <2>1 DEF Pool!Asking, Pool!Open, AskingSession, Waiting
  <1>3. CASE Opened(t)
    <2>1. /\ Session(t) = OpenSession(t) /\ path[t] \in Paths /\ fp[t] \in Nat
          /\ permit[t] \in Permits /\ inst[t] \in Instances
      BY <1>3, SessionIs DEF Opened, Typed, TypeOK, CallShape
    <2>2. process[inst[t]].from \in Nat
      BY <1>3, <2>1 DEF Opened, OriginInv, Typed, TypeOK, Process
    <2> QED BY <1>3, <2>1, <2>2 DEF Pool!Asking, Pool!Open, OpenSession, Opened, Waiting
  <1> QED BY <1>1, <1>2, <1>3 DEF Waiting

\* A call that keeps what it has, or only advances, keeps its session.
LEMMA SessionKeeps ==
  ASSUME Typed, [Next]_vars, NEW t \in Tasks,
         (Ended(t) /\ Ended(t)') \/ (path'[t] = path[t] /\ fp'[t] = fp[t]),
         \/ Ended(t) /\ Ended(t)'
         \/ Waiting(t) /\ Waiting(t)'
         \/ Opened(t) /\ Opened(t)' /\ inst'[t] = inst[t] /\ permit'[t] = permit[t]
  PROVE  Session(t)' = Session(t)
PROOF
  <1>1. CASE Opened(t) /\ Opened(t)' /\ inst'[t] = inst[t] /\ permit'[t] = permit[t]
    <2>1. PICK i \in Instances : i = inst[t] /\ InstanceHeld(i) /\ InstanceHeld(i)'
      BY <1>1 DEF Opened, InstanceHeld, Typed, TypeOK
    <2>2. process'[inst[t]].from = process[inst[t]].from
      BY <2>1, HeldProcessesKeep DEF Froze
    <2>3. path'[t] = path[t] /\ fp'[t] = fp[t]
      BY <1>1 DEF Opened
    <2> QED BY <1>1, <2>2, <2>3, SessionIs, SessionBecomes DEF OpenSession
  <1>2. CASE Waiting(t) /\ Waiting(t)'
    <2>1. path'[t] = path[t] /\ fp'[t] = fp[t]
      BY <1>2 DEF Waiting
    <2> QED BY <1>2, <2>1, SessionIs, SessionBecomes DEF AskingSession
  <1>3. CASE Ended(t) /\ Ended(t)'
    BY <1>3, SessionIs, SessionBecomes
  <1> QED BY <1>1, <1>2, <1>3

LEMMA OthersSession ==
  ASSUME Typed, [Next]_vars, NEW t \in Tasks, SameLocals(t)
  PROVE  Session(t)' = Session(t)
BY SessionKeeps DEF SameLocals, Ended, Waiting, Opened
-----------------------------------------------------------------------------
sessions == [t \in Tasks |-> Session(t)]

PoolInv == Typed /\ OwnInv /\ VersionInv /\ OriginInv

\* One session changes.
LEMMA OneSession ==
  ASSUME NEW t \in Tasks, \A u \in Tasks \ {t} : Session(u)' = Session(u)
  PROVE  sessions' = [sessions EXCEPT ![t] = Session(t)']
BY DEF sessions

LEMMA SameSessions ==
  ASSUME \A u \in Tasks : Session(u)' = Session(u)
  PROVE  sessions' = sessions
BY DEF sessions

\* A call that gets its instance opens its session: whoever has the permit has the instance.
LEMMA Connects ==
  ASSUME PoolInv, PoolInv', [Next]_vars, NEW t \in Tasks, version' = version,
         Waiting(t), Opened(t)', path'[t] = path[t], fp'[t] = fp[t],
         \A u \in Tasks \ {t} :
           /\ SameLocals(u)
           /\ Opened(u) /\ permit[u] = permit'[t] =>
                path[u] = path[t] /\ fp[u] = fp[t] /\ inst[u] = inst'[t]
  PROVE  Pool!Connect(t, permit'[t])
PROOF
  <1> DEFINE v == process'[inst'[t]].from
             s == permit'[t]
  <1>1. /\ Session(t) = AskingSession(t) /\ Session(t)' = OpenSession(t)'
        /\ Session(t) \in Pool!Asking
    BY SessionIs, SessionBecomes, SessionKind DEF PoolInv
  <1>2. /\ path[t] \in Paths /\ fp[t] \in Nat /\ version[path[t]] \in Nat /\ v \in Nat
        /\ fp[t] <= v /\ v <= version[path[t]]
    <2>1. /\ path[t] \in Paths /\ fp[t] \in Nat /\ version[path[t]] \in Nat
      BY DEF PoolInv, Typed, TypeOK, CallShape, Ended, Waiting
    <2>2. inst'[t] # None /\ process'[inst'[t]] \in Process \cup {None}
      BY DEF PoolInv, Typed, TypeOK, Opened
    <2>3. process'[inst'[t]] # None /\ v <= version[path[t]] /\ v >= fp[t]
      BY <2>2 DEF PoolInv, OriginInv, VersionInv
    <2>4. v \in Nat
      BY <2>2, <2>3 DEF Process
    <2> QED BY <2>1, <2>3, <2>4
  <1>3. \A u \in Tasks \ {t} : Session(u)' = Session(u)
    BY OthersSession DEF PoolInv
  <1>4. ASSUME NEW u \in Tasks, Session(u) \in Pool!Open, Session(u).slot = s
        PROVE  Session(u).path = path[t] /\ Session(u).asked = fp[t] /\ Session(u).from = v
    <2>1. Opened(u) /\ u # t /\ Session(u) = OpenSession(u)
      BY <1>4, SessionKind, SessionIs DEF PoolInv, Waiting
    <2>2. Opened(u)' /\ Session(u)' = OpenSession(u)'
      BY <2>1, SessionBecomes DEF Ended, Opened, SameLocals
    <2>3. permit[u] = s
      BY <1>4, <2>1 DEF OpenSession
    <2>4. path[u] = path[t] /\ fp[u] = fp[t] /\ inst[u] = inst'[t] /\ inst'[u] = inst[u]
      BY <2>1, <2>3 DEF SameLocals
    <2>5. Session(u).from = v
      BY <1>3, <2>1, <2>2, <2>4 DEF OpenSession
    <2> QED BY <2>1, <2>4, <2>5 DEF OpenSession
  <1>5. v \in fp[t]..version[path[t]]
    BY <1>2
  <1>6. Session(t)' = [state |-> "open", path |-> path[t], asked |-> fp[t], from |-> v, slot |-> s]
    BY <1>1 DEF OpenSession
  <1>7. sessions' = [sessions EXCEPT ![t] =
          [state |-> "open", path |-> path[t], asked |-> fp[t], from |-> v, slot |-> s]]
    BY <1>3, <1>6, OneSession
  <1>8. /\ sessions[t] = Session(t) /\ Session(t).path = path[t] /\ Session(t).asked = fp[t]
        /\ \A u \in Tasks : sessions[u] = Session(u)
    BY <1>1 DEF sessions, AskingSession
  <1> HIDE DEF v, s
  <1> QED
    BY <1>1, <1>4, <1>5, <1>7, <1>8 DEF Pool!Connect, sessions, s

\* A call that ends, having a client or not.
LEMMA Ends ==
  ASSUME PoolInv, [Next]_vars, NEW t \in Tasks, version' = version, ~Ended(t), Ended(t)',
         \A u \in Tasks \ {t} : SameLocals(u)
  PROVE  Pool!GiveUp(t) \/ Pool!Close(t)
PROOF
  <1>1. sessions' = [sessions EXCEPT ![t] = [state |-> "closed"]]
    BY OthersSession, OneSession, SessionBecomes DEF PoolInv
  <1>2. sessions[t] \in Pool!Asking \/ sessions[t] \in Pool!Open
    BY SessionKind DEF PoolInv, Waiting, sessions
  <1> QED BY <1>1, <1>2 DEF Pool!GiveUp, Pool!Close, Pool!Closed, sessions

\* A call that does neither.
LEMMA Stays ==
  ASSUME PoolInv, [Next]_vars, NEW t \in Tasks, version' = version,
         path'[t] = path[t], fp'[t] = fp[t],
         \/ Waiting(t) /\ Waiting(t)'
         \/ Opened(t) /\ Opened(t)' /\ inst'[t] = inst[t] /\ permit'[t] = permit[t],
         \A u \in Tasks \ {t} : SameLocals(u)
  PROVE  UNCHANGED <<version, sessions>>
BY OthersSession, SessionKeeps, SameSessions DEF PoolInv

LEMMA PoolStep ==
  ASSUME PoolInv, PoolInv', [Next]_vars
  PROVE  Pool!PoolNext \/ UNCHANGED <<version, sessions>>
PROOF
  <1>1. ASSUME NEW p \in Paths, WriteFile(p)
        PROVE  Pool!Rewrite(p)
    <2>1. \A u \in Tasks : SameLocals(u)
      BY <1>1 DEF WriteFile, SameLocals, call, held, locking
    <2>2. sessions' = sessions
      BY <2>1, OthersSession, SameSessions DEF PoolInv
    <2> QED BY <1>1, <2>2 DEF WriteFile, Pool!Rewrite, sessions
  <1>2. CASE (\E i \in Instances : Exit(i)) \/ UNCHANGED vars
    <2>1. version' = version /\ \A u \in Tasks : SameLocals(u)
      BY <1>2 DEF Exit, SameLocals, call, held, locking, vars
    <2> QED BY <2>1, OthersSession, SameSessions DEF PoolInv
  <1>3. ASSUME NEW t \in Tasks, NEW p \in Asks[t], Resolve(t, p)
        PROVE  Pool!Ask(t, p) /\ p \in Paths
    <2>1. p \in Paths /\ version' = version
      BY <1>3, ManagerAssumption DEF Resolve, world
    <2>2. \A u \in Tasks \ {t} : SameLocals(u)
      BY <1>3, OthersKeep DEF PoolInv
    <2>3. /\ Session(t) = [state |-> "closed"]
          /\ Session(t)' = [state |-> "asking", path |-> p, asked |-> version[p]]
      <3>1. Ended(t) /\ Waiting(t)' /\ path'[t] = p /\ fp'[t] = version[p]
        BY <1>3 DEF Resolve, held, Ended, Waiting, Opened, PoolInv, Typed, TypeOK, CallShape
      <3> QED BY <3>1, SessionIs, SessionBecomes DEF AskingSession
    <2>4. sessions' = [sessions EXCEPT ![t] = [state |-> "asking", path |-> p, asked |-> version[p]]]
      BY <2>2, <2>3, OthersSession, OneSession DEF PoolInv
    <2> QED BY <2>1, <2>3, <2>4 DEF Pool!Ask, Pool!Closed, sessions
  <1>4. ASSUME NEW t \in Tasks, FirstLookup(t) \/ SecondLookup(t)
        PROVE  \/ Pool!Connect(t, permit'[t]) /\ permit'[t] \in Permits
               \/ UNCHANGED <<version, sessions>>
    <2>1. PICK s \in Permits \cup {None} : LookupWith(t, s) /\ CachedClient(t, s)
      BY <1>4, LookupSteps
    <2>2. /\ \A u \in Tasks \ {t} : SameLocals(u)
          /\ version' = version /\ path' = path /\ fp' = fp /\ path[t] \in Paths
          /\ inst[t] = None /\ Waiting(t)
      <3>1. \A u \in Tasks \ {t} : SameLocals(u)
        BY <1>4, OthersKeep DEF PoolInv, Proceed
      <3>2. inst[t] = None /\ path[t] \in Paths /\ path' = path /\ fp' = fp
        BY <2>1, Offer DEF PoolInv
      <3>3. version' = version /\ ~Ended(t)
        BY <2>1 DEF LookupWith, world, Ended
      <3> QED BY <3>1, <3>2, <3>3 DEF Waiting, Opened
    <2>3. CASE Hit(t, s)
      <3> DEFINE e == instances[path[t]]
      <3>1. /\ e # None /\ e.fp = fp[t] /\ inst'[t] = e.inst /\ permit'[t] = PermitUsed(e, s)
            /\ pc'[t] = "cleanup"
        BY <2>3 DEF Hit, Reusable, Registered, Stale, PoolInv, Typed, TypeOK
      <3>2. Opened(t)' /\ permit'[t] \in Permits
        <4>1. inst'[t] # None
          BY <2>2, <3>1, EntryFields, ManagerAssumption DEF PoolInv
        <4> QED BY <3>1, <4>1 DEF Ended, Opened, PoolInv, Typed, TypeOK, CallShape
      <3>3. ASSUME NEW u \in Tasks \ {t}, Opened(u), permit[u] = permit'[t]
            PROVE  path[u] = path[t] /\ fp[u] = fp[t] /\ inst[u] = inst'[t]
        <4>1. e.leases > 0
          <5>1. CASE e.leases > 0
            BY <5>1
          <5>2. CASE ~(e.leases > 0)
            <6>1. permit'[t] = s /\ s # None
              BY <3>1, <3>2, <5>2, ManagerAssumption DEF PermitUsed
            <6> QED BY <2>1, <3>3, <6>1, Offer DEF PoolInv
          <5> QED BY <5>1, <5>2
        <4>2. permit[u] = e.permit /\ permit[u] # None
          BY <3>1, <3>2, <3>3, <4>1, ManagerAssumption DEF PermitUsed
        <4>3. inst[u] = e.inst /\ inst[u] # None
          BY <2>2, <3>1, <3>3, <4>2 DEF PoolInv, OwnInv, PermitInv, Ended, Opened
        <4> QED BY <2>2, <3>1, <4>3 DEF PoolInv, OwnInv, GenerationInv
      <3> QED BY <2>2, <3>2, <3>3, Connects
    <2>4. CASE ~Hit(t, s)
      <3>1. inst'[t] = None /\ ~Ended(t)'
        BY <2>1, <2>2, <2>4 DEF CachedClient, Miss, Invalidate, NeedsPermit, PollFails, held, Ended,
                                LookupWith, PoolInv, Typed, TypeOK
      <3> QED BY <2>2, <3>1, Stays DEF Waiting, Opened
    <2> QED BY <2>3, <2>4
  <1>5. ASSUME NEW t \in Tasks, SpawnReady(t)
        PROVE  Pool!Connect(t, permit'[t]) /\ permit'[t] \in Permits
    <2>1. /\ version' = version /\ path' = path /\ fp' = fp /\ permit' = permit /\ inst' = inst
          /\ pc[t] = "spawning" /\ pc'[t] = "cleanup"
      BY <1>5 DEF SpawnReady, world, call, held, PoolInv, Typed, TypeOK
    <2>2. inst[t] # None /\ permit[t] \in Permits /\ Waiting(t) /\ Opened(t)'
      BY <2>1 DEF PoolInv, Typed, TypeOK, CallShape, Ended, Waiting, Opened
    <2>3. ASSUME NEW u \in Tasks \ {t}, Opened(u), permit[u] = permit'[t]
          PROVE  FALSE
      <3>1. inst[t] = inst[u]
        BY <2>1, <2>2, <2>3, ManagerAssumption DEF PoolInv, OwnInv, PermitInv, Ended, Opened
      <3> QED BY <2>1, <2>2, <3>1 DEF PoolInv, OwnInv, GenerationInv
    <2>4. \A u \in Tasks \ {t} : SameLocals(u)
      BY <1>5, OthersKeep DEF PoolInv, Proceed
    <2> QED BY <2>1, <2>2, <2>3, <2>4, Connects
  <1>6. ASSUME NEW t \in Tasks, Cancel(t) \/ DropInstance(t) \/ (Return(t) /\ inst[t] = None)
        PROVE  Pool!GiveUp(t) \/ Pool!Close(t)
    <2>1. version' = version /\ ~Ended(t) /\ Ended(t)'
      BY <1>6 DEF Cancel, DropInstance, Return, Ended, world, PoolInv, Typed, TypeOK
    <2>2. \A u \in Tasks \ {t} : SameLocals(u)
      BY <1>6, OthersKeep DEF PoolInv, Proceed, DropFields
    <2> QED BY <2>1, <2>2, Ends
  <1>8. ASSUME NEW t \in Tasks, DropPermit(t)
        PROVE  UNCHANGED <<version, sessions>>
    <2>1. version' = version /\ Ended(t) /\ Ended(t)'
      BY <1>8 DEF DropPermit, Ended, world, PoolInv, Typed, TypeOK
    <2>2. \A u \in Tasks \ {t} : SameLocals(u)
      BY <1>8, OthersKeep DEF PoolInv, Proceed, DropFields
    <2>3. \A u \in Tasks : Session(u)' = Session(u)
      BY <2>1, <2>2, OthersSession, SessionKeeps DEF PoolInv
    <2> QED BY <2>1, <2>3, SameSessions
  <1>7. ASSUME NEW t \in Tasks,
               \/ TakeSpawnLock(t) \/ DropRemoved(t) \/ SpawnStart(t) \/ SpawnFails(t)
               \/ CleanupSpawnLock(t) \/ (Return(t) /\ inst[t] # None) \/ DropLease(t) \/ DropEvicted(t)
        PROVE  UNCHANGED <<version, sessions>>
    <2>1. \A u \in Tasks \ {t} : SameLocals(u)
      BY <1>7, OthersKeep DEF PoolInv, Proceed
    <2>2. version' = version /\ path' = path /\ fp' = fp
      BY <1>7 DEF TakeSpawnLock, DropRemoved, SpawnStart, SpawnFails, CleanupSpawnLock, Return, DropLease,
                  DropEvicted, world, call
    <2>3. CASE TakeSpawnLock(t) \/ DropRemoved(t)
      <3>1. inst[t] = None /\ inst' = inst /\ pc[t] \in {"resolved", "removing", "replacing"} /\ pc'[t] \in {"queued", "wait", "spawn"}
        BY <2>3 DEF TakeSpawnLock, DropRemoved, held, PoolInv, Typed, TypeOK, CallShape
      <3>2. Waiting(t) /\ Waiting(t)'
        BY <3>1 DEF Ended, Waiting, Opened
      <3> QED BY <2>1, <2>2, <3>2, Stays
    <2>4. CASE SpawnStart(t) \/ SpawnFails(t)
      <3>1. /\ pc[t] = "spawning" \/ (pc[t] = "spawn" /\ inst[t] = None)
            /\ pc'[t] = "spawning" \/ (pc'[t] = "cleanup" /\ inst'[t] = None)
        BY <2>4 DEF SpawnStart, SpawnFails, PoolInv, Typed, TypeOK, CallShape
      <3>2. Waiting(t) /\ Waiting(t)'
        BY <3>1 DEF Ended, Waiting, Opened
      <3> QED BY <2>1, <2>2, <3>2, Stays
    <2>5. CASE CleanupSpawnLock(t)
      BY <2>1, <2>2, <2>5, Stays DEF CleanupSpawnLock, held, Ended, Waiting, Opened, PoolInv, Typed, TypeOK
    <2>6. CASE Return(t) /\ inst[t] # None
      BY <2>1, <2>2, <2>6, Stays DEF Return, held, Ended, Waiting, Opened, PoolInv, Typed, TypeOK
    <2>7. CASE DropLease(t)
      <3>1. Opened(t) /\ Opened(t)' /\ inst'[t] = inst[t] /\ permit'[t] = permit[t]
        BY <2>7 DEF DropLease, ReleaseNothing, ReleaseShared, ReleaseLast, Ended, Opened, PoolInv, Typed, TypeOK
      <3> QED BY <2>1, <2>2, <3>1, Stays
    <2>8. CASE DropEvicted(t)
      <3>1. Opened(t) /\ Opened(t)' /\ inst'[t] = inst[t] /\ permit'[t] = permit[t]
        BY <2>8 DEF DropEvicted, Ended, Opened, PoolInv, Typed, TypeOK, CallShape
      <3> QED BY <2>1, <2>2, <3>1, Stays
    <2> QED BY <1>7, <2>3, <2>4, <2>5, <2>6, <2>7, <2>8
  <1> QED BY <1>1, <1>2, <1>3, <1>4, <1>5, <1>6, <1>7, <1>8
          DEF Next, Proceed, DropFields, Pool!PoolNext

LEMMA PoolInvHolds == Spec => []PoolInv
PROOF
  <1>1. Init => PoolInv
    BY InitTyped, InitOwn DEF Init, PoolInv, VersionInv, OriginInv
  <1>2. PoolInv /\ [Next]_vars => PoolInv'
    BY NextTyped, OwnInvKept, NextVersion, OriginInvKept DEF PoolInv
  <1> QED BY <1>1, <1>2, PTL DEF Spec

\* get_client: whatever the registry, the LRU, the locks and the permits do, a caller sees
\* sessions that open on a slot of their own process, at the version asked for or a later
\* one, and close.
THEOREM ManagerIsAPool == Spec => ImplementsPool
PROOF
  <1>1. Init => Pool!PoolInit
    <2> SUFFICES ASSUME Init PROVE Pool!PoolInit
      OBVIOUS
    <2>1. \A t \in Tasks : Session(t) = [state |-> "closed"]
      BY SessionIs DEF Init, Ended
    <2> QED BY <2>1 DEF Init, Pool!PoolInit, Pool!Closed
  <1>2. PoolInv /\ PoolInv' /\ [Next]_vars => Pool!PoolNext \/ UNCHANGED <<version, sessions>>
    BY PoolStep
  <1>3. PoolInv /\ PoolInv' /\ [Next]_vars =>
          [Pool!PoolNext]_<<version, [t \in Tasks |-> Session(t)]>>
    BY <1>2 DEF sessions
  <1> QED BY <1>1, <1>3, PoolInvHolds, PTL DEF Spec, ImplementsPool, Pool!PoolSpec
=============================================================================
