------------------------- MODULE MCInstanceManager -------------------------
(* TLC instances of InstanceManager. *)
EXTENDS InstanceManager, TLC

\* Every caller asks for every trace; or two callers share a trace that a third
\* does not want.
AllAsks   == [t \in Tasks |-> Paths]
SplitAsks == LET odd == CHOOSE t \in Tasks : TRUE
                 lone == CHOOSE p \in Paths : TRUE
             IN  [t \in Tasks |-> IF t = odd THEN {lone} ELSE Paths \ {lone}]

CallerSymmetry == Permutations(Tasks) \cup Permutations(Paths)

\* The identities of Arcs are interchangeable: two states that differ only in
\* which identity plays which role are the same.  An Arc is named by who refers
\* to it.
InstanceRole(i) ==
  <<{p \in Paths : instances[p] # None /\ instances[p].inst = i},
    {t \in Tasks : inst[t] = i}, {t \in Tasks : doomed[t] # None /\ doomed[t].inst = i}, process[i]>>
PermitRole(s) ==
  <<{p \in Paths : instances[p] # None /\ instances[p].permit = s},
    {t \in Tasks : permit[t] = s},
    {t \in Tasks : doomed[t] # None /\ doomed[t].permit = s}>>
LockRole(l) ==
  <<{p \in Paths : spawnLocks[p] = l}, {t \in Tasks : lock[t] = l}>>

UpToIdentity ==
  <<version, idle, pc, path, fp, holder,
    [p \in Paths |-> IF instances[p] = None THEN None
                     ELSE <<instances[p].fp, instances[p].leases>>],
    {InstanceRole(i) : i \in Instances},
    {PermitRole(s) : s \in Permits},
    {LockRole(l) : l \in LockIds}>>
=============================================================================
