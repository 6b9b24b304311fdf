----------------------------- MODULE TracePool -----------------------------
(***************************************************************************)
(* What TraceProcessorManager promises to the callers of get_client, with  *)
(* the registry, the LRU, the locks and the semaphore hidden.  A call asks *)
(* for a trace at the version its fingerprint names; the client it gets is *)
(* a session with a process that began to read the trace no earlier than   *)
(* that.  A session occupies one of a fixed number of slots and shares it  *)
(* only with sessions of the same process.                                 *)
(***************************************************************************)
EXTENDS Naturals

CONSTANTS Paths, Tasks, Slots

VARIABLES version, session

Closed == [state |-> "closed"]
Asking == [state : {"asking"}, path : Paths, asked : Nat]
Open   == [state : {"open"}, path : Paths, asked : Nat, from : Nat, slot : Slots]

PoolTypeOK == /\ version \in [Paths -> Nat]
              /\ session \in [Tasks -> {Closed} \cup Asking \cup Open]

PoolInit == /\ version = [p \in Paths |-> 0]
            /\ session = [t \in Tasks |-> Closed]

Rewrite(p) == /\ version' = [version EXCEPT ![p] = @ + 1]
              /\ UNCHANGED session

Ask(t, p) == /\ session[t] = Closed
             /\ session' = [session EXCEPT ![t] =
                  [state |-> "asking", path |-> p, asked |-> version[p]]]
             /\ UNCHANGED version

GiveUp(t) == /\ session[t] \in Asking
             /\ session' = [session EXCEPT ![t] = Closed]
             /\ UNCHANGED version

Connect(t, s) ==
  /\ session[t] \in Asking
  /\ LET p == session[t].path
         a == session[t].asked
     IN  \E v \in a..version[p] :
           /\ \A u \in Tasks : session[u] \in Open /\ session[u].slot = s =>
                session[u].path = p /\ session[u].asked = a /\ session[u].from = v
           /\ session' = [session EXCEPT ![t] =
                [state |-> "open", path |-> p, asked |-> a, from |-> v, slot |-> s]]
  /\ UNCHANGED version

Close(t) == /\ session[t] \in Open
            /\ session' = [session EXCEPT ![t] = Closed]
            /\ UNCHANGED version

PoolNext ==
  \/ \E p \in Paths : Rewrite(p)
  \/ \E t \in Tasks : \/ \E p \in Paths : Ask(t, p)
                      \/ GiveUp(t)
                      \/ \E s \in Slots : Connect(t, s)
                      \/ Close(t)

PoolSpec == PoolInit /\ [][PoolNext]_<<version, session>>
=============================================================================
