------------------------- MODULE BinaryCacheProofs -------------------------
(* The safety properties of BinaryCache, for any number of server processes. *)
EXTENDS BinaryCache, TLAPS

\* Every step is one of these.
StepOf(s) == Begin(s) \/ Proceed(s) \/ Cancel(s) \/ StrayHash(s) \/ StrayWrite(s) \/ Restart(s)

Outside == Damage \/ CleanBinary \/ CleanSidecar

LEMMA Steps == [Next]_vars <=> (\E s \in Servers : StepOf(s)) \/ Outside \/ UNCHANGED vars
  BY DEF Next, StepOf, Outside

\* What At, and with it Return, Fail and Fetch, do to the call of one server.
LEMMA AtType ==
  ASSUME TypeOK, NEW s \in Servers,
         NEW l \in {"off", "sidecar", "hash", "heal", "mark", "fetch", "persist", "seal", "ready"},
         NEW d \in Bytes \cup {"none"}, NEW n \in Nat,
         l = "fetch" => n \in 0..MaxRetries,
         l = "persist" => n \in 1..PersistAttempts,
         l \in {"hash", "mark", "persist", "seal"} => d # "none",
         l \in {"off", "ready"} => d = "none" /\ n = 0,
         At(s, l, d, n),
         binary' \in Bytes \cup {"none"}, sidecar' \in Bytes \cup {"none"},
         stray' \in [Servers -> Bytes \cup {"none", "hash"}],
         alone' \in SUBSET Servers, fresh' \in SUBSET Servers, vouched' \in BOOLEAN
  PROVE  TypeOK'
<1>1. /\ pc' = [pc EXCEPT ![s] = l]
      /\ digest' = [digest EXCEPT ![s] = d]
      /\ attempt' = [attempt EXCEPT ![s] = n]
  BY DEF At
<1>2. /\ pc' \in [Servers -> {"off", "sidecar", "hash", "heal", "mark", "fetch", "persist", "seal",
                              "ready"}]
      /\ digest' \in [Servers -> Bytes \cup {"none"}]
      /\ attempt' \in [Servers -> Nat]
  BY <1>1 DEF TypeOK
<1>3. ASSUME NEW t \in Servers
      PROVE  /\ pc'[t] = "fetch" => attempt'[t] \in 0..MaxRetries
             /\ pc'[t] = "persist" => attempt'[t] \in 1..PersistAttempts
             /\ pc'[t] \in {"hash", "mark", "persist", "seal"} => digest'[t] # "none"
             /\ pc'[t] \in {"off", "ready"} => digest'[t] = "none" /\ attempt'[t] = 0
  <2>1. CASE t = s
    BY <1>1, <2>1 DEF TypeOK
  <2>2. CASE t # s
    BY <1>1, <2>2 DEF TypeOK
  <2> QED
    BY <2>1, <2>2
<1> QED
  BY <1>2, <1>3 DEF TypeOK

\* Every step keeps the types.
LEMMA TypeStep == TypeOK /\ [Next]_vars => TypeOK'
<1> SUFFICES ASSUME TypeOK, [Next]_vars PROVE TypeOK'
  OBVIOUS
<1> USE CacheAssumption
<1>1. ASSUME NEW s \in Servers, StepOf(s) PROVE TypeOK'
  <2>1. CASE Begin(s)
    <3>1. alone' \in SUBSET Servers /\ fresh' \in SUBSET Servers
      BY <2>1 DEF Begin, TypeOK
    <3>2. CASE binary = "none"
      BY <2>1, <3>1, <3>2, AtType DEF Begin, Fetch, TypeOK, disk
    <3>3. CASE binary # "none"
      BY <2>1, <3>1, <3>3, AtType DEF Begin, TypeOK, disk
    <3> QED
      BY <3>2, <3>3
  <2>2. CASE ReadSidecar(s) \/ Hash(s) \/ HealHash(s)
    BY <2>2, AtType DEF ReadSidecar, Hash, HealHash, Fetch, Return, TypeOK, disk, Bytes
  <2>3. CASE HealWrite(s)
    <3>1. /\ binary' \in Bytes \cup {"none"} /\ sidecar' \in Bytes \cup {"none"}
          /\ stray' \in [Servers -> Bytes \cup {"none", "hash"}]
          /\ alone' \in SUBSET Servers /\ fresh' \in SUBSET Servers /\ vouched' \in BOOLEAN
      BY <2>3 DEF HealWrite, TypeOK, Changed
    <3>2. CASE Return(s)
      BY <3>1, <3>2, AtType DEF Return
    <3>3. CASE Fetch(s)
      BY <3>1, <3>3, AtType DEF Fetch
    <3> QED
      BY <2>3, <3>2, <3>3 DEF HealWrite
  <2>4. CASE Download(s)
    BY <2>4, AtType DEF Download, TypeOK, disk, Bytes
  <2>5. CASE DownloadFails(s)
    <3>1. CASE MayRetry(attempt[s]) /\ At(s, "fetch", "none", attempt[s] + 1)
      <4>1. attempt[s] + 1 \in Nat /\ attempt[s] + 1 \in 0..MaxRetries
        BY <3>1 DEF MayRetry, TypeOK
      <4> QED
        BY <2>5, <3>1, <4>1, AtType DEF DownloadFails, TypeOK, disk
    <3>2. CASE Fail(s)
      BY <2>5, <3>2, AtType DEF DownloadFails, Fail, TypeOK, disk
    <3> QED
      BY <2>5, <3>1, <3>2 DEF DownloadFails
  <2>6. CASE Persist(s) \/ Seal(s)
    BY <2>6, AtType DEF Persist, Seal, Return, TypeOK, Changed
  <2>7. CASE PersistFails(s) \/ SealFails(s)
    BY <2>7, AtType DEF PersistFails, SealFails, Fail, TypeOK, disk
  <2>8. CASE Cancel(s)
    <3>1. stray' \in [Servers -> Bytes \cup {"none", "hash"}]
      BY <2>8 DEF Cancel, TypeOK
    <3> QED
      BY <2>8, <3>1, AtType DEF Cancel, Fail, TypeOK, disk
  <2>9. CASE StrayHash(s) \/ StrayWrite(s)
    BY <2>9 DEF StrayHash, StrayWrite, TypeOK, disk, Changed
  <2>10. CASE Restart(s)
    <3>1. stray' \in [Servers -> Bytes \cup {"none", "hash"}]
      BY <2>10 DEF Restart, TypeOK
    <3> QED
      BY <2>10, <3>1, AtType DEF Restart, Fail, TypeOK, disk
  <2> QED
    BY <1>1, <2>1, <2>2, <2>3, <2>4, <2>5, <2>6, <2>7, <2>8, <2>9, <2>10 DEF StepOf, Proceed
<1>2. CASE Damage
  BY <1>2 DEF Damage, TypeOK, Changed, Sealed, Bytes
<1>3. CASE CleanBinary \/ CleanSidecar
  BY <1>3 DEF CleanBinary, CleanSidecar, TypeOK, Changed
<1>4. CASE UNCHANGED vars
  BY <1>4 DEF vars, TypeOK
<1> QED
  BY <1>1, <1>2, <1>3, <1>4, Steps DEF Outside

\* Types (ensure_binary): in particular a download is tried at most DOWNLOAD_MAX_RETRIES times
\* again, and a temporary file is persisted at most MAX_ATTEMPTS times.
THEOREM TypeCorrect == Spec => []TypeOK
<1>1. Init => TypeOK
  <2> SUFFICES ASSUME Init PROVE TypeOK
    OBVIOUS
  <2>1. sidecar \in Bytes \cup {"none"}
    BY DEF Init, Bytes
  <2>2. \A s \in Servers : pc[s] = "off" /\ digest[s] = "none" /\ attempt[s] = 0
    BY DEF Init
  <2> QED
    BY <2>1, <2>2 DEF Init, TypeOK
<1> QED
  BY <1>1, TypeStep, PTL DEF Spec
-----------------------------------------------------------------------------
(***************************************************************************)
(* While the sidecar is the good one and nobody is about to heal damaged   *)
(* bytes, a step of a server leaves it so.                                 *)
(***************************************************************************)
AllUnhealed == \A s \in Servers : Unhealed(s)

LEMMA StaysUnhealed ==
  ASSUME TypeOK, AllUnhealed, sidecar = "good", NEW s \in Servers, StepOf(s)
  PROVE  AllUnhealed' /\ sidecar' = "good"
<1> USE DEF Bytes
<1>1. /\ pc[s] # "heal" /\ stray[s] # "hash" /\ stray[s] # "damaged"
      /\ digest[s] \in {"good", "none"}
      /\ pc[s] \in {"hash", "mark", "persist", "seal"} => digest[s] = "good"
  BY DEF TypeOK, AllUnhealed, Unhealed
<1>2. sidecar' = "good"
  BY <1>1 DEF StepOf, Begin, Proceed, ReadSidecar, Hash, HealHash, HealWrite, Download,
       DownloadFails, Persist, PersistFails, Seal, SealFails, Cancel, StrayHash, StrayWrite, Restart,
       disk
<1>3. ASSUME NEW t \in Servers PROVE Unhealed(t)'
  <2>0. Unhealed(t)
    BY DEF AllUnhealed
  <2>1. CASE t # s
    BY <2>0, <2>1 DEF Unhealed, TypeOK, StepOf, Begin, Proceed, ReadSidecar, Hash, HealHash,
         HealWrite, Download, DownloadFails, Persist, PersistFails, Seal, SealFails, Cancel,
         StrayHash, StrayWrite, Restart, At, Return, Fail, Fetch
  <2>2. CASE t = s
    <3>1. /\ pc'[s] # "heal"
          /\ digest'[s] # "damaged"
      BY <1>1 DEF TypeOK, StepOf, Begin, Proceed, ReadSidecar, Hash, HealHash,
           HealWrite, Download, DownloadFails, Persist, PersistFails, Seal, SealFails, Cancel,
           StrayHash, StrayWrite, Restart, At, Return, Fail, Fetch
    <3>2. stray'[s] # "hash" /\ stray'[s] # "damaged"
      BY <1>1 DEF TypeOK, StepOf, Begin, Proceed, ReadSidecar, Hash, HealHash,
           HealWrite, Download, DownloadFails, Persist, PersistFails, Seal, SealFails, Cancel,
           StrayHash, StrayWrite, Restart
    <3> QED
      BY <2>2, <3>1, <3>2 DEF Unhealed
  <2> QED
    BY <2>1, <2>2
<1> QED
  BY <1>2, <1>3 DEF AllUnhealed

\* A call that began under the good pair finds the sidecar and never heals; what it downloads
\* and persists is good.
FreshInv ==
  /\ fresh # {} => Sealed
  /\ \A s \in fresh : /\ pc[s] \notin {"heal", "mark"}
                      /\ stray[s] = "none"
                      /\ digest[s] # "damaged"
  /\ \A s \in Servers : pc[s] \in {"persist", "seal"} => digest[s] = "good"

\* Every step keeps it.
LEMMA FreshStep == TypeOK /\ FreshInv /\ [Next]_vars => FreshInv'
<1> SUFFICES ASSUME TypeOK, FreshInv, [Next]_vars PROVE FreshInv'
  OBVIOUS
<1>1. ASSUME NEW s \in Servers, StepOf(s) PROVE FreshInv'
  <2>1. fresh' \subseteq fresh \cup {s}
    BY <1>1 DEF StepOf, Begin, Proceed, ReadSidecar, Hash, HealHash, HealWrite, Download,
         DownloadFails, Persist, PersistFails, Seal, SealFails, Cancel, StrayHash, StrayWrite,
         Restart, Changed
  <2>2. fresh' # {} => Sealed'
    <3>1. CASE UNCHANGED disk
      <4>1. fresh' = fresh \/ Sealed' \/ fresh' = {}
        BY <1>1, <3>1 DEF StepOf, Begin, Proceed, ReadSidecar, Hash, HealHash, HealWrite, Download,
             DownloadFails, Persist, PersistFails, Seal, SealFails, Cancel, StrayHash, StrayWrite,
             Restart, Changed, disk, Sealed
      <4> QED
        BY <3>1, <4>1 DEF FreshInv, Sealed, disk
    <3>2. CASE ~UNCHANGED disk
      <4>1. \E by : Changed(by)
        BY <1>1, <3>2 DEF StepOf, Begin, Proceed, ReadSidecar, Hash, HealHash, HealWrite, Download,
             DownloadFails, Persist, PersistFails, Seal, SealFails, Cancel, StrayHash, StrayWrite,
             Restart, disk
      <4> QED
        BY <4>1 DEF Changed
    <3> QED
      BY <3>1, <3>2
  <2>3. ASSUME NEW t \in Servers, t # s
        PROVE  pc'[t] = pc[t] /\ digest'[t] = digest[t] /\ stray'[t] = stray[t]
    BY <1>1, <2>3 DEF TypeOK, StepOf, Begin, Proceed, ReadSidecar, Hash, HealHash,
         HealWrite, Download, DownloadFails, Persist, PersistFails, Seal, SealFails, Cancel,
         StrayHash, StrayWrite, Restart, At, Return, Fail, Fetch
  <2>4. pc'[s] \in {"persist", "seal"} => digest'[s] = "good"
    BY <1>1 DEF FreshInv, TypeOK, StepOf, Begin, Proceed, ReadSidecar, Hash, HealHash,
         HealWrite, Download, DownloadFails, Persist, PersistFails, Seal, SealFails, Cancel,
         StrayHash, StrayWrite, Restart, At, Return, Fail, Fetch
  <2>5. ASSUME s \in fresh'
        PROVE  pc'[s] \notin {"heal", "mark"} /\ stray'[s] = "none" /\ digest'[s] # "damaged"
    <3>1. CASE s \in fresh
      <4>1. /\ sidecar = "good" /\ pc[s] \notin {"heal", "mark"}
            /\ stray[s] = "none" /\ digest[s] # "damaged"
        BY <3>1 DEF FreshInv, Sealed
      <4>2. pc'[s] \notin {"heal", "mark"} /\ digest'[s] # "damaged"
        BY <1>1, <4>1 DEF TypeOK, StepOf, Begin, Proceed, ReadSidecar, Hash, HealHash,
             HealWrite, Download, DownloadFails, Persist, PersistFails, Seal, SealFails, Cancel,
             StrayHash, StrayWrite, Restart, At, Return, Fail, Fetch, disk
      <4>3. stray'[s] = "none"
        BY <1>1, <4>1 DEF TypeOK, StepOf, Begin, Proceed, ReadSidecar, Hash, HealHash,
             HealWrite, Download, DownloadFails, Persist, PersistFails, Seal, SealFails, Cancel,
             StrayHash, StrayWrite, Restart, Bytes
      <4> QED
        BY <4>2, <4>3
    <3>2. CASE s \notin fresh
      <4>1. Begin(s) /\ stray[s] = "none"
        BY <1>1, <2>5, <3>2 DEF StepOf, Begin, Proceed, ReadSidecar, Hash, HealHash, HealWrite,
             Download, DownloadFails, Persist, PersistFails, Seal, SealFails, Cancel, StrayHash,
             StrayWrite, Restart, Changed
      <4> QED
        BY <4>1 DEF Begin, Fetch, At, TypeOK
    <3> QED
      BY <3>1, <3>2
  <2>6. fresh' \subseteq Servers
    BY <2>1 DEF TypeOK
  <2>7. ASSUME NEW t \in fresh'
        PROVE  pc'[t] \notin {"heal", "mark"} /\ stray'[t] = "none" /\ digest'[t] # "damaged"
    <3>1. CASE t = s
      BY <2>5, <2>7, <3>1
    <3>2. CASE t # s
      <4>1. t \in fresh /\ t \in Servers
        BY <2>1, <2>6, <2>7, <3>2
      <4> QED
        BY <2>3, <3>2, <4>1 DEF FreshInv
    <3> QED
      BY <3>1, <3>2
  <2>8. ASSUME NEW t \in Servers, pc'[t] \in {"persist", "seal"}
        PROVE  digest'[t] = "good"
    BY <2>3, <2>4, <2>8 DEF FreshInv
  <2> QED
    BY <2>2, <2>7, <2>8 DEF FreshInv
<1>2. CASE Outside
  <2>1. /\ UNCHANGED <<pc, digest, stray>>
        /\ fresh' = IF Sealed' THEN fresh ELSE {}
    BY <1>2 DEF Outside, Damage, CleanBinary, CleanSidecar, Changed
  <2> QED
    BY <2>1 DEF FreshInv
<1>3. CASE UNCHANGED vars
  BY <1>3 DEF vars, FreshInv, Sealed
<1> QED
  BY <1>1, <1>2, <1>3, Steps

\* Besides damage and cleaning, only a heal of a call older than the good pair breaks it.
THEOREM SealIsKept == Spec => SealedStays
<1>1. Init => FreshInv
  BY DEF Init, FreshInv
<1>2. TypeOK /\ FreshInv /\ [Next]_vars =>
        (Sealed => \/ Sealed'
                   \/ Damage \/ CleanBinary \/ CleanSidecar
                   \/ \E s \in Servers \ fresh : HealWrite(s) \/ StrayWrite(s))
  <2> SUFFICES ASSUME TypeOK, FreshInv, [Next]_vars, Sealed, ~Outside,
                      \A s \in Servers \ fresh : ~HealWrite(s) /\ ~StrayWrite(s)
               PROVE  Sealed'
    BY DEF Outside
  <2>1. ASSUME NEW s \in Servers, StepOf(s) PROVE Sealed'
    <3>1. ~HealWrite(s) /\ ~StrayWrite(s)
      BY DEF FreshInv, HealWrite, StrayWrite, Bytes
    <3>2. pc[s] \in {"persist", "seal"} => digest[s] = "good"
      BY DEF FreshInv
    <3> QED
      BY <2>1, <3>1, <3>2 DEF Sealed, StepOf, Begin, Proceed, ReadSidecar, Hash, HealHash, Download,
           DownloadFails, Persist, PersistFails, Seal, SealFails, Cancel, StrayHash, Restart, disk
  <2>2. CASE UNCHANGED vars
    BY <2>2 DEF vars, Sealed
  <2> QED
    BY <2>1, <2>2, Steps
<1> QED
  BY <1>1, <1>2, TypeCorrect, FreshStep, PTL DEF Spec, SealedStays
-----------------------------------------------------------------------------
\* As long as the damage is vouched for, the sidecar is the good one and no heal is under way.
VouchInv == vouched => sidecar = "good" /\ AllUnhealed

\* Every step keeps it.
LEMMA VouchStep == TypeOK /\ VouchInv /\ [Next]_vars => VouchInv'
<1> SUFFICES ASSUME TypeOK, VouchInv, [Next]_vars PROVE VouchInv'
  OBVIOUS
<1>1. ASSUME NEW s \in Servers, StepOf(s) PROVE VouchInv'
  <2>1. vouched' = vouched
    BY <1>1 DEF StepOf, Begin, Proceed, ReadSidecar, Hash, HealHash, HealWrite, Download,
         DownloadFails, Persist, PersistFails, Seal, SealFails, Cancel, StrayHash, StrayWrite, Restart
  <2> QED
    BY <1>1, <2>1, StaysUnhealed DEF VouchInv
<1>2. CASE Damage
  BY <1>2 DEF Damage, VouchInv, Sealed, AllUnhealed, Unhealed
<1>3. CASE CleanBinary \/ CleanSidecar
  BY <1>3 DEF CleanBinary, CleanSidecar, VouchInv, AllUnhealed, Unhealed
<1>4. CASE UNCHANGED vars
  BY <1>4 DEF vars, VouchInv, AllUnhealed, Unhealed
<1> QED
  BY <1>1, <1>2, <1>3, <1>4, Steps DEF Outside

\* A call ends well in three places.
LEMMA Approvals ==
  ASSUME TypeOK, [Next]_vars, NEW s \in Servers, Approves(s)
  PROVE  Hash(s) \/ HealWrite(s) \/ Seal(s)
<1>1. PICK t \in Servers : StepOf(t)
  BY Steps DEF Approves, Outside, Damage, CleanBinary, CleanSidecar, vars
<1>2. t = s
  BY <1>1 DEF Approves, TypeOK, StepOf, Begin, Proceed, ReadSidecar, Hash, HealHash, HealWrite,
       Download, DownloadFails, Persist, PersistFails, Seal, SealFails, Cancel, StrayHash,
       StrayWrite, Restart, At, Return, Fail, Fetch
<1> QED
  BY <1>1, <1>2 DEF Approves, TypeOK, StepOf, Begin, Proceed, ReadSidecar, HealHash,
       Download, DownloadFails, Persist, PersistFails, SealFails, Cancel, StrayHash,
       StrayWrite, Restart, At, Fail, Fetch

\* Damage under a sidecar is caught.
THEOREM DamageIsCaught == Spec => DamageCaught
<1>1. Init => VouchInv
  BY DEF Init, VouchInv
<1>2. TypeOK /\ VouchInv /\ [Next]_vars =>
        (vouched => \A s \in Servers : Approves(s) => Accepted(s) # "damaged")
  <2> SUFFICES ASSUME TypeOK, VouchInv, [Next]_vars, vouched, NEW s \in Servers, Approves(s)
               PROVE  Accepted(s) # "damaged"
    OBVIOUS
  <2>1. digest[s] # "damaged"
    BY DEF VouchInv, AllUnhealed, Unhealed
  <2>2. CASE Hash(s)
    BY <2>1, <2>2 DEF Hash, Accepted, Approves, Fetch, At, TypeOK
  <2>3. CASE HealWrite(s) \/ Seal(s)
    BY <2>1, <2>3 DEF HealWrite, Seal, Accepted
  <2> QED
    BY <2>2, <2>3, Approvals
<1> QED
  BY <1>1, <1>2, TypeCorrect, VouchStep, PTL DEF Spec, DamageCaught
-----------------------------------------------------------------------------
\* What the digest of an undisturbed call is of.
AloneInv ==
  \A s \in alone :
    /\ pc[s] = "hash" => digest[s] = sidecar
    /\ pc[s] \in {"mark", "seal"} => digest[s] = binary

\* Every step keeps it: whoever changes the cache disturbs the others.
LEMMA AloneStep == TypeOK /\ AloneInv /\ [Next]_vars => AloneInv'
<1> SUFFICES ASSUME TypeOK, AloneInv, [Next]_vars, NEW t \in alone'
             PROVE  /\ pc'[t] = "hash" => digest'[t] = sidecar'
                    /\ pc'[t] \in {"mark", "seal"} => digest'[t] = binary'
  BY DEF AloneInv
<1>1. ASSUME NEW s \in Servers, StepOf(s)
      PROVE  /\ pc'[t] = "hash" => digest'[t] = sidecar'
             /\ pc'[t] \in {"mark", "seal"} => digest'[t] = binary'
  <2>1. t \in Servers
    BY TypeStep DEF TypeOK
  <2>2. CASE t = s
    BY <1>1, <2>1, <2>2 DEF AloneInv, TypeOK, StepOf, Begin, Proceed, ReadSidecar, Hash, HealHash,
         HealWrite, Download, DownloadFails, Persist, PersistFails, Seal, SealFails, Cancel,
         StrayHash, StrayWrite, Restart, At, Return, Fail, Fetch, Changed, disk
  <2>3. CASE t # s
    <3>1. t \in alone /\ UNCHANGED disk
      BY <1>1, <2>3 DEF StepOf, Begin, Proceed, ReadSidecar, Hash, HealHash,
           HealWrite, Download, DownloadFails, Persist, PersistFails, Seal, SealFails, Cancel,
           StrayHash, StrayWrite, Restart, Changed, disk
    <3>2. pc'[t] = pc[t] /\ digest'[t] = digest[t]
      BY <1>1, <2>1, <2>3 DEF TypeOK, StepOf, Begin, Proceed, ReadSidecar, Hash, HealHash,
           HealWrite, Download, DownloadFails, Persist, PersistFails, Seal, SealFails, Cancel,
           StrayHash, StrayWrite, Restart, At, Return, Fail, Fetch
    <3> QED
      BY <3>1, <3>2 DEF AloneInv, disk
  <2> QED
    BY <2>2, <2>3
<1>2. CASE Outside
  BY <1>2 DEF Outside, Damage, CleanBinary, CleanSidecar, Changed
<1>3. CASE UNCHANGED vars
  BY <1>3 DEF vars, AloneInv
<1> QED
  BY <1>1, <1>2, <1>3, Steps

\* An undisturbed call leaves a binary with its own sidecar.
THEOREM AgreementIsLeft == Spec => LeavesAgreement
<1>1. Init => AloneInv
  BY DEF Init, AloneInv
<1>2. TypeOK /\ AloneInv /\ [Next]_vars =>
        \A s \in alone : Approves(s) => sidecar' = binary'
  <2> SUFFICES ASSUME TypeOK, AloneInv, [Next]_vars, NEW s \in alone, Approves(s)
               PROVE  sidecar' = binary'
    OBVIOUS
  <2>1. s \in Servers
    BY DEF TypeOK
  <2>2. CASE Hash(s)
    BY <2>1, <2>2 DEF Hash, AloneInv, Approves, Fetch, At, TypeOK, disk
  <2>3. CASE HealWrite(s)
    BY <2>1, <2>3 DEF HealWrite, AloneInv, Approves, Fetch, At, TypeOK
  <2>4. CASE Seal(s)
    BY <2>1, <2>4 DEF Seal, AloneInv
  <2> QED
    BY <2>1, <2>2, <2>3, <2>4, Approvals
<1> QED
  BY <1>1, <1>2, TypeCorrect, AloneStep, PTL DEF Spec, LeavesAgreement
=============================================================================
