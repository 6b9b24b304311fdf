---------------------------- MODULE LoadingProofs ----------------------------
(***************************************************************************)
(* Loading a trace, for all values of the constants: any size of file and  *)
(* sample, any range of ports, any number of loads and of writes of any    *)
(* kind between any two reads.                                             *)
(*                                                                         *)
(* What load_trace returns names what its client reads: the argument is    *)
(* that of the change time.  Once the clock has passed a change time, no   *)
(* later state of the file has it, so wherever it is met again the content *)
(* is the one it had.                                                      *)
(*                                                                         *)
(* A fingerprint is that of one content: the reads of a file that nothing  *)
(* came between add up to what the fingerprint covers.                     *)
(*                                                                         *)
(* A port goes to a second spawn only after the counter went all round:    *)
(* the recursive Probed has a closed form, by induction over the sweep.    *)
(***************************************************************************)
EXTENDS Loading, SequenceTheorems, FiniteSetTheorems, WellFoundedInduction, TLAPS

\* Wherever the file has this change time, it has these cells; and nothing written from
\* now on has it.
FixedIn(theFile, now, stamp, cells) ==
  stamp \in Nat /\ stamp < now /\ (theFile.changed = stamp => theFile.cells = cells)

Fixed(stamp, cells) == FixedIn(file, clock, stamp, cells)

\* The metadata of the pass for the key, of that for the fingerprint.
KeyMeta == IF pc = "key" THEN reading.meta ELSE key.meta
FpMeta  == IF pc = "fingerprint" THEN reading.meta ELSE fp.meta

WithKey == {"key", "stat", "fingerprint", "lookup", "spawn", "served", "check", "loaded"}
WithFp  == {"fingerprint", "lookup", "spawn"}

\* Times are of the past, and only those of a Unix file are relied on.
TimesInv ==
  /\ clock \in Nat /\ file.changed \in Nat /\ file.changed <= clock
  /\ keySettled \/ fpSettled => setting.system = "unix"
  /\ DOMAIN reading = {"meta", "handle", "old", "got", "part"}

\* The key's change time stands for the cells the file had when it was read.
KeyInv ==
  pc \in WithKey /\ keySettled =>
    /\ KeyMeta.platform \in Nat /\ KeyMeta.platform <= file.changed
    /\ Fixed(KeyMeta.platform, atKey)

\* The fingerprint's is between the key's and the file's.
FpInv ==
  /\ pc \in WithFp /\ fpSettled => FpMeta.platform \in Nat /\ FpMeta.platform < clock
  /\ pc \in WithFp /\ keySettled =>
       /\ FpMeta.platform \in Nat
       /\ KeyMeta.platform <= FpMeta.platform /\ FpMeta.platform <= file.changed

\* An instance whose fingerprint's times were of an earlier tick reads what the file had at
\* that change time.
InstanceInv ==
  instance # None /\ instance.settled => Fixed(instance.fp.meta.platform, instance.cells)

\* If the file still has the key's change time, the client reads what it holds.
SessionInv ==
  pc \in {"served", "check"} /\ keySettled /\ session.settled => Fixed(key.meta.platform, session.cells)

\* What the comparison of the key finds out.
CheckInv ==
  pc = "check" /\ keySettled /\ reading.meta.platform = key.meta.platform =>
    atStat = atKey /\ (session.settled => session.cells = atKey)

LoadInv == TimesInv /\ KeyInv /\ FpInv /\ InstanceInv /\ SessionInv /\ CheckInv
-----------------------------------------------------------------------------
\* Readings keep their metadata until a new one begins.
LEMMA ReadingsKeepMeta ==
  ASSUME DOMAIN reading = {"meta", "handle", "old", "got", "part"}
  PROVE  /\ \A full : /\ ReadOn(reading, file, full).meta = reading.meta
                      /\ DOMAIN ReadOn(reading, file, full) = DOMAIN reading
         /\ \A old : /\ Replaced(reading, old).meta = reading.meta
                     /\ DOMAIN Replaced(reading, old) = DOMAIN reading
         /\ \A meta : /\ Begun(meta).meta = meta
                      /\ DOMAIN Begun(meta) = DOMAIN reading
  BY DEF ReadOn, Replaced, Begun

\* Whatever is written has the time of the clock.
LEMMA FixedStays ==
  ASSUME TimesInv, [Next]_vars
  PROVE  /\ clock' \in Nat /\ file'.changed \in Nat
         /\ file'.changed <= clock' /\ clock <= clock' /\ file.changed <= file'.changed
         /\ file'.changed = file.changed \/ file'.changed = clock
         /\ \A stamp, cells : FixedIn(file, clock, stamp, cells) => FixedIn(file', clock', stamp, cells)
PROOF
  <1>1. CASE Overwrite \/ Resize \/ Replace
    <2>1. \E cells : Written(cells)
      BY <1>1 DEF Overwrite, Resize, Replace
    <2>2. \A cells : Written(cells) => clock' = clock /\ file'.changed = clock
      BY DEF Written
    <2>3. clock' = clock /\ file'.changed = clock
      BY <2>1, <2>2
    <2> QED BY <2>3 DEF TimesInv, FixedIn
  <1>2. CASE Tick
    <2>1. clock' = clock + 1 /\ file' = file
      BY <1>2 DEF Tick
    <2> QED BY <2>1 DEF TimesInv, FixedIn
  <1>3. CASE UNCHANGED <<file, clock>>
    BY <1>3 DEF TimesInv, FixedIn
  <1>4. ASSUME [Next]_vars, ~(Overwrite \/ Resize \/ Replace), ~Tick PROVE UNCHANGED <<file, clock>>
    BY <1>4 DEF Next, vars, fileVars, LoadTrace, ReadBlock, ReadFails, Fail, KeyRead, BeginFingerprint,
                FingerprintRead, FingerprintChanged, Reuse, Allocate, NoFreePort, OtherSpawns, OtherEnds,
                SpawnReady, SpawnFails, BeginCheck, Loaded, Changed, Answered
  <1> QED BY <1>1, <1>2, <1>3, <1>4
-----------------------------------------------------------------------------
LEMMA LoadInvStarts == Init => LoadInv
  BY DEF Init, LoadInv, TimesInv, KeyInv, FpInv, InstanceInv, SessionInv, CheckInv, Fixed,
         WithKey, WithFp, NoReading, Begun

\* What a step does to the times, for a step that keeps the invariant.
Later ==
  /\ clock' \in Nat /\ file'.changed \in Nat
  /\ file'.changed <= clock' /\ clock <= clock' /\ file.changed <= file'.changed
  /\ \A stamp, cells : FixedIn(file, clock, stamp, cells) => FixedIn(file', clock', stamp, cells)

\* The others that have the file.
LEMMA WritersKeepLoadInv ==
  ASSUME LoadInv, Later, Overwrite \/ Resize \/ Replace \/ Tick
  PROVE  LoadInv'
PROOF
  <1>1. /\ UNCHANGED <<setting, pc, key, fp, instance, session, atKey, atStat, keySettled, fpSettled>>
        /\ reading'.meta = reading.meta /\ DOMAIN reading' = DOMAIN reading
    BY ReadingsKeepMeta DEF Overwrite, Resize, Replace, Tick, Written, pastVars, LoadInv, TimesInv
  <1>2. KeyMeta' = KeyMeta /\ FpMeta' = FpMeta
    BY <1>1 DEF KeyMeta, FpMeta
  <1>3. TimesInv' /\ KeyInv' /\ FpInv'
    BY <1>1, <1>2 DEF LoadInv, TimesInv, KeyInv, FpInv, Later, Fixed
  <1>4. InstanceInv' /\ SessionInv' /\ CheckInv'
    BY <1>1 DEF LoadInv, InstanceInv, SessionInv, CheckInv, Later, Fixed
  <1> QED BY <1>3, <1>4 DEF LoadInv

\* Steps at which nothing is learnt about the file.
LEMMA OthersKeepLoadInv ==
  ASSUME LoadInv,
         ReadBlock \/ ReadFails \/ FingerprintChanged \/ Allocate \/ NoFreePort \/ OtherSpawns
         \/ OtherEnds \/ SpawnFails \/ Changed \/ Answered \/ Loaded
  PROVE  LoadInv'
PROOF
  <1>1. CASE ReadBlock \/ OtherSpawns \/ OtherEnds
    <2>1. /\ UNCHANGED <<file, clock, setting, pc, key, fp, instance, session, atKey, atStat, keySettled, fpSettled>>
          /\ reading'.meta = reading.meta /\ DOMAIN reading' = DOMAIN reading
      BY <1>1, ReadingsKeepMeta
        DEF ReadBlock, OtherSpawns, OtherEnds, fileVars, pastVars, LoadInv, TimesInv
    <2> QED BY <2>1
      DEF LoadInv, TimesInv, KeyInv, FpInv, InstanceInv, SessionInv, CheckInv, Fixed, KeyMeta,
          FpMeta
  <1>2. CASE ReadFails \/ FingerprintChanged \/ NoFreePort \/ SpawnFails \/ Changed \/ Answered
    <2>1. /\ UNCHANGED <<file, clock, setting>>
          /\ pc' \in {"failed", "idle"} /\ instance' \in {instance, None}
          /\ reading' \in {reading, NoReading}
          /\ keySettled' \/ fpSettled' => keySettled \/ fpSettled
      BY <1>2
        DEF ReadFails, FingerprintChanged, NoFreePort, SpawnFails, Changed, Answered, Fail,
            fileVars, pastVars
    <2>2. DOMAIN NoReading = {"meta", "handle", "old", "got", "part"}
      BY DEF NoReading, Begun
    <2> QED BY <2>1, <2>2
      DEF LoadInv, TimesInv, KeyInv, FpInv, InstanceInv, SessionInv, CheckInv, Fixed, KeyMeta,
          FpMeta, WithKey, WithFp
  <1>3. CASE Allocate
    BY <1>3
      DEF Allocate, fileVars, pastVars, LoadInv, TimesInv, KeyInv, FpInv, InstanceInv,
          SessionInv, CheckInv, Fixed, KeyMeta, FpMeta, WithKey, WithFp
  <1>4. CASE Loaded
    <2>1. DOMAIN NoReading = {"meta", "handle", "old", "got", "part"}
      BY DEF NoReading, Begun
    <2> QED BY <1>4, <2>1
      DEF Loaded, Ended, fileVars, pastVars, LoadInv, TimesInv, KeyInv, FpInv, InstanceInv,
          SessionInv, CheckInv, Fixed, KeyMeta, FpMeta, WithKey, WithFp
  <1> QED BY <1>1, <1>2, <1>3, <1>4

\* The metadata of a Unix file.
LEMMA UnixStat == ASSUME setting.system = "unix" PROVE Stat.platform = file.changed
  BY DEF Stat, Metadata

\* Each pass begins with the metadata and ends in an identity that has them.
LEMMA PassesKeepLoadInv ==
  ASSUME LoadInv, LoadTrace \/ KeyRead \/ BeginFingerprint \/ FingerprintRead \/ BeginCheck
  PROVE  LoadInv'
PROOF
  <1>1. \A meta : Begun(meta).meta = meta /\ DOMAIN Begun(meta) = {"meta", "handle", "old", "got", "part"}
    BY DEF Begun
  <1>2. DOMAIN NoReading = {"meta", "handle", "old", "got", "part"}
    BY DEF NoReading, Begun
  <1>3. \A r : Identity(r).meta = r.meta
    BY DEF Identity
  <1>4. CASE LoadTrace
    <2>1. /\ UNCHANGED <<file, clock, setting, key, fp, instance, session, fpSettled>> /\ pc' = "key"
          /\ reading'.meta = Stat /\ DOMAIN reading' = {"meta", "handle", "old", "got", "part"}
          /\ atKey' = file.cells
      BY <1>1, <1>4 DEF LoadTrace, fileVars
    <2>2. keySettled' => /\ Stat.platform = file.changed /\ file.changed < clock
                         /\ setting.system = "unix"
      BY <1>4, UnixStat DEF LoadTrace, Settled
    <2>3. KeyInv'
      BY <2>1, <2>2 DEF LoadInv, TimesInv, KeyInv, Fixed, FixedIn, KeyMeta
    <2> QED BY <2>1, <2>2, <2>3
      DEF LoadInv, TimesInv, FpInv, InstanceInv, SessionInv, CheckInv, Fixed, WithFp
  <1>5. CASE KeyRead
    BY <1>2, <1>3, <1>5
      DEF KeyRead, Ended, fileVars, pastVars, LoadInv, TimesInv, KeyInv, FpInv, InstanceInv,
          SessionInv, CheckInv, Fixed, KeyMeta, FpMeta, WithKey, WithFp
  <1>6. CASE BeginFingerprint
    <2>1. /\ UNCHANGED <<file, clock, setting, key, fp, instance, session, atKey, keySettled>>
          /\ pc = "stat" /\ pc' = "fingerprint"
          /\ reading'.meta = Stat /\ DOMAIN reading' = {"meta", "handle", "old", "got", "part"}
      BY <1>1, <1>6 DEF BeginFingerprint, fileVars
    <2>2. keySettled => Stat.platform = file.changed
      BY UnixStat DEF LoadInv, TimesInv
    <2>3. fpSettled' => /\ Stat.platform = file.changed /\ file.changed < clock
                        /\ setting.system = "unix"
      BY <1>6, UnixStat DEF BeginFingerprint, Settled
    <2>4. KeyInv' /\ FpInv'
      BY <2>1, <2>2, <2>3 DEF LoadInv, TimesInv, KeyInv, FpInv, Fixed, KeyMeta, FpMeta, WithKey
    <2> QED BY <2>1, <2>3, <2>4 DEF LoadInv, TimesInv, InstanceInv, SessionInv, CheckInv, Fixed
  <1>7. CASE FingerprintRead
    BY <1>2, <1>3, <1>7
      DEF FingerprintRead, Ended, fileVars, pastVars, LoadInv, TimesInv, KeyInv, FpInv,
          InstanceInv, SessionInv, CheckInv, Fixed, KeyMeta, FpMeta, WithKey, WithFp
  <1>8. CASE BeginCheck
    <2>1. keySettled => Stat.platform = file.changed
      BY <1>8, UnixStat DEF LoadInv, TimesInv
    <2> QED BY <1>1, <1>8, <2>1
      DEF BeginCheck, fileVars, LoadInv, TimesInv, KeyInv, FpInv, InstanceInv, SessionInv,
          CheckInv, Fixed, FixedIn, KeyMeta, FpMeta, WithKey, WithFp
  <1> QED BY <1>4, <1>5, <1>6, <1>7, <1>8

\* Whether the instance is reused or new, the client reads what the file has if it still
\* has the key's change time.
LEMMA ServingKeepsLoadInv ==
  ASSUME LoadInv, Reuse \/ SpawnReady
  PROVE  LoadInv'
PROOF
  <1>1. CASE Reuse
    <2>1. instance # None /\ instance.fp = fp
      BY <1>1 DEF Reuse, Reusable
    <2>2. session'.settled = instance.settled /\ session'.cells = instance.cells
      BY <1>1 DEF Reuse
    <2>3. ASSUME keySettled, instance.settled PROVE Fixed(key.meta.platform, instance.cells)
      BY <1>1, <2>1, <2>3
        DEF Reuse, LoadInv, TimesInv, KeyInv, FpInv, InstanceInv, SessionInv, CheckInv, Fixed,
            FixedIn, KeyMeta, FpMeta, WithKey, WithFp
    <2> QED BY <1>1, <2>2, <2>3
      DEF Reuse, fileVars, pastVars, LoadInv, TimesInv, KeyInv, FpInv, InstanceInv, SessionInv,
          CheckInv, Fixed, KeyMeta, FpMeta, WithKey, WithFp
  <1>2. CASE SpawnReady
    <2>1. /\ instance'.fp = fp /\ instance'.cells = file.cells /\ instance'.settled = fpSettled
          /\ session'.cells = file.cells
      BY <1>2 DEF SpawnReady
    <2>2. fpSettled => Fixed(fp.meta.platform, file.cells)
      BY <1>2 DEF SpawnReady, LoadInv, FpInv, Fixed, FixedIn, FpMeta, WithFp
    <2>3. keySettled => Fixed(key.meta.platform, file.cells)
      BY <1>2 DEF SpawnReady, LoadInv, KeyInv, Fixed, FixedIn, KeyMeta, WithKey
    <2> QED BY <1>2, <2>1, <2>2, <2>3
      DEF SpawnReady, fileVars, pastVars, LoadInv, TimesInv, KeyInv, FpInv, InstanceInv,
          SessionInv, CheckInv, Fixed, KeyMeta, FpMeta, WithKey, WithFp
  <1> QED BY <1>1, <1>2

LEMMA LoadInvKept == LoadInv /\ [Next]_vars => LoadInv'
PROOF
  <1> SUFFICES ASSUME LoadInv, [Next]_vars PROVE LoadInv'
    OBVIOUS
  <1>1. Later
    BY FixedStays DEF Later, LoadInv
  <1>2. CASE UNCHANGED vars
    BY <1>2
      DEF vars, LoadInv, TimesInv, KeyInv, FpInv, InstanceInv, SessionInv, CheckInv, Fixed,
          KeyMeta, FpMeta
  <1> QED BY <1>1, <1>2, WritersKeepLoadInv, OthersKeepLoadInv, PassesKeepLoadInv, ServingKeepsLoadInv
    DEF Next

\* The comparison has found the key's metadata again, and with them the key's content, in
\* the client as in the file.
LEMMA LoadedNames == LoadInv /\ LoadNamesContent /\ [Next]_vars => LoadNamesContent'
PROOF
  <1> SUFFICES ASSUME LoadInv, LoadNamesContent, [Next]_vars PROVE LoadNamesContent'
    OBVIOUS
  <1>1. CASE Loaded
    <2>1. reading.meta = key.meta
      BY <1>1 DEF Loaded, SameKey, Identity
    <2> QED BY <1>1, <2>1 DEF Loaded, Ended, pastVars, LoadInv, CheckInv, LoadNamesContent
  <1>2. CASE UNCHANGED <<pc, keySettled, session, atKey, atStat>>
    BY <1>2 DEF LoadNamesContent
  <1>3. CASE pc' # "loaded"
    BY <1>3 DEF LoadNamesContent
  <1> QED
    BY <1>1, <1>2, <1>3
      DEF Next, vars, pastVars, Overwrite, Resize, Replace, Written, Tick, LoadTrace, ReadBlock,
          ReadFails, Fail, KeyRead, BeginFingerprint, FingerprintRead, FingerprintChanged, Reuse,
          Allocate, NoFreePort, OtherSpawns, OtherEnds, SpawnReady, SpawnFails, BeginCheck,
          Changed, Answered
-----------------------------------------------------------------------------
\* What load_trace returns: on Unix, when the times in the key were of an earlier tick, and
\* those of the instance it reuses, the client reads what the file held when the key was
\* read, and the file held it still when the key was compared, whoever wrote in between.
THEOREM LoadNamesItsContent == Spec => []LoadNamesContent
PROOF
  <1>1. Init => LoadInv /\ LoadNamesContent
    BY LoadInvStarts DEF Init, LoadNamesContent
  <1>2. LoadInv /\ LoadNamesContent /\ [Next]_vars => LoadInv' /\ LoadNamesContent'
    BY LoadInvKept, LoadedNames
  <1> QED BY <1>1, <1>2, PTL DEF Spec
-----------------------------------------------------------------------------
\* What a reading has so far of the cells it reads, if nothing came between.
Intact(r, cells, full) ==
  /\ r.handle \in {"none", "live"}
  /\ r.meta.size = Len(cells)
  /\ IF ReadsAll(Len(cells), full)
     THEN r.part = 0 /\ \E n \in 0..Len(cells) : r.got = SubSeq(cells, 1, n)
     ELSE \/ r.part = 0 /\ r.got = <<>>
          \/ r.part = 1 /\ r.got = SubSeq(cells, 1, Sample)
          \/ r.part = 2 /\ r.got = SubSeq(cells, 1, Sample)
                                   \o After(cells, MiddleOffset(Len(cells)), Sample)
          \/ r.part = 3 /\ r.got = Covered(cells, full)

\* Nothing came between: no write at all, or none that the change time can show.
Undisturbed == ~disturbed \/ (fpSettled /\ file.changed = reading.meta.platform)

FileInv == file.cells \in Seq(Cells) /\ setting.full \in BOOLEAN

\* The pass for the fingerprint, and the fingerprint.
SampleInv ==
  /\ pc = "fingerprint" /\ Undisturbed => Intact(reading, file.cells, setting.full)
  /\ pc = "fingerprint" /\ fpSettled /\ file.changed = reading.meta.platform => atStat = file.cells
  /\ pc \in {"lookup", "spawn"} /\ ~disturbed => fp.sample = Covered(file.cells, setting.full)

\* What an instance reads is what its fingerprint says, and a client's what the file has.
CleanInv ==
  /\ instance # None /\ instance.clean =>
       instance.fp.sample = Covered(instance.cells, setting.full)
  /\ pc \in {"served", "check", "loaded"} /\ ~disturbed /\ session.clean =>
       Covered(session.cells, setting.full) = Covered(file.cells, setting.full)

ContentInv == FileInv /\ SampleInv /\ CleanInv /\ FingerprintExact

-----------------------------------------------------------------------------
\* A read from an offset takes up where the reading is.
LEMMA BlocksFit ==
  ASSUME NEW cells \in Seq(Cells), NEW n \in 0..Len(cells)
  PROVE  LET m == IF n + Sample < Len(cells) THEN n + Sample ELSE Len(cells)
         IN  /\ After(cells, n, Sample) = SubSeq(cells, n + 1, m)
             /\ m \in n..Len(cells)
             /\ SubSeq(cells, 1, n) \o After(cells, n, Sample) = SubSeq(cells, 1, m)
             /\ Len(SubSeq(cells, 1, n)) = n
             /\ After(cells, n, Sample) = <<>> => n = Len(cells)
PROOF
  <1> DEFINE m == IF n + Sample < Len(cells) THEN n + Sample ELSE Len(cells)
  <1>1. Sample \in Nat /\ Sample > 0 /\ Len(cells) \in Nat /\ n \in Nat /\ n <= Len(cells)
    BY SampleAssumption, LenProperties
  <1>2. m \in n..Len(cells) /\ After(cells, n, Sample) = SubSeq(cells, n + 1, m)
    BY <1>1 DEF After
  <1>3. SubSeq(cells, 1, n) \o SubSeq(cells, n + 1, m) = SubSeq(cells, 1, m)
    <2>1. 1 \in 1..(Len(cells) + 1) /\ n \in (1 - 1)..Len(cells) /\ m \in n..Len(cells)
      BY <1>1, <1>2
    <2> HIDE DEF m
    <2> QED BY <2>1, ConcatAdjacentSubSeq
  <1>4. \A i \in 1..Len(cells) : cells[i] \in Cells
    BY ElementOfSeq
  <1>5. Len(SubSeq(cells, 1, n)) = n
    <2>1. \A i \in 1..n : cells[i] \in Cells
      BY <1>1, <1>4
    <2> QED BY <1>1, <2>1, SubSeqProperties
  <1>6. ASSUME n # Len(cells) PROVE SubSeq(cells, n + 1, m) # <<>>
    <2>1. m \in Int /\ n + 1 \in Int /\ n + 1 <= m
      BY <1>1, <1>6
    <2>2. \A i \in (n + 1)..m : cells[i] \in Cells
      BY <1>1, <1>2, <1>4
    <2>3. Len(SubSeq(cells, n + 1, m)) = m - (n + 1) + 1
      <3> HIDE DEF m
      <3> QED BY <2>1, <2>2, SubSeqProperties
    <2>4. Len(SubSeq(cells, n + 1, m)) # 0
      BY <2>1, <2>3
    <2> QED BY <2>4, EmptySeq
  <1> HIDE DEF m
  <1>7. /\ After(cells, n, Sample) = SubSeq(cells, n + 1, m)
        /\ m \in n..Len(cells)
        /\ SubSeq(cells, 1, n) \o After(cells, n, Sample) = SubSeq(cells, 1, m)
        /\ Len(SubSeq(cells, 1, n)) = n
        /\ After(cells, n, Sample) = <<>> => n = Len(cells)
    BY <1>2, <1>3, <1>5, <1>6
  <1> QED BY <1>7 DEF m

\* What is read next of a file that nobody touched is what comes next.
LEMMA ReadsOn ==
  ASSUME NEW cells \in Seq(Cells), NEW theFile, theFile.cells = cells, NEW full \in BOOLEAN, NEW r,
         DOMAIN r = {"meta", "handle", "old", "got", "part"}, Intact(r, cells, full),
         ~Complete(r, theFile, full)
  PROVE  Intact(ReadOn(r, theFile, full), cells, full)
PROOF
  <1> DEFINE next == ReadOn(r, theFile, full)
  <1>1. Sample \in Nat /\ Sample > 0 /\ Len(cells) \in Nat
    BY SampleAssumption, LenProperties
  <1>2. HeldCells(r, theFile) = cells /\ r.meta.size = Len(cells)
    BY DEF Intact, HeldCells
  <1>3. /\ next.handle \in {"none", "live"} /\ next.meta = r.meta
        /\ next.got = r.got \o Block(r, theFile, full)
        /\ next.part = IF ReadsAll(Len(cells), full) THEN 0 ELSE r.part + 1
    BY <1>2 DEF ReadOn, Intact
  <1>4. CASE ReadsAll(Len(cells), full)
    <2>1. PICK n \in 0..Len(cells) : r.got = SubSeq(cells, 1, n)
      BY <1>4 DEF Intact
    <2>2. Len(r.got) = n
      BY <2>1, BlocksFit
    <2>3. Block(r, theFile, full) = After(cells, n, Sample)
      BY <1>1, <1>2, <1>4, <2>2 DEF Block, OffsetOf
    <2>4. \E m \in 0..Len(cells) : next.got = SubSeq(cells, 1, m)
      <3>1. \E m \in n..Len(cells) : SubSeq(cells, 1, n) \o After(cells, n, Sample) = SubSeq(cells, 1, m)
        BY BlocksFit
      <3> QED BY <1>1, <1>3, <2>1, <2>3, <3>1
    <2> QED BY <1>2, <1>3, <1>4, <2>4 DEF Intact
  <1>5. CASE ~ReadsAll(Len(cells), full)
    <2>1. Len(cells) > 3 * Sample
      BY <1>1, <1>5 DEF ReadsAll
    <2>2. r.part # 3
      BY <1>2, <1>5 DEF Complete
    <2>3. CASE r.part = 0
      <3>1. Block(r, theFile, full) = After(cells, 0, Sample)
        BY <1>2, <1>5, <2>3 DEF Block, OffsetOf
      <3>2. After(cells, 0, Sample) = SubSeq(cells, 1, Sample) /\ SubSeq(cells, 1, Sample) \in Seq(Cells)
        <4>1. 0 + Sample < Len(cells) /\ 0 + Sample = Sample /\ 0 + 1 = 1
          BY <1>1, <2>1
        <4>2. \A i \in 1..Sample : cells[i] \in Cells
          BY <1>1, <2>1, ElementOfSeq
        <4> QED BY <1>1, <4>1, <4>2, SubSeqProperties DEF After
      <3>3. r.got = <<>>
        BY <1>5, <2>3 DEF Intact
      <3>4. next.got = SubSeq(cells, 1, Sample)
        BY <1>3, <3>1, <3>2, <3>3, ConcatEmptySeq
      <3> QED BY <1>2, <1>3, <1>5, <2>3, <3>4 DEF Intact
    <2>4. CASE r.part = 1
      <3>1. MiddleOffset(Len(cells)) \in Int /\ ~(MiddleOffset(Len(cells)) < 0)
        BY <1>1, <2>1 DEF MiddleOffset
      <3>2. Block(r, theFile, full) = After(cells, MiddleOffset(Len(cells)), Sample)
        BY <1>2, <1>5, <2>4, <3>1 DEF Block, OffsetOf
      <3>3. r.got = SubSeq(cells, 1, Sample)
        BY <1>5, <2>4 DEF Intact
      <3> QED BY <1>2, <1>3, <1>5, <2>4, <3>2, <3>3 DEF Intact
    <2>5. CASE r.part = 2
      <3>1. Block(r, theFile, full) = After(cells, Len(cells) - Sample, Sample)
        BY <1>1, <1>2, <1>5, <2>1, <2>5 DEF Block, OffsetOf
      <3>2. After(cells, Len(cells) - Sample, Sample) = SubSeq(cells, Len(cells) - Sample + 1, Len(cells))
        <4> DEFINE end == IF (Len(cells) - Sample) + Sample < Len(cells) THEN (Len(cells) - Sample) + Sample
                          ELSE Len(cells)
        <4>1. end = Len(cells)
          BY <1>1
        <4>2. After(cells, Len(cells) - Sample, Sample) = SubSeq(cells, (Len(cells) - Sample) + 1, end)
          BY DEF After
        <4> HIDE DEF end
        <4> QED BY <4>1, <4>2
      <3>3. r.got = SubSeq(cells, 1, Sample) \o After(cells, MiddleOffset(Len(cells)), Sample)
        <4>1. r.part # 0 /\ r.part # 1 /\ r.part # 3
          BY <2>5
        <4> QED BY <1>5, <4>1, Zenon DEF Intact
      <3>4. next.got = Covered(cells, full)
        BY <1>3, <1>5, <3>1, <3>2, <3>3 DEF Covered
      <3> QED BY <1>2, <1>3, <1>5, <2>5, <3>4 DEF Intact
    <2> QED BY <1>5, <2>2, <2>3, <2>4, <2>5 DEF Intact
  <1> QED BY <1>4, <1>5

\* A reading that came to its end in peace has all that it covers.
LEMMA ReadsAllOfIt ==
  ASSUME NEW cells \in Seq(Cells), NEW theFile, theFile.cells = cells, NEW full \in BOOLEAN, NEW r,
         Intact(r, cells, full), Complete(r, theFile, full)
  PROVE  r.got = Covered(cells, full)
PROOF
  <1>2. HeldCells(r, theFile) = cells /\ r.meta.size = Len(cells)
    BY DEF Intact, HeldCells
  <1>3. CASE ReadsAll(Len(cells), full)
    <2>1. PICK n \in 0..Len(cells) : r.got = SubSeq(cells, 1, n)
      BY <1>3 DEF Intact
    <2>2. Len(r.got) = n
      BY <2>1, BlocksFit
    <2>3. Block(r, theFile, full) = After(cells, n, Sample)
      BY <1>2, <1>3, <2>2, LenProperties DEF Block, OffsetOf
    <2>4. n = Len(cells)
      BY <1>2, <1>3, <2>3, BlocksFit DEF Complete
    <2>5. r.got = cells
      BY <2>1, <2>4, SubSeqFull
    <2> QED BY <1>3, <2>5 DEF Covered
  <1>4. CASE ~ReadsAll(Len(cells), full)
    <2>1. r.part = 3
      BY <1>2, <1>4 DEF Complete
    <2> QED BY <1>4, <2>1 DEF Intact
  <1> QED BY <1>3, <1>4

\* A reading that has only its metadata.
LEMMA Beginnings ==
  ASSUME NEW cells \in Seq(Cells), NEW full \in BOOLEAN, NEW meta, meta.size = Len(cells)
  PROVE  Intact(Begun(meta), cells, full)
PROOF
  <1>1. SubSeq(cells, 1, 0) = <<>> /\ 0 \in 0..Len(cells)
    BY SubSeqEmpty, LenProperties
  <1> QED BY <1>1 DEF Intact, Begun
-----------------------------------------------------------------------------
\* There is nothing to be wrong about yet.
LEMMA ContentStarts == Init => ContentInv
PROOF
  <1> SUFFICES ASSUME Init PROVE ContentInv
    OBVIOUS
  <1>1. PICK n \in Sizes : file.cells = [i \in 1..n |-> 0]
    BY DEF Init
  <1>2. file.cells \in [1..n -> Cells] /\ n \in Nat
    BY <1>1, LoadingAssumption DEF Cells
  <1>3. FileInv
    BY <1>2, SeqDef DEF FileInv, Init
  <1> QED BY <1>3 DEF Init, ContentInv, SampleInv, CleanInv, FingerprintExact

\* A write disturbs the load, and shows in the change time if the last metadata were settled.
LEMMA WritersKeepContent ==
  ASSUME LoadInv, ContentInv, Overwrite \/ Resize \/ Replace
  PROVE  ContentInv'
PROOF
  <1>1. PICK cells : Written(cells) /\ cells \in Seq(Cells)
    <2>1. CASE Overwrite \/ Replace
      <3>1. ASSUME NEW where PROVE Flipped(file.cells, where) \in Seq(Cells)
        <4>1. file.cells \in [1..Len(file.cells) -> Cells] /\ Len(file.cells) \in Nat
          BY LenProperties DEF ContentInv, FileInv
        <4>2. Flipped(file.cells, where) \in [1..Len(file.cells) -> Cells]
          BY <4>1 DEF Flipped, Cells
        <4> QED BY <4>1, <4>2, SeqDef
      <3> QED BY <2>1, <3>1 DEF Overwrite, Replace
    <2>2. CASE Resize
      <3>1. PICK n \in Sizes : Written([i \in 1..n |-> IF i <= Len(file.cells) THEN file.cells[i] ELSE 1])
        BY <2>2 DEF Resize
      <3>2. n \in Nat /\ Len(file.cells) \in Nat
        BY LoadingAssumption, LenProperties DEF ContentInv, FileInv
      <3>3. \A i \in 1..n : i <= Len(file.cells) => file.cells[i] \in Cells
        BY <3>2, ElementOfSeq DEF ContentInv, FileInv
      <3>4. [i \in 1..n |-> IF i <= Len(file.cells) THEN file.cells[i] ELSE 1] \in [1..n -> Cells]
        BY <3>3 DEF Cells
      <3> QED BY <3>1, <3>2, <3>4, SeqDef
    <2> QED BY <2>1, <2>2
  <1>2. /\ file'.cells = cells /\ file'.changed = clock /\ disturbed'
        /\ UNCHANGED <<setting, pc, fp, instance, session, atStat, fpSettled>>
        /\ reading'.meta = reading.meta
    BY <1>1, ReadingsKeepMeta DEF Written, pastVars, Overwrite, Resize, Replace, LoadInv, TimesInv
  <1>3. pc = "fingerprint" /\ fpSettled => clock # reading.meta.platform
    BY DEF LoadInv, TimesInv, FpInv, WithFp, FpMeta
  <1>4. FileInv' /\ SampleInv'
    BY <1>1, <1>2, <1>3 DEF ContentInv, FileInv, SampleInv, Undisturbed
  <1>5. CleanInv' /\ FingerprintExact'
    BY <1>2 DEF ContentInv, CleanInv, FingerprintExact
  <1> QED BY <1>4, <1>5 DEF ContentInv

\* The pass for the fingerprint, from its metadata to its end.
LEMMA FingerprintKeepsContent ==
  ASSUME LoadInv, ContentInv, BeginFingerprint \/ ReadBlock \/ FingerprintRead
  PROVE  ContentInv'
PROOF
  <1>1. UNCHANGED <<file, setting, instance, session, disturbed>> /\ pc' \in {"key", "fingerprint", "check", "lookup"}
    BY DEF BeginFingerprint, ReadBlock, FingerprintRead, Ended, fileVars
  <1>2. FileInv' /\ CleanInv'
    <2>1. pc' = "check" => pc = "check"
      BY DEF BeginFingerprint, ReadBlock, FingerprintRead
    <2> QED BY <1>1, <2>1 DEF ContentInv, FileInv, CleanInv
  <1>3. CASE BeginFingerprint
    <2>1. Stat.size = Len(file.cells)
      BY DEF Stat, Metadata
    <2>2. Intact(reading', file.cells, setting.full)
      BY <1>3, <2>1, Beginnings DEF BeginFingerprint, ContentInv, FileInv
    <2> QED BY <1>1, <1>2, <1>3, <2>2
      DEF BeginFingerprint, ContentInv, SampleInv, FingerprintExact, Undisturbed
  <1>4. CASE ReadBlock
    <2>1. /\ UNCHANGED <<pc, fp, atStat, fpSettled>> /\ reading'.meta = reading.meta
          /\ reading' = ReadOn(reading, file, FullHash(pc)) /\ ~Complete(reading, file, FullHash(pc))
      BY <1>4, ReadingsKeepMeta DEF ReadBlock, pastVars, LoadInv, TimesInv
    <2>2. ASSUME pc = "fingerprint", Undisturbed PROVE Intact(reading', file.cells, setting.full)
      <3>1. FullHash(pc) = setting.full
        BY <2>2 DEF FullHash, ContentInv, FileInv
      <3>2. DOMAIN reading = {"meta", "handle", "old", "got", "part"}
        BY DEF LoadInv, TimesInv
      <3> QED BY <2>1, <2>2, <3>1, <3>2, ReadsOn DEF ContentInv, FileInv, SampleInv
    <2> QED BY <1>1, <1>2, <2>1, <2>2 DEF ContentInv, SampleInv, FingerprintExact, Undisturbed
  <1>5. CASE FingerprintRead
    <2>1. /\ pc = "fingerprint" /\ pc' = "lookup" /\ UNCHANGED <<atStat, fpSettled>>
          /\ fp' = Identity(reading) /\ Stat = reading.meta
          /\ Complete(reading, file, FullHash(pc))
      BY <1>5 DEF FingerprintRead, Ended, Stable, pastVars
    <2>2. FullHash(pc) = setting.full
      BY <2>1 DEF FullHash, ContentInv, FileInv
    <2>3. fpSettled => file.changed = reading.meta.platform
      BY <2>1, UnixStat DEF LoadInv, TimesInv
    <2>4. Undisturbed => fp'.sample = Covered(file.cells, setting.full)
      BY <2>1, <2>2, ReadsAllOfIt DEF ContentInv, FileInv, SampleInv, Identity
    <2> QED BY <1>1, <1>2, <2>1, <2>3, <2>4 DEF ContentInv, SampleInv, FingerprintExact, Undisturbed
  <1> QED BY <1>3, <1>4, <1>5

\* The instance, reused or new, and its client.
LEMMA ServingKeepsContent ==
  ASSUME ContentInv, Reuse \/ SpawnReady
  PROVE  ContentInv'
PROOF
  <1>1. /\ UNCHANGED <<file, setting, fp, atStat, fpSettled, disturbed>> /\ pc' = "served"
        /\ pc \in {"lookup", "spawn"}
    BY DEF Reuse, SpawnReady, fileVars, pastVars
  <1>2. CASE Reuse
    <2>1. instance # None /\ instance.fp = fp /\ instance' = instance
      BY <1>2 DEF Reuse, Reusable
    <2>2. session'.cells = instance.cells /\ session'.clean = instance.clean
      BY <1>2 DEF Reuse
    <2> QED BY <1>1, <2>1, <2>2
      DEF ContentInv, FileInv, SampleInv, CleanInv, FingerprintExact, Undisturbed
  <1>3. CASE SpawnReady
    <2>1. /\ instance'.fp = fp /\ instance'.cells = file.cells /\ instance'.clean = ~disturbed
          /\ session'.cells = file.cells
      BY <1>3 DEF SpawnReady
    <2> QED BY <1>1, <2>1
      DEF ContentInv, FileInv, SampleInv, CleanInv, FingerprintExact, Undisturbed
  <1> QED BY <1>2, <1>3

\* The rest leaves the file, the fingerprint and the client as they are, or ends with them.
LEMMA OthersKeepContent ==
  ASSUME ContentInv,
         UNCHANGED vars \/ Tick \/ LoadTrace \/ ReadFails \/ KeyRead \/ FingerprintChanged \/ Allocate
         \/ NoFreePort \/ OtherSpawns \/ OtherEnds \/ SpawnFails \/ BeginCheck \/ Loaded \/ Changed \/ Answered
  PROVE  ContentInv'
PROOF
  <1>1. CASE UNCHANGED vars \/ Tick \/ OtherSpawns \/ OtherEnds
    BY <1>1 DEF vars, Tick, OtherSpawns, OtherEnds, fileVars, pastVars,
                ContentInv, FileInv, SampleInv, CleanInv, FingerprintExact, Undisturbed
  <1>2. CASE Allocate
    BY <1>2 DEF Allocate, fileVars, pastVars,
                ContentInv, FileInv, SampleInv, CleanInv, FingerprintExact
  <1>3. CASE BeginCheck \/ Loaded
    BY <1>3 DEF BeginCheck, Loaded, Ended, fileVars, pastVars,
                ContentInv, FileInv, SampleInv, CleanInv, FingerprintExact
  <1>4. CASE LoadTrace \/ ReadFails \/ KeyRead \/ FingerprintChanged \/ NoFreePort \/ SpawnFails
             \/ Changed \/ Answered
    <2>1. /\ UNCHANGED <<file, setting>> /\ pc' \in {"key", "stat", "failed", "idle"}
          /\ instance' \in {instance, None}
      BY <1>4 DEF LoadTrace, ReadFails, KeyRead, FingerprintChanged, NoFreePort, SpawnFails, Changed,
                  Answered, Fail, fileVars
    <2> QED BY <2>1 DEF ContentInv, FileInv, SampleInv, CleanInv, FingerprintExact
  <1> QED BY <1>1, <1>2, <1>3, <1>4

\* Every step is one of these.
LEMMA ContentKept == LoadInv /\ ContentInv /\ [Next]_vars => ContentInv'
  BY WritersKeepContent, FingerprintKeepsContent, ServingKeepsContent, OthersKeepContent DEF Next

\* from_path: on Unix, a fingerprint whose times were of an earlier tick is that of the content
\* the file had when they were read, although it was read block by block while others write.
THEOREM FingerprintsAreExact == Spec => []FingerprintExact
PROOF
  <1>1. Init => LoadInv /\ ContentInv
    BY LoadInvStarts, ContentStarts
  <1>2. LoadInv /\ ContentInv /\ [Next]_vars => LoadInv' /\ ContentInv'
    BY LoadInvKept, ContentKept
  <1>3. ContentInv => FingerprintExact
    BY DEF ContentInv
  <1> QED BY <1>1, <1>2, <1>3, PTL DEF Spec

\* get_client: on every platform, an instance that is reused by a load that nobody disturbed, and
\* that was itself loaded in peace, reads what the file holds, as far as fingerprints cover it.
THEOREM ReusedAgree == Spec => []AgreesWhereCovered
PROOF
  <1>1. Init => LoadInv /\ ContentInv
    BY LoadInvStarts, ContentStarts
  <1>2. LoadInv /\ ContentInv /\ [Next]_vars => LoadInv' /\ ContentInv'
    BY LoadInvKept, ContentKept
  <1>3. ContentInv => AgreesWhereCovered
    BY DEF ContentInv, CleanInv, AgreesWhereCovered
  <1> QED BY <1>1, <1>2, <1>3, PTL DEF Spec
-----------------------------------------------------------------------------
\* A nonempty set of naturals has a least element: the intervals 0..n of its elements are
\* finite sets, and those have a smallest under inclusion.
LEMMA Least ==
  ASSUME NEW S \in SUBSET Nat, S # {}
  PROVE  \E n \in S : \A m \in S : n <= m
PROOF
  <1> DEFINE R == StrictSubsetOrdering(Nat)
             T == {0..n : n \in S}
  <1>1. IsWellFoundedOn(R, FiniteSubsetsOf(Nat))
    BY FS_StrictSubsetOrderingWellFounded
  <1>2. T \subseteq FiniteSubsetsOf(Nat) /\ T # {}
    <2>1. \A n \in Nat : IsFiniteSet(0..n) /\ 0..n \subseteq Nat
      BY FS_Interval
    <2> QED BY <2>1 DEF FiniteSubsetsOf
  <1>3. PICK t \in T : \A u \in T : ~(<<u, t>> \in R)
    <2> HIDE DEF R, T
    <2> QED BY <1>1, <1>2, WFMin
  <1>4. PICK n \in S : t = 0..n
    OBVIOUS
  <1>5. ASSUME NEW m \in S, ~(n <= m) PROVE FALSE
    <2>1. 0..m \subseteq 0..n /\ n \in 0..n /\ n \notin 0..m /\ 0..m \in T
      BY <1>5
    <2>2. 0..m # 0..n /\ 0..n \in SUBSET Nat /\ 0..m \in SUBSET Nat
      BY <2>1
    <2>3. <<0..m, 0..n>> \in R
      BY <2>1, <2>2 DEF StrictSubsetOrdering
    <2> QED BY <2>3, <2>1, <1>3, <1>4
  <1> QED BY <1>4, <1>5

\* Induction, over the set of the numbers that have the property.
LEMMA Inductive ==
  ASSUME NEW S, 0 \in S, \A n \in Nat : n \in S => n + 1 \in S
  PROVE  Nat \subseteq S
PROOF
  <1> SUFFICES ASSUME Nat \ S # {} PROVE FALSE
    OBVIOUS
  <1>1. PICK n \in Nat \ S : \A m \in Nat \ S : n <= m
    BY Least
  <1>2. n # 0 /\ n - 1 \in Nat /\ n - 1 \in S
    BY <1>1
  <1> QED BY <1>1, <1>2

\* The ports are a stretch of numbers that 0, for no port, is not one of.
LEMMA PortRange ==
  /\ StartingPort \in Nat /\ StartingPort >= 1 /\ MaxPort \in Nat /\ StartingPort <= MaxPort
  /\ Attempts \in Nat /\ Attempts >= 1 /\ NoPort \notin Ports
  /\ \A p \in Ports : p \in Nat /\ StartingPort <= p /\ p <= MaxPort
  BY PortAssumption DEF Attempts, NoPort, Ports

\* The i-th port after this one, with the wrap.
PortAt(next, i) == IF next + i <= MaxPort THEN next + i ELSE next + i - Attempts

\* The two remainders the counter takes.
LEMMA Remainders ==
  \A m \in Nat : /\ m > 0 => m % m = 0
                 /\ \A n \in Nat : n < m => n % m = n
  BY SMT

\* The counter goes up, and from the last port to the starting port.
LEMMA AdvanceIs ==
  ASSUME NEW p \in Ports
  PROVE  Advance(p) = IF p = MaxPort THEN StartingPort ELSE p + 1
PROOF
  <1>1. /\ p \in Nat /\ MaxPort \in Nat /\ p <= MaxPort
        /\ StartingPort \in Nat /\ StartingPort <= p /\ StartingPort >= 1
    BY PortRange
  <1> DEFINE wrapped == (p + 1) % (MaxPort + 1)
  <1>2. wrapped = IF p = MaxPort THEN 0 ELSE p + 1
    <2>1. MaxPort + 1 \in Nat /\ MaxPort + 1 > 0 /\ p + 1 \in Nat
      BY <1>1
    <2>2. CASE p = MaxPort
      BY <2>1, <2>2, Remainders
    <2>3. CASE p # MaxPort
      <3>1. p + 1 < MaxPort + 1
        BY <1>1, <2>3
      <3> QED BY <2>1, <2>3, <3>1, Remainders
    <2> QED BY <2>2, <2>3
  <1>3. Advance(p) = IF wrapped < StartingPort THEN StartingPort ELSE wrapped
    BY DEF Advance
  <1> HIDE DEF wrapped
  <1> QED BY <1>1, <1>2, <1>3

\* It is a port, and one step of the counter from the one before.
LEMMA PortAtSteps ==
  ASSUME NEW next \in Ports, NEW i \in 0..Attempts
  PROVE  /\ PortAt(next, i) \in Ports /\ PortAt(next, 0) = next
         /\ i # 0 => PortAt(next, i) = Advance(PortAt(next, i - 1))
  BY AdvanceIs, PortRange DEF PortAt, Ports, Attempts

\* A sweep goes round the ports: the recursion has this solution, and no other.
LEMMA ProbedIs ==
  ASSUME NEW next \in Ports
  PROVE  \A i \in 0..Attempts : Probed(next)[i] = PortAt(next, i)
PROOF
  <1> DEFINE Follows(f) == f = [i \in 0..Attempts |-> IF i = 0 THEN next ELSE Advance(f[i - 1])]
             g == [i \in 0..Attempts |-> PortAt(next, i)]
  <1>1. Follows(g)
    <2>1. \A i \in 0..Attempts : i # 0 => i - 1 \in 0..Attempts
      BY PortRange
    <2>2. ASSUME NEW i \in 0..Attempts PROVE g[i] = IF i = 0 THEN next ELSE Advance(g[i - 1])
      BY <2>1, PortAtSteps
    <2> QED BY <2>2
  <1>2. Follows(Probed(next))
    <2>1. Probed(next) = CHOOSE f : Follows(f)
      BY DEF Probed
    <2> HIDE DEF Follows
    <2> QED BY <1>1, <2>1
  <1>3. \A i \in 0..Attempts :
          Probed(next)[i] = IF i = 0 THEN next ELSE Advance(Probed(next)[i - 1])
    <2> HIDE DEF g
    <2> DEFINE f == Probed(next)
    <2>1. f = [i \in 0..Attempts |-> IF i = 0 THEN next ELSE Advance(f[i - 1])]
      BY <1>2
    <2> HIDE DEF f
    <2>2. \A i \in 0..Attempts : f[i] = IF i = 0 THEN next ELSE Advance(f[i - 1])
      BY <2>1
    <2> QED BY <2>2 DEF f
  <1> DEFINE T == {i \in Nat : i \in 0..Attempts => Probed(next)[i] = PortAt(next, i)}
  <1>4. Nat \subseteq T
    <2> HIDE DEF Follows, g
    <2>1. 0 \in T
      BY <1>3, PortAtSteps, PortRange
    <2>2. ASSUME NEW i \in Nat, i \in T PROVE i + 1 \in T
      <3> SUFFICES ASSUME i + 1 \in 0..Attempts PROVE Probed(next)[i + 1] = PortAt(next, i + 1)
        OBVIOUS
      <3>1. i \in 0..Attempts /\ i + 1 # 0 /\ (i + 1) - 1 = i
        BY PortRange
      <3>2. Probed(next)[i + 1] = Advance(PortAt(next, i))
        BY <1>3, <2>2, <3>1
      <3>3. PortAt(next, i + 1) = Advance(PortAt(next, i))
        BY <3>1, PortAtSteps
      <3> QED BY <3>2, <3>3
    <2> HIDE DEF T
    <2> QED BY <2>1, <2>2, Inductive
  <1> QED BY <1>4

\* The ports that a sweep from next which ends with last has probed.
InSweep(next, last, q) == IF next <= last THEN next <= q /\ q <= last ELSE next <= q \/ q <= last

\* What a sweep does: it ends at a port that is free, or where it began if none is.
LEMMA SweepIs ==
  ASSUME NEW next \in Ports, NEW busy
  PROVE  \E last \in Ports :
           /\ Sweep(next, busy).next = Advance(last)
           /\ Sweep(next, busy).probes = {q \in Ports : InSweep(next, last, q)}
           /\ Sweep(next, busy).port = IF Ports \subseteq busy THEN NoPort ELSE last
           /\ ~(Ports \subseteq busy) => last \notin busy
PROOF
  <1> DEFINE free == {i \in 0..(Attempts - 1) : Probed(next)[i] \notin busy}
             end == IF free = {} THEN Attempts - 1 ELSE CHOOSE i \in free : \A j \in free : i <= j
  <1>1. \A i \in 0..Attempts : Probed(next)[i] = PortAt(next, i) /\ PortAt(next, i) \in Ports
    BY ProbedIs, PortAtSteps
  <1>2. end \in 0..(Attempts - 1) /\ (free # {} => end \in free)
    <2>1. CASE free = {}
      BY <2>1, PortRange
    <2>2. CASE free # {}
      <3>1. \E i \in free : \A j \in free : i <= j
        <4>1. free \in SUBSET Nat
          BY PortRange
        <4> HIDE DEF free
        <4> QED BY <2>2, <4>1, Least
      <3>2. end \in free
        <4> HIDE DEF free
        <4> QED BY <2>2, <3>1
      <3> QED BY <2>2, <3>2
    <2> QED BY <2>1, <2>2
  <1>3. free = {} <=> Ports \subseteq busy
    <2>1. ASSUME NEW q \in Ports PROVE \E i \in 0..(Attempts - 1) : PortAt(next, i) = q
      <3>1. CASE q >= next
        <4>1. q - next \in 0..(Attempts - 1) /\ PortAt(next, q - next) = q
          BY <3>1, PortRange DEF PortAt, Attempts
        <4> QED BY <4>1
      <3>2. CASE q < next
        <4>1. q - next + Attempts \in 0..(Attempts - 1) /\ PortAt(next, q - next + Attempts) = q
          BY <3>2, PortRange DEF PortAt, Attempts
        <4> QED BY <4>1
      <3> QED BY <3>1, <3>2, PortRange
    <2>2. \A i \in 0..(Attempts - 1) : i \in 0..Attempts
      BY PortRange
    <2> QED BY <1>1, <2>1, <2>2
  <1>4. Sweep(next, busy) = [port |-> IF free = {} THEN NoPort ELSE Probed(next)[end],
                             next |-> Probed(next)[end + 1],
                             probes |-> {Probed(next)[i] : i \in 0..end}]
    BY DEF Sweep, Swept
  <1> HIDE DEF end, free
  <1> DEFINE last == PortAt(next, end)
  <1>5. end \in 0..Attempts /\ end + 1 \in 0..Attempts /\ end + 1 # 0 /\ (end + 1) - 1 = end
    BY <1>2, PortRange
  <1>6. Probed(next)[end] = last /\ last \in Ports /\ Probed(next)[end + 1] = Advance(last)
    BY <1>1, <1>5, PortAtSteps
  <1>7. {Probed(next)[i] : i \in 0..end} = {q \in Ports : InSweep(next, last, q)}
    <2>1. \A i \in 0..end : i \in 0..Attempts
      BY <1>2, PortRange
    <2>2. ASSUME NEW i \in 0..end PROVE InSweep(next, last, PortAt(next, i))
      BY <1>2, PortRange DEF InSweep, PortAt, Attempts
    <2>3. ASSUME NEW q \in Ports, InSweep(next, last, q) PROVE \E i \in 0..end : PortAt(next, i) = q
      <3>1. CASE q >= next
        <4>1. q - next \in 0..end /\ PortAt(next, q - next) = q
          BY <1>2, <2>3, <3>1, PortRange DEF InSweep, PortAt, Attempts
        <4> QED BY <4>1
      <3>2. CASE q < next
        <4>1. q - next + Attempts \in 0..end /\ PortAt(next, q - next + Attempts) = q
          BY <1>2, <2>3, <3>2, PortRange DEF InSweep, PortAt, Attempts
        <4> QED BY <4>1
      <3> QED BY <3>1, <3>2, PortRange
    <2> QED BY <1>1, <2>1, <2>2, <2>3
  <1>8. ~(Ports \subseteq busy) => last \notin busy
    BY <1>2, <1>3, <1>6 DEF free
  <1> HIDE DEF last
  <1> QED BY <1>3, <1>4, <1>6, <1>7, <1>8

-----------------------------------------------------------------------------
\* The ports the counter passes on its way from behind p to n.
Between(p, n, q) == IF p < n THEN p < q /\ q < n ELSE p < q \/ q < n

\* The counter and the ports are ports; what was probed since a spawn has its port reaches
\* from it to the counter, or all round.
PortInv ==
  /\ nextPort \in Ports
  /\ port \in [Spawns -> Ports \cup {NoPort}]
  /\ passed \in [Spawns -> SUBSET Ports]
  /\ \A s \in Spawns : port[s] # NoPort =>
       passed[s] = Ports \/ \A q \in Ports : Between(port[s], nextPort, q) => q \in passed[s]

\* A sweep gives a free port if there is one.
LEMMA SweepTries == ASSUME nextPort \in Ports PROVE SweepTriesAll
PROOF
  <1> SUFFICES ASSUME NEW busy \in SUBSET Ports
               PROVE  IF busy = Ports THEN Sweep(nextPort, busy).port = NoPort
                      ELSE Sweep(nextPort, busy).port \in Ports \ busy
    BY DEF SweepTriesAll
  <1>1. PICK last \in Ports :
          /\ Sweep(nextPort, busy).port = IF Ports \subseteq busy THEN NoPort ELSE last
          /\ ~(Ports \subseteq busy) => last \notin busy
    BY SweepIs
  <1>2. busy = Ports <=> Ports \subseteq busy
    OBVIOUS
  <1>3. CASE busy = Ports
    BY <1>1, <1>2, <1>3
  <1>4. CASE busy # Ports
    BY <1>1, <1>2, <1>4
  <1> QED BY <1>3, <1>4

\* What neither the counter passed since p nor the sweep probes is not passed after it either,
\* and then the sweep does not come to p.
LEMMA SweepRound ==
  ASSUME NEW p \in Ports, NEW n \in Ports, NEW last \in Ports, NEW q \in Ports,
         ~Between(p, n, q), ~InSweep(n, last, q)
  PROVE  /\ p # last
         /\ ~Between(p, Advance(last), q)
         /\ p = q \/ ~InSweep(n, last, p)
  BY AdvanceIs, PortRange DEF Between, InSweep

\* Right behind a port nothing was passed yet.
LEMMA NothingBetween ==
  ASSUME NEW p \in Ports, NEW q \in Ports
  PROVE  ~Between(p, Advance(p), q) /\ Advance(p) \in Ports
  BY AdvanceIs, PortRange DEF Between, Ports

\* A spawn takes its port: the others have been probed since, or the sweep did not end there.
LEMMA TakeKeepsPorts ==
  ASSUME PortInv, PortsApart, NEW spawn \in Spawns, NEW busy,
         Take(spawn, Sweep(nextPort, busy))
  PROVE  PortInv' /\ PortsApart'
PROOF
  <1>1. PICK last \in Ports :
          /\ Sweep(nextPort, busy).next = Advance(last)
          /\ Sweep(nextPort, busy).probes = {q \in Ports : InSweep(nextPort, last, q)}
          /\ Sweep(nextPort, busy).port \in {NoPort, last}
    BY SweepIs DEF PortInv
  <1> DEFINE probes == {q \in Ports : InSweep(nextPort, last, q)}
             given == Sweep(nextPort, busy).port
  <1>2. /\ nextPort' = Advance(last) /\ nextPort' \in Ports
        /\ port' = [port EXCEPT ![spawn] = given]
        /\ passed' = [s \in Spawns |-> IF s = spawn \/ port[s] = NoPort THEN {} ELSE passed[s] \cup probes]
    BY <1>1, NothingBetween DEF Take
  <1>3. given \in {NoPort, last}
    BY <1>1
  <1> HIDE DEF given, probes
  <1>4. /\ port' \in [Spawns -> Ports \cup {NoPort}]
        /\ port'[spawn] = given /\ \A s \in Spawns \ {spawn} : port'[s] = port[s]
    BY <1>2, <1>3 DEF PortInv
  <1>5. passed' \in [Spawns -> SUBSET Ports]
    BY <1>2 DEF PortInv, probes
  <1>6. ASSUME NEW s \in Spawns, s # spawn, port[s] # NoPort
        PROVE  /\ passed'[s] = Ports \/ \A q \in Ports : Between(port[s], nextPort', q) => q \in passed'[s]
               /\ port[s] = last => passed'[s] = Ports
    <2>1. port[s] \in Ports /\ passed[s] \subseteq Ports /\ passed'[s] = passed[s] \cup probes
      BY <1>2, <1>6 DEF PortInv
    <2>2. CASE passed[s] = Ports
      BY <2>1, <2>2, <1>5
    <2>3. CASE \A q \in Ports : Between(port[s], nextPort, q) => q \in passed[s]
      <3>1. ASSUME NEW q \in Ports, q \notin passed'[s]
            PROVE  ~Between(port[s], nextPort', q) /\ port[s] # last
        <4>1. ~Between(port[s], nextPort, q) /\ ~InSweep(nextPort, last, q)
          BY <2>1, <2>3, <3>1 DEF probes
        <4> QED BY <1>2, <2>1, <4>1, SweepRound DEF PortInv
      <3>2. passed'[s] \subseteq Ports
        BY <1>5
      <3> QED BY <3>1, <3>2
    <2> QED BY <1>6, <2>2, <2>3 DEF PortInv
  <1>7. ASSUME given # NoPort
        PROVE  \A q \in Ports : ~Between(given, nextPort', q)
    BY <1>2, <1>3, <1>7, NothingBetween
  <1>8. PortInv'
    BY <1>2, <1>4, <1>5, <1>6, <1>7 DEF PortInv
  <1>9. PortsApart'
    <2>1. SUFFICES ASSUME port'["load"] = port'["other"], port'["load"] # NoPort
                   PROVE  \E s \in Spawns : passed'[s] = Ports
      BY DEF PortsApart
    <2>2. PICK s \in Spawns : s # spawn
      BY DEF Spawns
    <2>3. port'[s] = given /\ port'[s] = port[s] /\ given # NoPort
      BY <1>4, <2>1, <2>2 DEF Spawns
    <2> QED BY <1>3, <1>6, <2>2, <2>3
  <1> QED BY <1>8, <1>9

\* A spawn that has ended gives up its port.
LEMMA LandedKeepsPorts ==
  ASSUME PortInv, PortsApart, NEW spawns, Landed(spawns)
  PROVE  PortInv' /\ PortsApart'
PROOF
  <1>1. /\ nextPort' = nextPort
        /\ port' = [s \in Spawns |-> IF s \in spawns THEN NoPort ELSE port[s]]
        /\ passed' = [s \in Spawns |-> IF s \in spawns THEN {} ELSE passed[s]]
    BY DEF Landed
  <1>2. port' \in [Spawns -> Ports \cup {NoPort}] /\ passed' \in [Spawns -> SUBSET Ports]
    BY <1>1 DEF PortInv
  <1>3. \A s \in Spawns : port'[s] # NoPort => s \notin spawns /\ port'[s] = port[s] /\ passed'[s] = passed[s]
    BY <1>1
  <1>4. PortInv'
    BY <1>1, <1>2, <1>3 DEF PortInv
  <1>5. PortsApart'
    BY <1>3 DEF PortsApart, Spawns
  <1> QED BY <1>4, <1>5

\* No other step has to do with ports.
LEMMA PortsKept == PortInv /\ PortsApart /\ [Next]_vars => PortInv' /\ PortsApart'
PROOF
  <1> SUFFICES ASSUME PortInv, PortsApart, [Next]_vars PROVE PortInv' /\ PortsApart'
    OBVIOUS
  <1>1. CASE UNCHANGED portVars
    BY <1>1 DEF portVars, PortInv, PortsApart
  <1>2. CASE Allocate \/ NoFreePort
    <2>1. \E busy : Take("load", Sweep(nextPort, busy))
      BY <1>2 DEF Allocate, NoFreePort
    <2> QED BY <2>1, TakeKeepsPorts DEF Spawns
  <1>3. CASE OtherSpawns
    <2>1. \E busy : Take("other", Sweep(nextPort, busy))
      BY <1>3 DEF OtherSpawns
    <2> QED BY <2>1, TakeKeepsPorts DEF Spawns
  <1>4. CASE OtherEnds \/ SpawnReady \/ SpawnFails
    <2>1. \E spawns : Landed(spawns)
      BY <1>4 DEF OtherEnds, SpawnReady, SpawnFails
    <2> QED BY <2>1, LandedKeepsPorts
  <1> QED
    BY <1>1, <1>2, <1>3, <1>4
      DEF Next, vars, portVars, pastVars, Overwrite, Resize, Replace, Written, Tick, LoadTrace, ReadBlock,
          ReadFails, KeyRead, BeginFingerprint, FingerprintRead, FingerprintChanged, Reuse,
          BeginCheck, Loaded, Changed, Answered

\* allocate_next_port: a spawn is given a free port whenever there is one, and while it starts,
\* another spawn is given the same port only after every port was probed in between.
THEOREM SpawnsGetTheirPorts == Spec => []PortsExact
PROOF
  <1>1. Init => PortInv /\ PortsApart
    BY DEF Init, PortInv, PortsApart, Spawns
  <1>2. PortInv /\ PortsApart /\ [Next]_vars => PortInv' /\ PortsApart'
    BY PortsKept
  <1>3. PortInv /\ PortsApart => PortsExact
    BY SweepTries DEF PortInv, PortsExact
  <1> QED BY <1>1, <1>2, <1>3, PTL DEF Spec
-----------------------------------------------------------------------------
\* The clock stays within its bound.
TypeInv == TypeOK /\ clock \in 0..MaxClock

\* A written file is a file.
LEMMA WrittenKeepsType ==
  ASSUME TypeInv, Overwrite \/ Resize \/ Replace
  PROVE  TypeInv'
PROOF
  <1> DEFINE Contents == UNION {[1..n -> Cells] : n \in Sizes}
  <1>1. PICK n \in Sizes : file.cells \in [1..n -> Cells]
    BY DEF TypeInv, TypeOK
  <1>2. PICK cells : Written(cells) /\ cells \in Contents
    <2>1. ASSUME NEW where PROVE Flipped(file.cells, where) \in [1..n -> Cells]
      <3>1. \A c \in Cells : 1 - c \in Cells
        BY DEF Cells
      <3>2. DOMAIN file.cells = 1..n /\ \A i \in 1..n : file.cells[i] \in Cells
        BY <1>1
      <3> QED BY <3>1, <3>2 DEF Flipped
    <2>2. CASE Overwrite \/ Replace
      BY <2>1, <2>2 DEF Overwrite, Replace
    <2>3. CASE Resize
      <3>1. PICK m \in Sizes :
              Written([i \in 1..m |-> IF i <= Len(file.cells) THEN file.cells[i] ELSE 1])
        BY <2>3 DEF Resize
      <3>2. n \in Nat /\ m \in Nat /\ Len(file.cells) = n
        BY <1>1, LoadingAssumption
      <3>3. [i \in 1..m |-> IF i <= Len(file.cells) THEN file.cells[i] ELSE 1] \in [1..m -> Cells]
        BY <1>1, <3>2 DEF Cells
      <3> QED BY <3>1, <3>3
    <2> QED BY <2>2, <2>3
  <1>3. PICK t \in {clock, file.modified} :
          file' = [cells |-> cells, modified |-> t, changed |-> clock]
    BY <1>2 DEF Written
  <1>4. file' \in [cells : Contents, modified : 0..MaxClock, changed : 0..MaxClock]
    BY <1>2, <1>3 DEF TypeInv, TypeOK
  <1> QED BY <1>2, <1>4 DEF Written, portVars, TypeInv, TypeOK

\* The other steps change neither the file nor the clock.
LEMMA TypeKept == TypeInv /\ PortInv' /\ [Next]_vars => TypeInv'
PROOF
  <1> SUFFICES ASSUME TypeInv, PortInv', [Next]_vars PROVE TypeInv'
    OBVIOUS
  <1>1. CASE Overwrite \/ Resize \/ Replace
    BY <1>1, WrittenKeepsType
  <1>2. CASE Tick
    <2>1. clock' \in 0..MaxClock
      BY <1>2, LoadingAssumption DEF Tick, TypeInv
    <2> QED BY <1>2, <2>1 DEF Tick, portVars, TypeInv, TypeOK
  <1>3. ASSUME UNCHANGED <<file, clock>>,
               pc' \in {pc, "idle", "key", "stat", "fingerprint", "lookup", "spawn", "served", "check", "loaded", "failed"}
        PROVE  TypeInv'
    BY <1>3 DEF PortInv, TypeInv, TypeOK
  <1> QED
    BY <1>1, <1>2, <1>3
      DEF Next, vars, fileVars, LoadTrace, ReadBlock, ReadFails, Fail, KeyRead, BeginFingerprint,
          FingerprintRead, FingerprintChanged, Reuse, Allocate, NoFreePort, OtherSpawns, OtherEnds,
          SpawnReady, SpawnFails, BeginCheck, Loaded, Changed, Answered

\* The state is what the code can hold: in particular next_port and every port handed out stay
\* between the starting port and the last one.
THEOREM LoadTypeCorrect == Spec => []TypeOK
PROOF
  <1>1. Init => TypeInv
    <2> SUFFICES ASSUME Init PROVE TypeInv
      OBVIOUS
    <2>1. PICK n \in Sizes : file = [cells |-> [i \in 1..n |-> 0], modified |-> 0, changed |-> 0]
      BY DEF Init
    <2>2. file \in [cells : UNION {[1..m -> Cells] : m \in Sizes}, modified : 0..MaxClock, changed : 0..MaxClock]
      BY <2>1, LoadingAssumption DEF Cells
    <2>3. clock \in 0..MaxClock
      BY LoadingAssumption DEF Init
    <2> QED BY <2>2, <2>3 DEF Init, TypeInv, TypeOK
  <1>2. Init => PortInv /\ PortsApart
    BY DEF Init, PortInv, PortsApart, Spawns
  <1>3. PortInv /\ PortsApart /\ [Next]_vars => PortInv' /\ PortsApart'
    BY PortsKept
  <1>4. TypeInv => TypeOK
    BY DEF TypeInv
  <1> QED BY <1>1, <1>2, <1>3, <1>4, TypeKept, PTL DEF Spec
=============================================================================
