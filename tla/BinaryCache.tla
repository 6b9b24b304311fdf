---------------------------- MODULE BinaryCache ----------------------------
(***************************************************************************)
(* ensure_binary (download.rs): the cached trace_processor_shell and its   *)
(* SHA-256 sidecar, shared by the server processes of one user.            *)
(*                                                                         *)
(* A server verifies the cache once, before its first trace: the manager   *)
(* keeps the path in a OnceCell, which lets one caller initialise it at a  *)
(* time and keeps no error.  ENSURE_BINARY_CACHE_LOCK orders the callers of *)
(* one server, nothing orders servers.  The binary is not named by the     *)
(* environment or PATH.                                                    *)
(*                                                                         *)
(* Every server downloads the same bytes, those of the pinned version.  A  *)
(* digest is the bytes it was computed from.  A download is in a temporary *)
(* file, which no other step sees, until it is persisted; what is left of  *)
(* one is swept after an hour, six times as long as a download may last.   *)
(***************************************************************************)
EXTENDS Naturals

CONSTANTS Servers,            \* the server processes
          MaxRetries,         \* DOWNLOAD_MAX_RETRIES
          PersistAttempts     \* MAX_ATTEMPTS of persist_with_retry

ASSUME CacheAssumption == MaxRetries \in Nat /\ PersistAttempts \in Nat \ {0}

\* What a file or a digest is of: the bytes upstream serves, or damaged ones.
Bytes == {"good", "damaged"}

VARIABLES
  binary,    \* the file trace_processor_shell in the cache directory
  sidecar,   \* the digest in its .sha256 file
  pc,        \* where the call of ensure_binary of a server stands
  digest,    \* the digest it holds: read from the sidecar, or of what it hashed
  attempt,   \* the attempt of download_with_retry, then of persist_with_retry
  stray,     \* the heal a cancelled call left in the blocking pool: it is about to hash
             \* the binary, or to write a digest
  alone,     \* history: the servers whose call nobody else's change of the cache disturbed
  fresh,     \* history: the servers whose call, and nothing they left behind, began under
             \* the good pair of binary and sidecar that is in place
  vouched    \* history: the damage was done under a sidecar that nobody was about to replace

disk == <<binary, sidecar>>
vars == <<binary, sidecar, pc, digest, attempt, stray, alone, fresh, vouched>>

TypeOK ==
  /\ binary \in Bytes \cup {"none"}
  /\ sidecar \in Bytes \cup {"none"}
  /\ pc \in [Servers -> {"off", "sidecar", "hash", "heal", "mark", "fetch", "persist", "seal",
                         "ready"}]
  /\ digest \in [Servers -> Bytes \cup {"none"}]
  /\ attempt \in [Servers -> Nat]
  /\ \A s \in Servers :
       /\ pc[s] = "fetch" => attempt[s] \in 0..MaxRetries
       /\ pc[s] = "persist" => attempt[s] \in 1..PersistAttempts
       /\ pc[s] \in {"hash", "mark", "persist", "seal"} => digest[s] # "none"
       /\ pc[s] \in {"off", "ready"} => digest[s] = "none" /\ attempt[s] = 0
  /\ stray \in [Servers -> Bytes \cup {"none", "hash"}]
  /\ alone \in SUBSET Servers
  /\ fresh \in SUBSET Servers
  /\ vouched \in BOOLEAN

\* An empty cache, a sealed one, one of a release without sidecars, and either of these
\* with a binary that has decayed.
Init ==
  /\ binary \in Bytes \cup {"none"}
  /\ sidecar \in IF binary = "none" THEN {"none"} ELSE {"none", "good"}
  /\ pc = [s \in Servers |-> "off"]
  /\ digest = [s \in Servers |-> "none"]
  /\ attempt = [s \in Servers |-> 0]
  /\ stray = [s \in Servers |-> "none"]
  /\ alone = {}
  /\ fresh = {}
  /\ vouched = FALSE
-----------------------------------------------------------------------------
\* The call of s goes on at l, with the digest d and at attempt n.
At(s, l, d, n) ==
  /\ pc' = [pc EXCEPT ![s] = l]
  /\ digest' = [digest EXCEPT ![s] = d]
  /\ attempt' = [attempt EXCEPT ![s] = n]

Return(s) == At(s, "ready", "none", 0)
Fail(s)   == At(s, "off", "none", 0)
Fetch(s)  == At(s, "fetch", "none", 0)

\* The cache is as a download leaves it.
Sealed == binary = "good" /\ sidecar = "good"

\* A change of the cache, which disturbs all servers but those in by.
Changed(by) == /\ alone' = alone \cap by
               /\ fresh' = IF Sealed' THEN fresh ELSE {}

Begin(s) ==
  /\ pc[s] = "off"
  /\ IF binary = "none" THEN Fetch(s) ELSE At(s, "sidecar", "none", 0)
  /\ alone' = alone \cup {s}
  /\ fresh' = IF Sealed /\ stray[s] = "none" THEN fresh \cup {s} ELSE fresh
  /\ UNCHANGED <<disk, stray, vouched>>
-----------------------------------------------------------------------------
(***************************************************************************)
(* verify_sidecar reads the sidecar, then hashes the binary.  A sidecar    *)
(* that cannot be read is a mismatch; one that is missing is healed.       *)
(***************************************************************************)
ReadSidecar(s) ==
  /\ pc[s] = "sidecar"
  /\ \/ sidecar = "none" /\ At(s, "heal", "none", 0)
     \/ sidecar # "none" /\ At(s, "hash", sidecar, 0)
     \/ Fetch(s)
  /\ UNCHANGED <<disk, stray, alone, fresh, vouched>>

HashTrusts(s) ==
  /\ pc[s] = "hash"
  /\ IF binary # "none" THEN Return(s) ELSE Fetch(s)
  /\ UNCHANGED <<disk, stray, alone, fresh, vouched>>

Hash(s) ==
  /\ pc[s] = "hash"
  /\ IF binary = digest[s] THEN Return(s) ELSE Fetch(s)
  /\ UNCHANGED <<disk, stray, alone, fresh, vouched>>

\* The heal, in a blocking task: hash_file, then write_sidecar_atomically.
HealHash(s) ==
  /\ pc[s] = "heal"
  /\ IF binary # "none" THEN At(s, "mark", binary, 0) ELSE Fetch(s)
  /\ UNCHANGED <<disk, stray, alone, fresh, vouched>>

HealWrite(s) ==
  /\ pc[s] = "mark"
  /\ UNCHANGED <<binary, stray, vouched>>
  /\ \/ /\ sidecar' = digest[s]
        /\ Return(s)
        /\ Changed({s})
     \/ Fetch(s) /\ UNCHANGED <<sidecar, alone, fresh>>
-----------------------------------------------------------------------------
(***************************************************************************)
(* download_binary: download_with_retry, persist_with_retry and            *)
(* write_sidecar_atomically.                                               *)
(***************************************************************************)
Download(s) ==
  /\ pc[s] = "fetch"
  /\ At(s, "persist", "good", 1)
  /\ UNCHANGED <<disk, stray, alone, fresh, vouched>>

MayRetry(n) == n < MaxRetries

\* A transient error is retried while attempts are left; another one is final.
DownloadFails(s) ==
  /\ pc[s] = "fetch"
  /\ \/ MayRetry(attempt[s]) /\ At(s, "fetch", "none", attempt[s] + 1)
     \/ Fail(s)
  /\ UNCHANGED <<disk, stray, alone, fresh, vouched>>

PersistUnseals(s) ==
  /\ pc[s] = "persist"
  /\ binary' = digest[s]
  /\ sidecar' = "none"
  /\ At(s, "seal", digest[s], 0)
  /\ Changed({s})
  /\ UNCHANGED <<stray, vouched>>

Persist(s) ==
  /\ pc[s] = "persist"
  /\ binary' = digest[s]
  /\ At(s, "seal", digest[s], 0)
  /\ UNCHANGED <<sidecar, stray, vouched>>
  /\ Changed({s})

PersistRefetches(s) ==
  /\ pc[s] = "persist"
  /\ \/ /\ attempt[s] < PersistAttempts
        /\ At(s, "persist", digest[s], attempt[s] + 1)
     \/ Fetch(s)
  /\ UNCHANGED <<disk, stray, alone, fresh, vouched>>

\* On Windows a scanner may hold the file: PermissionDenied is retried.
PersistFails(s) ==
  /\ pc[s] = "persist"
  /\ \/ /\ attempt[s] < PersistAttempts
        /\ At(s, "persist", digest[s], attempt[s] + 1)
     \/ Fail(s)
  /\ UNCHANGED <<disk, stray, alone, fresh, vouched>>

SealKeepsOld(s) ==
  /\ pc[s] = "seal"
  /\ sidecar' = IF sidecar = "none" THEN digest[s] ELSE sidecar
  /\ Return(s)
  /\ UNCHANGED <<binary, stray, vouched>>
  /\ Changed({s})

Seal(s) ==
  /\ pc[s] = "seal"
  /\ sidecar' = digest[s]
  /\ Return(s)
  /\ UNCHANGED <<binary, stray, vouched>>
  /\ Changed({s})

SealFails(s) ==
  /\ pc[s] = "seal"
  /\ Fail(s)
  /\ UNCHANGED <<disk, stray, alone, fresh, vouched>>
-----------------------------------------------------------------------------
(***************************************************************************)
(* The future of the call is dropped at an await, or the 600 s are over.   *)
(* There is no await from the last chunk to the first attempt to persist,  *)
(* nor from there to the sidecar.  A heal that has begun goes on: a server *)
(* may have one such heal at a time here.                                  *)
(***************************************************************************)
Cancel(s) ==
  /\ \/ /\ pc[s] \in {"sidecar", "hash", "fetch"} \/ (pc[s] = "persist" /\ attempt[s] > 1)
        /\ UNCHANGED stray
     \/ /\ pc[s] \in {"heal", "mark"} /\ stray[s] = "none"
        /\ stray' = [stray EXCEPT ![s] = IF pc[s] = "heal" THEN "hash" ELSE digest[s]]
  /\ Fail(s)
  /\ UNCHANGED <<disk, alone, fresh, vouched>>

StrayHash(s) ==
  /\ stray[s] = "hash"
  /\ stray' = [stray EXCEPT ![s] = binary]
  /\ UNCHANGED <<disk, pc, digest, attempt, alone, fresh, vouched>>

StrayWrite(s) ==
  /\ stray[s] \in Bytes
  /\ UNCHANGED <<binary, pc, digest, attempt, vouched>>
  /\ \/ sidecar' = stray[s] /\ Changed({})
     \/ UNCHANGED <<sidecar, alone, fresh>>
  /\ stray' = [stray EXCEPT ![s] = "none"]

\* The server stops, at any point, and starts again.
Restart(s) ==
  /\ Fail(s)
  /\ stray' = [stray EXCEPT ![s] = "none"]
  /\ UNCHANGED <<disk, alone, fresh, vouched>>
-----------------------------------------------------------------------------
\* Nobody is about to put a digest of damaged bytes on the sidecar, or to accept one.
Unhealed(s) ==
  /\ digest[s] # "damaged" /\ stray[s] # "damaged"
  /\ pc[s] # "heal" /\ stray[s] # "hash"

Damage ==
  /\ binary = "good"
  /\ binary' = "damaged"
  /\ vouched' = (Sealed /\ \A s \in Servers : Unhealed(s))
  /\ UNCHANGED <<sidecar, pc, digest, attempt, stray>>
  /\ Changed({})

(***************************************************************************)
(* clean_cache of uninstall removes the directory: the two files in some   *)
(* order, or one of them when the other cannot be removed.                 *)
(***************************************************************************)
CleanBinary ==
  /\ binary # "none"
  /\ binary' = "none"
  /\ UNCHANGED <<sidecar, pc, digest, attempt, stray, vouched>>
  /\ Changed({})

CleanSidecar ==
  /\ sidecar # "none"
  /\ sidecar' = "none"
  /\ vouched' = FALSE
  /\ UNCHANGED <<binary, pc, digest, attempt, stray>>
  /\ Changed({})

\* What a call does by itself.
Proceed(s) ==
  \/ ReadSidecar(s) \/ Hash(s) \/ HealHash(s) \/ HealWrite(s)
  \/ Download(s) \/ DownloadFails(s)
  \/ Persist(s) \/ PersistFails(s)
  \/ Seal(s) \/ SealFails(s)

Next ==
  \/ \E s \in Servers :
       \/ Begin(s) \/ Proceed(s) \/ Cancel(s)
       \/ StrayHash(s) \/ StrayWrite(s)
       \/ Restart(s)
  \/ Damage \/ CleanBinary \/ CleanSidecar

Spec == Init /\ [][Next]_vars

(***************************************************************************)
(* A runnable call is polled again, and requests time out.  Nothing is     *)
(* owed to a call that is cancelled, and nobody has to ask.                *)
(***************************************************************************)
FairSpec == Spec /\ \A s \in Servers : WF_vars(Proceed(s))
-----------------------------------------------------------------------------
\* The call of s ends with a binary in this step.
Approves(s) == pc[s] # "ready" /\ pc'[s] = "ready"

\* The bytes it hashed or downloaded last.
Accepted(s) == IF pc[s] = "hash" THEN binary ELSE digest[s]

\* A cache whose binary and sidecar are those of a download stays that way, whatever servers
\* do and wherever they stop (download_binary): besides damage and cleaning, only a heal of a
\* call that began before both were in place breaks it, with the digest of bytes that have
\* been replaced since it hashed them.
SealedStays ==
  [][Sealed => \/ Sealed'
               \/ Damage \/ CleanBinary \/ CleanSidecar
               \/ \E s \in Servers \ fresh : HealWrite(s) \/ StrayWrite(s)]_vars

\* Damage done under the sidecar is caught: no call accepts the damaged bytes (verify_sidecar).
DamageCaught == [][vouched => \A s \in Servers : Approves(s) => Accepted(s) # "damaged"]_vars

\* From whatever crashes and other servers have left, a call that ends well and undisturbed
\* leaves a binary with its own sidecar (ensure_binary).
LeavesAgreement == [][\A s \in alone : Approves(s) => sidecar' = binary']_vars

\* A call ends (download_with_retry, persist_with_retry).
CallsEnd == \A s \in Servers : pc[s] # "off" ~> pc[s] \in {"off", "ready"}
=============================================================================
