----------------------------- MODULE SharedLease -----------------------------
(***************************************************************************)
(* Publishing to the shared workspace (workspace_manager.py): a publish    *)
(* takes an exclusive lease, a lock file of the path created with O_EXCL;  *)
(* a read takes a read lease, a lock file of its own; and whoever takes or *)
(* releases a lease or writes appends a record to the run's manifest, from *)
(* which publishes learn the version of a path.                            *)
(*                                                                         *)
(* Requests run in threads of the workspace RPC server and in CLI          *)
(* processes, with nothing but these files between them, so an action is   *)
(* one access to a file.  One path is modelled; the manifest is the run's. *)
(***************************************************************************)
EXTENDS Naturals, Sequences, FiniteSets

CONSTANTS
  Writers,   \* publish requests
  Readers,   \* read requests
  Owner,     \* the agent that makes a publish request
  Stalling,  \* requests that may outlive the ttl_sec of their lease
  None       \* no file, no expected_version

Requests == Writers \cup Readers

ASSUME LeaseAssumption ==
  /\ Writers \cap Readers = {}
  /\ None \notin Requests \cup Nat
  /\ Writers \subseteq DOMAIN Owner
  /\ Stalling \subseteq Writers \cup Readers

VARIABLES
  lock,      \* request whose write lock file exists
  readLocks, \* requests whose read lock files exist
  blank,     \* requests whose lock file is created and not yet written
  expired,   \* requests whose lease has lapsed
  manifest,  \* the "write" records of the path, by request
  torn,      \* manifest.json is truncated and not yet written
  content,   \* publishes that really wrote the file, in order
  pc,        \* next access of a request
  recording, \* how far a request is inside _record_shared_manifest
  snapshot,  \* what it read there
  expects    \* expected_version of a publish

vars == <<lock, readLocks, blank, expired, manifest, torn, content, pc,
          recording, snapshot, expects>>

Init ==
  /\ lock = None
  /\ readLocks = {} /\ blank = {} /\ expired = {}
  /\ manifest = <<>>
  /\ torn = FALSE
  /\ content = <<>>
  /\ pc = [q \in Requests |-> "idle"]
  /\ recording = [q \in Requests |-> "no"]
  /\ snapshot = [q \in Requests |-> <<>>]
  /\ expects = [q \in Requests |-> None]

\* Request q is about to do step s.
At(q, s) == pc[q] = s /\ recording[q] = "no"
Goto(q, s) == pc' = [pc EXCEPT ![q] = s]

locks == <<lock, readLocks, blank, expired>>
book == <<manifest, torn, recording, snapshot>>

-----------------------------------------------------------------------------
(***************************************************************************)
(* _record_shared_manifest: read, change, truncate and write the file.     *)
(***************************************************************************)

Record(q) == recording' = [recording EXCEPT ![q] = "read"]

\* Faulty: a version is counted for every record, not for writes only.
CountsEveryRecord(q) ==
  /\ recording[q] = "read"
  /\ ~torn
  /\ snapshot' = [snapshot EXCEPT ![q] = IF q \in Writers THEN Append(manifest, q) ELSE manifest]
  /\ recording' = [recording EXCEPT ![q] = "truncate"]
  /\ UNCHANGED <<locks, manifest, torn, content, pc, expects>>

\* A truncated manifest does not parse.  In acquire_shared_lease and
\* acquire_shared_read_lease the error leaves the lock file behind; elsewhere
\* the request was on its way out.
ReadManifest(q) ==
  /\ recording[q] = "read"
  /\ \/ /\ ~torn
        /\ snapshot' = [snapshot EXCEPT ![q] =
             IF pc[q] = "release" /\ q \in Writers THEN Append(manifest, q) ELSE manifest]
        /\ recording' = [recording EXCEPT ![q] = "truncate"]
        /\ UNCHANGED pc
     \/ /\ torn
        /\ recording' = [recording EXCEPT ![q] = "no"]
        /\ IF pc[q] \in {"validate", "reading"} THEN Goto(q, "ended") ELSE UNCHANGED pc
        /\ UNCHANGED snapshot
  /\ UNCHANGED <<locks, manifest, torn, content, expects>>

TruncateManifest(q) ==
  /\ recording[q] = "truncate"
  /\ torn' = TRUE
  /\ recording' = [recording EXCEPT ![q] = "write"]
  /\ UNCHANGED <<locks, manifest, content, pc, snapshot, expects>>

WriteManifest(q) ==
  /\ recording[q] = "write"
  /\ torn' = FALSE
  /\ manifest' = snapshot[q]
  /\ recording' = [recording EXCEPT ![q] = "no"]
  /\ snapshot' = [snapshot EXCEPT ![q] = <<>>]
  /\ UNCHANGED <<locks, content, pc, expects>>

-----------------------------------------------------------------------------
(***************************************************************************)
(* Acquiring a lease.                                                      *)
(***************************************************************************)

\* A publish may carry the version its agent has read before.
Begin(q) ==
  /\ At(q, "idle")
  /\ \/ UNCHANGED expects
     \/ /\ q \in Writers /\ ~torn
        /\ expects' = [expects EXCEPT ![q] = Len(manifest)]
  /\ Goto(q, "check")
  /\ UNCHANGED <<locks, book, content>>

\* _active_write_lock reads the lock file: free, broken, taken or lapsed.
Free == lock = None
Broken == lock # None /\ lock \in blank
Taken == lock # None /\ lock \notin blank \cup expired
Lapsed == lock # None /\ lock \in expired \ blank

CheckLock(q) ==
  /\ At(q, "check")
  /\ \/ Free /\ Goto(q, "create")
     \/ (Broken \/ Taken) /\ Goto(q, "ended")
     \/ Lapsed /\ Goto(q, "clear")
  /\ UNCHANGED <<locks, book, content, expects>>

\* It unlinks the lapsed lock, or whatever has that name by now.
ClearLock(q) ==
  /\ At(q, "clear")
  /\ lock' = None
  /\ Goto(q, "create")
  /\ UNCHANGED <<readLocks, blank, expired, book, content, expects>>

\* Faulty: the lock file is created without O_EXCL.
CreateOver(q) ==
  /\ At(q, "create")
  /\ blank' = blank \cup {q}
  /\ IF q \in Readers THEN readLocks' = readLocks \cup {q} /\ UNCHANGED lock
     ELSE lock' = q /\ UNCHANGED readLocks
  /\ Goto(q, "fill")
  /\ UNCHANGED <<expired, book, content, expects>>

Create(q) ==
  /\ At(q, "create")
  /\ \/ /\ q \in Writers /\ lock # None
        /\ Goto(q, "ended")
        /\ UNCHANGED locks
     \/ /\ q \in Writers /\ lock = None
        /\ lock' = q
        /\ blank' = blank \cup {q}
        /\ Goto(q, "fill")
        /\ UNCHANGED <<readLocks, expired>>
     \/ /\ q \in Readers
        /\ readLocks' = readLocks \cup {q}
        /\ blank' = blank \cup {q}
        /\ Goto(q, "fill")
        /\ UNCHANGED <<lock, expired>>
  /\ UNCHANGED <<book, content, expects>>

Fill(q) ==
  /\ At(q, "fill")
  /\ blank' = blank \ {q}
  /\ Goto(q, "recheck")
  /\ UNCHANGED <<lock, readLocks, expired, book, content, expects>>

\* A reader looks for a writer once more.
ReaderRechecks(q) ==
  /\ q \in Readers
  /\ At(q, "recheck")
  /\ \/ /\ Free
        /\ Goto(q, "reading") /\ Record(q)
        /\ UNCHANGED <<lock, readLocks>>
     \/ /\ Lapsed
        /\ lock' = None
        /\ Goto(q, "reading") /\ Record(q)
        /\ UNCHANGED readLocks
     \/ /\ Taken
        /\ readLocks' = readLocks \ {q}
        /\ Goto(q, "ended")
        /\ UNCHANGED <<lock, recording>>
     \/ /\ Broken
        /\ Goto(q, "ended")
        /\ UNCHANGED <<lock, readLocks, recording>>
  /\ UNCHANGED <<blank, expired, manifest, torn, snapshot, content, expects>>

\* A writer looks for readers, after it has created its lock.
WriterRechecks(q) ==
  /\ q \in Writers
  /\ At(q, "recheck")
  /\ \/ /\ readLocks \cap blank # {}
        /\ Goto(q, "ended")
        /\ UNCHANGED <<lock, readLocks, recording>>
     \/ /\ readLocks \cap blank = {}
        /\ readLocks' = readLocks \ expired
        /\ IF readLocks' # {}
           THEN lock' = None /\ Goto(q, "ended") /\ UNCHANGED recording
           ELSE Goto(q, "validate") /\ Record(q) /\ UNCHANGED lock
  /\ UNCHANGED <<blank, expired, manifest, torn, snapshot, content, expects>>

\* ttl_sec passes while the request is stalled.
Lapse(q) ==
  /\ q \in Stalling
  /\ q \notin expired
  /\ q = lock \/ q \in readLocks
  /\ expired' = expired \cup {q}
  /\ UNCHANGED <<lock, readLocks, blank, book, content, pc, expects>>

-----------------------------------------------------------------------------
(***************************************************************************)
(* Under the lease, and its release.                                       *)
(***************************************************************************)

\* _validate_shared_write_version on the manifest read.
VersionOk(q) ==
  IF expects[q] # None THEN expects[q] = Len(manifest)
  ELSE manifest = <<>> \/ Owner[manifest[Len(manifest)]] = Owner[q]

Validate(q) ==
  /\ At(q, "validate")
  /\ Goto(q, IF ~torn /\ VersionOk(q) THEN "write" ELSE "release")
  /\ UNCHANGED <<locks, book, content, expects>>

\* The temporary file replaces the target; the write is recorded.
Write(q) ==
  /\ At(q, "write")
  /\ content' = Append(content, q)
  /\ Goto(q, "release") /\ Record(q)
  /\ UNCHANGED <<locks, manifest, torn, snapshot, expects>>

Read(q) ==
  /\ At(q, "reading")
  /\ Goto(q, "release")
  /\ UNCHANGED <<locks, book, content, expects>>

\* The lock file must hold the request's own lease.
CheckRelease(q) ==
  /\ At(q, "release")
  /\ Goto(q, IF q \notin blank /\ (q = lock \/ q \in readLocks) THEN "unlink" ELSE "ended")
  /\ UNCHANGED <<locks, book, content, expects>>

Unlink(q) ==
  /\ At(q, "unlink")
  /\ IF q \in Readers THEN readLocks' = readLocks \ {q} /\ UNCHANGED lock
     ELSE lock' = None /\ UNCHANGED readLocks
  /\ Goto(q, "ended") /\ Record(q)
  /\ UNCHANGED <<blank, expired, manifest, torn, snapshot, content, expects>>

-----------------------------------------------------------------------------
Step(q) ==
  \/ ReadManifest(q) \/ TruncateManifest(q) \/ WriteManifest(q)
  \/ Begin(q) \/ CheckLock(q) \/ ClearLock(q) \/ Create(q) \/ Fill(q)
  \/ ReaderRechecks(q) \/ WriterRechecks(q) \/ Lapse(q)
  \/ Validate(q) \/ Write(q) \/ Read(q) \/ CheckRelease(q) \/ Unlink(q)

Next == \E q \in Requests : Step(q)

Spec == Init /\ [][Next]_vars

-----------------------------------------------------------------------------
(***************************************************************************)
(* Properties.                                                             *)
(***************************************************************************)

TypeOK ==
  /\ lock \in Writers \cup {None}
  /\ readLocks \subseteq Readers
  /\ blank \subseteq Requests /\ expired \subseteq Requests
  /\ manifest \in Seq(Writers) /\ content \in Seq(Writers)
  /\ torn \in BOOLEAN
  /\ pc \in [Requests -> {"idle", "check", "clear", "create", "fill", "recheck",
                          "validate", "write", "reading", "release", "unlink", "ended"}]
  /\ recording \in [Requests -> {"no", "read", "truncate", "write"}]
  /\ snapshot \in [Requests -> Seq(Writers)]
  /\ expects \in [Requests -> Nat \cup {None}]

\* Requests that acquire_shared_lease or acquire_shared_read_lease has answered
\* with a lease which is neither released nor lapsed.
Granted ==
  {q \in Requests \ expired : pc[q] \in {"validate", "write", "reading", "release", "unlink"}}

\* As long as no lease has outlived its ttl, a granted write lease is the only
\* granted lease of its path ("Acquire an exclusive write lease", "a shared read
\* lease unless a writer owns the path").
LeaseExclusive ==
  expired = {} => \A w \in Granted \cap Writers : Granted = {w}

\* Every version the manifest counts is a write that took place, counted once,
\* whatever leases lapse and whatever requests fail half way.
VersionsAreWrites ==
  \A i, j \in DOMAIN manifest :
    /\ \E k \in DOMAIN content : content[k] = manifest[i]
    /\ manifest[i] = manifest[j] => i = j

\* A publish with an expected_version only replaces the content that had that
\* version ("the command fails with a version conflict instead of overwriting
\* newer content", docs/workspace_api.md).
VersionGuard ==
  [][\A q \in Writers : Write(q) /\ expects[q] # None => Len(content) = expects[q]]_vars
=============================================================================
