-------------------------- MODULE SharedLeaseProofs --------------------------
(***************************************************************************)
(* Proofs about SharedLease: its types; that no two granted leases of a    *)
(* path conflict as long as leases do not outlive their ttl; and that the  *)
(* manifest only counts writes that took place, lapsed leases or not.      *)
(***************************************************************************)
EXTENDS SharedLease, TLAPS

\* Only a publish validates and writes.
Roles == \A q \in Requests : pc[q] \in {"validate", "write"} => q \in Writers

TypeInv == TypeOK /\ Roles

Steps == {"idle", "check", "clear", "create", "fill", "recheck",
          "validate", "write", "reading", "release", "unlink", "ended"}
Recordings == {"no", "read", "truncate", "write"}

-----------------------------------------------------------------------------
(***************************************************************************)
(* Types.                                                                  *)
(***************************************************************************)

LEMMA InitType == Init => TypeInv
<1> SUFFICES ASSUME Init PROVE TypeInv
  OBVIOUS
<1>1. \A S : <<>> \in Seq(S)
  OBVIOUS
<1> QED
  BY <1>1 DEF Init, TypeInv, TypeOK, Roles

\* A request that moves on to a step it may take keeps both parts about pc.
LEMMA GotoType ==
  ASSUME TypeInv, NEW q \in Requests, NEW s \in Steps, Goto(q, s),
         s \in {"validate", "write"} => q \in Writers
  PROVE  pc' \in [Requests -> Steps] /\ Roles'
  BY DEF TypeInv, TypeOK, Roles, Goto, Steps

\* _record_shared_manifest keeps the types: it reads, truncates and writes.
LEMMA RecordType ==
  ASSUME TypeInv, NEW q \in Requests,
         ReadManifest(q) \/ TruncateManifest(q) \/ WriteManifest(q)
  PROVE  TypeInv'
<1>1. CASE ReadManifest(q)
  <2>1. snapshot' \in [Requests -> Seq(Writers)]
    <3>1. CASE pc[q] = "release" /\ q \in Writers
      <4>1. Append(manifest, q) \in Seq(Writers)
        BY <3>1 DEF TypeInv, TypeOK
      <4> QED
        BY <1>1, <3>1, <4>1 DEF ReadManifest, TypeInv, TypeOK
    <3>2. CASE ~(pc[q] = "release" /\ q \in Writers)
      BY <1>1, <3>2 DEF ReadManifest, TypeInv, TypeOK
    <3> QED
      BY <3>1, <3>2
  <2>2. recording' \in [Requests -> Recordings]
    BY <1>1 DEF ReadManifest, TypeInv, TypeOK, Recordings
  <2>3. pc' \in [Requests -> Steps] /\ Roles'
    <3>1. CASE Goto(q, "ended")
      BY <3>1, GotoType DEF Steps
    <3>2. CASE UNCHANGED pc
      BY <3>2 DEF TypeInv, TypeOK, Roles, Steps
    <3> QED
      BY <1>1, <3>1, <3>2 DEF ReadManifest
  <2> QED
    BY <1>1, <2>1, <2>2, <2>3 DEF ReadManifest, locks, TypeInv, TypeOK, Steps, Recordings
<1>2. CASE TruncateManifest(q)
  BY <1>2 DEF TruncateManifest, locks, TypeInv, TypeOK, Roles
<1>3. CASE WriteManifest(q)
  <2>1. <<>> \in Seq(Writers)
    OBVIOUS
  <2>2. snapshot' \in [Requests -> Seq(Writers)] /\ manifest' \in Seq(Writers)
    BY <1>3, <2>1 DEF WriteManifest, TypeInv, TypeOK
  <2> QED
    BY <1>3, <2>2 DEF WriteManifest, locks, TypeInv, TypeOK, Roles
<1> QED
  BY <1>1, <1>2, <1>3

\* Looking for a lease and creating a lock file keep the types.
LEMMA AcquireType ==
  ASSUME TypeInv, NEW q \in Requests,
         \/ Begin(q) \/ CheckLock(q) \/ ClearLock(q) \/ Create(q) \/ Fill(q)
  PROVE  TypeInv'
<1> USE DEF locks, book
<1>1. pc' \in [Requests -> Steps] /\ Roles'
  <2>1. \E s \in Steps \ {"validate", "write"} : Goto(q, s)
    BY DEF Begin, CheckLock, ClearLock, Create, Fill, Steps
  <2> QED
    BY <2>1, GotoType
<1>2. expects' \in [Requests -> Nat \cup {None}]
  <2>1. Len(manifest) \in Nat
    BY DEF TypeInv, TypeOK
  <2> QED
    BY <2>1 DEF Begin, CheckLock, ClearLock, Create, Fill, TypeInv, TypeOK
<1>3. /\ lock' \in Writers \cup {None}
      /\ readLocks' \subseteq Readers
      /\ blank' \subseteq Requests /\ expired' \subseteq Requests
  BY DEF Begin, CheckLock, ClearLock, Create, Fill, TypeInv, TypeOK
<1>4. UNCHANGED <<manifest, torn, recording, snapshot, content>>
  BY DEF Begin, CheckLock, ClearLock, Create, Fill
<1> QED
  BY <1>1, <1>2, <1>3, <1>4 DEF TypeInv, TypeOK, Steps

\* So do the second look for a conflicting lock and the lapse of a lease.
LEMMA RecheckType ==
  ASSUME TypeInv, NEW q \in Requests,
         ReaderRechecks(q) \/ WriterRechecks(q) \/ Lapse(q)
  PROVE  TypeInv'
<1> USE DEF book
<1>1. pc' \in [Requests -> Steps] /\ Roles'
  <2>1. CASE \E s \in Steps \ {"validate", "write"} : Goto(q, s)
    BY <2>1, GotoType
  <2>2. CASE q \in Writers /\ Goto(q, "validate")
    BY <2>2, GotoType DEF Steps
  <2>3. CASE UNCHANGED pc
    BY <2>3 DEF TypeInv, TypeOK, Roles, Steps
  <2> QED
    BY <2>1, <2>2, <2>3 DEF ReaderRechecks, WriterRechecks, Lapse, Steps
<1>2. recording' \in [Requests -> Recordings]
  BY DEF ReaderRechecks, WriterRechecks, Lapse, Record, TypeInv, TypeOK, Recordings
<1>3. /\ lock' \in Writers \cup {None}
      /\ readLocks' \subseteq Readers
      /\ blank' \subseteq Requests /\ expired' \subseteq Requests
  BY DEF ReaderRechecks, WriterRechecks, Lapse, TypeInv, TypeOK
<1>4. UNCHANGED <<manifest, torn, snapshot, content, expects>>
  BY DEF ReaderRechecks, WriterRechecks, Lapse
<1> QED
  BY <1>1, <1>2, <1>3, <1>4 DEF TypeInv, TypeOK, Steps, Recordings

\* And what is done under the lease, up to its release.
LEMMA UseType ==
  ASSUME TypeInv, NEW q \in Requests,
         Validate(q) \/ Write(q) \/ Read(q) \/ CheckRelease(q) \/ Unlink(q)
  PROVE  TypeInv'
<1> USE DEF locks, book
<1>1. pc' \in [Requests -> Steps] /\ Roles'
  <2>1. CASE \E s \in Steps \ {"validate", "write"} : Goto(q, s)
    BY <2>1, GotoType
  <2>2. CASE Validate(q) /\ Goto(q, "write")
    BY <2>2, GotoType DEF Validate, At, TypeInv, Roles, Steps
  <2> QED
    BY <2>1, <2>2 DEF Validate, Write, Read, CheckRelease, Unlink, Steps
<1>2. content' \in Seq(Writers)
  <2>1. CASE Write(q)
    <3>1. q \in Writers
      BY <2>1 DEF Write, At, TypeInv, Roles
    <3> QED
      BY <2>1, <3>1 DEF Write, TypeInv, TypeOK
  <2>2. CASE ~Write(q)
    BY <2>2 DEF Validate, Read, CheckRelease, Unlink, TypeInv, TypeOK
  <2> QED
    BY <2>1, <2>2
<1>3. recording' \in [Requests -> Recordings]
  BY DEF Validate, Write, Read, CheckRelease, Unlink, Record, TypeInv, TypeOK, Recordings
<1>4. lock' \in Writers \cup {None} /\ readLocks' \subseteq Readers
  BY DEF Validate, Write, Read, CheckRelease, Unlink, TypeInv, TypeOK
<1>5. UNCHANGED <<blank, expired, manifest, torn, snapshot, expects>>
  BY DEF Validate, Write, Read, CheckRelease, Unlink
<1> QED
  BY <1>1, <1>2, <1>3, <1>4, <1>5 DEF TypeInv, TypeOK, Steps, Recordings

LEMMA TypeStep == TypeInv /\ [Next]_vars => TypeInv'
<1> SUFFICES ASSUME TypeInv, [Next]_vars PROVE TypeInv'
  OBVIOUS
<1>1. CASE UNCHANGED vars
  BY <1>1 DEF vars, TypeInv, TypeOK, Roles
<1>2. ASSUME NEW q \in Requests, Step(q) PROVE TypeInv'
  BY <1>2, RecordType, AcquireType, RecheckType, UseType DEF Step
<1> QED
  BY <1>1, <1>2 DEF Next

LEMMA TypeHolds == Spec => []TypeInv
  BY InitType, TypeStep, PTL DEF Spec

\* Publishes, reads and the manifest are well typed, whatever lapses and fails.
THEOREM LeaseTypeCorrect == Spec => []TypeOK
  BY TypeHolds, PTL DEF TypeInv

-----------------------------------------------------------------------------
(***************************************************************************)
(* Exclusion, until a lease lapses.                                        *)
(*                                                                         *)
(* LeaseExclusive alone says nothing of a request that has its lock file   *)
(* and has not looked for others yet.  Owned adds what that file does: it  *)
(* stays until its request unlinks it.                                     *)
(***************************************************************************)

Holding == {"fill", "recheck", "validate", "write", "reading", "release", "unlink"}
InLease == {"validate", "write", "reading", "release", "unlink"}

\* Before a lapse nobody clears the lock of another.
NothingLapsed == expired = {} /\ \A q \in Requests : pc[q] # "clear"

\* From creation to release the lock file of a request is there.
Owned ==
  /\ \A w \in Writers : pc[w] \in Holding => lock = w
  /\ \A r \in Readers : pc[r] \in Holding => r \in readLocks

Apart == \A w \in Writers, r \in Readers : ~(pc[w] \in InLease /\ pc[r] \in InLease)

LeaseInv == NothingLapsed /\ Owned /\ Apart

LEMMA InitLease == Init => LeaseInv
  BY LeaseAssumption
     DEF LeaseAssumption, Init, LeaseInv, NothingLapsed, Owned, Apart, Requests, Holding, InLease

\* A step that leaves the lock files alone, and moves a request within what it
\* holds already or out of it, keeps LeaseInv.
LEMMA LeaseFrame ==
  ASSUME TypeInv, LeaseInv, NEW q \in Requests, NEW s \in Steps,
         UNCHANGED <<lock, readLocks, expired>>,
         Goto(q, s),
         s # "clear",
         s \in Holding => pc[q] \in Holding,
         s \in InLease => pc[q] \in InLease
  PROVE  LeaseInv'
  BY DEF TypeInv, TypeOK, LeaseInv, NothingLapsed, Owned, Apart, Requests, Goto, Steps

\* The manifest has no part in exclusion: a request it fails only ends.
LEMMA RecordLease ==
  ASSUME TypeInv, LeaseInv, NEW q \in Requests,
         ReadManifest(q) \/ TruncateManifest(q) \/ WriteManifest(q)
  PROVE  LeaseInv'
<1>1. UNCHANGED <<lock, readLocks, expired>>
  BY DEF ReadManifest, TruncateManifest, WriteManifest, locks
<1>2. CASE Goto(q, "ended")
  BY <1>1, <1>2, LeaseFrame DEF Steps, Holding, InLease
<1>3. CASE UNCHANGED pc
  BY <1>1, <1>3 DEF LeaseInv, NothingLapsed, Owned, Apart
<1> QED
  BY <1>2, <1>3 DEF ReadManifest, TruncateManifest, WriteManifest

\* The steps up to the lock file: O_EXCL keeps a second writer out.
LEMMA AcquireLease ==
  ASSUME TypeInv, LeaseInv, NEW q \in Requests,
         \/ Begin(q) \/ CheckLock(q) \/ ClearLock(q) \/ Create(q) \/ Fill(q)
  PROVE  LeaseInv'
<1> USE DEF locks, At
<1>1. CASE Begin(q)
  BY <1>1, LeaseFrame DEF Begin, Steps, Holding, InLease
<1>2. CASE CheckLock(q)
  <2>1. ~Lapsed
    BY DEF Lapsed, LeaseInv, NothingLapsed
  <2>2. Goto(q, "create") \/ Goto(q, "ended")
    BY <1>2, <2>1 DEF CheckLock
  <2> QED
    BY <1>2, <2>2, LeaseFrame DEF CheckLock, Steps, Holding, InLease
<1>3. CASE ClearLock(q)
  BY <1>3 DEF ClearLock, LeaseInv, NothingLapsed
<1>4. CASE Create(q)
  <2>1. CASE Goto(q, "ended") /\ UNCHANGED locks
    BY <2>1, LeaseFrame DEF Steps, Holding, InLease
  <2>2. CASE q \in Writers /\ lock = None /\ lock' = q /\ Goto(q, "fill")
             /\ UNCHANGED <<readLocks, expired>>
    <3>1. \A w \in Writers : pc[w] \notin Holding
      BY <2>2, LeaseAssumption DEF LeaseAssumption, LeaseInv, Owned, Requests
    <3>2. pc' = [pc EXCEPT ![q] = "fill"] /\ q \notin Readers
      BY <2>2, LeaseAssumption DEF Goto, LeaseAssumption
    <3>3. NothingLapsed'
      BY <2>2, <3>2 DEF LeaseInv, NothingLapsed, TypeInv, TypeOK
    <3>4. Owned'
      BY <2>2, <3>1, <3>2 DEF LeaseInv, Owned, TypeInv, TypeOK, Requests
    <3>5. Apart'
      BY <3>2 DEF LeaseInv, Apart, InLease, TypeInv, TypeOK, Requests
    <3> QED
      BY <3>3, <3>4, <3>5 DEF LeaseInv
  <2>3. CASE q \in Readers /\ readLocks' = readLocks \cup {q} /\ Goto(q, "fill")
             /\ UNCHANGED <<lock, expired>>
    <3>1. pc' = [pc EXCEPT ![q] = "fill"] /\ q \notin Writers
      BY <2>3, LeaseAssumption DEF Goto, LeaseAssumption
    <3> QED
      BY <2>3, <3>1 DEF LeaseInv, NothingLapsed, Owned, Apart, InLease, TypeInv, TypeOK, Requests
  <2> QED
    BY <1>4, <2>1, <2>2, <2>3 DEF Create
<1>5. CASE Fill(q)
  BY <1>5, LeaseFrame DEF Fill, Steps, Holding, InLease
<1> QED
  BY <1>1, <1>2, <1>3, <1>4, <1>5

\* The second look: whoever is granted a lease found the other kind absent
\* while its own lock file was there.
LEMMA RecheckLease ==
  ASSUME TypeInv, LeaseInv, NEW q \in Requests,
         ReaderRechecks(q) \/ WriterRechecks(q)
  PROVE  LeaseInv'
<1> USE DEF At
<1>1. CASE ReaderRechecks(q)
  <2>1. CASE Goto(q, "ended") /\ UNCHANGED <<lock, readLocks, expired>>
    BY <2>1, LeaseFrame DEF Steps, Holding, InLease
  <2>2. CASE Free /\ Goto(q, "reading") /\ UNCHANGED <<lock, readLocks, expired>>
    <3>1. \A w \in Writers : pc[w] \notin InLease
      BY <2>2, LeaseAssumption
         DEF Free, LeaseAssumption, LeaseInv, Owned, Requests, Holding, InLease
    <3>2. q \in Readers /\ q \notin Writers /\ pc[q] = "recheck"
      BY <1>1, LeaseAssumption DEF ReaderRechecks, LeaseAssumption
    <3> QED
      BY <2>2, <3>1, <3>2
         DEF Goto, LeaseInv, NothingLapsed, Owned, Apart, Holding, TypeInv, TypeOK, Requests
  <2>3. CASE readLocks' = readLocks \ {q} /\ Goto(q, "ended") /\ UNCHANGED <<lock, expired>>
    BY <2>3 DEF Goto, LeaseInv, NothingLapsed, Owned, Apart, Holding, InLease, TypeInv, TypeOK, Requests
  <2>4. ~Lapsed
    BY DEF Lapsed, LeaseInv, NothingLapsed
  <2> QED
    BY <1>1, <2>1, <2>2, <2>3, <2>4 DEF ReaderRechecks
<1>2. CASE WriterRechecks(q)
  <2>1. q \in Writers /\ q \notin Readers /\ pc[q] = "recheck" /\ lock = q
    BY <1>2, LeaseAssumption DEF WriterRechecks, LeaseAssumption, LeaseInv, Owned, Holding
  <2>2. CASE Goto(q, "ended") /\ UNCHANGED <<lock, readLocks, expired>>
    BY <2>2, LeaseFrame DEF Steps, Holding, InLease
  <2>3. CASE readLocks' = readLocks \ expired /\ lock' = None /\ Goto(q, "ended")
             /\ UNCHANGED expired
    <3>1. \A w \in Writers \ {q} : pc[w] \notin Holding
      BY <2>1 DEF LeaseInv, Owned
    <3> QED
      BY <2>1, <2>3, <3>1
         DEF Goto, LeaseInv, NothingLapsed, Owned, Apart, Holding, InLease, TypeInv, TypeOK, Requests
  <2>4. CASE /\ readLocks' = readLocks \ expired /\ readLocks' = {}
             /\ Goto(q, "validate") /\ UNCHANGED <<lock, expired>>
    <3>1. \A r \in Readers : pc[r] \notin InLease
      BY <2>4 DEF LeaseInv, NothingLapsed, Owned, Holding, InLease
    <3> QED
      BY <2>1, <2>4, <3>1
         DEF Goto, LeaseInv, NothingLapsed, Owned, Apart, Holding, TypeInv, TypeOK, Requests
  <2> QED
    BY <1>2, <2>2, <2>3, <2>4 DEF WriterRechecks
<1> QED
  BY <1>1, <1>2

\* Under the lease nothing changes but at the unlink, which takes the
\* request's own lock file.
LEMMA UseLease ==
  ASSUME TypeInv, LeaseInv, NEW q \in Requests,
         Validate(q) \/ Write(q) \/ Read(q) \/ CheckRelease(q) \/ Unlink(q)
  PROVE  LeaseInv'
<1> USE DEF locks, At
<1>1. CASE Validate(q) \/ Write(q) \/ Read(q) \/ CheckRelease(q)
  <2>1. \E s \in {"write", "release", "unlink", "ended"} : Goto(q, s)
    BY <1>1 DEF Validate, Write, Read, CheckRelease
  <2>2. UNCHANGED <<lock, readLocks, expired>> /\ pc[q] \in InLease /\ pc[q] \in Holding
    BY <1>1 DEF Validate, Write, Read, CheckRelease, InLease, Holding
  <2> QED
    BY <2>1, <2>2, LeaseFrame DEF Steps
<1>2. CASE Unlink(q)
  <2>1. CASE q \in Readers
    BY <1>2, <2>1, LeaseAssumption
       DEF Unlink, Goto, LeaseAssumption, LeaseInv, NothingLapsed, Owned, Apart, Holding,
           InLease, TypeInv, TypeOK, Requests
  <2>2. CASE q \in Writers /\ q \notin Readers
    <3>1. \A w \in Writers \ {q} : pc[w] \notin Holding
      BY <1>2, <2>2 DEF Unlink, LeaseInv, Owned, Holding
    <3> QED
      BY <1>2, <2>2, <3>1
         DEF Unlink, Goto, LeaseInv, NothingLapsed, Owned, Apart, Holding, InLease,
             TypeInv, TypeOK, Requests
  <2> QED
    BY <2>1, <2>2 DEF Requests
<1> QED
  BY <1>1, <1>2

\* What holds until a lease lapses; no step takes a lapse back.
LeaseUntil == expired = {} => LeaseInv

LEMMA LapseIsKept == [Next]_vars /\ expired # {} => expired' # {}
<1> SUFFICES ASSUME [Next]_vars PROVE expired \subseteq expired'
  OBVIOUS
<1>1. CASE UNCHANGED vars
  BY <1>1 DEF vars
<1>2. ASSUME NEW q \in Requests, Step(q) PROVE expired \subseteq expired'
  BY <1>2
     DEF Step, locks, book, ReadManifest, TruncateManifest, WriteManifest, Begin, CheckLock,
         ClearLock, Create, Fill, ReaderRechecks, WriterRechecks, Lapse, Validate, Write,
         Read, CheckRelease, Unlink
<1> QED
  BY <1>1, <1>2 DEF Next

LEMMA LeaseStep == TypeInv /\ LeaseUntil /\ [Next]_vars => LeaseUntil'
<1> SUFFICES ASSUME TypeInv, LeaseUntil, [Next]_vars, expired' = {} PROVE LeaseInv'
  BY DEF LeaseUntil
<1> LeaseInv
  BY LapseIsKept DEF LeaseUntil
<1>1. CASE UNCHANGED vars
  BY <1>1 DEF vars, LeaseInv, NothingLapsed, Owned, Apart
<1>2. ASSUME NEW q \in Requests, Step(q) PROVE LeaseInv'
  <2>1. ~Lapse(q)
    BY DEF Lapse
  <2> QED
    BY <1>2, <2>1, RecordLease, AcquireLease, RecheckLease, UseLease DEF Step
<1> QED
  BY <1>1, <1>2 DEF Next

LEMMA LeaseInvExclusive == LeaseUntil => LeaseExclusive
  BY LeaseAssumption
     DEF LeaseAssumption, LeaseUntil, LeaseInv, Owned, Apart, LeaseExclusive, Granted,
         Requests, Holding, InLease

\* Until some lease outlives its ttl, a granted write lease is the only granted
\* lease of its path, for any number of publishes, reads and agents.
THEOREM LeaseExclusiveAlways == Spec => []LeaseExclusive
<1>1. Init => LeaseUntil
  BY InitLease DEF LeaseUntil
<1>2. TypeInv /\ LeaseUntil /\ [Next]_vars => LeaseUntil'
  BY LeaseStep
<1> QED
  BY <1>1, <1>2, TypeHolds, LeaseInvExclusive, PTL DEF Spec

-----------------------------------------------------------------------------
(***************************************************************************)
(* Versions, whether leases lapse or not.                                  *)
(*                                                                         *)
(* A record is copied from the manifest into snapshots and back, so the    *)
(* snapshots must be as good as the manifest; and a publish appends itself *)
(* to what it has read, so it must not stand there already.                *)
(***************************************************************************)

\* The records s are writes of content c, each counted once.
Genuine(s, c) ==
  \A i, j \in DOMAIN s :
    /\ \E k \in DOMAIN c : c[k] = s[i]
    /\ s[i] = s[j] => i = j

Lacks(s, w) == \A i \in DOMAIN s : s[i] # w

\* A publish that has written the file and is about to read the manifest.
ToRecord(w) == pc[w] = "release" /\ recording[w] = "read"

\* A publish whose record does not exist yet.
Unrecorded(w) ==
  pc[w] \in {"idle", "check", "clear", "create", "fill", "recheck", "validate", "write"}
    \/ ToRecord(w)

RecordsGenuine ==
  /\ Genuine(manifest, content)
  /\ \A q \in Requests : Genuine(snapshot[q], content)

WrittenOnce ==
  \A w \in Writers :
    /\ Unrecorded(w) => Lacks(manifest, w) /\ \A q \in Requests : Lacks(snapshot[q], w)
    /\ ToRecord(w) => \E k \in DOMAIN content : content[k] = w

VersionInv == RecordsGenuine /\ WrittenOnce

\* What appending a record does to a list of records, and a write to content.
LEMMA RecordAppended ==
  ASSUME NEW s \in Seq(Writers), NEW c, NEW q \in Writers,
         Genuine(s, c), Lacks(s, q), \E k \in DOMAIN c : c[k] = q
  PROVE  /\ Genuine(Append(s, q), c)
         /\ \A w \in Writers : w # q /\ Lacks(s, w) => Lacks(Append(s, q), w)
<1>1. /\ DOMAIN s = 1..Len(s) /\ Len(s) \in Nat
      /\ DOMAIN Append(s, q) = 1..(Len(s) + 1)
      /\ \A i \in DOMAIN s : Append(s, q)[i] = s[i]
      /\ Append(s, q)[Len(s) + 1] = q
  OBVIOUS
<1>2. \A i \in DOMAIN Append(s, q) : i \in DOMAIN s \/ i = Len(s) + 1
  BY <1>1
<1> QED
  BY <1>1, <1>2 DEF Genuine, Lacks

LEMMA ContentGrows ==
  ASSUME NEW s, NEW c \in Seq(Writers), NEW q \in Writers, Genuine(s, c)
  PROVE  /\ Genuine(s, Append(c, q))
         /\ \E k \in DOMAIN Append(c, q) : Append(c, q)[k] = q
<1>1. /\ \A k \in DOMAIN c : k \in DOMAIN Append(c, q) /\ Append(c, q)[k] = c[k]
      /\ Len(c) + 1 \in DOMAIN Append(c, q) /\ Append(c, q)[Len(c) + 1] = q
  OBVIOUS
<1> QED
  BY <1>1 DEF Genuine

LEMMA InitVersions == Init => VersionInv
  BY DEF Init, VersionInv, RecordsGenuine, WrittenOnce, Genuine, Lacks, ToRecord, Requests

\* A step that touches neither the records nor the content, and makes no
\* request unrecorded that was not.
LEMMA VersionFrame ==
  ASSUME VersionInv,
         UNCHANGED <<manifest, snapshot, content>>,
         \A w \in Writers : Unrecorded(w)' => Unrecorded(w),
         \A w \in Writers : ToRecord(w)' => ToRecord(w)
  PROVE  VersionInv'
  BY DEF VersionInv, RecordsGenuine, WrittenOnce

\* Reading: the snapshot is the manifest, or the manifest and the reader's write.
LEMMA ReadVersions ==
  ASSUME TypeInv, VersionInv, NEW q \in Requests, ReadManifest(q)
  PROVE  VersionInv'
<1>1. \A w \in Writers : /\ Unrecorded(w)' => Unrecorded(w)
                         /\ ToRecord(w)' => ToRecord(w) /\ w # q
  BY DEF ReadManifest, Goto, Unrecorded, ToRecord, TypeInv, TypeOK, Requests
<1>2. CASE torn
  BY <1>1, <1>2, VersionFrame DEF ReadManifest
<1>3. CASE ~torn /\ ~(pc[q] = "release" /\ q \in Writers)
  <2>1. snapshot' = [snapshot EXCEPT ![q] = manifest] /\ UNCHANGED <<manifest, content>>
    BY <1>3 DEF ReadManifest
  <2>2. \A p \in Requests : snapshot'[p] = snapshot[p] \/ snapshot'[p] = manifest
    BY <2>1 DEF TypeInv, TypeOK
  <2> QED
    BY <1>1, <2>1, <2>2 DEF VersionInv, RecordsGenuine, WrittenOnce
<1>4. CASE ~torn /\ pc[q] = "release" /\ q \in Writers
  <2>1. snapshot' = [snapshot EXCEPT ![q] = Append(manifest, q)] /\ UNCHANGED <<manifest, content>>
    BY <1>4 DEF ReadManifest
  <2>2. ToRecord(q)
    BY <1>4 DEF ReadManifest, ToRecord
  <2>3. ~Unrecorded(q)'
    BY <1>4 DEF ReadManifest, Unrecorded, ToRecord, TypeInv, TypeOK
  <2>4. /\ Genuine(Append(manifest, q), content)
        /\ \A w \in Writers : w # q /\ Lacks(manifest, w) => Lacks(Append(manifest, q), w)
    BY <1>4, <2>2, RecordAppended
       DEF VersionInv, RecordsGenuine, WrittenOnce, Unrecorded, TypeInv, TypeOK
  <2>5. \A p \in Requests : snapshot'[p] = snapshot[p] \/ snapshot'[p] = Append(manifest, q)
    BY <2>1 DEF TypeInv, TypeOK
  <2> QED
    BY <1>1, <2>1, <2>3, <2>4, <2>5 DEF VersionInv, RecordsGenuine, WrittenOnce
<1> QED
  BY <1>2, <1>3, <1>4

LEMMA WriteVersions ==
  ASSUME TypeInv, VersionInv, NEW q \in Requests, WriteManifest(q)
  PROVE  VersionInv'
<1>1. \A w \in Writers : /\ Unrecorded(w)' => Unrecorded(w)
                         /\ ToRecord(w)' => ToRecord(w)
  BY DEF WriteManifest, Unrecorded, ToRecord, TypeInv, TypeOK, Requests
<1>2. /\ manifest' = snapshot[q] /\ UNCHANGED content
      /\ \A p \in Requests : snapshot'[p] = snapshot[p] \/ snapshot'[p] = <<>>
  BY DEF WriteManifest, TypeInv, TypeOK
<1>3. Genuine(<<>>, content) /\ \A w : Lacks(<<>>, w)
  BY DEF Genuine, Lacks
<1> QED
  BY <1>1, <1>2, <1>3 DEF VersionInv, RecordsGenuine, WrittenOnce

\* The write itself: one more publish in content.
LEMMA ContentVersions ==
  ASSUME TypeInv, VersionInv, NEW q \in Requests, Write(q)
  PROVE  VersionInv'
<1>1. q \in Writers
  BY DEF Write, At, TypeInv, Roles
<1>2. content' = Append(content, q) /\ UNCHANGED <<manifest, snapshot>>
  BY DEF Write
<1>3. RecordsGenuine'
  BY <1>1, <1>2, ContentGrows DEF VersionInv, RecordsGenuine, TypeInv, TypeOK
<1>4. \A w \in Writers : /\ Unrecorded(w)' => Unrecorded(w)
                         /\ ToRecord(w)' => ToRecord(w) \/ w = q
  BY DEF Write, At, Goto, Record, Unrecorded, ToRecord, TypeInv, TypeOK, Requests
<1>5. \A w : (\E k \in DOMAIN content : content[k] = w)
               => \E k \in DOMAIN content' : content'[k] = w
  <2>1. \A k \in DOMAIN content : k \in DOMAIN content' /\ content'[k] = content[k]
    BY <1>1, <1>2 DEF TypeInv, TypeOK
  <2> QED
    BY <2>1
<1>6. \E k \in DOMAIN content' : content'[k] = q
  BY <1>1, <1>2, ContentGrows DEF VersionInv, RecordsGenuine, TypeInv, TypeOK
<1> QED
  BY <1>2, <1>3, <1>4, <1>5, <1>6 DEF VersionInv, WrittenOnce

LEMMA VersionStep == TypeInv /\ VersionInv /\ [Next]_vars => VersionInv'
<1> SUFFICES ASSUME TypeInv, VersionInv, [Next]_vars PROVE VersionInv'
  OBVIOUS
<1>1. CASE UNCHANGED vars
  BY <1>1, VersionFrame DEF vars, Unrecorded, ToRecord
<1>2. ASSUME NEW q \in Requests, Step(q) PROVE VersionInv'
  <2> USE DEF At, Goto, Record, book, Unrecorded, ToRecord, TypeInv, TypeOK, Requests
  <2>1. CASE TruncateManifest(q)
    BY <2>1, VersionFrame DEF TruncateManifest
  <2>2. CASE Begin(q) \/ CheckLock(q) \/ ClearLock(q) \/ Create(q) \/ Fill(q)
    <3>1. UNCHANGED <<manifest, snapshot, content, recording>> /\ recording[q] = "no"
      BY <2>2 DEF Begin, CheckLock, ClearLock, Create, Fill
    <3>2. Unrecorded(q)
      BY <2>2 DEF Begin, CheckLock, ClearLock, Create, Fill
    <3>3. \A w \in Requests : w # q => pc'[w] = pc[w]
      BY <2>2 DEF Begin, CheckLock, ClearLock, Create, Fill
    <3> QED
      BY <3>1, <3>2, <3>3, VersionFrame
  <2>3. CASE ReaderRechecks(q) \/ WriterRechecks(q)
    <3>1. UNCHANGED <<manifest, snapshot, content>> /\ Unrecorded(q) /\ pc'[q] # "release"
      BY <2>3 DEF ReaderRechecks, WriterRechecks
    <3>2. \A w \in Requests : w # q => pc'[w] = pc[w] /\ recording'[w] = recording[w]
      BY <2>3 DEF ReaderRechecks, WriterRechecks
    <3> QED
      BY <3>1, <3>2, VersionFrame
  <2>4. CASE Lapse(q)
    BY <2>4, VersionFrame DEF Lapse
  <2>5. CASE Validate(q) \/ Read(q) \/ CheckRelease(q)
    <3>1. /\ UNCHANGED <<manifest, snapshot, content, recording>> /\ recording[q] = "no"
          /\ pc'[q] = "write" => pc[q] = "validate"
          /\ pc'[q] \in {"write", "release", "unlink", "ended"}
      BY <2>5 DEF Validate, Read, CheckRelease
    <3>2. \A w \in Requests : w # q => pc'[w] = pc[w]
      BY <2>5 DEF Validate, Read, CheckRelease
    <3> QED
      BY <3>1, <3>2, VersionFrame
  <2>6. CASE Unlink(q)
    BY <2>6, VersionFrame DEF Unlink
  <2> QED
    BY <1>2, <2>1, <2>2, <2>3, <2>4, <2>5, <2>6, ReadVersions, WriteVersions, ContentVersions DEF Step
<1> QED
  BY <1>1, <1>2 DEF Next

\* Whatever lapses and whatever requests stop half way, the manifest counts
\* only writes that took place, each of them once.
THEOREM VersionsAreWritesAlways == Spec => []VersionsAreWrites
<1>1. VersionInv => VersionsAreWrites
  BY DEF VersionInv, RecordsGenuine, Genuine, VersionsAreWrites
<1> QED
  BY <1>1, InitVersions, VersionStep, TypeHolds, PTL DEF Spec
=============================================================================
