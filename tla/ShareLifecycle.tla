--------------------------- MODULE ShareLifecycle ---------------------------
(***************************************************************************)
(* The share record of one validator daemon: the DKG and reshare ceremonies *)
(* it takes part in (api.rs, dkg_sessions.rs, reshare_sessions.rs, dkg.rs, *)
(* rotation.rs), the record in memory and the record files in the data     *)
(* directory (storage.rs, main.rs).  Finalize and reload requests run in   *)
(* tasks that interleave at every lock and system call.                    *)
(*                                                                         *)
(* A share is abstracted to what it is a sum of: the contributions of one  *)
(* DKG run and of any number of reshare runs.  The shares of a committee   *)
(* fit together only if they are sums over the same runs.                  *)
(***************************************************************************)
EXTENDS Integers, FiniteSets

CONSTANTS
    Tasks,        \* finalize and reload requests served at the same time
    CeremonyIds,  \* ids the operators choose
    Indices,      \* from_index values contributions are stored under
    N,            \* committee size
    Seeded,       \* whether a master seed is configured, hence files are written
    MaxRuns,      \* bound on the ceremonies started
    MaxCrashes    \* bound on the crashes

ASSUME CommitteeAssumption ==
    N \in Nat \ {0} /\ Seeded \in BOOLEAN /\ MaxRuns \in Nat /\ MaxCrashes \in Nat

Kinds == {"dkg", "reshare"}
Runs == 1..MaxRuns

\* keyset_id (named by the DKG run that made it), epoch, and the runs the
\* share is a sum of.  Keyset 0: no record, or none that can be read.
NoRecord == [keyset |-> 0, epoch |-> 0, base |-> 0, deltas |-> {}]

NoSession == [run |-> 0, peers |-> [i \in Indices |-> "none"]]

Idle == [at |-> "idle", run |-> 0, record |-> NoRecord, fd |-> 0]

VARIABLES
    memory,    \* ValidatorState.share
    sessions,  \* the DKG and the reshare ceremonies in flight
    runs,      \* number of ceremonies started so far
    task,      \* what each task is about to do
    content,   \* content[i]: what inode i holds
    file,      \* file[k]: inode of share_k.bin, 0 if there is none
    tmp,       \* tmp[k]: inode of share_k.tmp
    crashes,
    overlapped \* whether two tasks were ever at work together, for the properties

vars == <<memory, sessions, runs, task, content, file, tmp, crashes, overlapped>>
disk == <<content, file, tmp>>

Init ==
    /\ memory = NoRecord
    /\ sessions = [p \in Kinds \X CeremonyIds |-> NoSession]
    /\ runs = 0
    /\ task = [t \in Tasks |-> Idle]
    /\ content = [i \in Runs |-> NoRecord]
    /\ file = [k \in Runs |-> 0]
    /\ tmp = [k \in Runs |-> 0]
    /\ crashes = 0
    /\ overlapped = FALSE

Loaded == memory.keyset # 0

InFlight(p) == sessions[p].run # 0

\* overlapped once task t has begun.
Overlapping(t) == overlapped \/ \E u \in Tasks \ {t} : task[u] # Idle

Received(p) == {i \in Indices : sessions[p].peers[i] # "none"}

-----------------------------------------------------------------------------
(***************************************************************************)
(* Ceremonies                                                              *)
(***************************************************************************)

\* start of the ceremony maps: an id in flight is refused.
Begin(p) ==
    /\ ~InFlight(p)
    /\ runs < MaxRuns
    /\ runs' = runs + 1
    /\ sessions' = [sessions EXCEPT ![p] = [NoSession EXCEPT !.run = runs + 1]]
    /\ UNCHANGED <<memory, task, disk, crashes, overlapped>>

DkgStart(cid) == Begin(<<"dkg", cid>>)

\* Only a reshare needs a share.
ReshareStart(cid) == Loaded /\ Begin(<<"reshare", cid>>)

\* contribute of the ceremony maps: a later contribution under the same index
\* takes the place of an earlier one.  "good": the finalize function will
\* accept it.
Contribute(p, i, quality) ==
    /\ InFlight(p)
    /\ sessions' = [sessions EXCEPT ![p].peers[i] = quality]
    /\ UNCHANGED <<memory, runs, task, disk, crashes, overlapped>>

DkgContribute(cid, i, quality) == Contribute(<<"dkg", cid>>, i, quality)

ReshareContribute(cid, i, quality) == Contribute(<<"reshare", cid>>, i, quality)

\* dkg_finalize and reshare_finalize: n - 1 contributions, all of them good.
Acceptable(p) ==
    /\ Cardinality(Received(p)) = N - 1
    /\ \A i \in Received(p) : sessions[p].peers[i] = "good"

\* Where a new record goes first.
Persist == IF Seeded THEN "open" ELSE "swap"

\* take_finalisable, after which task t goes on with next if the
\* contributions are accepted.  The ceremony is gone in either case.
TakeFinalisable(t, p, next) ==
    /\ task[t] = Idle
    /\ InFlight(p)
    /\ Cardinality(Received(p)) >= N - 1
    /\ sessions' = [sessions EXCEPT ![p] = NoSession]
    /\ task' = [task EXCEPT ![t] = IF Acceptable(p) THEN next ELSE Idle]
    /\ overlapped' = Overlapping(t)
    /\ UNCHANGED <<memory, runs, disk, crashes>>

\* dkg_finalize_handler up to the storing of the record of a new keyset.
DkgFinalize(t, cid) ==
    LET run == sessions[<<"dkg", cid>>].run
    IN  TakeFinalisable(t, <<"dkg", cid>>,
            [at |-> Persist, run |-> run, fd |-> 0,
             record |-> [keyset |-> run, epoch |-> 1, base |-> run, deltas |-> {}]])

\* reshare_finalize_handler up to the reading of the old share.
ReshareFinalize(t, cid) ==
    TakeFinalisable(t, <<"reshare", cid>>,
        [Idle EXCEPT !.at = "old", !.run = sessions[<<"reshare", cid>>].run])

\* reshare_finalize_handler reads the old share and adds the new contributions.
ReadOldShare(t) ==
    /\ task[t].at = "old"
    /\ task' = [task EXCEPT ![t] =
                   IF ~Loaded THEN Idle
                   ELSE [task[t] EXCEPT !.at = "meta",
                                        !.record = [memory EXCEPT !.deltas = @ \cup {task[t].run}]]]
    /\ UNCHANGED <<memory, sessions, runs, disk, crashes, overlapped>>

\* Faulty: the epoch is left as it is.
ReadMetadataSameEpoch(t) ==
    /\ task[t].at = "meta"
    /\ Loaded
    /\ task' = [task EXCEPT ![t] = [task[t] EXCEPT !.at = Persist, !.record.keyset = memory.keyset,
                                                   !.record.epoch = memory.epoch]]
    /\ UNCHANGED <<memory, sessions, runs, disk, crashes, overlapped>>

\* Faulty: the epoch is advanced twice.
ReadMetadataTwice(t) ==
    /\ task[t].at = "meta"
    /\ Loaded
    /\ task' = [task EXCEPT ![t] = [task[t] EXCEPT !.at = Persist, !.record.keyset = memory.keyset,
                                                   !.record.epoch = memory.epoch + 2]]
    /\ UNCHANGED <<memory, sessions, runs, disk, crashes, overlapped>>

\* ... and, under another read lock, the keyset id and the epoch of whatever
\* record is loaded then.
ReadMetadata(t) ==
    /\ task[t].at = "meta"
    /\ Loaded
    /\ task' = [task EXCEPT ![t] = [task[t] EXCEPT !.at = Persist, !.record.keyset = memory.keyset,
                                                   !.record.epoch = memory.epoch + 1]]
    /\ UNCHANGED <<memory, sessions, runs, disk, crashes, overlapped>>

\* The prune loops evict a ceremony that has taken an hour.
Evict(p) ==
    /\ InFlight(p)
    /\ sessions' = [sessions EXCEPT ![p] = NoSession]
    /\ UNCHANGED <<memory, runs, task, disk, crashes, overlapped>>

-----------------------------------------------------------------------------
(***************************************************************************)
(* write_share_record: std::fs::write creates or truncates the temporary   *)
(* file and writes it; rename puts it in place of the old record.          *)
(***************************************************************************)

\* Faulty: all records are written through one temporary file.
TmpPathShared(k) == 1

\* share_k.bin with its extension changed.
TmpPath(k) == k

\* Faulty: an existing record file is written in place.
OpenTmpInPlace(t) ==
    LET k == TmpPath(task[t].record.keyset)
        inode == IF file[k] # 0 THEN file[k] ELSE task[t].run
    IN  /\ task[t].at = "open"
        /\ content' = [content EXCEPT ![inode] = NoRecord]
        /\ tmp' = [tmp EXCEPT ![k] = inode]
        /\ task' = [task EXCEPT ![t].at = "write", ![t].fd = inode]
        /\ UNCHANGED <<memory, sessions, runs, file, crashes, overlapped>>

OpenTmp(t) ==
    LET k == TmpPath(task[t].record.keyset)
        inode == IF tmp[k] # 0 THEN tmp[k] ELSE task[t].run
    IN  /\ task[t].at = "open"
        /\ content' = [content EXCEPT ![inode] = NoRecord]
        /\ tmp' = [tmp EXCEPT ![k] = inode]
        /\ task' = [task EXCEPT ![t].at = "write", ![t].fd = inode]
        /\ UNCHANGED <<memory, sessions, runs, file, crashes, overlapped>>

WriteTmp(t) ==
    /\ task[t].at = "write"
    /\ content' = [content EXCEPT ![task[t].fd] = task[t].record]
    /\ task' = [task EXCEPT ![t].at = "rename"]
    /\ UNCHANGED <<memory, sessions, runs, file, tmp, crashes, overlapped>>

\* Faulty: a record file that exists is not replaced.
RenameOnce(t) ==
    LET k == TmpPath(task[t].record.keyset)
    IN  /\ task[t].at = "rename"
        /\ file' = IF file[k] = 0 THEN [file EXCEPT ![k] = tmp[k]] ELSE file
        /\ tmp' = [tmp EXCEPT ![k] = 0]
        /\ task' = [task EXCEPT ![t].at = "swap"]
        /\ UNCHANGED <<memory, sessions, runs, content, crashes, overlapped>>

\* A temporary file that somebody else has renamed is an error.
Rename(t) ==
    LET k == TmpPath(task[t].record.keyset)
    IN  /\ task[t].at = "rename"
        /\ IF tmp[k] = 0
           THEN task' = [task EXCEPT ![t] = Idle] /\ UNCHANGED <<file, tmp>>
           ELSE /\ file' = [file EXCEPT ![task[t].record.keyset] = tmp[k]]
                /\ tmp' = [tmp EXCEPT ![k] = 0]
                /\ task' = [task EXCEPT ![t].at = "swap"]
        /\ UNCHANGED <<memory, sessions, runs, content, crashes, overlapped>>

\* The record becomes the loaded one.
Swap(t) ==
    /\ task[t].at = "swap"
    /\ memory' = task[t].record
    /\ task' = [task EXCEPT ![t] = Idle]
    /\ UNCHANGED <<sessions, runs, disk, crashes, overlapped>>

-----------------------------------------------------------------------------

\* What the file of keyset k says.
Stored(k) == IF file[k] = 0 THEN NoRecord ELSE content[file[k]]

Readable == {k \in Runs : Stored(k).keyset # 0}

\* Faulty: the loaded record is given up before the file is read.
ReloadShareTaking(t, k) ==
    /\ task[t] = Idle
    /\ Seeded
    /\ k \in Readable
    /\ memory' = NoRecord
    /\ task' = [task EXCEPT ![t] = [Idle EXCEPT !.at = "swap", !.record = Stored(k)]]
    /\ overlapped' = Overlapping(t)
    /\ UNCHANGED <<sessions, runs, disk, crashes>>

\* /admin/reload-share: the first record file of the directory, in no
\* particular order, is read; it is swapped in once the lock is there.
ReloadShare(t, k) ==
    /\ task[t] = Idle
    /\ Seeded
    /\ k \in Readable
    /\ task' = [task EXCEPT ![t] = [Idle EXCEPT !.at = "swap", !.record = Stored(k)]]
    /\ overlapped' = Overlapping(t)
    /\ UNCHANGED <<memory, sessions, runs, disk, crashes>>

\* The process dies and starts again: main reads every record file and keeps
\* the last one it can read.
Crash ==
    /\ crashes < MaxCrashes
    /\ crashes' = crashes + 1
    /\ memory' \in IF Seeded /\ Readable # {} THEN {Stored(k) : k \in Readable} ELSE {NoRecord}
    /\ sessions' = [p \in DOMAIN sessions |-> NoSession]
    /\ task' = [t \in Tasks |-> Idle]
    /\ UNCHANGED <<runs, disk, overlapped>>

Next ==
    \/ \E cid \in CeremonyIds : DkgStart(cid) \/ ReshareStart(cid)
    \/ \E cid \in CeremonyIds, i \in Indices, quality \in {"good", "bad"} :
          DkgContribute(cid, i, quality) \/ ReshareContribute(cid, i, quality)
    \/ \E t \in Tasks, cid \in CeremonyIds : DkgFinalize(t, cid) \/ ReshareFinalize(t, cid)
    \/ \E p \in DOMAIN sessions : Evict(p)
    \/ \E t \in Tasks :
          \/ ReadOldShare(t) \/ ReadMetadata(t)
          \/ OpenTmp(t) \/ WriteTmp(t) \/ Rename(t) \/ Swap(t)
          \/ \E k \in Runs : ReloadShare(t, k)
    \/ Crash

Spec == Init /\ [][Next]_vars

-----------------------------------------------------------------------------
(***************************************************************************)
(* Properties                                                              *)
(***************************************************************************)

Record == [keyset : 0..MaxRuns, epoch : 0..MaxRuns, base : 0..MaxRuns, deltas : SUBSET Runs]

Session == [run : 0..MaxRuns, peers : [Indices -> {"none", "good", "bad"}]]

Task ==
    [at : {"idle", "old", "meta", "open", "write", "rename", "swap"},
     run : 0..MaxRuns, record : Record, fd : 0..MaxRuns]

TypeOK ==
    /\ memory \in Record
    /\ sessions \in [Kinds \X CeremonyIds -> Session]
    /\ runs \in 0..MaxRuns
    /\ task \in [Tasks -> Task]
    /\ content \in [Runs -> Record]
    /\ file \in [Runs -> 0..MaxRuns]
    /\ tmp \in [Runs -> 0..MaxRuns]
    /\ crashes \in Nat
    /\ overlapped \in BOOLEAN

\* A record says of itself what is in it: its keyset is that of the DKG its
\* share comes from, and its epoch counts the reshares that went into it.
Coherent(r) == r.keyset # 0 => r.base = r.keyset /\ Cardinality(r.deltas) = r.epoch - 1

\* api.rs 1088-1090 on /reshare/finalize: "combine old share + n-1 peer
\* contributions into a fresh share with epoch+1.  Joint public key is
\* unchanged by reshare".  Every record, loaded or stored, is coherent.
RecordsCoherent == Coherent(memory) /\ \A k \in Runs : Coherent(Stored(k))

\* As long as finalize and reload requests come one after the other, every
\* record says of itself what is in it, whatever other ceremonies, evictions
\* and crashes come in between (reshare_finalize_handler).
SerialRecordsCoherent == ~overlapped => RecordsCoherent

\* storage.rs 85-86: "Uses a temp file + rename to avoid corrupting an
\* existing record on crash mid-write."  With one writer at a time a record
\* file, once there, can be read at any moment, hence after any crash.
StoredShareReadable == ~overlapped => \A k \in Runs : file[k] # 0 => Stored(k).keyset # 0

\* With one request at a time, and while none is being served, the loaded
\* record is the stored one: a crash loses no reshare that was reported as
\* finished (dkg_finalize_handler, reshare_finalize_handler, admin_reload_share).
MemoryIsStored ==
    Seeded /\ Loaded /\ ~overlapped /\ (\A t \in Tasks : task[t] = Idle) =>
        memory = Stored(memory.keyset)

\* With one request at a time the loaded share never goes back to an earlier
\* epoch of its keyset, not even across a crash or a reload.
NoRollback ==
    [][Loaded /\ Seeded /\ ~overlapped' /\ memory'.keyset = memory.keyset =>
          memory'.epoch >= memory.epoch]_vars

\* "Cannot panic" of reshare_finalize_handler: the share it verified to be
\* loaded is still loaded when it reads the metadata.
ShareStillLoaded == \A t \in Tasks : task[t].at = "meta" => Loaded

\* A record file holds a record of the keyset it is named after, whatever
\* writers are at work (share_path, write_share_record).
FilesNamedRight == \A k \in Runs : Stored(k).keyset \in {0, k}
=============================================================================
