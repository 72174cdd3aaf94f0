------------------------ MODULE ShareLifecycleProofs ------------------------
(***************************************************************************)
(* Proofs about ShareLifecycle, for every number of tasks, ceremonies,     *)
(* validators and crashes.  The invariant has four layers, each proved     *)
(* with the help of the ones before it:                                    *)
(*   Shape     - types, without the bound on epochs, what a task carries   *)
(*               at each step, and that no run is in two places;           *)
(*   Entered   - a run gets into records when a task leaves "meta" and     *)
(*               not before, so that epochs count such runs at most;       *)
(*   Inodes    - an inode belongs to one keyset for ever;                  *)
(*   Serial    - what holds as long as no two tasks overlap.               *)
(***************************************************************************)
EXTENDS ShareLifecycle, FiniteSetTheorems, TLAPS

Pairs == Kinds \X CeremonyIds

-----------------------------------------------------------------------------
(***************************************************************************)
(* The invariant                                                           *)
(***************************************************************************)

AnyRecord == [keyset : 0..MaxRuns, epoch : Nat, base : 0..MaxRuns, deltas : SUBSET Runs]

AnyTask ==
    [at : {"idle", "old", "meta", "open", "write", "rename", "swap"},
     run : 0..MaxRuns, record : AnyRecord, fd : 0..MaxRuns]

Types ==
    /\ memory \in AnyRecord
    /\ sessions \in [Pairs -> Session]
    /\ runs \in 0..MaxRuns
    /\ task \in [Tasks -> AnyTask]
    /\ content \in [Runs -> AnyRecord]
    /\ file \in [Runs -> 0..MaxRuns]
    /\ tmp \in [Runs -> 0..MaxRuns]
    /\ crashes \in Nat
    /\ overlapped \in BOOLEAN

\* Steps at which a task still has its run to itself: no record, and then no
\* file, has been made with it.
HasRun(t) == task[t].at \in {"old", "meta", "open"}

TaskSound ==
    \A t \in Tasks :
        /\ task[t].at = "idle" => task[t] = Idle
        /\ HasRun(t) => task[t].run # 0
        /\ task[t].at \in {"open", "write", "rename", "swap"} => task[t].record.keyset # 0
        /\ task[t].at \in {"write", "rename"} => task[t].fd # 0
        /\ task[t].at \in {"open", "write", "rename"} => Seeded

\* A run is in one session or with one task.
RunsApart ==
    /\ \A p \in Pairs : sessions[p].run <= runs
    /\ \A t \in Tasks : HasRun(t) => task[t].run <= runs
    /\ \A p, q \in Pairs : InFlight(p) /\ sessions[p].run = sessions[q].run => p = q
    /\ \A p \in Pairs, t \in Tasks : InFlight(p) /\ HasRun(t) => sessions[p].run # task[t].run
    /\ \A t, u \in Tasks : HasRun(t) /\ HasRun(u) /\ task[t].run = task[u].run => t = u

Shape == Types /\ TaskSound /\ RunsApart /\ ShareStillLoaded

\* The runs no record has been made with.
Pending ==
    {r \in 1..runs : \/ \E p \in Pairs : sessions[p].run = r
                     \/ \E t \in Tasks : task[t].at \in {"old", "meta"} /\ task[t].run = r}

Used == (1..runs) \ Pending

\* Nothing but runs of U is in record r, and it counts no more of them.
MadeOf(r, U) ==
    /\ r.keyset \in U \cup {0}
    /\ r.deltas \subseteq U
    /\ r.epoch <= Cardinality(U)

\* The record of a task at "meta" has its own run in it already.
TaskMadeOf(x, U) ==
    IF x.at # "meta"
    THEN MadeOf(x.record, U)
    ELSE /\ x.record.deltas \subseteq U \cup {x.run}
         /\ x.record.epoch <= Cardinality(U)

Entered ==
    /\ MadeOf(memory, Used)
    /\ \A i \in Runs : MadeOf(content[i], Used)
    /\ \A t \in Tasks : TaskMadeOf(task[t], Used)

Writes(t) == task[t].at \in {"write", "rename"}

\* Inode i is, was or will be share_k.bin.
Refers(k, i) ==
    \/ file[k] = i
    \/ tmp[k] = i
    \/ \E t \in Tasks : Writes(t) /\ task[t].fd = i /\ task[t].record.keyset = k

\* An inode is named after the run of the task that created it, once it did.
Created(i) == i \in Used /\ \A t \in Tasks : task[t].at = "open" => task[t].run # i

Inodes ==
    \A i \in Runs :
        /\ \A k \in Runs : Refers(k, i) => Created(i) /\ content[i].keyset \in {0, k}
        /\ \A k, l \in Runs : Refers(k, i) /\ Refers(l, i) => k = l
        /\ \A k, l \in Runs : tmp[k] = i => file[l] # i

Alone == \A t, u \in Tasks : task[t] # Idle /\ task[u] # Idle => t = u

\* What task t, the only one at work, has in hand.
InHand(t) ==
    /\ task[t].at = "meta" => task[t].record = [memory EXCEPT !.deltas = @ \cup {task[t].run}]
    /\ task[t].at \in {"open", "write", "rename", "swap"} => Coherent(task[t].record)
    /\ Writes(t) => tmp[task[t].record.keyset] = task[t].fd
    /\ task[t].at = "rename" => content[task[t].fd] = task[t].record
    /\ task[t].at = "swap" /\ Seeded => task[t].record = Stored(task[t].record.keyset)
    /\ /\ task[t].at \in {"open", "write", "rename", "swap"}
       /\ task[t].record.keyset = memory.keyset
       => task[t].record.epoch >= memory.epoch

\* What memory and the files hold.
FilesSerial ==
    /\ Coherent(memory)
    /\ \A i \in Runs : Coherent(content[i])
    /\ \A k \in Runs : file[k] # 0 => content[file[k]].keyset # 0
    /\ Seeded /\ Loaded =>
          /\ file[memory.keyset] # 0
          /\ Stored(memory.keyset).epoch >= memory.epoch
          /\ (\A t \in Tasks : task[t].at # "swap") => memory = Stored(memory.keyset)

Serial == ~overlapped => Alone /\ (\A t \in Tasks : InHand(t)) /\ FilesSerial

\* The first three layers hold whatever overlaps.
Base == Shape /\ Entered /\ Inodes

IInv == Base /\ Serial

-----------------------------------------------------------------------------
(***************************************************************************)
(* Layer 1: Shape                                                          *)
(***************************************************************************)

LEMMA PairsIn == \A cid \in CeremonyIds : <<"dkg", cid>> \in Pairs /\ <<"reshare", cid>> \in Pairs
BY DEF Pairs, Kinds

LEMMA IdleType == Idle \in AnyTask /\ Idle.at = "idle" /\ Idle.record = NoRecord
BY CommitteeAssumption DEF Idle, AnyTask, AnyRecord, NoRecord

LEMMA NoRecordType == NoRecord \in AnyRecord /\ NoRecord.keyset = 0
BY CommitteeAssumption DEF AnyRecord, NoRecord

LEMMA NoSessionType == NoSession \in Session /\ NoSession.run = 0
BY CommitteeAssumption DEF Session, NoSession

\* The steps, with the pair of a ceremony as their parameter.
LEMMA NextSplit ==
    ASSUME Types, Next
    PROVE  \/ \E p \in Pairs : Begin(p)
           \/ \E p \in Pairs, i \in Indices, q \in {"good", "bad"} : Contribute(p, i, q)
           \/ \E t \in Tasks, cid \in CeremonyIds : DkgFinalize(t, cid) \/ ReshareFinalize(t, cid)
           \/ \E p \in Pairs : Evict(p)
           \/ \E t \in Tasks : ReadOldShare(t) \/ ReadMetadata(t) \/ OpenTmp(t) \/ WriteTmp(t)
                              \/ Rename(t) \/ Swap(t)
           \/ \E t \in Tasks, k \in Runs : ReloadShare(t, k)
           \/ Crash
<1>1. DOMAIN sessions = Pairs
  BY DEF Types
<1>2. QED
  BY <1>1, PairsIn DEF Next, DkgStart, ReshareStart, DkgContribute, ReshareContribute

LEMMA InitShape == Init => Shape
<1> SUFFICES ASSUME Init PROVE Shape
  OBVIOUS
<1>1. /\ \A t \in Tasks : task[t] = Idle
      /\ \A p \in Pairs : sessions[p] = NoSession
  BY DEF Init, Pairs
<1>2. Types
  <2>1. sessions \in [Pairs -> Session]
    BY NoSessionType DEF Init, Pairs
  <2>2. task \in [Tasks -> AnyTask]
    BY IdleType DEF Init
  <2>3. memory \in AnyRecord /\ content \in [Runs -> AnyRecord]
    BY NoRecordType DEF Init
  <2>4. /\ runs \in 0..MaxRuns /\ file \in [Runs -> 0..MaxRuns] /\ tmp \in [Runs -> 0..MaxRuns]
        /\ crashes \in Nat
    BY CommitteeAssumption DEF Init
  <2>5. overlapped \in BOOLEAN
    BY DEF Init
  <2>6. QED BY <2>1, <2>2, <2>3, <2>4, <2>5 DEF Types
<1>3. TaskSound /\ ShareStillLoaded
  BY <1>1, IdleType DEF TaskSound, ShareStillLoaded, HasRun
<1>4. RunsApart
  BY <1>1, IdleType, NoSessionType DEF RunsApart, HasRun, InFlight, Init
<1>5. QED BY <1>2, <1>3, <1>4 DEF Shape

LEMMA StoredType == Types => \A k \in Runs : Stored(k) \in AnyRecord
BY NoRecordType DEF Types, Stored, Runs

LEMMA ShapeBegin ==
    ASSUME Shape, NEW p \in Pairs, Begin(p)
    PROVE  Shape'
<1>1. runs \in Nat /\ runs + 1 \in 0..MaxRuns /\ runs' = runs + 1
  BY CommitteeAssumption DEF Begin, Shape, Types
<1>2. /\ [NoSession EXCEPT !.run = runs + 1] \in Session
      /\ [NoSession EXCEPT !.run = runs + 1].run = runs + 1
  BY <1>1, NoSessionType DEF Session
<1>3. \A q \in Pairs : sessions[q].run \in Nat /\ sessions'[q].run = IF q = p THEN runs + 1 ELSE sessions[q].run
  BY <1>2 DEF Begin, Shape, Types, Session
<1>4. Types'
  BY <1>1, <1>2 DEF Begin, Shape, Types, disk
<1>5. TaskSound' /\ ShareStillLoaded'
  BY DEF Begin, Shape, TaskSound, ShareStillLoaded, HasRun, Loaded
<1>6. \A t \in Tasks : task[t].run \in Nat
  BY DEF Shape, Types, AnyTask
<1>7. RunsApart'
  BY <1>1, <1>3, <1>6 DEF Begin, Shape, RunsApart, HasRun, InFlight
<1>8. QED BY <1>4, <1>5, <1>7 DEF Shape

LEMMA ShapeContribute ==
    ASSUME Shape, NEW p \in Pairs, NEW i \in Indices, NEW q \in {"good", "bad"}, Contribute(p, i, q)
    PROVE  Shape'
<1>1. /\ [sessions[p] EXCEPT !.peers[i] = q] \in Session
      /\ [sessions[p] EXCEPT !.peers[i] = q].run = sessions[p].run
  BY DEF Shape, Types, Session
<1>2. sessions' = [sessions EXCEPT ![p] = [sessions[p] EXCEPT !.peers[i] = q]]
  BY DEF Contribute
<1>3. \A r \in Pairs : sessions'[r].run = sessions[r].run
  BY <1>1, <1>2 DEF Shape, Types
<1>4. Types'
  BY <1>1, <1>2 DEF Contribute, Shape, Types, disk
<1>5. TaskSound' /\ ShareStillLoaded'
  BY DEF Contribute, Shape, TaskSound, ShareStillLoaded, HasRun, Loaded
<1>6. RunsApart'
  BY <1>3 DEF Contribute, Shape, RunsApart, HasRun, InFlight
<1>7. QED BY <1>4, <1>5, <1>6 DEF Shape

LEMMA ShapeEvict ==
    ASSUME Shape, NEW p \in Pairs, Evict(p)
    PROVE  Shape'
<1>1. \A r \in Pairs : sessions'[r].run = IF r = p THEN 0 ELSE sessions[r].run
  BY NoSessionType DEF Evict, Shape, Types
<1>2. Types'
  BY NoSessionType DEF Evict, Shape, Types, disk
<1>3. TaskSound' /\ ShareStillLoaded'
  BY DEF Evict, Shape, TaskSound, ShareStillLoaded, HasRun, Loaded
<1>4. runs \in Nat
  BY DEF Shape, Types
<1>5. RunsApart'
  BY <1>1, <1>4 DEF Evict, Shape, RunsApart, HasRun, InFlight
<1>6. QED BY <1>2, <1>3, <1>5 DEF Shape

\* A step of one task that does not take over a run.
LEMMA ShapeTask ==
    ASSUME Shape, NEW t \in Tasks, NEW r \in AnyTask,
           task' = [task EXCEPT ![t] = r],
           UNCHANGED <<sessions, runs, crashes>>,
           memory' \in AnyRecord, Loaded => memory'.keyset # 0,
           content' \in [Runs -> AnyRecord],
           file' \in [Runs -> 0..MaxRuns], tmp' \in [Runs -> 0..MaxRuns],
           overlapped' \in BOOLEAN,
           r.at = "idle" => r = Idle,
           r.at \in {"old", "meta", "open"} => r.run = task[t].run /\ HasRun(t),
           r.at \in {"open", "write", "rename", "swap"} => r.record.keyset # 0,
           r.at \in {"write", "rename"} => r.fd # 0,
           r.at \in {"open", "write", "rename"} => Seeded,
           r.at = "meta" => memory'.keyset # 0
    PROVE  Shape'
<1>1. \A u \in Tasks : task'[u] = IF u = t THEN r ELSE task[u]
  BY DEF Shape, Types
<1>2. Types'
  BY DEF Shape, Types
<1>3. TaskSound'
  BY <1>1 DEF Shape, TaskSound, HasRun
<1>4. RunsApart'
  BY <1>1 DEF Shape, RunsApart, HasRun, InFlight
<1>5. ShareStillLoaded'
  BY <1>1 DEF Shape, ShareStillLoaded, Loaded
<1>6. QED BY <1>2, <1>3, <1>4, <1>5 DEF Shape

\* The run of a ceremony passes from its session to a task.
LEMMA ShapeTake ==
    ASSUME Shape, NEW t \in Tasks, NEW p \in Pairs, NEW r \in AnyTask,
           TakeFinalisable(t, p, r),
           r.run = sessions[p].run,
           r.at \in {"old", "open", "swap"},
           r.at \in {"open", "swap"} => r.record.keyset # 0,
           r.at = "open" => Seeded
    PROVE  Shape'
<1> DEFINE s == IF Acceptable(p) THEN r ELSE Idle
<1>1. \A u \in Tasks : task'[u] = IF u = t THEN s ELSE task[u]
  BY DEF Shape, Types, TakeFinalisable
<1>2. \A q \in Pairs : sessions'[q].run = IF q = p THEN 0 ELSE sessions[q].run
  BY NoSessionType DEF TakeFinalisable, Shape, Types
<1>3. s \in AnyTask /\ (s.at = "idle" => s = Idle) /\ s.at \in {"idle", "old", "open", "swap"}
  BY IdleType
<1>4. /\ s.at # "idle" => s.run = sessions[p].run
      /\ s.at \in {"open", "swap"} => s.record.keyset # 0
      /\ s.at = "open" => Seeded
  BY IdleType
<1>5. task' = [task EXCEPT ![t] = s]
  BY DEF TakeFinalisable
<1> HIDE DEF s
<1>6. Overlapping(t) \in BOOLEAN
  BY DEF Overlapping, Shape, Types
<1>7. Types'
  BY <1>3, <1>5, <1>6, NoSessionType DEF Shape, Types, TakeFinalisable, disk
<1>8. sessions[p].run # 0 /\ runs \in Nat /\ runs' = runs /\ memory' = memory
  BY DEF TakeFinalisable, InFlight, Shape, Types
<1>9. TaskSound' /\ ShareStillLoaded'
  BY <1>1, <1>3, <1>4, <1>8 DEF Shape, TaskSound, HasRun, ShareStillLoaded, Loaded
<1>10. RunsApart'
  BY <1>1, <1>2, <1>3, <1>4, <1>8 DEF Shape, RunsApart, HasRun, InFlight
<1>11. QED BY <1>7, <1>9, <1>10 DEF Shape

LEMMA ShapeCrash == ASSUME Shape, Crash PROVE Shape'
<1>1. memory' \in AnyRecord
  <2>1. CASE Seeded /\ Readable # {}
    BY <2>1, StoredType DEF Crash, Readable, Shape
  <2>2. CASE ~(Seeded /\ Readable # {})
    BY <2>2, NoRecordType DEF Crash
  <2>3. QED BY <2>1, <2>2
<1>2. DOMAIN sessions = Pairs
  BY DEF Shape, Types
<1>3. /\ \A t \in Tasks : task'[t] = Idle
      /\ \A p \in Pairs : sessions'[p] = NoSession
  BY <1>2 DEF Crash
<1>4. Types'
  <2>1. sessions' \in [Pairs -> Session] /\ task' \in [Tasks -> AnyTask]
    BY <1>2, NoSessionType, IdleType DEF Crash
  <2>2. crashes' \in Nat
    BY DEF Crash, Shape, Types
  <2>3. QED BY <1>1, <2>1, <2>2 DEF Crash, Shape, Types, disk
<1>5. TaskSound' /\ ShareStillLoaded'
  BY <1>3, IdleType DEF TaskSound, ShareStillLoaded, HasRun
<1>6. runs' \in Nat
  BY <1>4 DEF Types
<1>7. RunsApart'
  BY <1>3, <1>6, IdleType, NoSessionType DEF RunsApart, HasRun, InFlight
<1>8. QED BY <1>4, <1>5, <1>7 DEF Shape

\* What DkgFinalize and ReshareFinalize hand to the task.
DkgTask(run) ==
    [at |-> Persist, run |-> run, fd |-> 0,
     record |-> [keyset |-> run, epoch |-> 1, base |-> run, deltas |-> {}]]

OldTask(run) == [Idle EXCEPT !.at = "old", !.run = run]

\* Their fields.
LEMMA TakenTasks ==
    ASSUME NEW run \in 0..MaxRuns, run # 0
    PROVE  /\ DkgTask(run) \in AnyTask
           /\ DkgTask(run).run = run
           /\ DkgTask(run).at = Persist /\ Persist \in {"open", "swap"}
           /\ DkgTask(run).record = [keyset |-> run, epoch |-> 1, base |-> run, deltas |-> {}]
           /\ DkgTask(run).at = "open" => Seeded
           /\ OldTask(run) \in AnyTask
           /\ OldTask(run).at = "old" /\ OldTask(run).run = run
           /\ OldTask(run).record = NoRecord
<1>1. Persist \in {"open", "swap"} /\ (Persist = "open" => Seeded)
  BY DEF Persist
<1>2. DkgTask(run) \in AnyTask
  BY <1>1, CommitteeAssumption DEF DkgTask, AnyTask, AnyRecord
<1>3. OldTask(run) \in AnyTask /\ OldTask(run).at = "old" /\ OldTask(run).run = run /\ OldTask(run).record = NoRecord
  BY IdleType DEF OldTask, AnyTask
<1>4. QED BY <1>1, <1>2, <1>3 DEF DkgTask

LEMMA TakeSteps ==
    ASSUME Shape, NEW t \in Tasks, NEW cid \in CeremonyIds
    PROVE  /\ DkgFinalize(t, cid) <=>
                 TakeFinalisable(t, <<"dkg", cid>>, DkgTask(sessions[<<"dkg", cid>>].run))
           /\ ReshareFinalize(t, cid) <=>
                 TakeFinalisable(t, <<"reshare", cid>>, OldTask(sessions[<<"reshare", cid>>].run))
BY DEF DkgFinalize, ReshareFinalize, DkgTask, OldTask

LEMMA SessionRuns ==
    ASSUME Shape, NEW p \in Pairs
    PROVE  sessions[p].run \in 0..MaxRuns /\ sessions[p].run <= runs
BY DEF Shape, Types, Session, RunsApart

\* A finalize request that takes a ceremony.
LEMMA Taken ==
    ASSUME Shape, NEW t \in Tasks, NEW cid \in CeremonyIds,
           DkgFinalize(t, cid) \/ ReshareFinalize(t, cid)
    PROVE  \E p \in Pairs, r \in AnyTask :
              /\ TakeFinalisable(t, p, r)
              /\ sessions[p].run \in Runs /\ r.run = sessions[p].run
              /\ r = DkgTask(sessions[p].run) \/ r = OldTask(sessions[p].run)
<1>1. PICK p \in Pairs : \/ TakeFinalisable(t, p, DkgTask(sessions[p].run))
                        \/ TakeFinalisable(t, p, OldTask(sessions[p].run))
  BY TakeSteps, PairsIn
<1>2. sessions[p].run \in 0..MaxRuns /\ sessions[p].run # 0
  BY <1>1, SessionRuns DEF TakeFinalisable, InFlight
<1>3. sessions[p].run \in Runs
  BY <1>2 DEF Runs
<1>4. /\ DkgTask(sessions[p].run) \in AnyTask /\ DkgTask(sessions[p].run).run = sessions[p].run
      /\ OldTask(sessions[p].run) \in AnyTask /\ OldTask(sessions[p].run).run = sessions[p].run
  BY <1>2, TakenTasks
<1>5. QED BY <1>1, <1>3, <1>4

LEMMA ShapeFinalize ==
    ASSUME Shape, NEW t \in Tasks, NEW cid \in CeremonyIds,
           DkgFinalize(t, cid) \/ ReshareFinalize(t, cid)
    PROVE  Shape'
<1>1. PICK p \in Pairs, r \in AnyTask :
          /\ TakeFinalisable(t, p, r)
          /\ sessions[p].run \in Runs /\ r.run = sessions[p].run
          /\ r = DkgTask(sessions[p].run) \/ r = OldTask(sessions[p].run)
  BY Taken
<1>2. sessions[p].run \in 0..MaxRuns /\ sessions[p].run # 0
  BY <1>1 DEF Runs
<1>3. \A run \in 0..MaxRuns : [keyset |-> run, epoch |-> 1, base |-> run, deltas |-> {}].keyset = run
  OBVIOUS
<1>4. /\ r.at \in {"old", "open", "swap"}
      /\ r.at \in {"open", "swap"} => r.record.keyset # 0
      /\ r.at = "open" => Seeded
  <2>1. CASE r = DkgTask(sessions[p].run)
    BY <2>1, <1>2, <1>3, TakenTasks
  <2>2. CASE r = OldTask(sessions[p].run)
    BY <2>2, <1>2, TakenTasks
  <2>3. QED BY <1>1, <2>1, <2>2
<1>5. QED BY <1>1, <1>4, ShapeTake

\* The task after each of the other steps.
OldRead(t) ==
    IF ~Loaded THEN Idle
    ELSE [task[t] EXCEPT !.at = "meta",
                         !.record = [memory EXCEPT !.deltas = @ \cup {task[t].run}]]

MetaRead(t) ==
    [task[t] EXCEPT !.at = Persist, !.record.keyset = memory.keyset, !.record.epoch = memory.epoch + 1]

TmpInode(t) ==
    IF tmp[task[t].record.keyset] # 0 THEN tmp[task[t].record.keyset] ELSE task[t].run

Opened(t) == [task[t] EXCEPT !.at = "write", !.fd = TmpInode(t)]

\* The fields of the task after reading the old share, ...
LEMMA OldReadIs ==
    ASSUME Shape, NEW t \in Tasks, task[t].at = "old", Loaded
    PROVE  /\ OldRead(t) \in AnyTask
           /\ OldRead(t).at = "meta" /\ OldRead(t).run = task[t].run
           /\ OldRead(t).record = [memory EXCEPT !.deltas = @ \cup {task[t].run}]
           /\ OldRead(t).record.deltas = memory.deltas \cup {task[t].run}
<1>1. task[t] \in AnyTask /\ memory \in AnyRecord /\ task[t].run \in Runs
  BY DEF Shape, Types, TaskSound, HasRun, AnyTask, Runs
<1>2. /\ [memory EXCEPT !.deltas = @ \cup {task[t].run}] \in AnyRecord
      /\ [memory EXCEPT !.deltas = @ \cup {task[t].run}].deltas = memory.deltas \cup {task[t].run}
  BY <1>1 DEF AnyRecord
<1>3. QED BY <1>1, <1>2 DEF OldRead, AnyTask

\* ... after reading the metadata ...
LEMMA MetaReadIs ==
    ASSUME Shape, NEW t \in Tasks, task[t].at = "meta"
    PROVE  /\ MetaRead(t) \in AnyTask
           /\ MetaRead(t).at = Persist /\ MetaRead(t).run = task[t].run
           /\ MetaRead(t).record \in AnyRecord
           /\ MetaRead(t).record.keyset = memory.keyset
           /\ MetaRead(t).record.epoch = memory.epoch + 1
           /\ MetaRead(t).record.base = task[t].record.base
           /\ MetaRead(t).record.deltas = task[t].record.deltas
<1>1. task[t] \in AnyTask /\ memory \in AnyRecord /\ memory.epoch + 1 \in Nat
  BY DEF Shape, Types, AnyRecord
<1>2. Persist \in {"open", "swap"}
  BY DEF Persist
<1>3. QED BY <1>1, <1>2 DEF MetaRead, AnyTask, AnyRecord

\* ... and after opening the temporary file.
LEMMA OpenedIs ==
    ASSUME Shape, NEW t \in Tasks, task[t].at = "open"
    PROVE  /\ TmpInode(t) \in Runs
           /\ task[t].record.keyset \in Runs
           /\ Opened(t) \in AnyTask
           /\ Opened(t).at = "write" /\ Opened(t).fd = TmpInode(t)
           /\ Opened(t).record = task[t].record
<1>1. task[t] \in AnyTask /\ task[t].record \in AnyRecord /\ task[t].run # 0 /\ task[t].record.keyset # 0
  BY DEF Shape, Types, TaskSound, HasRun, AnyTask
<1>2. task[t].run \in Runs /\ task[t].record.keyset \in Runs
  BY <1>1 DEF AnyTask, AnyRecord, Runs
<1>3. TmpInode(t) \in Runs
  BY <1>2 DEF TmpInode, Shape, Types, Runs
<1>4. TmpInode(t) \in 0..MaxRuns
  BY <1>3 DEF Runs
<1>5. QED BY <1>1, <1>2, <1>3, <1>4 DEF Opened, AnyTask

\* The steps of a task, each with the task it leaves.
LEMMA TaskSteps ==
    ASSUME Shape, NEW t \in Tasks
    PROVE  /\ ReadOldShare(t) => task' = [task EXCEPT ![t] = OldRead(t)]
           /\ ReadMetadata(t) => task' = [task EXCEPT ![t] = MetaRead(t)]
           /\ OpenTmp(t) => /\ task' = [task EXCEPT ![t] = Opened(t)]
                            /\ content' = [content EXCEPT ![TmpInode(t)] = NoRecord]
                            /\ tmp' = [tmp EXCEPT ![task[t].record.keyset] = TmpInode(t)]
           /\ WriteTmp(t) => task' = [task EXCEPT ![t] = [task[t] EXCEPT !.at = "rename"]]
           /\ Rename(t) /\ tmp[task[t].record.keyset] # 0 =>
                 task' = [task EXCEPT ![t] = [task[t] EXCEPT !.at = "swap"]]
BY DEF ReadOldShare, OldRead, ReadMetadata, MetaRead, OpenTmp, Opened, TmpInode, TmpPath, WriteTmp, Rename

LEMMA AtChanged ==
    ASSUME Shape, NEW t \in Tasks, NEW a \in {"rename", "swap"}
    PROVE  /\ [task[t] EXCEPT !.at = a] \in AnyTask
           /\ [task[t] EXCEPT !.at = a].at = a
           /\ [task[t] EXCEPT !.at = a].run = task[t].run
           /\ [task[t] EXCEPT !.at = a].record = task[t].record
           /\ [task[t] EXCEPT !.at = a].fd = task[t].fd
<1>1. task[t] \in AnyTask
  BY DEF Shape, Types
<1>2. QED BY <1>1 DEF AnyTask

LEMMA ShapeStep == ASSUME Shape, Next PROVE Shape'
<1>1. ASSUME NEW t \in Tasks, ReadOldShare(t) PROVE Shape'
  <2>1. OldRead(t) \in AnyTask /\ (Loaded => OldRead(t).at = "meta" /\ OldRead(t).run = task[t].run)
                            /\ (~Loaded => OldRead(t) = Idle)
    BY <1>1, OldReadIs, IdleType DEF ReadOldShare, OldRead
  <2>2. /\ task' = [task EXCEPT ![t] = OldRead(t)] /\ HasRun(t)
        /\ UNCHANGED <<memory, sessions, runs, content, file, tmp, crashes, overlapped>>
    BY <1>1, TaskSteps DEF ReadOldShare, HasRun, disk
  <2>3. CASE Loaded
    BY <2>1, <2>2, <2>3, ShapeTask DEF Shape, Types, Loaded
  <2>4. CASE ~Loaded
    BY <2>1, <2>2, <2>4, ShapeTask, IdleType DEF Shape, Types, Loaded
  <2>5. QED BY <2>3, <2>4
<1>2. ASSUME NEW t \in Tasks, ReadMetadata(t) PROVE Shape'
  <2> DEFINE r == MetaRead(t)
  <2>1. /\ r \in AnyTask /\ r.at \in {"open", "swap"} /\ r.run = task[t].run
        /\ r.record.keyset # 0 /\ (r.at = "open" => Seeded)
    BY <1>2, MetaReadIs DEF ReadMetadata, Persist, Loaded
  <2>2. /\ task' = [task EXCEPT ![t] = r] /\ HasRun(t)
        /\ UNCHANGED <<memory, sessions, runs, content, file, tmp, crashes, overlapped>>
    BY <1>2, TaskSteps DEF ReadMetadata, HasRun, disk
  <2> HIDE DEF r
  <2>3. QED BY <2>1, <2>2, ShapeTask DEF Shape, Types, Loaded
<1>3. ASSUME NEW t \in Tasks, OpenTmp(t) PROVE Shape'
  <2>1. /\ task[t].at = "open" /\ Seeded /\ task[t].record.keyset # 0
        /\ UNCHANGED <<memory, sessions, runs, file, crashes, overlapped>>
    BY <1>3 DEF OpenTmp, Shape, TaskSound
  <2> DEFINE r == Opened(t)
  <2>2. /\ r \in AnyTask /\ r.at = "write" /\ r.record.keyset # 0 /\ r.fd # 0
        /\ TmpInode(t) \in Runs /\ TmpInode(t) \in 0..MaxRuns
    BY <2>1, OpenedIs DEF Runs
  <2>3. /\ task' = [task EXCEPT ![t] = r]
        /\ content' = [content EXCEPT ![TmpInode(t)] = NoRecord]
        /\ tmp' = [tmp EXCEPT ![task[t].record.keyset] = TmpInode(t)]
    BY <1>3, TaskSteps
  <2>4. content' \in [Runs -> AnyRecord] /\ tmp' \in [Runs -> 0..MaxRuns]
    BY <2>2, <2>3, NoRecordType DEF Shape, Types
  <2> HIDE DEF r
  <2>5. QED BY <2>1, <2>2, <2>3, <2>4, ShapeTask DEF Shape, Types, Loaded
<1>4. ASSUME NEW t \in Tasks, WriteTmp(t) PROVE Shape'
  <2>1. /\ task[t].at = "write" /\ Seeded /\ task[t].record.keyset # 0 /\ task[t].fd # 0
        /\ UNCHANGED <<memory, sessions, runs, file, tmp, crashes, overlapped>>
    BY <1>4 DEF WriteTmp, Shape, TaskSound
  <2> DEFINE r == [task[t] EXCEPT !.at = "rename"]
  <2>2. r \in AnyTask /\ r.at = "rename" /\ r.record.keyset # 0 /\ r.fd # 0
    BY <2>1, AtChanged
  <2>3. task' = [task EXCEPT ![t] = r]
    BY <1>4 DEF WriteTmp
  <2>4. task[t].record \in AnyRecord
    BY DEF Shape, Types, AnyTask
  <2>5. content' \in [Runs -> AnyRecord]
    BY <1>4, <2>4 DEF WriteTmp, Shape, Types
  <2> HIDE DEF r
  <2>6. QED BY <2>1, <2>2, <2>3, <2>5, ShapeTask DEF Shape, Types, Loaded
<1>5. ASSUME NEW t \in Tasks, Rename(t) PROVE Shape'
  <2> DEFINE k == task[t].record.keyset
  <2>1. /\ task[t].at = "rename" /\ Seeded /\ k # 0
        /\ UNCHANGED <<memory, sessions, runs, content, crashes, overlapped>>
    BY <1>5 DEF Rename, Shape, TaskSound
  <2>2. k \in Runs
    BY <2>1 DEF Shape, Types, AnyTask, AnyRecord, Runs
  <2>3. CASE tmp[k] = 0
    <3>1. task' = [task EXCEPT ![t] = Idle] /\ UNCHANGED <<file, tmp>>
      BY <1>5, <2>3 DEF Rename, TmpPath
    <3>2. QED BY <2>1, <3>1, IdleType, ShapeTask DEF Shape, Types, Loaded
  <2>4. CASE tmp[k] # 0
    <3> DEFINE r == [task[t] EXCEPT !.at = "swap"]
    <3>1. r \in AnyTask /\ r.at = "swap" /\ r.record.keyset # 0
      BY <2>1, AtChanged
    <3>2. task' = [task EXCEPT ![t] = r]
      BY <1>5, <2>4, TaskSteps
    <3>3. file' = [file EXCEPT ![k] = tmp[k]] /\ tmp' = [tmp EXCEPT ![k] = 0]
      BY <1>5, <2>4 DEF Rename, TmpPath
    <3>4. file' \in [Runs -> 0..MaxRuns] /\ tmp' \in [Runs -> 0..MaxRuns]
      BY <2>2, <3>3, CommitteeAssumption DEF Shape, Types
    <3> HIDE DEF r, k
    <3>5. QED BY <2>1, <3>1, <3>2, <3>4, ShapeTask DEF Shape, Types, Loaded
  <2>5. QED BY <2>3, <2>4
<1>6. ASSUME NEW t \in Tasks, Swap(t) PROVE Shape'
  <2>1. task[t].record \in AnyRecord /\ task[t].record.keyset # 0
    BY <1>6 DEF Swap, Shape, Types, TaskSound, AnyTask
  <2>2. QED BY <1>6, <2>1, IdleType, ShapeTask DEF Swap, Shape, Types, disk
<1>7. ASSUME NEW t \in Tasks, NEW k \in Runs, ReloadShare(t, k) PROVE Shape'
  <2> DEFINE r == [Idle EXCEPT !.at = "swap", !.record = Stored(k)]
  <2>1. r \in AnyTask /\ r.at = "swap" /\ r.record.keyset # 0
    BY <1>7, StoredType, IdleType DEF ReloadShare, Readable, AnyTask, Shape
  <2>2. Overlapping(t) \in BOOLEAN
    BY DEF Overlapping, Shape, Types
  <2>3. task' = [task EXCEPT ![t] = r]
    BY <1>7 DEF ReloadShare
  <2> HIDE DEF r
  <2>4. QED BY <1>7, <2>1, <2>2, <2>3, ShapeTask DEF ReloadShare, Shape, Types, disk, Loaded
<1>8. QED
  BY <1>1, <1>2, <1>3, <1>4, <1>5, <1>6, <1>7, NextSplit, ShapeBegin, ShapeContribute, ShapeEvict,
     ShapeFinalize, ShapeCrash DEF Shape

LEMMA ShapeStutter == Shape /\ UNCHANGED vars => Shape'
BY DEF Shape, Types, TaskSound, RunsApart, ShareStillLoaded, HasRun, InFlight, Loaded, vars

\* The "cannot panic" of reshare_finalize_handler: the share it found loaded
\* is still loaded when it reads the metadata, whatever else is going on,
\* since nothing but a crash, which ends the task, unloads a share.
THEOREM SharesStillLoaded == Spec => []ShareStillLoaded
<1>1. Shape /\ [Next]_vars => Shape'
  BY ShapeStep, ShapeStutter
<1>2. Shape => ShareStillLoaded
  BY DEF Shape
<1>3. QED BY InitShape, <1>1, <1>2, PTL DEF Spec

-----------------------------------------------------------------------------
(***************************************************************************)
(* Layer 2: Entered                                                        *)
(***************************************************************************)

LEMMA UsedFinite ==
    ASSUME Shape
    PROVE  /\ Used \subseteq 1..runs /\ Used \subseteq Runs
           /\ IsFiniteSet(Used) /\ Cardinality(Used) \in Nat /\ Cardinality(Used) <= MaxRuns
<1>1. runs \in Nat /\ MaxRuns \in Nat /\ runs <= MaxRuns
  BY CommitteeAssumption DEF Shape, Types
<1>2. Used \subseteq 1..runs /\ Used \subseteq 1..MaxRuns
  BY <1>1 DEF Used
<1>3. IsFiniteSet(1..MaxRuns) /\ Cardinality(1..MaxRuns) = MaxRuns
  BY <1>1, FS_Interval
<1>4. IsFiniteSet(Used) /\ Cardinality(Used) <= MaxRuns
  BY <1>2, <1>3, FS_Subset
<1>5. Cardinality(Used) \in Nat
  BY <1>4, FS_CardinalityType
<1>6. QED BY <1>2, <1>4, <1>5 DEF Runs

\* A step after which no run is pending that was not, or did not exist.
LEMMA UsedGrows ==
    ASSUME Shape, Shape', runs <= runs', \A x \in 1..runs : x \in Pending' => x \in Pending
    PROVE  /\ Used \subseteq Used' /\ Cardinality(Used) <= Cardinality(Used')
           /\ \A x \in Used' \ Used : Cardinality(Used) + 1 <= Cardinality(Used')
<1>1. runs \in Nat /\ runs' \in Nat
  BY DEF Shape, Types
<1>2. Used \subseteq Used'
  BY <1>1 DEF Used
<1>3. IsFiniteSet(Used) /\ Cardinality(Used) \in Nat
  BY UsedFinite
<1>4. IsFiniteSet(Used')
  <2>1. Shape' => IsFiniteSet(Used)'
    BY UsedFinite, PTL
  <2>2. QED BY <2>1
<1>5. Cardinality(Used) <= Cardinality(Used')
  BY <1>2, <1>4, FS_Subset
<1>6. ASSUME NEW x \in Used' \ Used PROVE Cardinality(Used) + 1 <= Cardinality(Used')
  <2>1. IsFiniteSet(Used \cup {x}) /\ Cardinality(Used \cup {x}) = Cardinality(Used) + 1
    BY <1>3, <1>6, FS_AddElement
  <2>2. Used \cup {x} \subseteq Used'
    BY <1>2, <1>6
  <2>3. QED BY <1>4, <2>1, <2>2, FS_Subset
<1>7. QED BY <1>2, <1>5, <1>6

\* The same for the step of a task.
LEMMA UsedTask ==
    ASSUME Shape, Shape', NEW t \in Tasks, NEW r \in AnyTask, task' = [task EXCEPT ![t] = r],
           UNCHANGED <<sessions, runs>>,
           r.at \in {"old", "meta"} => task[t].at \in {"old", "meta"} /\ r.run = task[t].run
    PROVE  \A x \in 1..runs : x \in Pending' => x \in Pending
<1>1. \A u \in Tasks : task'[u] = IF u = t THEN r ELSE task[u]
  BY DEF Shape, Types
<1>2. QED BY <1>1 DEF Pending

\* The run a task has to itself once it has left "old" and "meta".
LEMMA OwnRunUsed ==
    ASSUME Shape, NEW t \in Tasks, task[t].at = "open"
    PROVE  task[t].run \in Used
<1>1. task[t].run \in Nat /\ task[t].run # 0 /\ task[t].run <= runs /\ HasRun(t) /\ runs \in Nat
  BY DEF Shape, Types, AnyTask, TaskSound, RunsApart, HasRun
<1>2. \A p \in Pairs : sessions[p].run # task[t].run
  BY <1>1 DEF Shape, RunsApart, InFlight
<1>3. \A u \in Tasks : task[u].at \in {"old", "meta"} => task[u].run # task[t].run
  BY <1>1 DEF Shape, RunsApart, HasRun
<1>4. QED BY <1>1, <1>2, <1>3 DEF Used, Pending

\* A run once used stays used.
LEMMA UsedStep ==
    ASSUME Shape, Next
    PROVE  /\ Used \subseteq Used' /\ Cardinality(Used) <= Cardinality(Used')
           /\ \A x \in Used' \ Used : Cardinality(Used) + 1 <= Cardinality(Used')
<1>1. Shape'
  BY ShapeStep
<1>2. runs \in Nat /\ \A t \in Tasks : task[t] \in AnyTask
  BY DEF Shape, Types
<1> DEFINE Goal == runs <= runs' /\ \A x \in 1..runs : x \in Pending' => x \in Pending
<1>3. ASSUME NEW p \in Pairs, Begin(p) PROVE Goal
  <2>1. [NoSession EXCEPT !.run = runs + 1].run = runs + 1
    BY DEF NoSession
  <2>2. /\ \A q \in Pairs : sessions'[q].run = IF q = p THEN runs + 1 ELSE sessions[q].run
        /\ task' = task /\ runs' = runs + 1
    BY <1>3, <2>1 DEF Begin, Shape, Types
  <2>3. QED BY <1>2, <2>2 DEF Pending
<1>4. ASSUME NEW p \in Pairs, NEW i \in Indices, NEW q \in {"good", "bad"}, Contribute(p, i, q) PROVE Goal
  <2>1. \A r \in Pairs : sessions'[r].run = sessions[r].run
    BY <1>4 DEF Contribute, Shape, Types, Session
  <2>2. QED BY <1>2, <1>4, <2>1 DEF Contribute, Pending
<1>5. ASSUME NEW t \in Tasks, NEW cid \in CeremonyIds, DkgFinalize(t, cid) \/ ReshareFinalize(t, cid)
      PROVE  Goal
  <2>1. PICK p \in Pairs, r \in AnyTask : TakeFinalisable(t, p, r) /\ r.run = sessions[p].run
    BY <1>5, Taken
  <2>2. \A q \in Pairs : sessions'[q].run = IF q = p THEN 0 ELSE sessions[q].run
    BY <2>1, NoSessionType DEF TakeFinalisable, Shape, Types
  <2>3. \A u \in Tasks : task'[u] = task[u] \/ task'[u] = Idle \/ task'[u] = r
    BY <2>1 DEF TakeFinalisable, Shape, Types
  <2>4. QED BY <1>2, <2>1, <2>2, <2>3, IdleType DEF Pending, TakeFinalisable
<1>6. ASSUME NEW p \in Pairs, Evict(p) PROVE Goal
  <2>1. \A q \in Pairs : sessions'[q].run = IF q = p THEN 0 ELSE sessions[q].run
    BY <1>6, NoSessionType DEF Evict, Shape, Types
  <2>2. QED BY <1>2, <1>6, <2>1 DEF Evict, Pending
<1>7. ASSUME NEW t \in Tasks, \/ ReadOldShare(t) \/ ReadMetadata(t) \/ OpenTmp(t) \/ WriteTmp(t)
                              \/ Rename(t) \/ Swap(t)
      PROVE  Goal
  <2>1. UNCHANGED <<sessions, runs>>
    BY <1>7 DEF ReadOldShare, ReadMetadata, OpenTmp, WriteTmp, Rename, Swap
  <2>2. \E r \in AnyTask :
          /\ task' = [task EXCEPT ![t] = r]
          /\ r.at \in {"old", "meta"} => task[t].at \in {"old", "meta"} /\ r.run = task[t].run
    <3>1. CASE ReadOldShare(t)
      BY <3>1, IdleType, OldReadIs, TaskSteps DEF ReadOldShare, OldRead
    <3>2. CASE ReadMetadata(t)
      BY <3>2, MetaReadIs, TaskSteps DEF ReadMetadata
    <3>3. CASE OpenTmp(t)
      BY <3>3, OpenedIs, TaskSteps DEF OpenTmp
    <3>4. CASE WriteTmp(t)
      BY <3>4, AtChanged, TaskSteps DEF WriteTmp
    <3>5. CASE Rename(t)
      BY <3>5, AtChanged, TaskSteps, IdleType DEF Rename, TmpPath
    <3>6. CASE Swap(t)
      BY <3>6, IdleType DEF Swap
    <3>7. QED BY <1>7, <3>1, <3>2, <3>3, <3>4, <3>5, <3>6
  <2>3. \A x \in 1..runs : x \in Pending' => x \in Pending
    BY <1>1, <2>1, <2>2, UsedTask
  <2>4. QED BY <1>2, <2>1, <2>3
<1>8. ASSUME NEW t \in Tasks, NEW k \in Runs, ReloadShare(t, k) PROVE Goal
  <2> DEFINE r == [Idle EXCEPT !.at = "swap", !.record = Stored(k)]
  <2>1. r \in AnyTask /\ r.at = "swap"
    BY <1>8, StoredType, IdleType DEF AnyTask, Shape
  <2>2. task' = [task EXCEPT ![t] = r] /\ UNCHANGED <<sessions, runs>>
    BY <1>8 DEF ReloadShare
  <2> HIDE DEF r
  <2>3. \A x \in 1..runs : x \in Pending' => x \in Pending
    BY <1>1, <2>1, <2>2, UsedTask
  <2>4. QED BY <1>2, <2>2, <2>3
<1>9. ASSUME Crash PROVE Goal
  <2>1. DOMAIN sessions = Pairs
    BY DEF Shape, Types
  <2>2. /\ \A t \in Tasks : task'[t] = Idle
        /\ \A p \in Pairs : sessions'[p] = NoSession
        /\ runs' = runs
    BY <1>9, <2>1 DEF Crash
  <2>3. QED BY <1>2, <2>2, IdleType, NoSessionType DEF Pending
<1>10. Goal
  BY <1>3, <1>4, <1>5, <1>6, <1>7, <1>8, <1>9, NextSplit DEF Shape
<1>11. QED BY <1>1, <1>10, UsedGrows

\* What is made of runs of U is made of runs of a larger set.
LEMMA MadeOfGrows ==
    ASSUME NEW U, NEW V, U \subseteq V, Cardinality(U) \in Nat, Cardinality(V) \in Nat,
           Cardinality(U) <= Cardinality(V)
    PROVE  /\ \A r \in AnyRecord : MadeOf(r, U) => MadeOf(r, V)
           /\ \A x \in AnyTask : TaskMadeOf(x, U) => TaskMadeOf(x, V)
<1>1. \A r \in AnyRecord : MadeOf(r, U) => MadeOf(r, V)
  BY DEF MadeOf, AnyRecord
<1>2. \A x \in AnyTask : x.record \in AnyRecord /\ x.record.epoch \in Nat
  BY DEF AnyTask, AnyRecord
<1>3. QED BY <1>1, <1>2 DEF TaskMadeOf

LEMMA NoRecordMadeOf ==
    ASSUME NEW U, Cardinality(U) \in Nat
    PROVE  MadeOf(NoRecord, U) /\ TaskMadeOf(Idle, U)
BY DEF MadeOf, TaskMadeOf, NoRecord, Idle

\* What the step of a task does not make anew is made of used runs still.
LEMMA EnteredKept ==
    ASSUME Shape, Entered, Next
    PROVE  /\ Cardinality(Used) \in Nat /\ Cardinality(Used') \in Nat
           /\ MadeOf(memory, Used')
           /\ \A i \in Runs : MadeOf(content[i], Used')
           /\ \A t \in Tasks : TaskMadeOf(task[t], Used')
           /\ MadeOf(NoRecord, Used') /\ TaskMadeOf(Idle, Used')
<1>1. Shape' => (Cardinality(Used) \in Nat)'
  BY UsedFinite, PTL
<1>2. Cardinality(Used) \in Nat /\ Cardinality(Used') \in Nat
  BY <1>1, ShapeStep, UsedFinite
<1>3. Used \subseteq Used' /\ Cardinality(Used) <= Cardinality(Used')
  BY UsedStep
<1>4. /\ memory \in AnyRecord
      /\ \A i \in Runs : content[i] \in AnyRecord
      /\ \A t \in Tasks : task[t] \in AnyTask
  BY DEF Shape, Types
<1>5. MadeOf(NoRecord, Used') /\ TaskMadeOf(Idle, Used')
  BY <1>2, NoRecordMadeOf
<1>6. /\ \A r \in AnyRecord : MadeOf(r, Used) => MadeOf(r, Used')
      /\ \A x \in AnyTask : TaskMadeOf(x, Used) => TaskMadeOf(x, Used')
  BY <1>2, <1>3, MadeOfGrows
<1>7. QED BY <1>2, <1>4, <1>5, <1>6 DEF Entered

LEMMA StoredMadeOf ==
    ASSUME Shape, NEW U, MadeOf(NoRecord, U), \A i \in Runs : MadeOf(content[i], U)
    PROVE  \A k \in Runs : MadeOf(Stored(k), U)
<1>1. \A k \in Runs : file[k] = 0 \/ file[k] \in Runs
  BY DEF Shape, Types, Runs
<1>2. QED BY <1>1 DEF Stored

LEMMA InitEntered == Init => Entered
<1> SUFFICES ASSUME Init PROVE Entered
  OBVIOUS
<1>1. Cardinality(Used) \in Nat
  BY InitShape, UsedFinite
<1>2. MadeOf(NoRecord, Used) /\ TaskMadeOf(Idle, Used)
  BY <1>1, NoRecordMadeOf
<1>3. QED BY <1>2 DEF Init, Entered

\* A task that leaves "meta" adds its run to the used ones and one to the epoch.
LEMMA EnteredStep == ASSUME Shape, Entered, Next PROVE Entered'
<1>1. Shape'
  BY ShapeStep
<1>2. \A t \in Tasks : task[t] \in AnyTask /\ task[t].record \in AnyRecord
  BY DEF Shape, Types, AnyTask
<1>4. SUFFICES /\ MadeOf(memory', Used')
               /\ \A i \in Runs : MadeOf(content'[i], Used')
               /\ \A t \in Tasks : TaskMadeOf(task'[t], Used')
  BY DEF Entered
<1> DEFINE Goal == /\ MadeOf(memory', Used')
                   /\ \A i \in Runs : MadeOf(content'[i], Used')
                   /\ \A t \in Tasks : TaskMadeOf(task'[t], Used')
<1>5. /\ Cardinality(Used) \in Nat /\ Cardinality(Used') \in Nat
      /\ MadeOf(memory, Used')
      /\ \A i \in Runs : MadeOf(content[i], Used')
      /\ \A t \in Tasks : TaskMadeOf(task[t], Used')
      /\ MadeOf(NoRecord, Used') /\ TaskMadeOf(Idle, Used')
  BY EnteredKept
<1>6. ASSUME NEW p \in Pairs, \/ Begin(p) \/ Evict(p)
                              \/ \E i \in Indices, q \in {"good", "bad"} : Contribute(p, i, q)
      PROVE  Goal
  BY <1>5, <1>6 DEF Begin, Evict, Contribute, disk
<1>7. ASSUME NEW t \in Tasks, NEW r, task' = [task EXCEPT ![t] = r], TaskMadeOf(r, Used')
      PROVE  \A u \in Tasks : TaskMadeOf(task'[u], Used')
  <2>1. \A u \in Tasks : task'[u] = IF u = t THEN r ELSE task[u]
    BY <1>7 DEF Shape, Types
  <2>2. QED BY <1>5, <1>7, <2>1
<1>8. ASSUME NEW t \in Tasks, NEW cid \in CeremonyIds, DkgFinalize(t, cid) \/ ReshareFinalize(t, cid)
      PROVE  Goal
  <2>1. PICK p \in Pairs, r \in AnyTask :
          /\ TakeFinalisable(t, p, r)
          /\ sessions[p].run \in Runs /\ r.run = sessions[p].run
          /\ r = DkgTask(sessions[p].run) \/ r = OldTask(sessions[p].run)
    BY <1>8, Taken
  <2>2. memory' = memory /\ content' = content /\ runs' = runs
    BY <2>1 DEF TakeFinalisable, disk
  <2>3. CASE task' = [task EXCEPT ![t] = Idle]
    BY <1>5, <1>7, <2>2, <2>3
  <2>4. CASE task' = [task EXCEPT ![t] = r] /\ r = OldTask(sessions[p].run)
    <3>1. r.at = "old" /\ r.record = NoRecord
      BY <2>4, IdleType DEF OldTask, Idle
    <3>2. TaskMadeOf(r, Used')
      BY <1>5, <3>1 DEF TaskMadeOf
    <3>3. QED BY <1>5, <1>7, <2>2, <2>4, <3>2
  <2>5. CASE task' = [task EXCEPT ![t] = r] /\ r = DkgTask(sessions[p].run)
    <3> DEFINE run == sessions[p].run
    <3>1. run \in Nat /\ run # 0 /\ run <= runs /\ runs \in Nat
      BY <2>1, SessionRuns DEF Runs, Shape, Types
    <3>2. \A q \in Pairs : sessions'[q].run # run
      BY <2>1, <3>1, NoSessionType DEF TakeFinalisable, Shape, Types, RunsApart, InFlight
    <3>3. r.at \in {"open", "swap"} /\ r.record = [keyset |-> run, epoch |-> 1, base |-> run, deltas |-> {}]
      BY <2>1, <2>5, TakenTasks DEF Runs
    <3>4. \A u \in Tasks : task'[u].at \in {"old", "meta"} => task'[u].run # run
      BY <2>1, <2>5, <3>1, <3>3 DEF Shape, Types, RunsApart, HasRun, TakeFinalisable
    <3>5. run \in Used' /\ run \notin Used
      <4>1. run \in 1..runs /\ run \in 1..runs'
        BY <2>2, <3>1
      <4>2. QED BY <3>2, <3>4, <4>1 DEF Used, Pending
    <3>6. Cardinality(Used) + 1 <= Cardinality(Used')
      BY <3>5, UsedStep
    <3>7. MadeOf(r.record, Used')
      BY <1>5, <3>3, <3>5, <3>6 DEF MadeOf
    <3>8. QED BY <1>5, <1>7, <2>2, <2>5, <3>3, <3>7 DEF TaskMadeOf
  <2>6. QED BY <2>1, <2>3, <2>4, <2>5 DEF TakeFinalisable
<1>9. ASSUME NEW t \in Tasks, ReadOldShare(t) PROVE Goal
  <2>1. task' = [task EXCEPT ![t] = OldRead(t)] /\ memory' = memory /\ content' = content
    BY <1>9, TaskSteps DEF ReadOldShare, disk
  <2>2. TaskMadeOf(OldRead(t), Used')
    <3>1. CASE Loaded
      <4>1. /\ OldRead(t).at = "meta" /\ OldRead(t).run = task[t].run
            /\ OldRead(t).record.epoch = memory.epoch
            /\ OldRead(t).record.deltas = memory.deltas \cup {task[t].run}
        BY <1>9, <3>1, OldReadIs DEF ReadOldShare, Shape, Types, AnyRecord
      <4>2. QED BY <1>5, <4>1 DEF TaskMadeOf, MadeOf
    <3>2. CASE ~Loaded
      BY <1>5, <3>2 DEF OldRead
    <3>3. QED BY <3>1, <3>2
  <2>3. QED BY <1>5, <1>7, <2>1, <2>2
<1>10. ASSUME NEW t \in Tasks, ReadMetadata(t) PROVE Goal
  <2>1. task' = [task EXCEPT ![t] = MetaRead(t)] /\ memory' = memory /\ content' = content
        /\ UNCHANGED <<sessions, runs>> /\ task[t].at = "meta"
    BY <1>10, TaskSteps DEF ReadMetadata, disk
  <2> DEFINE run == task[t].run
  <2>2. run \in Nat /\ run # 0 /\ run <= runs /\ runs \in Nat
    BY <1>2, <2>1 DEF Shape, Types, TaskSound, RunsApart, HasRun, AnyTask
  <2>3. \A q \in Pairs : sessions'[q].run # run
    BY <2>1, <2>2 DEF Shape, RunsApart, InFlight, HasRun
  <2>4. MetaRead(t).at \in {"open", "swap"}
    BY <2>1, MetaReadIs DEF Persist
  <2>5. \A u \in Tasks : task'[u].at \in {"old", "meta"} => task'[u].run # run
    BY <2>1, <2>4 DEF Shape, Types, RunsApart, HasRun
  <2>6. run \in Used' /\ run \notin Used
    <3>1. run \in 1..runs /\ run \in 1..runs'
      BY <2>1, <2>2
    <3>2. QED BY <2>1, <2>3, <2>5, <3>1 DEF Used, Pending
  <2>7. Cardinality(Used) + 1 <= Cardinality(Used')
    BY <2>6, UsedStep
  <2>8. memory.epoch \in Nat /\ memory.epoch <= Cardinality(Used)
    BY DEF Shape, Types, AnyRecord, Entered, MadeOf
  <2>9. task[t].record.deltas \subseteq Used'
    BY <1>5, <2>1, <2>6 DEF TaskMadeOf
  <2>10. MadeOf(MetaRead(t).record, Used')
    BY <1>5, <2>1, <2>7, <2>8, <2>9, MetaReadIs DEF MadeOf
  <2>11. QED BY <1>5, <1>7, <2>1, <2>4, <2>10 DEF TaskMadeOf
<1>11. ASSUME NEW t \in Tasks, OpenTmp(t) PROVE Goal
  <2>1. /\ task[t].at = "open" /\ memory' = memory
        /\ task' = [task EXCEPT ![t] = Opened(t)]
        /\ content' = [content EXCEPT ![TmpInode(t)] = NoRecord]
    BY <1>11, TaskSteps DEF OpenTmp
  <2>2. TaskMadeOf(Opened(t), Used')
    BY <1>5, <2>1, OpenedIs DEF TaskMadeOf
  <2>3. \A i \in Runs : content'[i] = content[i] \/ content'[i] = NoRecord
    BY <2>1 DEF Shape, Types
  <2>4. QED BY <1>5, <1>7, <2>1, <2>2, <2>3
<1>12. ASSUME NEW t \in Tasks, WriteTmp(t) PROVE Goal
  <2>1. /\ task[t].at = "write" /\ memory' = memory
        /\ task' = [task EXCEPT ![t] = [task[t] EXCEPT !.at = "rename"]]
        /\ content' = [content EXCEPT ![task[t].fd] = task[t].record]
    BY <1>12, TaskSteps DEF WriteTmp
  <2>2. TaskMadeOf([task[t] EXCEPT !.at = "rename"], Used') /\ MadeOf(task[t].record, Used')
    BY <1>5, <2>1, AtChanged DEF TaskMadeOf
  <2>3. \A i \in Runs : content'[i] = content[i] \/ content'[i] = task[t].record
    BY <2>1 DEF Shape, Types
  <2>4. QED BY <1>5, <1>7, <2>1, <2>2, <2>3
<1>13. ASSUME NEW t \in Tasks, Rename(t) PROVE Goal
  <2>1. task[t].at = "rename" /\ memory' = memory /\ content' = content
    BY <1>13 DEF Rename
  <2>2. \/ task' = [task EXCEPT ![t] = [task[t] EXCEPT !.at = "swap"]]
        \/ task' = [task EXCEPT ![t] = Idle]
    BY <1>13 DEF Rename
  <2>3. TaskMadeOf([task[t] EXCEPT !.at = "swap"], Used')
    BY <1>5, <2>1, AtChanged DEF TaskMadeOf
  <2>4. QED BY <1>5, <1>7, <2>1, <2>2, <2>3
<1>14. ASSUME NEW t \in Tasks, Swap(t) PROVE Goal
  <2>1. MadeOf(task[t].record, Used')
    BY <1>5, <1>14 DEF TaskMadeOf, Swap
  <2>2. QED BY <1>5, <1>7, <1>14, <2>1 DEF Swap, disk
<1>15. ASSUME NEW t \in Tasks, NEW k \in Runs, ReloadShare(t, k) PROVE Goal
  <2> DEFINE r == [Idle EXCEPT !.at = "swap", !.record = Stored(k)]
  <2>1. r.at = "swap" /\ r.record = Stored(k)
    BY DEF Idle
  <2>2. TaskMadeOf(r, Used')
    BY <1>5, <2>1, StoredMadeOf DEF TaskMadeOf
  <2>3. task' = [task EXCEPT ![t] = r] /\ memory' = memory /\ content' = content
    BY <1>15 DEF ReloadShare, disk
  <2> HIDE DEF r
  <2>4. QED BY <1>5, <1>7, <2>2, <2>3
<1>16. ASSUME Crash PROVE Goal
  <2>1. content' = content /\ \A t \in Tasks : task'[t] = Idle
    BY <1>16 DEF Crash, disk
  <2>2. memory' = NoRecord \/ \E k \in Runs : memory' = Stored(k)
    BY <1>16 DEF Crash, Readable
  <2>3. QED BY <1>5, <2>1, <2>2, StoredMadeOf
<1>17. QED
  BY <1>6, <1>8, <1>9, <1>10, <1>11, <1>12, <1>13, <1>14, <1>15, <1>16, NextSplit DEF Shape

LEMMA EnteredStutter == Entered /\ UNCHANGED vars => Entered'
BY DEF Entered, MadeOf, TaskMadeOf, Used, Pending, vars

\* Shape and Entered, from which the bound on the epochs follows: an epoch is
\* at most the number of used runs, and there are MaxRuns at most.
LEMMA TypesBounded == Shape /\ Entered => TypeOK
<1> SUFFICES ASSUME Shape, Entered PROVE TypeOK
  OBVIOUS
<1>1. Cardinality(Used) \in Nat /\ Cardinality(Used) <= MaxRuns /\ Used \subseteq Runs
  BY UsedFinite
<1>2. \A r \in AnyRecord : MadeOf(r, Used) => r \in Record
  BY <1>1, CommitteeAssumption DEF AnyRecord, MadeOf, Record
<1>3. memory \in Record /\ content \in [Runs -> Record]
  BY <1>2 DEF Shape, Types, Entered
<1>4. ASSUME NEW t \in Tasks PROVE task[t] \in Task
  <2>1. task[t] \in AnyTask /\ task[t].record \in AnyRecord
    BY DEF Shape, Types, AnyTask
  <2>2. CASE task[t].at # "meta"
    BY <1>2, <2>1, <2>2 DEF Entered, TaskMadeOf, AnyTask, Task
  <2>3. CASE task[t].at = "meta"
    <3>1. task[t].record.epoch \in Nat /\ task[t].record.epoch <= Cardinality(Used)
      BY <2>1, <2>3 DEF Entered, TaskMadeOf, AnyRecord
    <3>2. task[t].record \in Record
      BY <1>1, <2>1, <3>1, CommitteeAssumption DEF AnyRecord, Record
    <3>3. QED BY <2>1, <3>2 DEF AnyTask, Task
  <2>4. QED BY <2>2, <2>3
<1>5. task \in [Tasks -> Task]
  BY <1>4 DEF Shape, Types
<1>6. QED BY <1>3, <1>5 DEF Shape, Types, TypeOK, Pairs

\* The state has the declared types: in particular an epoch, which counts the
\* reshares of a keyset, never outgrows the number of ceremonies, even when
\* finalize requests race for the metadata.
THEOREM SharesTypeCorrect == Spec => []TypeOK
<1>1. Init => Shape /\ Entered
  BY InitShape, InitEntered
<1>2. Shape /\ Entered /\ [Next]_vars => (Shape /\ Entered)'
  BY ShapeStep, ShapeStutter, EnteredStep, EnteredStutter
<1>3. QED BY <1>1, <1>2, TypesBounded, PTL DEF Spec

-----------------------------------------------------------------------------
(***************************************************************************)
(* Layer 3: Inodes                                                         *)
(***************************************************************************)

LEMMA InitInodes == Init => Inodes
<1> SUFFICES ASSUME Init PROVE Inodes
  OBVIOUS
<1>1. \A k, i \in Runs : ~Refers(k, i)
  BY IdleType DEF Init, Refers, Writes, Runs
<1>2. \A k, i \in Runs : tmp[k] # i
  BY DEF Init, Runs
<1>3. QED BY <1>1, <1>2 DEF Inodes

\* An inode that has been created stays so: the run of a task that comes to
\* "open" was pending before.
LEMMA CreatedKept ==
    ASSUME Shape, Entered, Next, NEW i \in Runs, Created(i)
    PROVE  Created(i)'
<1>1. i \in Used /\ i \in Used'
  BY UsedStep DEF Created
<1>2. i # 0 /\ (\A p \in Pairs : sessions[p].run # i)
            /\ (\A t \in Tasks : task[t].at \in {"old", "meta"} => task[t].run # i)
  BY <1>1 DEF Used, Pending, Runs
<1> SUFFICES ASSUME NEW t \in Tasks, task'[t].at = "open" PROVE task'[t].run # i
  BY <1>1 DEF Created
<1>3. CASE task'[t] = task[t]
  BY <1>3 DEF Created
<1> DEFINE Goal == task'[t] = task[t] \/ task'[t].run # i
<1>4. ASSUME NEW u \in Tasks, NEW r, task' = [task EXCEPT ![u] = r], r.at # "open" \/ r.run # i
      PROVE  Goal
  BY <1>4 DEF Shape, Types
<1>5. ASSUME NEW p \in Pairs, \/ Begin(p) \/ Evict(p)
                              \/ \E j \in Indices, q \in {"good", "bad"} : Contribute(p, j, q)
      PROVE  Goal
  BY <1>5 DEF Begin, Evict, Contribute
<1>6. ASSUME NEW u \in Tasks, NEW cid \in CeremonyIds, DkgFinalize(u, cid) \/ ReshareFinalize(u, cid)
      PROVE  Goal
  <2>1. PICK p \in Pairs, r \in AnyTask : TakeFinalisable(u, p, r) /\ r.run = sessions[p].run
    BY <1>6, Taken
  <2>2. CASE task' = [task EXCEPT ![u] = Idle]
    BY <1>4, <2>2, IdleType
  <2>3. CASE task' = [task EXCEPT ![u] = r]
    BY <1>2, <1>4, <2>1, <2>3
  <2>4. QED BY <2>1, <2>2, <2>3 DEF TakeFinalisable
<1>7. ASSUME NEW u \in Tasks, ReadOldShare(u) PROVE Goal
  <2>1. OldRead(u).at # "open"
    BY <1>7, OldReadIs, IdleType DEF ReadOldShare, OldRead
  <2>2. QED BY <1>4, <1>7, <2>1, TaskSteps
<1>8. ASSUME NEW u \in Tasks, ReadMetadata(u) PROVE Goal
  <2>1. MetaRead(u).run # i
    BY <1>2, <1>8, MetaReadIs DEF ReadMetadata
  <2>2. QED BY <1>4, <1>8, <2>1, TaskSteps
<1>9. ASSUME NEW u \in Tasks, OpenTmp(u) PROVE Goal
  <2>1. Opened(u).at # "open"
    BY <1>9, OpenedIs DEF OpenTmp
  <2>2. QED BY <1>4, <1>9, <2>1, TaskSteps
<1>10. ASSUME NEW u \in Tasks, WriteTmp(u) PROVE Goal
  BY <1>4, <1>10, TaskSteps, AtChanged
<1>11. ASSUME NEW u \in Tasks, Rename(u) PROVE Goal
  BY <1>4, <1>11, TaskSteps, AtChanged, IdleType DEF Rename, TmpPath
<1>12. ASSUME NEW u \in Tasks, Swap(u) PROVE Goal
  BY <1>4, <1>12, IdleType DEF Swap
<1>13. ASSUME NEW u \in Tasks, NEW k \in Runs, ReloadShare(u, k) PROVE Goal
  <2>1. [Idle EXCEPT !.at = "swap", !.record = Stored(k)].at # "open"
    BY DEF Idle
  <2>2. QED BY <1>4, <1>13, <2>1 DEF ReloadShare
<1>14. ASSUME Crash PROVE FALSE
  BY <1>14, IdleType DEF Crash
<1>15. Goal
  BY <1>5, <1>6, <1>7, <1>8, <1>9, <1>10, <1>11, <1>12, <1>13, <1>14, NextSplit DEF Shape
<1>16. QED BY <1>3, <1>15

\* A step that leaves the files alone and gives no task a file to write.
LEMMA InodesKept ==
    ASSUME Shape, Entered, Inodes, Next, UNCHANGED disk,
           \A t \in Tasks : task'[t].at \in {"write", "rename"} => task'[t] = task[t]
    PROVE  Inodes'
<1>1. \A k, i \in Runs : Refers(k, i)' => Refers(k, i)
  BY DEF Refers, Writes, disk
<1>2. \A i \in Runs : Created(i) => Created(i)'
  BY CreatedKept
<1>3. content' = content /\ file' = file /\ tmp' = tmp
  BY DEF disk
<1>4. QED BY <1>1, <1>2, <1>3 DEF Inodes

\* A new temporary file: if there is none, its inode is named after the
\* run of the task, which no file refers to, since it was not created.
LEMMA InodesOpen == ASSUME Shape, Entered, Inodes, NEW t \in Tasks, OpenTmp(t), Next PROVE Inodes'
<1>0. task[t].at = "open"
  BY DEF OpenTmp
<1> PICK inode \in Runs, key \in Runs : inode = TmpInode(t) /\ key = task[t].record.keyset
  BY <1>0, OpenedIs
<1>1. /\ task[t].at = "open" /\ UNCHANGED file
      /\ task' = [task EXCEPT ![t] = Opened(t)]
      /\ content' = [content EXCEPT ![inode] = NoRecord]
      /\ tmp' = [tmp EXCEPT ![key] = inode]
  BY TaskSteps DEF OpenTmp
<1>2. /\ inode \in Runs /\ key \in Runs
      /\ Opened(t).at = "write" /\ Opened(t).fd = inode /\ Opened(t).record = task[t].record
  BY <1>1, OpenedIs
<1>3. \A u \in Tasks : task'[u] = IF u = t THEN Opened(t) ELSE task[u]
  BY <1>1 DEF Shape, Types
<1>4. /\ \A i \in Runs : content'[i] = IF i = inode THEN NoRecord ELSE content[i]
      /\ \A k \in Runs : tmp'[k] = IF k = key THEN inode ELSE tmp[k]
  BY <1>1, <1>2 DEF Shape, Types
<1>5. inode = tmp[key] \/ (tmp[key] = 0 /\ inode = task[t].run)
  BY DEF TmpInode
<1>6. \A k, i \in Runs : Refers(k, i)' => Refers(k, i) \/ (k = key /\ i = inode)
  BY <1>1, <1>2, <1>3, <1>4 DEF Refers, Writes
<1>7. \A i \in Runs : Created(i) => Created(i)'
  BY CreatedKept
<1>8. task[t].run \in Used /\ \A u \in Tasks : task[u].at = "open" /\ task[u].run = task[t].run => u = t
  BY <1>1, OwnRunUsed DEF Shape, RunsApart, HasRun
<1>9. inode = task[t].run => Created(inode)'
  BY <1>2, <1>3, <1>8, UsedStep DEF Created
<1>10. ~Created(task[t].run)
  BY <1>1 DEF Created
<1>11. \A k \in Runs : Refers(k, inode) => k = key
  BY <1>2, <1>5, <1>10 DEF Inodes, Refers
<1>12. Created(inode)'
  BY <1>2, <1>5, <1>7, <1>9 DEF Inodes, Refers
<1>13. \A l \in Runs : file[l] # inode
  <2>1. CASE inode = tmp[key]
    BY <1>2, <2>1 DEF Inodes
  <2>2. CASE inode = task[t].run
    BY <1>2, <1>10, <2>2 DEF Inodes, Refers
  <2>3. QED BY <1>5, <2>1, <2>2
<1> SUFFICES ASSUME NEW i \in Runs
             PROVE  /\ \A k \in Runs : Refers(k, i)' => Created(i)' /\ content'[i].keyset \in {0, k}
                    /\ \A k, l \in Runs : Refers(k, i)' /\ Refers(l, i)' => k = l
                    /\ \A k, l \in Runs : tmp'[k] = i => file'[l] # i
  BY DEF Inodes
<1>14. CASE i = inode
  BY <1>1, <1>4, <1>6, <1>11, <1>12, <1>13, <1>14, NoRecordType
<1>15. CASE i # inode
  <2>1. \A k \in Runs : Refers(k, i)' => Refers(k, i)
    BY <1>6, <1>15
  <2>2. content'[i] = content[i] /\ \A k \in Runs : tmp'[k] = i => tmp[k] = i
    BY <1>4, <1>15
  <2>3. QED BY <1>1, <1>7, <2>1, <2>2 DEF Inodes
<1>16. QED BY <1>14, <1>15

\* The inode written belongs to the keyset of the task that writes it.
LEMMA InodesWrite == ASSUME Shape, Entered, Inodes, NEW t \in Tasks, WriteTmp(t), Next PROVE Inodes'
<1> DEFINE r == [task[t] EXCEPT !.at = "rename"]
<1>1. /\ task[t].at = "write" /\ UNCHANGED <<file, tmp>>
      /\ task' = [task EXCEPT ![t] = r]
      /\ content' = [content EXCEPT ![task[t].fd] = task[t].record]
  BY TaskSteps DEF WriteTmp
<1>2. r.at = "rename" /\ r.fd = task[t].fd /\ r.record = task[t].record
  BY AtChanged
<1>3. \A u \in Tasks : task'[u] = IF u = t THEN r ELSE task[u]
  BY <1>1 DEF Shape, Types
<1> HIDE DEF r
<1>4. \A k, i \in Runs : Refers(k, i)' => Refers(k, i)
  BY <1>1, <1>2, <1>3 DEF Refers, Writes
<1>5. \A i \in Runs : content'[i] = IF i = task[t].fd THEN task[t].record ELSE content[i]
  BY <1>1 DEF Shape, Types
<1>6. task[t].record.keyset \in Runs /\ task[t].fd \in Runs
  BY <1>1 DEF Shape, Types, TaskSound, AnyTask, AnyRecord, Runs
<1>7. Refers(task[t].record.keyset, task[t].fd)
  BY <1>1 DEF Refers, Writes
<1>8. \A i \in Runs : Created(i) => Created(i)'
  BY CreatedKept
<1>9. \A i \in Runs : \A k \in Runs : Refers(k, i) => content'[i].keyset \in {0, k}
  BY <1>5, <1>6, <1>7 DEF Inodes
<1>10. QED BY <1>1, <1>4, <1>8, <1>9 DEF Inodes

\* The inode goes from the temporary file to the record file of its keyset.
LEMMA InodesRename == ASSUME Shape, Entered, Inodes, NEW t \in Tasks, Rename(t), Next PROVE Inodes'
<1> DEFINE key == task[t].record.keyset
<1>1. key \in Runs
  BY DEF Rename, Shape, Types, TaskSound, AnyTask, AnyRecord, Runs
<1>2. CASE tmp[key] = 0
  <2>1. task' = [task EXCEPT ![t] = Idle] /\ UNCHANGED disk
    BY <1>2 DEF Rename, TmpPath, disk
  <2>2. \A u \in Tasks : task'[u] = IF u = t THEN Idle ELSE task[u]
    BY <2>1 DEF Shape, Types
  <2>3. QED BY <2>1, <2>2, IdleType, InodesKept
<1>3. CASE tmp[key] # 0
  <2> DEFINE r == [task[t] EXCEPT !.at = "swap"]
  <2>1. /\ task' = [task EXCEPT ![t] = r] /\ content' = content
        /\ file' = [file EXCEPT ![key] = tmp[key]] /\ tmp' = [tmp EXCEPT ![key] = 0]
    BY <1>3 DEF Rename, TmpPath
  <2>2. r.at = "swap"
    BY AtChanged
  <2>3. \A u \in Tasks : task'[u] = IF u = t THEN r ELSE task[u]
    BY <2>1 DEF Shape, Types
  <2>4. /\ \A k \in Runs : file'[k] = IF k = key THEN tmp[key] ELSE file[k]
        /\ \A k \in Runs : tmp'[k] = IF k = key THEN 0 ELSE tmp[k]
    BY <1>1, <2>1 DEF Shape, Types
  <2> HIDE DEF r, key
  <2>5. \A i \in Runs : i # 0
    BY DEF Runs
  <2>6. \A k, i \in Runs : Refers(k, i)' => Refers(k, i)
    BY <2>2, <2>3, <2>4, <2>5 DEF Refers, Writes
  <2>7. \A i \in Runs : Created(i) => Created(i)'
    BY CreatedKept
  <2>8. \A i, k, l \in Runs : tmp'[k] = i => file'[l] # i
    <3> SUFFICES ASSUME NEW i \in Runs, NEW k \in Runs, NEW l \in Runs, tmp'[k] = i, file'[l] = i
                 PROVE  FALSE
      OBVIOUS
    <3>1. k # key /\ tmp[k] = i
      BY <2>4, <2>5
    <3>2. l = key
      BY <2>4, <3>1 DEF Inodes
    <3>3. QED BY <1>1, <2>4, <3>1, <3>2 DEF Inodes, Refers
  <2>9. QED BY <2>1, <2>6, <2>7, <2>8 DEF Inodes
<1>4. QED BY <1>2, <1>3

LEMMA InodesStep == ASSUME Shape, Entered, Inodes, Next PROVE Inodes'
<1>1. ASSUME NEW t \in Tasks, NEW r, task' = [task EXCEPT ![t] = r], UNCHANGED disk,
             r.at \notin {"write", "rename"}
      PROVE  Inodes'
  <2>1. \A u \in Tasks : task'[u] = IF u = t THEN r ELSE task[u]
    BY <1>1 DEF Shape, Types
  <2>2. QED BY <1>1, <2>1, InodesKept
<1>2. ASSUME NEW p \in Pairs, \/ Begin(p) \/ Evict(p)
                              \/ \E j \in Indices, q \in {"good", "bad"} : Contribute(p, j, q)
      PROVE  Inodes'
  BY <1>2, InodesKept DEF Begin, Evict, Contribute
<1>3. ASSUME NEW t \in Tasks, NEW cid \in CeremonyIds, DkgFinalize(t, cid) \/ ReshareFinalize(t, cid)
      PROVE  Inodes'
  <2>1. PICK p \in Pairs, r \in AnyTask :
          /\ TakeFinalisable(t, p, r)
          /\ r = DkgTask(sessions[p].run) \/ r = OldTask(sessions[p].run)
    BY <1>3, Taken
  <2>2. r.at \notin {"write", "rename"}
    <3>1. CASE r = DkgTask(sessions[p].run)
      BY <3>1 DEF DkgTask, Persist
    <3>2. CASE r = OldTask(sessions[p].run)
      BY <3>2 DEF OldTask, Idle
    <3>3. QED BY <2>1, <3>1, <3>2
  <2>3. CASE task' = [task EXCEPT ![t] = Idle]
    BY <1>1, <2>1, <2>3, IdleType DEF TakeFinalisable
  <2>4. CASE task' = [task EXCEPT ![t] = r]
    BY <1>1, <2>1, <2>2, <2>4 DEF TakeFinalisable
  <2>5. QED BY <2>1, <2>3, <2>4 DEF TakeFinalisable
<1>4. ASSUME NEW t \in Tasks, ReadOldShare(t) PROVE Inodes'
  <2>1. OldRead(t).at \notin {"write", "rename"}
    BY <1>4, OldReadIs, IdleType DEF ReadOldShare, OldRead
  <2>2. QED BY <1>1, <1>4, <2>1, TaskSteps DEF ReadOldShare
<1>5. ASSUME NEW t \in Tasks, ReadMetadata(t) PROVE Inodes'
  <2>1. MetaRead(t).at \notin {"write", "rename"}
    BY <1>5, MetaReadIs DEF ReadMetadata, Persist
  <2>2. QED BY <1>1, <1>5, <2>1, TaskSteps DEF ReadMetadata
<1>6. ASSUME NEW t \in Tasks, Swap(t) PROVE Inodes'
  BY <1>1, <1>6, IdleType DEF Swap
<1>7. ASSUME NEW t \in Tasks, NEW k \in Runs, ReloadShare(t, k) PROVE Inodes'
  <2>1. [Idle EXCEPT !.at = "swap", !.record = Stored(k)].at = "swap"
    BY DEF Idle
  <2>2. QED BY <1>1, <1>7, <2>1 DEF ReloadShare
<1>8. ASSUME Crash PROVE Inodes'
  <2>1. UNCHANGED disk /\ \A t \in Tasks : task'[t] = Idle
    BY <1>8 DEF Crash
  <2>2. QED BY <2>1, IdleType, InodesKept
<1>9. QED
  BY <1>2, <1>3, <1>4, <1>5, <1>6, <1>7, <1>8, InodesOpen, InodesWrite, InodesRename, NextSplit DEF Shape

LEMMA InodesStutter == Inodes /\ UNCHANGED vars => Inodes'
BY DEF Inodes, Refers, Created, Used, Pending, Writes, vars

LEMMA InodesNamed == Shape /\ Inodes => FilesNamedRight
<1> SUFFICES ASSUME Shape, Inodes, NEW k \in Runs PROVE Stored(k).keyset \in {0, k}
  BY DEF FilesNamedRight
<1>1. CASE file[k] = 0
  BY <1>1, NoRecordType DEF Stored
<1>2. CASE file[k] # 0
  <2>1. file[k] \in Runs /\ Refers(k, file[k])
    BY <1>2 DEF Shape, Types, Runs, Refers
  <2>2. QED BY <1>2, <2>1 DEF Inodes, Stored
<1>3. QED BY <1>1, <1>2

LEMMA InitBase == Init => Base
BY InitShape, InitEntered, InitInodes DEF Base

LEMMA BaseStep == Base /\ [Next]_vars => Base'
BY ShapeStep, ShapeStutter, EnteredStep, EnteredStutter, InodesStep, InodesStutter DEF Base

\* A record file holds a record of the keyset it is named after or none that
\* can be read, whatever writers are at work (share_path, write_share_record):
\* two writers of one keyset may share a temporary file, two writers of
\* different keysets never do.
THEOREM SharesFilesNamedRight == Spec => []FilesNamedRight
<1>1. Base => FilesNamedRight
  BY InodesNamed DEF Base
<1>2. QED BY InitBase, BaseStep, <1>1, PTL DEF Spec

-----------------------------------------------------------------------------
(***************************************************************************)
(* Layer 4: Serial                                                         *)
(***************************************************************************)

LEMMA InitSerial == Init => Serial
<1> SUFFICES ASSUME Init PROVE Alone /\ (\A t \in Tasks : InHand(t)) /\ FilesSerial
  BY DEF Serial
<1>1. \A t \in Tasks : task[t] = Idle
  BY DEF Init
<1>2. Alone /\ \A t \in Tasks : InHand(t)
  BY <1>1, IdleType DEF Alone, InHand, Writes
<1>3. FilesSerial
  BY NoRecordType DEF Init, FilesSerial, Coherent, Loaded
<1>4. QED BY <1>2, <1>3

\* Nobody is at work but task t, when it is at work or has just begun alone.
OnlyOne(t) == \A u \in Tasks \ {t} : task[u] = Idle

\* A task at work is the only one.
LEMMA AloneAtWork ==
    ASSUME Alone, NEW t \in Tasks, task[t].at # "idle"
    PROVE  OnlyOne(t)
BY IdleType DEF Alone, OnlyOne

\* After a step of the only task at work the others have nothing in hand.
LEMMA OnlyOneStep ==
    ASSUME Shape, NEW t \in Tasks, OnlyOne(t), NEW r, task' = [task EXCEPT ![t] = r], InHand(t)'
    PROVE  Alone' /\ \A u \in Tasks : InHand(u)'
<1>1. task'[t] = r /\ \A u \in Tasks \ {t} : task'[u] = Idle
  BY DEF Shape, Types, OnlyOne
<1>2. \A u \in Tasks \ {t} : InHand(u)'
  BY <1>1, IdleType DEF InHand, Writes
<1>3. QED BY <1>1, <1>2 DEF Alone

\* What a file holds is what its inode holds.
LEMMA StoredFacts ==
    ASSUME Shape, Inodes, FilesSerial
    PROVE  /\ \A k \in Runs : Coherent(Stored(k))
           /\ \A k \in Runs : Stored(k).keyset # 0 => file[k] # 0 /\ Stored(k).keyset = k
           /\ \A k \in Runs : file[k] # 0 => Stored(k).keyset = k
<1>1. \A k \in Runs : Stored(k).keyset \in {0, k}
  BY InodesNamed DEF FilesNamedRight
<1>2. \A k \in Runs : file[k] # 0 => file[k] \in Runs /\ Stored(k) = content[file[k]]
  BY DEF Shape, Types, Stored, Runs
<1>3. \A k \in Runs : file[k] = 0 => Stored(k) = NoRecord
  BY DEF Stored
<1>4. QED BY <1>1, <1>2, <1>3, NoRecordType DEF FilesSerial, Coherent

\* Files that hold what they held.
LEMMA SameFiles ==
    ASSUME Shape, Shape', FilesSerial,
           memory' = memory, file' = file, \A i \in Runs : Coherent(content'[i]),
           \A k \in Runs : file[k] # 0 => content'[file[k]] = content[file[k]],
           (\A t \in Tasks : task'[t].at # "swap") => \A t \in Tasks : task[t].at # "swap"
    PROVE  FilesSerial' /\ \A k \in Runs : Stored(k)' = Stored(k)
<1>1. \A k \in Runs : Stored(k)' = Stored(k)
  BY DEF Stored
<1>2. memory.keyset # 0 => memory.keyset \in Runs
  BY DEF Shape, Types, AnyRecord, Runs
<1>3. Loaded => Stored(memory.keyset)' = Stored(memory.keyset)
  BY <1>2 DEF Loaded, Stored
<1>4. QED BY <1>1, <1>2, <1>3 DEF FilesSerial, Loaded

\* What the lemmas on single steps assume and establish.
Calm == Alone /\ (\A t \in Tasks : InHand(t)) /\ FilesSerial

\* The record of a new keyset is coherent.
LEMMA CoherentFresh == \A run : Coherent([keyset |-> run, epoch |-> 1, base |-> run, deltas |-> {}])
BY FS_EmptySet DEF Coherent

\* A task begins: the run of a DKG is pending, hence not the loaded keyset.
LEMMA SerialFinalize ==
    ASSUME Base, Base', Calm, NEW t \in Tasks, NEW cid \in CeremonyIds,
           DkgFinalize(t, cid) \/ ReshareFinalize(t, cid), ~overlapped'
    PROVE  Calm'
<1>1. PICK p \in Pairs, r \in AnyTask :
          /\ TakeFinalisable(t, p, r)
          /\ sessions[p].run \in Runs /\ r.run = sessions[p].run
          /\ r = DkgTask(sessions[p].run) \/ r = OldTask(sessions[p].run)
  BY Taken DEF Base
<1>2. /\ OnlyOne(t) /\ \A u \in Tasks : task[u] = Idle
      /\ memory' = memory /\ content' = content /\ file' = file /\ tmp' = tmp
  BY <1>1 DEF TakeFinalisable, Overlapping, OnlyOne, disk
<1>3. FilesSerial'
  BY <1>2, IdleType, SameFiles DEF Calm, Base, FilesSerial
<1>4. CASE task' = [task EXCEPT ![t] = Idle]
  <2>1. task'[t] = Idle
    BY <1>4 DEF Base, Shape, Types
  <2>2. InHand(t)'
    BY <2>1, IdleType DEF InHand, Writes
  <2>3. QED BY <1>2, <1>3, <1>4, <2>2, OnlyOneStep DEF Calm, Base
<1>5. CASE task' = [task EXCEPT ![t] = r]
  <2>1. task'[t] = r
    BY <1>5 DEF Base, Shape, Types
  <2>2. CASE r = OldTask(sessions[p].run)
    <3>1. r.at = "old"
      BY <2>2 DEF OldTask, Idle
    <3>2. InHand(t)'
      BY <2>1, <3>1 DEF InHand, Writes
    <3>3. QED BY <1>2, <1>3, <1>5, <3>2, OnlyOneStep DEF Calm, Base
  <2>3. CASE r = DkgTask(sessions[p].run)
    <3>1. /\ r.at = Persist
          /\ r.record = [keyset |-> sessions[p].run, epoch |-> 1, base |-> sessions[p].run, deltas |-> {}]
      BY <2>3 DEF DkgTask
    <3>2. Persist \in {"open", "swap"} /\ (Persist = "swap" => ~Seeded)
      BY CommitteeAssumption DEF Persist
    <3>3. r.record.keyset # memory.keyset
      <4>1. sessions[p].run \notin Used \cup {0}
        BY <1>1 DEF Used, Pending, Runs
      <4>2. memory.keyset \in Used \cup {0}
        BY DEF Base, Entered, MadeOf
      <4>3. r.record.keyset = sessions[p].run
        BY <3>1
      <4>4. QED BY <4>1, <4>2, <4>3
    <3>4. Coherent(r.record)
      BY <3>1, CoherentFresh
    <3>5. InHand(t)'
      BY <1>2, <2>1, <3>1, <3>2, <3>3, <3>4 DEF InHand, Writes, Coherent
    <3>6. QED BY <1>2, <1>3, <1>5, <3>5, OnlyOneStep DEF Calm, Base
  <2>4. QED BY <1>1, <2>2, <2>3
<1>6. QED BY <1>1, <1>4, <1>5 DEF TakeFinalisable

\* The old share is read, and nothing can come in between it and ...
LEMMA SerialReadOld ==
    ASSUME Base, Base', Calm, NEW t \in Tasks, ReadOldShare(t)
    PROVE  Calm'
<1>1. /\ task[t].at = "old" /\ task' = [task EXCEPT ![t] = OldRead(t)]
      /\ memory' = memory /\ content' = content /\ file' = file /\ tmp' = tmp
  BY TaskSteps DEF ReadOldShare, disk, Base
<1>2. OnlyOne(t)
  BY <1>1, AloneAtWork DEF Calm
<1>3. \A u \in Tasks : task[u].at # "swap"
  BY <1>1, <1>2, IdleType DEF OnlyOne
<1>4. FilesSerial'
  BY <1>1, <1>3, SameFiles DEF Calm, Base, FilesSerial
<1>5. task'[t] = OldRead(t)
  BY <1>1 DEF Base, Shape, Types
<1>6. InHand(t)'
  <2>1. CASE Loaded
    <3>1. /\ OldRead(t).at = "meta" /\ OldRead(t).run = task[t].run
          /\ OldRead(t).record = [memory EXCEPT !.deltas = @ \cup {task[t].run}]
      BY <1>1, <2>1, OldReadIs DEF Base
    <3>2. QED BY <1>1, <1>5, <3>1 DEF InHand, Writes
  <2>2. CASE ~Loaded
    BY <1>5, <2>2, IdleType DEF InHand, Writes, OldRead
  <2>3. QED BY <2>1, <2>2
<1>7. QED BY <1>1, <1>2, <1>4, <1>6, OnlyOneStep DEF Calm, Base

\* ... the metadata: the run added was in no record, so the deltas grow by
\* one as the epoch does.
LEMMA SerialReadMetadata ==
    ASSUME Base, Base', Calm, NEW t \in Tasks, ReadMetadata(t)
    PROVE  Calm'
<1>1. /\ task[t].at = "meta" /\ task' = [task EXCEPT ![t] = MetaRead(t)] /\ Loaded
      /\ memory' = memory /\ content' = content /\ file' = file /\ tmp' = tmp
  BY TaskSteps DEF ReadMetadata, disk, Base
<1>2. OnlyOne(t)
  BY <1>1, AloneAtWork DEF Calm
<1>3. \A u \in Tasks : task[u].at # "swap"
  BY <1>1, <1>2, IdleType DEF OnlyOne
<1>4. FilesSerial'
  BY <1>1, <1>3, SameFiles DEF Calm, Base, FilesSerial
<1>5. task'[t] = MetaRead(t)
  BY <1>1 DEF Base, Shape, Types
<1>6. memory \in AnyRecord /\ task[t].run \in Runs /\ task[t].run <= runs
  BY <1>1 DEF Base, Shape, Types, TaskSound, RunsApart, HasRun, AnyTask, Runs
<1>7. task[t].run \notin memory.deltas /\ IsFiniteSet(memory.deltas)
  <2>1. memory.deltas \subseteq Used /\ IsFiniteSet(Used)
    BY UsedFinite DEF Base, Entered, MadeOf
  <2>2. task[t].run \notin Used
    BY <1>1 DEF Used, Pending
  <2>3. QED BY <2>1, <2>2, FS_Subset
<1>8. task[t].record.base = memory.base /\ task[t].record.deltas = memory.deltas \cup {task[t].run}
  BY <1>1, <1>6 DEF Calm, InHand, AnyRecord
<1>9. /\ memory.base = memory.keyset /\ Cardinality(memory.deltas) = memory.epoch - 1
      /\ memory.epoch \in Nat
  BY <1>1, <1>6 DEF Calm, FilesSerial, Coherent, Loaded, AnyRecord
<1>10. Cardinality(memory.deltas \cup {task[t].run}) = memory.epoch
  <2>1. Cardinality(memory.deltas \cup {task[t].run}) = Cardinality(memory.deltas) + 1
    BY <1>7, FS_AddElement
  <2>2. QED BY <1>9, <2>1
<1>11. /\ MetaRead(t).at = Persist
       /\ MetaRead(t).record.keyset = memory.keyset
       /\ MetaRead(t).record.epoch = memory.epoch + 1
       /\ MetaRead(t).record.base = memory.base
       /\ MetaRead(t).record.deltas = memory.deltas \cup {task[t].run}
  BY <1>1, <1>8, MetaReadIs DEF Base
<1>12. Coherent(MetaRead(t).record)
  BY <1>9, <1>10, <1>11 DEF Coherent
<1>13. Persist \in {"open", "swap"} /\ (Persist = "swap" => ~Seeded)
  BY CommitteeAssumption DEF Persist
<1>14. InHand(t)'
  <2>1. task'[t].at \in {"open", "swap"} /\ task'[t].at = Persist
    BY <1>5, <1>11, <1>13
  <2>2. Coherent(task'[t].record)
    BY <1>5, <1>12
  <2>3. task'[t].record.epoch >= memory'.epoch
    BY <1>1, <1>5, <1>9, <1>11
  <2>4. QED BY <1>13, <2>1, <2>2, <2>3 DEF InHand, Writes
<1>15. QED BY <1>1, <1>2, <1>4, <1>14, OnlyOneStep DEF Calm, Base

\* The temporary file is nobody's record file.
LEMMA SerialOpen ==
    ASSUME Base, Base', Calm, NEW t \in Tasks, OpenTmp(t)
    PROVE  Calm'
<1>1. /\ task[t].at = "open" /\ memory' = memory /\ file' = file
      /\ task' = [task EXCEPT ![t] = Opened(t)]
      /\ content' = [content EXCEPT ![TmpInode(t)] = NoRecord]
      /\ tmp' = [tmp EXCEPT ![task[t].record.keyset] = TmpInode(t)]
  BY TaskSteps DEF OpenTmp, Base
<1>2. OnlyOne(t)
  BY <1>1, AloneAtWork DEF Calm
<1>3. \A u \in Tasks : task[u].at # "swap"
  BY <1>1, <1>2, IdleType DEF OnlyOne
<1>4. task'[t] = Opened(t)
  BY <1>1 DEF Base, Shape, Types
<1>5. /\ TmpInode(t) \in Runs /\ task[t].record.keyset \in Runs
      /\ Opened(t).at = "write" /\ Opened(t).fd = TmpInode(t) /\ Opened(t).record = task[t].record
  BY <1>1, OpenedIs DEF Base
<1>6. /\ \A i \in Runs : content'[i] = IF i = TmpInode(t) THEN NoRecord ELSE content[i]
      /\ tmp'[task[t].record.keyset] = TmpInode(t)
  BY <1>1, <1>5 DEF Base, Shape, Types
<1>7. \A l \in Runs : file[l] # TmpInode(t)
  BY <1>1, <1>5, <1>6 DEF Base, Inodes
<1>8. \A k \in Runs : file[k] # 0 => content'[file[k]] = content[file[k]]
  BY <1>6, <1>7 DEF Base, Shape, Types, Runs
<1>9. \A i \in Runs : Coherent(content'[i])
  BY <1>6, NoRecordType DEF Calm, FilesSerial, Coherent
<1>10. FilesSerial'
  BY <1>1, <1>3, <1>8, <1>9, SameFiles DEF Calm, Base
<1>11. InHand(t)'
  <2>1. /\ task'[t].at = "write" /\ task'[t].record = task[t].record
        /\ tmp'[task'[t].record.keyset] = task'[t].fd
    BY <1>4, <1>5, <1>6
  <2>2. Coherent(task[t].record) /\ (task[t].record.keyset = memory.keyset => task[t].record.epoch >= memory.epoch)
    BY <1>1 DEF Calm, InHand
  <2>3. QED BY <1>1, <2>1, <2>2 DEF InHand, Writes
<1>12. QED BY <1>1, <1>2, <1>10, <1>11, OnlyOneStep DEF Calm, Base

\* What is written stays out of the record files ...
LEMMA SerialWrite ==
    ASSUME Base, Base', Calm, NEW t \in Tasks, WriteTmp(t)
    PROVE  Calm'
<1> DEFINE r == [task[t] EXCEPT !.at = "rename"]
<1>1. /\ task[t].at = "write" /\ memory' = memory /\ file' = file /\ tmp' = tmp
      /\ task' = [task EXCEPT ![t] = r]
      /\ content' = [content EXCEPT ![task[t].fd] = task[t].record]
  BY TaskSteps DEF WriteTmp, Base
<1>2. r.at = "rename" /\ r.fd = task[t].fd /\ r.record = task[t].record
  BY AtChanged DEF Base
<1> HIDE DEF r
<1>3. OnlyOne(t)
  BY <1>1, AloneAtWork DEF Calm
<1>4. \A u \in Tasks : task[u].at # "swap"
  BY <1>1, <1>3, IdleType DEF OnlyOne
<1>5. task'[t] = r
  BY <1>1 DEF Base, Shape, Types
<1>6. /\ task[t].fd \in Runs /\ task[t].record.keyset \in Runs /\ tmp[task[t].record.keyset] = task[t].fd
      /\ Coherent(task[t].record)
      /\ task[t].record.keyset = memory.keyset => task[t].record.epoch >= memory.epoch
  <2>1. task[t].fd \in Runs /\ task[t].record.keyset \in Runs
    BY <1>1 DEF Base, Shape, Types, TaskSound, AnyTask, AnyRecord, Runs
  <2>2. QED BY <1>1, <2>1 DEF Calm, InHand, Writes
<1>7. \A i \in Runs : content'[i] = IF i = task[t].fd THEN task[t].record ELSE content[i]
  BY <1>1, <1>6 DEF Base, Shape, Types
<1>8. \A l \in Runs : file[l] # task[t].fd
  BY <1>6 DEF Base, Inodes
<1>9. \A k \in Runs : file[k] # 0 => content'[file[k]] = content[file[k]]
  BY <1>7, <1>8 DEF Base, Shape, Types, Runs
<1>10. \A i \in Runs : Coherent(content'[i])
  BY <1>6, <1>7 DEF Calm, FilesSerial
<1>11. FilesSerial'
  BY <1>1, <1>4, <1>9, <1>10, SameFiles DEF Calm, Base
<1>12. InHand(t)'
  <2>1. /\ task'[t].at = "rename" /\ task'[t].record = task[t].record /\ task'[t].fd = task[t].fd
        /\ content'[task[t].fd] = task[t].record
    BY <1>2, <1>5, <1>6, <1>7
  <2>2. QED BY <1>1, <1>6, <2>1 DEF InHand, Writes
<1>13. QED BY <1>1, <1>3, <1>11, <1>12, OnlyOneStep DEF Calm, Base

\* ... until it is complete and takes the place of one.
LEMMA SerialRename ==
    ASSUME Base, Base', Calm, NEW t \in Tasks, Rename(t)
    PROVE  Calm'
<1> DEFINE r == [task[t] EXCEPT !.at = "swap"]
           key == task[t].record.keyset
<1>1. task[t].at = "rename" /\ memory' = memory /\ content' = content
  BY DEF Rename
<1>2. /\ key \in Runs /\ task[t].fd \in Runs /\ task[t].fd # 0 /\ tmp[key] = task[t].fd
      /\ Coherent(task[t].record) /\ content[task[t].fd] = task[t].record
  <2>1. key \in Runs /\ task[t].fd \in Runs /\ task[t].fd # 0
    BY <1>1 DEF Base, Shape, Types, TaskSound, AnyTask, AnyRecord, Runs
  <2>2. QED BY <1>1, <2>1 DEF Calm, InHand, Writes
<1>3. task' = [task EXCEPT ![t] = r] /\ file' = [file EXCEPT ![key] = task[t].fd]
  BY <1>2 DEF Rename, TmpPath
<1>4. r.at = "swap" /\ r.fd = task[t].fd /\ r.record = task[t].record
  BY AtChanged DEF Base
<1>5. task'[t] = r
  BY <1>3 DEF Base, Shape, Types
<1> HIDE DEF r
<1>6. OnlyOne(t)
  BY <1>1, AloneAtWork DEF Calm
<1>7. \A k \in Runs : file'[k] = IF k = key THEN task[t].fd ELSE file[k]
  BY <1>2, <1>3 DEF Base, Shape, Types
<1>8. \A k \in Runs : Stored(k)' = IF k = key THEN task[t].record ELSE Stored(k)
  BY <1>1, <1>2, <1>7 DEF Stored
<1>9. InHand(t)'
  <2>1. task'[t].at = "swap" /\ task'[t].record = task[t].record
    BY <1>4, <1>5
  <2>2. Stored(task[t].record.keyset)' = task[t].record
    BY <1>1, <1>2, <1>7, <2>1 DEF Stored
  <2>3. task[t].record.keyset = memory.keyset => task[t].record.epoch >= memory.epoch
    BY <1>1 DEF Calm, InHand
  <2>4. QED BY <1>1, <1>2, <2>1, <2>2, <2>3 DEF InHand, Writes
<1>10. FilesSerial'
  <2>1. \A k \in Runs : file'[k] # 0 => content'[file'[k]].keyset # 0
    <3>1. task[t].record.keyset # 0
      BY <1>1 DEF Base, Shape, TaskSound
    <3>2. QED BY <1>1, <1>2, <1>7, <3>1 DEF Calm, FilesSerial
  <2>2. Coherent(memory)' /\ \A i \in Runs : Coherent(content'[i])
    BY <1>1 DEF Calm, FilesSerial, Coherent
  <2>3. ~(\A u \in Tasks : task'[u].at # "swap")
    BY <1>4, <1>5
  <2>4. ASSUME Seeded, Loaded'
        PROVE  file'[memory.keyset] # 0 /\ Stored(memory.keyset)'.epoch >= memory.epoch
    <3>1. memory.keyset \in Runs /\ Loaded
      BY <1>1, <2>4 DEF Base, Shape, Types, AnyRecord, Runs, Loaded
    <3>2. PICK m \in Runs : m = memory.keyset
      BY <3>1
    <3>3. Stored(memory.keyset)' = Stored(m)'
      BY <1>1, <3>2 DEF Stored
    <3>4. CASE m = key
      BY <1>1, <1>2, <1>7, <1>8, <3>2, <3>3, <3>4 DEF Calm, InHand
    <3>5. CASE m # key
      <4>1. file[m] # 0 /\ Stored(m).epoch >= memory.epoch
        BY <2>4, <3>1, <3>2 DEF Calm, FilesSerial
      <4>2. QED BY <1>1, <1>7, <1>8, <3>2, <3>3, <3>5, <4>1
    <3>6. QED BY <3>4, <3>5
  <2>5. QED BY <1>1, <2>1, <2>2, <2>3, <2>4 DEF FilesSerial, Coherent
<1>11. QED BY <1>3, <1>6, <1>9, <1>10, OnlyOneStep DEF Calm, Base

\* The record swapped in is the one in the file.
LEMMA SerialSwap ==
    ASSUME Base, Base', Calm, NEW t \in Tasks, Swap(t)
    PROVE  Calm'
<1>1. /\ task[t].at = "swap" /\ memory' = task[t].record /\ task' = [task EXCEPT ![t] = Idle]
      /\ content' = content /\ file' = file /\ tmp' = tmp
  BY DEF Swap, disk
<1>2. OnlyOne(t)
  BY <1>1, AloneAtWork DEF Calm
<1>3. task'[t] = Idle
  BY <1>1 DEF Base, Shape, Types
<1>4. InHand(t)'
  BY <1>3, IdleType DEF InHand, Writes
<1>5. /\ Coherent(task[t].record) /\ (Seeded => task[t].record = Stored(task[t].record.keyset))
      /\ task[t].record.keyset # 0
  BY <1>1 DEF Calm, InHand, Base, Shape, TaskSound
<1>6. task[t].record.keyset \in Runs /\ task[t].record.epoch \in Nat
  BY <1>5 DEF Base, Shape, Types, AnyTask, AnyRecord, Runs
<1>7. Seeded => file[task[t].record.keyset] # 0
  BY <1>5, NoRecordType DEF Stored
<1>8. Stored(memory.keyset)' = Stored(task[t].record.keyset)
  BY <1>1 DEF Stored
<1>9. Seeded => /\ file'[memory'.keyset] # 0
                /\ Stored(memory.keyset)'.epoch >= memory'.epoch
                /\ memory' = Stored(memory.keyset)'
  BY <1>1, <1>5, <1>6, <1>7, <1>8
<1>10. /\ Coherent(memory') /\ \A i \in Runs : Coherent(content'[i])
       /\ \A k \in Runs : file'[k] # 0 => content'[file'[k]].keyset # 0
  BY <1>1, <1>5 DEF Calm, FilesSerial
<1>11. FilesSerial'
  BY <1>9, <1>10 DEF FilesSerial
<1>12. QED BY <1>1, <1>2, <1>4, <1>11, OnlyOneStep DEF Calm, Base

\* What a reload reads is at least as new as what is loaded.
LEMMA SerialReload ==
    ASSUME Base, Base', Calm, NEW t \in Tasks, NEW k \in Runs, ReloadShare(t, k), ~overlapped'
    PROVE  Calm'
<1> DEFINE r == [Idle EXCEPT !.at = "swap", !.record = Stored(k)]
<1>1. /\ OnlyOne(t) /\ task' = [task EXCEPT ![t] = r] /\ Seeded /\ Stored(k).keyset # 0
      /\ memory' = memory /\ content' = content /\ file' = file /\ tmp' = tmp
  BY DEF ReloadShare, Readable, Overlapping, OnlyOne, disk
<1>2. r.at = "swap" /\ r.record = Stored(k)
  BY DEF Idle
<1> HIDE DEF r
<1>3. task'[t] = r
  BY <1>1 DEF Base, Shape, Types
<1>4. Coherent(Stored(k)) /\ Stored(k).keyset = k
  BY <1>1, StoredFacts DEF Calm, Base
<1>5. FilesSerial'
  BY <1>1, <1>2, <1>3, SameFiles DEF Calm, Base, FilesSerial
<1>6. InHand(t)'
  <2>1. task'[t].at = "swap" /\ task'[t].record = Stored(k) /\ Coherent(task'[t].record)
    BY <1>2, <1>3, <1>4
  <2>2. Stored(task[t].record.keyset)' = Stored(k)
    BY <1>1, <1>4, <2>1 DEF Stored
  <2>3. k = memory.keyset => Stored(k).epoch >= memory.epoch
    BY <1>1, <1>4, NoRecordType DEF Calm, FilesSerial, Loaded, Runs
  <2>4. QED BY <1>1, <1>4, <2>1, <2>2, <2>3 DEF InHand, Writes
<1>7. QED BY <1>1, <1>5, <1>6, OnlyOneStep DEF Calm, Base

\* A restart loads what is in a file.
LEMMA SerialCrash == ASSUME Base, Base', Calm, Crash PROVE Calm'
<1>1. /\ \A t \in Tasks : task'[t] = Idle
      /\ content' = content /\ file' = file /\ tmp' = tmp
  BY DEF Crash, disk
<1>2. Alone' /\ \A t \in Tasks : InHand(t)'
  BY <1>1, IdleType DEF Alone, InHand, Writes
<1>3. CASE memory' = NoRecord
  <2>1. Coherent(memory')
    BY <1>3, NoRecordType DEF Coherent
  <2>2. ~Loaded'
    BY <1>3, NoRecordType DEF Loaded
  <2>3. FilesSerial'
    BY <1>1, <2>1, <2>2 DEF Calm, FilesSerial
  <2>4. QED BY <1>2, <2>3 DEF Calm
<1>4. CASE \E k \in Readable : memory' = Stored(k)
  <2>1. PICK k \in Runs : memory' = Stored(k) /\ Stored(k).keyset # 0
    BY <1>4 DEF Readable
  <2>2. Coherent(Stored(k)) /\ Stored(k).keyset = k /\ file[k] # 0 /\ Stored(k).epoch \in Nat
    BY <2>1, StoredFacts, StoredType DEF Calm, Base, Shape, AnyRecord
  <2>3. Stored(memory.keyset)' = Stored(k)
    BY <1>1, <2>1, <2>2 DEF Stored
  <2>4. /\ Coherent(memory') /\ file'[memory'.keyset] # 0
        /\ Stored(memory.keyset)'.epoch >= memory'.epoch
        /\ memory' = Stored(memory.keyset)'
    BY <1>1, <2>1, <2>2, <2>3
  <2>5. /\ \A i \in Runs : Coherent(content'[i])
        /\ \A l \in Runs : file'[l] # 0 => content'[file'[l]].keyset # 0
    BY <1>1 DEF Calm, FilesSerial
  <2>6. FilesSerial'
    BY <2>4, <2>5 DEF FilesSerial
  <2>7. QED BY <1>2, <2>6 DEF Calm
<1>5. QED BY <1>3, <1>4 DEF Crash

\* Once two tasks have overlapped, they have.
LEMMA OverlappedStays == ASSUME Base, Next, ~overlapped' PROVE ~overlapped
<1>1. \A t \in Tasks : ~Overlapping(t) => ~overlapped
  BY DEF Overlapping
<1>2. ASSUME NEW t \in Tasks, NEW cid \in CeremonyIds, DkgFinalize(t, cid) \/ ReshareFinalize(t, cid)
      PROVE  ~overlapped
  BY <1>1, <1>2 DEF DkgFinalize, ReshareFinalize, TakeFinalisable
<1>3. ASSUME NEW t \in Tasks, NEW k \in Runs, ReloadShare(t, k) PROVE ~overlapped
  BY <1>1, <1>3 DEF ReloadShare
<1>4. QED
  BY <1>2, <1>3, NextSplit DEF Base, Shape, Begin, Contribute, Evict, ReadOldShare, ReadMetadata, OpenTmp,
     WriteTmp, Rename, Swap, Crash

LEMMA SerialStep == ASSUME IInv, Next PROVE Serial'
<1> SUFFICES ASSUME ~overlapped' PROVE Calm'
  BY DEF Serial, Calm
<1>1. Base /\ Base' /\ Calm
  BY OverlappedStays, BaseStep DEF IInv, Serial, Calm
<1>2. ASSUME NEW p \in Pairs, \/ Begin(p) \/ Evict(p)
                              \/ \E j \in Indices, q \in {"good", "bad"} : Contribute(p, j, q)
      PROVE  Calm'
  BY <1>1, <1>2 DEF Begin, Evict, Contribute, disk, Calm, Alone, InHand, Writes, FilesSerial, Coherent,
     Loaded, Stored
<1>3. Types
  BY <1>1 DEF Base, Shape
<1>4. QED
  BY <1>1, <1>2, <1>3, NextSplit, SerialFinalize, SerialReadOld, SerialReadMetadata, SerialOpen, SerialWrite,
     SerialRename, SerialSwap, SerialReload, SerialCrash

LEMMA InitIInv == Init => IInv
BY InitBase, InitSerial DEF IInv

LEMMA IInvStep == IInv /\ [Next]_vars => IInv'
<1>1. Serial /\ UNCHANGED vars => Serial'
  BY DEF vars, Serial, Alone, InHand, Writes, FilesSerial, Coherent, Loaded, Stored
<1>2. QED BY <1>1, BaseStep, SerialStep DEF IInv

-----------------------------------------------------------------------------
(***************************************************************************)
(* The theorems of layer 4                                                 *)
(***************************************************************************)

\* As long as finalize and reload requests come one after the other, every
\* record in memory or in a file counts the reshares that went into it and
\* names the DKG it comes from (reshare_finalize_handler).
THEOREM SharesSerialRecordsCoherent == Spec => []SerialRecordsCoherent
<1>1. ASSUME IInv, ~overlapped PROVE RecordsCoherent
  BY <1>1, StoredFacts DEF IInv, Base, Serial, FilesSerial, RecordsCoherent
<1>2. IInv => SerialRecordsCoherent
  BY <1>1 DEF SerialRecordsCoherent
<1>3. QED BY InitIInv, IInvStep, <1>2, PTL DEF Spec

\* With one writer at a time a record file, once there, can be read at any
\* moment (write_share_record): the temporary file being written is never the
\* inode of a record file.
THEOREM SharesStoredReadable == Spec => []StoredShareReadable
<1>1. IInv => StoredShareReadable
  BY StoredFacts DEF IInv, Base, Serial, StoredShareReadable, Runs
<1>2. QED BY InitIInv, IInvStep, <1>1, PTL DEF Spec

\* With one request at a time, and while none is being served, the loaded
\* record is the stored one (dkg_finalize_handler, reshare_finalize_handler,
\* admin_reload_share).
THEOREM SharesMemoryIsStored == Spec => []MemoryIsStored
<1>1. IInv => MemoryIsStored
  BY IdleType DEF IInv, Serial, FilesSerial, MemoryIsStored
<1>2. QED BY InitIInv, IInvStep, <1>1, PTL DEF Spec

\* With one request at a time the loaded share never goes back to an earlier
\* epoch of its keyset: only the end of a request and a restart load a record,
\* and what they load is in the record file, whose epoch never goes back.
THEOREM SharesNoRollback == Spec => NoRollback
<1> DEFINE Forward == Loaded /\ Seeded /\ ~overlapped' /\ memory'.keyset = memory.keyset =>
                          memory'.epoch >= memory.epoch
<1>1. ASSUME IInv, Next PROVE Forward
  <2> SUFFICES ASSUME Loaded, Seeded, ~overlapped', memory'.keyset = memory.keyset
               PROVE  memory'.epoch >= memory.epoch
    OBVIOUS
  <2>1. Base /\ Calm /\ Types
    BY <1>1, OverlappedStays DEF IInv, Base, Shape, Serial, Calm
  <2>2. memory.epoch \in Nat
    BY <2>1 DEF Types, AnyRecord
  <2>3. CASE memory' = memory
    BY <2>2, <2>3
  <2>4. ASSUME NEW t \in Tasks, Swap(t) PROVE memory'.epoch >= memory.epoch
    BY <2>1, <2>4 DEF Swap, Calm, InHand
  <2>5. ASSUME Crash PROVE memory'.epoch >= memory.epoch
    <3>1. PICK k \in Runs : memory' = Stored(k) /\ Stored(k).keyset # 0
      BY <2>5, NoRecordType DEF Crash, Readable, Loaded
    <3>2. k = memory.keyset
      BY <2>1, <3>1, StoredFacts DEF Base, Calm
    <3>3. QED BY <2>1, <3>1, <3>2 DEF Calm, FilesSerial
  <2>6. QED
    BY <1>1, <2>1, <2>3, <2>4, <2>5, NextSplit DEF Begin, Contribute, Evict, DkgFinalize, ReshareFinalize,
       TakeFinalisable, ReadOldShare, ReadMetadata, OpenTmp, WriteTmp, Rename, ReloadShare
<1>2. IInv /\ [Next]_vars => [Forward]_vars
  BY <1>1
<1>3. QED BY InitIInv, IInvStep, <1>2, PTL DEF Spec, NoRollback
=============================================================================
