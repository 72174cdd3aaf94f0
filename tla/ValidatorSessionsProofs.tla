---------------------- MODULE ValidatorSessionsProofs ----------------------
(***************************************************************************)
(* Proofs about ValidatorSessions, for every number of tasks, sessions,    *)
(* shares, nonces and crashes.                                             *)
(***************************************************************************)
EXTENDS ValidatorSessions, TLAPS

Pairs == Kinds \X SessionIds

\* What a task carries once it has been given a request.
TaskSound ==
    \A t \in Tasks :
        /\ task[t].at # "idle" => task[t].kind \in Kinds /\ task[t].sid \in SessionIds
        /\ task[t].at = "insert" => task[t].share \in Shares /\ task[t].nonce # 0
        /\ task[t].at \in {"share", "take"} => task[t].c \in Challenges
        /\ task[t].at = "take" => task[t].share \in Shares

\* A session in flight was started under a share.
EntrySound == \A p \in Pairs : InFlight(p) => sessions[p].share \in Shares

\* Every nonce in use has been sampled.
NoncesSampled ==
    /\ \A p \in Pairs : sessions[p].nonce <= nonces
    /\ \A t \in Tasks : task[t].at = "insert" => task[t].nonce <= nonces
    /\ \A a \in answers : a.nonce <= nonces

\* A nonce is in one place only: with the task that sampled it, in one
\* session, or in an answer.
NoncePlaced ==
    /\ \A p, q \in Pairs : InFlight(p) /\ sessions[p].nonce = sessions[q].nonce => p = q
    /\ \A t, u \in Tasks :
          task[t].at = "insert" /\ task[u].at = "insert" /\ task[t].nonce = task[u].nonce => t = u
    /\ \A t \in Tasks, p \in Pairs : task[t].at = "insert" => task[t].nonce # sessions[p].nonce
    /\ \A a \in answers, p \in Pairs : a.nonce # sessions[p].nonce
    /\ \A a \in answers, t \in Tasks : task[t].at = "insert" => a.nonce # task[t].nonce

\* A task past the guard carries a coin that is finalized.
TaskMelted ==
    Guarded => \A t \in Tasks :
        task[t].at \in {"share", "take"} /\ task[t].kind = "refresh" => task[t].coin \in finalized

IInv ==
    /\ TypeOK /\ TaskSound /\ EntrySound /\ NoncesSampled /\ NoncePlaced
    /\ NonceUsedOnce /\ TaskMelted /\ RefreshAfterMelt

LEMMA IdleType == Idle \in Task /\ Idle.at = "idle"
BY DEF Idle, Task

LEMMA EmptyType == Empty \in Entry /\ Empty.nonce = 0
BY DEF Empty, Entry

LEMMA InitIInv == Init => IInv
<1> SUFFICES ASSUME Init PROVE IInv
  OBVIOUS
<1>1. /\ \A t \in Tasks : task[t] = Idle
      /\ \A p \in Pairs : sessions[p] = Empty
      /\ answers = {} /\ nonces = 0
  BY DEF Init, Pairs
<1>2. TypeOK
  BY IdleType, EmptyType DEF Init, TypeOK
<1>3. TaskSound /\ TaskMelted
  BY <1>1, IdleType DEF TaskSound, TaskMelted
<1>4. EntrySound /\ NoncesSampled /\ NoncePlaced
  BY <1>1, IdleType, EmptyType DEF EntrySound, NoncesSampled, NoncePlaced, InFlight
<1>5. NonceUsedOnce /\ RefreshAfterMelt
  BY <1>1 DEF NonceUsedOnce, RefreshAfterMelt
<1>6. QED BY <1>2, <1>3, <1>4, <1>5 DEF IInv

\* A step that changes one task only, to a task that holds no nonce.
LEMMA TaskStep ==
    ASSUME IInv, NEW t \in Tasks, NEW r \in Task, r.at # "insert",
           task' = [task EXCEPT ![t] = r],
           UNCHANGED <<share, sessions, finalized, nonces, lives, answers>>,
           r.at # "idle" => r.kind \in Kinds /\ r.sid \in SessionIds /\ r.c \in Challenges,
           r.at = "take" => r.share \in Shares,
           r.at \in {"share", "take"} /\ r.kind = "refresh" /\ Guarded => r.coin \in finalized
    PROVE  IInv'
<1>1. TypeOK /\ task \in [Tasks -> Task]
  BY DEF IInv, TypeOK
<1>2. \A u \in Tasks : task'[u] = IF u = t THEN r ELSE task[u]
  BY <1>1
<1>3. TypeOK'
  BY <1>1 DEF TypeOK
<1>4. TaskSound'
  BY <1>2 DEF IInv, TaskSound
<1>5. EntrySound'
  BY DEF IInv, EntrySound, InFlight
<1>6. NoncesSampled'
  BY <1>2 DEF IInv, NoncesSampled
<1>7. NoncePlaced'
  BY <1>2 DEF IInv, NoncePlaced, InFlight
<1>8. TaskMelted'
  BY <1>2 DEF IInv, TaskMelted
<1>9. NonceUsedOnce' /\ RefreshAfterMelt'
  BY DEF IInv, NonceUsedOnce, RefreshAfterMelt
<1>10. QED BY <1>3, <1>4, <1>5, <1>6, <1>7, <1>8, <1>9 DEF IInv

LEMMA Round1IInv ==
    ASSUME IInv, NEW t \in Tasks, NEW kind \in Kinds, NEW sid \in SessionIds,
           NEW kappa \in Nat, Round1(t, kind, sid, kappa)
    PROVE  IInv'
<1> DEFINE r == Starting(kind, sid, nonces + 1, kappa)
<1>1. TypeOK /\ task \in [Tasks -> Task] /\ nonces \in Nat /\ share \in Shares
  BY DEF IInv, TypeOK, Round1
<1>2. task' = [task EXCEPT ![t] = r]
  BY DEF Round1
<1>3. r \in Task
  BY <1>1 DEF Task, Starting
<1>4. /\ nonces' = nonces + 1
      /\ UNCHANGED <<share, sessions, finalized, lives, answers>>
  BY DEF Round1
<1>5. \A u \in Tasks : task'[u] = IF u = t THEN r ELSE task[u]
  BY <1>1, <1>2
<1>6. \A p \in Pairs : sessions[p].nonce \in Nat /\ sessions[p].nonce <= nonces
  BY DEF IInv, TypeOK, Pairs, Entry, NoncesSampled
<1>7. \A u \in Tasks : task[u].nonce \in Nat /\ (task[u].at = "insert" => task[u].nonce <= nonces)
  BY DEF IInv, TypeOK, Task, NoncesSampled
<1>8. \A a \in answers : a.nonce \in Nat /\ a.nonce <= nonces
  BY DEF IInv, TypeOK, PartialSignature, NoncesSampled
<1>9. r.nonce = nonces + 1 /\ r.at = "insert" /\ r.kind = kind /\ r.sid = sid /\ r.share = share
  BY DEF Starting
<1> HIDE DEF r
<1>10. TypeOK'
  BY <1>1, <1>2, <1>3, <1>4 DEF TypeOK
<1>11. TaskSound'
  BY <1>1, <1>5, <1>9 DEF IInv, TaskSound
<1>12. EntrySound'
  BY <1>4 DEF IInv, EntrySound, InFlight
<1>13. NoncesSampled'
  BY <1>1, <1>4, <1>5, <1>6, <1>7, <1>8, <1>9 DEF NoncesSampled
<1>14. NoncePlaced'
  BY <1>1, <1>4, <1>5, <1>6, <1>7, <1>8, <1>9 DEF IInv, NoncePlaced, InFlight
<1>15. TaskMelted'
  BY <1>4, <1>5, <1>9 DEF IInv, TaskMelted
<1>16. NonceUsedOnce' /\ RefreshAfterMelt'
  BY <1>4 DEF IInv, NonceUsedOnce, RefreshAfterMelt
<1>17. QED BY <1>10, <1>11, <1>12, <1>13, <1>14, <1>15, <1>16 DEF IInv

LEMMA InsertIInv ==
    ASSUME IInv, NEW t \in Tasks, Insert(t)
    PROVE  IInv'
<1> DEFINE p == Target(t)
           e == NewSession(t)
<1>1. /\ TypeOK /\ task \in [Tasks -> Task] /\ sessions \in [Pairs -> Entry]
      /\ task[t].at = "insert" /\ task[t] \in Task
  BY DEF IInv, TypeOK, Insert, Pairs
<1>2. p \in Pairs /\ task[t].share \in Shares /\ task[t].nonce \in Nat \ {0} /\ task[t].kappa \in Nat
  BY <1>1 DEF IInv, TaskSound, Pairs, Target, Task
<1>3. CASE InFlight(p)
  <2>1. task' = [task EXCEPT ![t] = Idle] /\ UNCHANGED <<share, sessions, finalized, nonces, lives, answers>>
    BY <1>3 DEF Insert
  <2>2. QED BY <2>1, IdleType, TaskStep
<1>4. CASE ~InFlight(p)
  <2>1. /\ sessions' = [sessions EXCEPT ![p] = e]
        /\ task' = [task EXCEPT ![t] = Idle]
        /\ UNCHANGED <<share, finalized, nonces, lives, answers>>
    BY <1>4 DEF Insert
  <2>2. e \in Entry /\ e.nonce = task[t].nonce /\ e.share = task[t].share
    BY <1>2 DEF NewSession, Entry
  <2>3. \A q \in Pairs : sessions'[q] = IF q = p THEN e ELSE sessions[q]
    BY <1>1, <2>1
  <2>4. \A u \in Tasks : task'[u] = IF u = t THEN Idle ELSE task[u]
    BY <1>1, <2>1
  <2> HIDE DEF p, e
  <2>5. TypeOK'
    BY <1>1, <2>1, <2>2, IdleType DEF TypeOK, Pairs
  <2>6. TaskSound' /\ TaskMelted'
    BY <2>1, <2>4, IdleType DEF IInv, TaskSound, TaskMelted
  <2>7. EntrySound'
    BY <1>2, <2>2, <2>3 DEF IInv, EntrySound, InFlight
  <2>8. NoncesSampled'
    BY <1>1, <1>2, <2>1, <2>2, <2>3, <2>4, IdleType DEF IInv, NoncesSampled
  <2>9. NoncePlaced'
    BY <1>1, <1>2, <2>1, <2>2, <2>3, <2>4, IdleType DEF IInv, NoncePlaced, InFlight
  <2>10. NonceUsedOnce' /\ RefreshAfterMelt'
    BY <2>1 DEF IInv, NonceUsedOnce, RefreshAfterMelt
  <2>11. QED BY <2>5, <2>6, <2>7, <2>8, <2>9, <2>10 DEF IInv
<1>5. QED BY <1>3, <1>4

LEMMA FinishingType ==
    ASSUME NEW at \in {"share", "take"}, NEW kind \in Kinds, NEW sid \in SessionIds,
           NEW gamma \in Nat, NEW coin \in Coins \cup {None}, NEW c \in Challenges,
           NEW good \in BOOLEAN, NEW sh \in Shares \cup {None}
    PROVE  LET r == Finishing(at, kind, sid, gamma, coin, c, good, sh)
           IN  /\ r \in Task
               /\ r.at = at /\ r.kind = kind /\ r.sid = sid /\ r.coin = coin
               /\ r.c = c /\ r.share = sh
BY DEF Finishing, Task

LEMMA SignRound3IInv ==
    ASSUME IInv, NEW t \in Tasks, NEW sid \in SessionIds, NEW c \in Challenges,
           NEW good \in BOOLEAN, SignRound3(t, sid, c, good)
    PROVE  IInv'
<1> DEFINE r == Finishing("take", "sign", sid, 1, None, c, good, share)
<1>1. share \in Shares
  BY DEF IInv, TypeOK, SignRound3
<1>2. /\ r \in Task /\ r.at = "take" /\ r.kind = "sign" /\ r.sid = sid
      /\ r.c = c /\ r.share = share
  BY <1>1, FinishingType DEF Kinds
<1>3. task' = [task EXCEPT ![t] = r] /\ UNCHANGED <<share, sessions, finalized, nonces, lives, answers>>
  BY DEF SignRound3
<1> HIDE DEF r
<1>4. QED BY <1>1, <1>2, <1>3, TaskStep DEF Kinds

LEMMA RefreshRound5IInv ==
    ASSUME IInv, NEW t \in Tasks, NEW sid \in SessionIds, NEW coin \in Coins,
           NEW gamma \in Nat, NEW c \in Challenges, NEW good \in BOOLEAN,
           RefreshRound5(t, sid, coin, gamma, c, good)
    PROVE  IInv'
<1> DEFINE r == Finishing("share", "refresh", sid, gamma, coin, c, good, None)
<1>1. /\ r \in Task /\ r.at = "share" /\ r.kind = "refresh" /\ r.sid = sid
      /\ r.c = c /\ r.coin = coin
  BY FinishingType DEF Kinds
<1>2. /\ task' = [task EXCEPT ![t] = r]
      /\ UNCHANGED <<share, sessions, finalized, nonces, lives, answers>>
      /\ Guarded => coin \in finalized
  BY DEF RefreshRound5
<1> HIDE DEF r
<1>3. QED BY <1>1, <1>2, TaskStep DEF Kinds

LEMMA ReadShareIInv ==
    ASSUME IInv, NEW t \in Tasks, ReadShare(t)
    PROVE  IInv'
<1>1. /\ task[t] \in Task /\ task[t].at = "share" /\ share \in Shares \cup {None}
      /\ task[t].kind \in Kinds /\ task[t].sid \in SessionIds /\ task[t].c \in Challenges
      /\ task[t].gamma \in Nat /\ task[t].coin \in Coins \cup {None} /\ task[t].good \in BOOLEAN
      /\ Guarded /\ task[t].kind = "refresh" => task[t].coin \in finalized
  BY DEF IInv, TypeOK, Task, TaskSound, TaskMelted, ReadShare
<1>2. CASE share = None
  <2>1. task' = [task EXCEPT ![t] = Idle] /\ UNCHANGED <<share, sessions, finalized, nonces, lives, answers>>
    BY <1>2 DEF ReadShare
  <2>2. QED BY <2>1, IdleType, TaskStep
<1>3. CASE share # None
  <2> DEFINE r == Finishing("take", task[t].kind, task[t].sid, task[t].gamma,
                            task[t].coin, task[t].c, task[t].good, share)
  <2>1. task' = [task EXCEPT ![t] = r] /\ UNCHANGED <<share, sessions, finalized, nonces, lives, answers>>
    BY <1>3 DEF ReadShare
  <2>2. /\ r \in Task /\ r.at = "take" /\ r.kind = task[t].kind /\ r.sid = task[t].sid
        /\ r.c = task[t].c /\ r.coin = task[t].coin /\ r.share = share
    BY <1>1, FinishingType
  <2> HIDE DEF r
  <2>3. QED BY <1>1, <1>3, <2>1, <2>2, TaskStep
<1>4. QED BY <1>2, <1>3

LEMMA TakeIInv ==
    ASSUME IInv, NEW t \in Tasks, Take(t)
    PROVE  IInv'
<1> DEFINE p == Target(t)
           e == sessions[p]
           new == Answer(t, e)
<1>1. /\ TypeOK /\ task \in [Tasks -> Task] /\ sessions \in [Pairs -> Entry]
      /\ task[t].at = "take" /\ task[t] \in Task
  BY DEF IInv, TypeOK, Take, Pairs
<1>2. /\ p \in Pairs /\ task[t].share \in Shares /\ task[t].c \in Challenges
      /\ task[t].kind \in Kinds /\ task[t].gamma \in Nat /\ task[t].coin \in Coins \cup {None}
  BY <1>1 DEF IInv, TaskSound, Pairs, Target, Task
<1>3. e \in Entry /\ (e.nonce # 0 => e.share \in Shares) /\ e.nonce \in Nat
  BY <1>1, <1>2 DEF IInv, EntrySound, InFlight, Entry
<1>4. /\ sessions' = [sessions EXCEPT ![p] = Empty]
      /\ task' = [task EXCEPT ![t] = Idle]
      /\ UNCHANGED <<share, finalized, nonces, lives>>
      /\ answers' = answers \/ (e.nonce # 0 /\ answers' = answers \cup {new})
  BY DEF Take, Signs
<1>5. \A q \in Pairs : sessions'[q] = IF q = p THEN Empty ELSE sessions[q]
  BY <1>1, <1>4
<1>6. \A u \in Tasks : task'[u] = IF u = t THEN Idle ELSE task[u]
  BY <1>1, <1>4
<1>7. /\ new.nonce = e.nonce /\ new.kind = task[t].kind /\ new.coin = task[t].coin
      /\ e.nonce # 0 => new \in PartialSignature
  BY <1>2, <1>3 DEF Answer, PartialSignature
<1>8. \A a \in answers : a.nonce # e.nonce
  BY <1>2 DEF IInv, NoncePlaced
<1> HIDE DEF p, new
<1>9. TypeOK'
  BY <1>1, <1>4, <1>7, IdleType, EmptyType DEF TypeOK, Pairs
<1>10. TaskSound'
  BY <1>6, IdleType DEF IInv, TaskSound
<1>11. EntrySound'
  BY <1>5, EmptyType DEF IInv, EntrySound, InFlight
<1>12. NoncesSampled'
  BY <1>1, <1>2, <1>4, <1>5, <1>6, <1>7, IdleType, EmptyType DEF IInv, NoncesSampled, TypeOK
<1>13. NoncePlaced'
  <2>1. \A q \in Pairs : q # p => sessions[q].nonce # e.nonce \/ e.nonce = 0
    BY <1>2 DEF IInv, NoncePlaced, InFlight
  <2>2. \A u \in Tasks : task[u].at = "insert" => task[u].nonce # e.nonce /\ task[u].nonce # 0
    BY <1>2 DEF IInv, NoncePlaced, TaskSound
  <2>3. \A a \in answers : a.nonce # 0
    BY DEF IInv, TypeOK, PartialSignature
  <2>4. /\ \A a \in answers', q \in Pairs : a.nonce # sessions'[q].nonce
        /\ \A a \in answers', u \in Tasks : task'[u].at = "insert" => a.nonce # task'[u].nonce
    BY <1>4, <1>5, <1>6, <1>7, <2>1, <2>2, <2>3, IdleType, EmptyType DEF IInv, NoncePlaced
  <2>5. /\ \A q, r \in Pairs : InFlight(q)' /\ sessions'[q].nonce = sessions'[r].nonce => q = r
        /\ \A u, v \in Tasks :
              task'[u].at = "insert" /\ task'[v].at = "insert" /\ task'[u].nonce = task'[v].nonce => u = v
        /\ \A u \in Tasks, q \in Pairs : task'[u].at = "insert" => task'[u].nonce # sessions'[q].nonce
    BY <1>5, <1>6, <2>2, IdleType, EmptyType DEF IInv, NoncePlaced, InFlight
  <2>6. QED BY <2>4, <2>5 DEF NoncePlaced
<1>14. NonceUsedOnce'
  BY <1>4, <1>7, <1>8 DEF IInv, NonceUsedOnce
<1>15. TaskMelted'
  BY <1>4, <1>6, IdleType DEF IInv, TaskMelted
<1>16. RefreshAfterMelt'
  BY <1>1, <1>4, <1>7 DEF IInv, RefreshAfterMelt, TaskMelted
<1>17. QED BY <1>9, <1>10, <1>11, <1>12, <1>13, <1>14, <1>15, <1>16 DEF IInv

\* Sessions are emptied or grow older, tasks are dropped, the share changes,
\* coins are finalized: no nonce moves.
LEMMA QuietStep ==
    ASSUME IInv, UNCHANGED <<nonces, answers>>,
           share' \in Shares \cup {None}, lives' \in Nat,
           finalized' \in SUBSET Coins, finalized \subseteq finalized',
           sessions' \in [Pairs -> Entry], task' \in [Tasks -> Task],
           \A t \in Tasks : task'[t] = task[t] \/ task'[t] = Idle,
           \A p \in Pairs : \/ sessions'[p].nonce = 0
                            \/ /\ sessions'[p].nonce = sessions[p].nonce
                               /\ sessions'[p].share = sessions[p].share
    PROVE  IInv'
<1>1. TypeOK'
  BY DEF IInv, TypeOK, Pairs
<1>2. TaskSound' /\ TaskMelted'
  BY IdleType DEF IInv, TaskSound, TaskMelted
<1>3. EntrySound'
  BY DEF IInv, EntrySound, InFlight
<1>4. \A p \in Pairs : sessions'[p].nonce = 0 \/ sessions'[p].nonce = sessions[p].nonce
  OBVIOUS
<1>5. \A t \in Tasks : task'[t].at = "insert" => task'[t] = task[t] /\ task[t].nonce # 0
  BY IdleType DEF IInv, TaskSound
<1>6. \A a \in answers : a.nonce # 0
  BY DEF IInv, TypeOK, PartialSignature
<1>7. NoncesSampled'
  BY <1>4, <1>5 DEF IInv, NoncesSampled, TypeOK
<1>8. NoncePlaced'
  BY <1>4, <1>5, <1>6 DEF IInv, NoncePlaced, InFlight
<1>9. NonceUsedOnce' /\ RefreshAfterMelt'
  BY DEF IInv, NonceUsedOnce, RefreshAfterMelt
<1>10. QED BY <1>1, <1>2, <1>3, <1>7, <1>8, <1>9 DEF IInv

LEMMA PruneIInv ==
    ASSUME IInv, NEW kind \in Kinds, Prune(kind)
    PROVE  IInv'
<1>1. /\ sessions \in [Pairs -> Entry] /\ task \in [Tasks -> Task] /\ finalized \in SUBSET Coins
      /\ share \in Shares \cup {None} /\ lives \in Nat
  BY DEF IInv, TypeOK, Pairs
<1>2. /\ sessions' = [p \in Pairs |-> IF p[1] = kind /\ sessions[p].age >= Ttl THEN Empty ELSE sessions[p]]
      /\ UNCHANGED <<share, task, finalized, nonces, lives, answers>>
  BY <1>1 DEF Prune
<1>3. \A p \in Pairs : sessions'[p] = Empty \/ sessions'[p] = sessions[p]
  BY <1>2
<1>4. sessions' \in [Pairs -> Entry]
  BY <1>1, <1>2, EmptyType
<1>5. QED BY <1>1, <1>2, <1>3, <1>4, EmptyType, QuietStep

LEMMA TickIInv ==
    ASSUME IInv, Tick
    PROVE  IInv'
<1>1. /\ sessions \in [Pairs -> Entry] /\ task \in [Tasks -> Task] /\ finalized \in SUBSET Coins
      /\ share \in Shares \cup {None} /\ lives \in Nat
  BY DEF IInv, TypeOK, Pairs
<1> DEFINE older(p) == [sessions[p] EXCEPT !.age = @ + 1]
<1>2. /\ sessions' = [p \in Pairs |-> IF InFlight(p) /\ sessions[p].age < Ttl THEN older(p) ELSE sessions[p]]
      /\ UNCHANGED <<share, task, finalized, nonces, lives, answers>>
  BY <1>1 DEF Tick
<1>3. \A p \in Pairs : /\ older(p) \in Entry /\ older(p).nonce = sessions[p].nonce
                       /\ older(p).share = sessions[p].share
  BY <1>1 DEF Entry
<1> HIDE DEF older
<1>4. sessions' \in [Pairs -> Entry]
  BY <1>1, <1>2, <1>3
<1>5. \A p \in Pairs : /\ sessions'[p].nonce = sessions[p].nonce
                       /\ sessions'[p].share = sessions[p].share
  BY <1>2, <1>3
<1>6. QED BY <1>1, <1>2, <1>4, <1>5, QuietStep

LEMMA CrashIInv ==
    ASSUME IInv, NEW s \in Shares \cup {None}, Crash(s)
    PROVE  IInv'
<1>1. /\ sessions \in [Pairs -> Entry] /\ finalized \in SUBSET Coins /\ lives \in Nat
  BY DEF IInv, TypeOK, Pairs
<1>2. /\ sessions' = [p \in Pairs |-> Empty] /\ task' = [t \in Tasks |-> Idle]
      /\ share' = s /\ lives' = lives + 1 /\ UNCHANGED <<finalized, nonces, answers>>
  BY <1>1 DEF Crash
<1>3. QED BY <1>1, <1>2, EmptyType, IdleType, QuietStep

LEMMA WorldIInv ==
    ASSUME IInv,
           (\E s \in Shares : SwapShare(s)) \/ (\E coin \in Coins : Finalize(coin))
    PROVE  IInv'
<1>1. /\ sessions \in [Pairs -> Entry] /\ task \in [Tasks -> Task] /\ finalized \in SUBSET Coins
      /\ share \in Shares \cup {None} /\ lives \in Nat
  BY DEF IInv, TypeOK, Pairs
<1>2. /\ UNCHANGED <<sessions, task, nonces, lives, answers>>
      /\ share' \in Shares \cup {None} /\ finalized' \in SUBSET Coins /\ finalized \subseteq finalized'
  BY <1>1 DEF SwapShare, Finalize
<1>3. QED BY <1>1, <1>2, QuietStep

LEMMA NextIInv == IInv /\ [Next]_vars => IInv'
<1> SUFFICES ASSUME IInv, [Next]_vars PROVE IInv'
  OBVIOUS
<1>1. ASSUME NEW t \in Tasks, NEW sid \in SessionIds,
             \/ SignRound1(t, sid)
             \/ \E kappa \in Kappas : RefreshRound1(t, sid, kappa)
      PROVE  IInv'
  BY <1>1, Round1IInv, BoundsAssumption DEF Kinds, SignRound1, RefreshRound1
<1>2. ASSUME NEW t \in Tasks, NEW sid \in SessionIds, NEW c \in Challenges,
             NEW good \in BOOLEAN, SignRound3(t, sid, c, good)
      PROVE  IInv'
  BY <1>2, SignRound3IInv
<1>3. ASSUME NEW t \in Tasks, NEW sid \in SessionIds, NEW coin \in Coins, NEW gamma \in Kappas,
             NEW c \in Challenges, NEW good \in BOOLEAN, RefreshRound5(t, sid, coin, gamma, c, good)
      PROVE  IInv'
  <2>1. gamma \in Nat
    BY BoundsAssumption
  <2>2. QED BY <1>3, <2>1, RefreshRound5IInv
<1>4. ASSUME NEW t \in Tasks, Insert(t) \/ ReadShare(t) \/ Take(t)
      PROVE  IInv'
  BY <1>4, InsertIInv, ReadShareIInv, TakeIInv
<1>5. CASE \E kind \in Kinds : Prune(kind)
  BY <1>5, PruneIInv
<1>6. CASE Tick
  BY <1>6, TickIInv
<1>7. CASE \E s \in Shares \cup {None} : Crash(s)
  BY <1>7, CrashIInv
<1>8. CASE (\E s \in Shares : SwapShare(s)) \/ (\E coin \in Coins : Finalize(coin))
  BY <1>8, WorldIInv
<1>9. CASE UNCHANGED vars
  <2>1. /\ sessions' \in [Pairs -> Entry] /\ task' \in [Tasks -> Task] /\ finalized' \in SUBSET Coins
        /\ share' \in Shares \cup {None} /\ lives' \in Nat
        /\ UNCHANGED <<sessions, task, finalized, nonces, answers>>
    BY <1>9 DEF IInv, TypeOK, Pairs, vars
  <2>2. QED BY <2>1, QuietStep
<1>10. QED BY <1>1, <1>2, <1>3, <1>4, <1>5, <1>6, <1>7, <1>8, <1>9 DEF Next

LEMMA IInvHolds == Spec => []IInv
BY InitIInv, NextIInv, PTL DEF Spec

\* The types of the session maps, the tasks and the answers.
THEOREM SessionsTypeCorrect == Spec => []TypeOK
<1>1. IInv => TypeOK
  BY DEF IInv
<1>2. QED BY <1>1, IInvHolds, PTL

\* No nonce is ever used for two partial signatures, however many requests
\* are served at once (take of sign_sessions.rs and refresh_sessions.rs).
THEOREM SessionsNonceUsedOnce == Spec => []NonceUsedOnce
<1>1. IInv => NonceUsedOnce
  BY DEF IInv
<1>2. QED BY <1>1, IInvHolds, PTL

\* With the guard, a refresh is signed only for a coin finalized as spent.
THEOREM SessionsRefreshAfterMelt == Spec => []RefreshAfterMelt
<1>1. IInv => RefreshAfterMelt
  BY DEF IInv
<1>2. QED BY <1>1, IInvHolds, PTL

LEMMA SessionStepHolds ==
    ASSUME IInv, [Next]_vars, NEW p \in Pairs
    PROVE  SessionStep(p)
<1>1. /\ sessions \in [Pairs -> Entry] /\ task \in [Tasks -> Task] /\ lives \in Nat
      /\ sessions[p].nonce \in Nat
  BY DEF IInv, TypeOK, Pairs, Entry
<1>2. CASE sessions' = sessions
  BY <1>2 DEF SessionStep
<1>3. ASSUME NEW t \in Tasks, Insert(t)
      PROVE  SessionStep(p)
  <2>1. \/ sessions' = sessions
        \/ ~InFlight(Target(t)) /\ sessions' = [sessions EXCEPT ![Target(t)] = NewSession(t)]
    BY <1>3 DEF Insert
  <2>2. QED BY <1>1, <2>1 DEF SessionStep, InFlight
<1>4. ASSUME NEW t \in Tasks, Take(t)
      PROVE  SessionStep(p)
  <2>1. task[t].at = "take" /\ task'[t] = Idle /\ sessions' = [sessions EXCEPT ![Target(t)] = Empty]
    BY <1>1, <1>4 DEF Take
  <2>2. sessions'[p] = IF p = Target(t) THEN Empty ELSE sessions[p]
    BY <1>1, <2>1
  <2>3. QED BY <2>1, <2>2, EmptyType DEF SessionStep
<1>5. ASSUME NEW kind \in Kinds, Prune(kind)
      PROVE  SessionStep(p)
  <2>1. sessions'[p] = IF p[1] = kind /\ sessions[p].age >= Ttl THEN Empty ELSE sessions[p]
    BY <1>1, <1>5 DEF Prune
  <2>2. QED BY <2>1, EmptyType DEF SessionStep
<1>6. CASE Tick
  <2>1. sessions'[p] = IF InFlight(p) /\ sessions[p].age < Ttl
                       THEN [sessions[p] EXCEPT !.age = @ + 1] ELSE sessions[p]
    BY <1>1, <1>6 DEF Tick
  <2>2. sessions'[p].nonce = sessions[p].nonce
    BY <1>1, <2>1 DEF Entry
  <2>3. QED BY <2>2 DEF SessionStep
<1>7. ASSUME NEW s \in Shares \cup {None}, Crash(s)
      PROVE  SessionStep(p)
  <2>1. sessions'[p] = Empty /\ lives' # lives
    BY <1>1, <1>7 DEF Crash
  <2>2. QED BY <2>1, EmptyType DEF SessionStep
<1>8. QED
  BY <1>2, <1>3, <1>4, <1>5, <1>6, <1>7
  DEF Next, vars, SignRound1, RefreshRound1, Round1, SignRound3, RefreshRound5, ReadShare, SwapShare, Finalize

\* A session in flight is never replaced, and is lost only to the task that
\* consumes it, to the prune loop after Ttl, or to a crash.
THEOREM SessionsAreKept == Spec => SessionsKept
<1>1. IInv /\ [Next]_vars => [\A p \in DOMAIN sessions : SessionStep(p)]_vars
  <2> SUFFICES ASSUME IInv, [Next]_vars PROVE \A p \in DOMAIN sessions : SessionStep(p)
    OBVIOUS
  <2>1. DOMAIN sessions = Pairs
    BY DEF IInv, TypeOK, Pairs
  <2>2. QED BY <2>1, SessionStepHolds
<1>2. QED BY <1>1, IInvHolds, PTL DEF Spec, SessionsKept
=============================================================================
