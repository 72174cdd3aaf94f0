----------------------------- MODULE RelayInbox -----------------------------
(***************************************************************************)
(* The store-and-forward relay (tardus-relay: inbox.rs, api.rs): one inbox *)
(* per recipient key, in memory or in an SQLite file.  A message expires   *)
(* when its time to live is over; the prune loop then evicts it.  Each     *)
(* request holds the backend's mutex, so each is one step; one that panics *)
(* leaves the mutex poisoned, and every later one panics on it.            *)
(***************************************************************************)
EXTENDS Naturals, FiniteSets

CONSTANTS
    Recipients,       \* public keys that have an inbox
    Bodies,           \* payloads, opaque to the relay
    Oversized,        \* the payloads longer than max_payload_bytes
    MaxPerRecipient,  \* max_per_recipient
    Persistent,       \* SQLite backend (TRUE) or memory backend (FALSE)
    MaxPosts          \* bound on the messages accepted, hence on the ids

ASSUME RelayAssumption ==
    /\ Oversized \subseteq Bodies
    /\ MaxPerRecipient \in Nat \ {0}
    /\ Persistent \in BOOLEAN
    /\ MaxPosts \in Nat

VARIABLES
    inbox,    \* inbox[r]: the messages stored for r, in the order of their ids
    posted,   \* number of messages accepted so far; ids are drawn from it
    poisoned  \* whether a request has panicked with the mutex locked

relay == <<inbox, posted, poisoned>>

\* ttl_secs, an u64 the sender chooses: it runs out, it outlasts the relay, or
\* the sum of the present time and it overflows.
Ttls == {"ends", "stays", "overflows"}

\* ttl: what is left of the time to live, "over" once it has run out.
Message == [id : 1..MaxPosts, body : Bodies, ttl : {"over", "ends", "stays"}]

InboxInit ==
    /\ inbox = [r \in Recipients |-> {}]
    /\ posted = 0
    /\ poisoned = FALSE

\* InboxStore::list.
Listed(r) == {m \in inbox[r] : m.ttl # "over"}

\* What deposit compares with max_per_recipient: the memory backend counts
\* the expired messages that are not pruned yet, the SQLite backend does not.
Counted(r) == Cardinality(IF Persistent THEN Listed(r) ELSE inbox[r])

\* PayloadTooLarge, before the lock is taken, and InboxFull.
Refuses(r, body) == body \in Oversized \/ (~poisoned /\ Counted(r) >= MaxPerRecipient)

\* What is stored of the time to live.  The SQLite backend casts the deadline
\* to i64: one that is too large can come out as any deadline, a past one
\* included.  The memory backend stores nothing then.
Deadlines(ttl) ==
    IF ttl # "overflows" THEN {ttl} ELSE IF Persistent THEN {"over", "ends", "stays"} ELSE {}

\* POST /inbox/{recipient}, accepted.
Deposit(r, body, ttl) ==
    /\ ~Refuses(r, body) /\ ~poisoned
    /\ posted < MaxPosts
    /\ posted' = posted + 1
    /\ \E left \in Deadlines(ttl) :
          inbox' = [inbox EXCEPT ![r] = @ \cup {[id |-> posted + 1, body |-> body, ttl |-> left]}]
    /\ UNCHANGED poisoned

\* The memory backend adds the time to live to an Instant while it holds the
\* mutex, and the sum overflows.
DepositPanics(r, body, ttl) ==
    /\ ~Refuses(r, body) /\ ~poisoned
    /\ Deadlines(ttl) = {}
    /\ poisoned' = TRUE
    /\ UNCHANGED <<inbox, posted>>

\* DELETE /inbox/{recipient}/{id}; an id that is not there changes nothing.
Remove(r, id) ==
    /\ ~poisoned
    /\ inbox' = [inbox EXCEPT ![r] = {m \in @ : m.id # id}]
    /\ UNCHANGED <<posted, poisoned>>

\* The time to live of a message of r runs out.
Expire(r) ==
    \E m \in inbox[r] :
        /\ m.ttl = "ends"
        /\ inbox' = [inbox EXCEPT ![r] = (@ \ {m}) \cup {[m EXCEPT !.ttl = "over"]}]
        /\ UNCHANGED <<posted, poisoned>>

\* Faulty: a prune that does not touch the buckets it empties.
PruneNonEmptied ==
    /\ ~poisoned
    /\ \E r \in Recipients : inbox[r] # Listed(r)
    /\ inbox' = [r \in Recipients |-> IF Listed(r) = {} THEN inbox[r] ELSE Listed(r)]
    /\ UNCHANGED <<posted, poisoned>>

\* One tick of prune_loop that finds something to evict.  The first tick on a
\* poisoned mutex ends the loop.
Prune ==
    /\ ~poisoned
    /\ \E r \in Recipients : inbox[r] # Listed(r)
    /\ inbox' = [r \in Recipients |-> Listed(r)]
    /\ UNCHANGED <<posted, poisoned>>

\* The relay process is restarted; the SQLite backend has all as before.
RelayRestart ==
    /\ ~Persistent
    /\ poisoned \/ \E r \in Recipients : inbox[r] # {}
    /\ inbox' = [r \in Recipients |-> {}]
    /\ poisoned' = FALSE
    /\ UNCHANGED posted
=============================================================================
