------------------------------ MODULE Startup ------------------------------
(***************************************************************************)
(* Several sealbox processes start on one database at the same time        *)
(* (store.Open): each brings the schema up to its own version or checks    *)
(* it, proposes a blind-index key and adopts the one that is stored.       *)
(* Processes are of different versions, die at any point and start again,  *)
(* and a rotation re-wraps the stored key meanwhile.                       *)
(***************************************************************************)
EXTENDS Naturals, FiniteSets

CONSTANTS
    Replicas,   \* processes that call store.Open
    Migrating,  \* those that run with SEALBOX_MIGRATE=auto
    Needs,      \* how many migrations each one's binary embeds
    Current,    \* the wrapping key each one seals under
    Loaded,     \* the wrapping keys each one can open
    WrapKeys,   \* all wrapping keys
    MaxKeys,    \* bound: candidates ever drawn
    None        \* nobody, nothing

ASSUME StartupAssumption ==
    /\ IsFiniteSet(Replicas) /\ Migrating \subseteq Replicas
    /\ Needs \in [Replicas -> Nat \ {0}]
    /\ Current \in [Replicas -> WrapKeys]
    /\ Loaded \in [Replicas -> SUBSET WrapKeys]
    /\ \A r \in Replicas : Current[r] \in Loaded[r]
    /\ MaxKeys \in Nat

VARIABLES
    applied,   \* goose_db_version: how many times each migration was applied
    locker,    \* who holds the session advisory lock
    keys,      \* the blind-index row of keys
    drawn,     \* candidates drawn so far
    pc,        \* per process: where it is in Open
    todo,      \* migrations that Up found missing
    mine,      \* the candidate, then the row read back
    index      \* the blind-index key a running process hashes with

db    == <<applied, locker, keys, drawn>>
local == <<pc, todo, mine, index>>
vars  == <<db, local>>

Max2(S) == CHOOSE n \in S : \A m \in S : m <= n

Migrations == 1..Max2({Needs[r] : r \in Replicas})

\* A key sealed under a wrapping key.
Sealed == [key : 1..MaxKeys, under : WrapKeys]

ASSUME NoneAssumption == None \notin Replicas /\ None \notin Sealed

Done == {v \in Migrations : applied[v] > 0}

Goto(r, l) == pc' = [pc EXCEPT ![r] = l]

Release(r) == locker' = IF locker = r THEN None ELSE locker

\* The process is gone, and its database sessions with it.
Stop(r) ==
    /\ Goto(r, "down")
    /\ Release(r)
    /\ todo' = [todo EXCEPT ![r] = {}]
    /\ mine' = [mine EXCEPT ![r] = None]
    /\ index' = [index EXCEPT ![r] = None]
    /\ UNCHANGED <<applied, keys, drawn>>

-----------------------------------------------------------------------------
Open(r) ==
    /\ pc[r] = "down"
    /\ Goto(r, IF r \in Migrating THEN "lock" ELSE "check")
    /\ UNCHANGED <<db, todo, mine, index>>

\* Mutant of MayLock: migrations run without the session locker.
MayLockAlways(r) == TRUE

MayLock(r) == locker = None

\* migrateUp: with the lock, Up lists the files that are not recorded.
MigrateLock(r) ==
    /\ pc[r] = "lock" /\ MayLock(r)
    /\ locker' = r
    /\ todo' = [todo EXCEPT ![r] = (1..Needs[r]) \ Done]
    /\ Goto(r, "apply")
    /\ UNCHANGED <<applied, keys, drawn, mine, index>>

\* Each file in its own transaction, in order.
MigrateApply(r) ==
    /\ pc[r] = "apply" /\ todo[r] # {}
    /\ LET v == CHOOSE v \in todo[r] : \A w \in todo[r] : v <= w IN
        /\ applied' = [applied EXCEPT ![v] = @ + 1]
        /\ todo' = [todo EXCEPT ![r] = @ \ {v}]
    /\ UNCHANGED <<locker, keys, drawn, pc, mine, index>>

MigrateUnlock(r) ==
    /\ pc[r] = "apply" /\ todo[r] = {}
    /\ Release(r)
    /\ Goto(r, "propose")
    /\ UNCHANGED <<applied, keys, drawn, todo, mine, index>>

\* Mutant of IsCurrent: any schema that has the tables is good enough.
IsCurrentAny(r) == Done # {}

\* schemaCurrent: exactly the version this binary needs.
IsCurrent(r) == Done # {} /\ Max2(Done) = Needs[r]

\* Refused when it is not.
SchemaCurrent(r) ==
    /\ pc[r] = "check"
    /\ \/ IsCurrent(r) /\ Goto(r, "propose") /\ UNCHANGED <<db, todo, mine, index>>
       \/ ~IsCurrent(r) /\ Stop(r)

-----------------------------------------------------------------------------
(* loadIndexKey *)

\* Mutant of Drawn: the candidate's bytes are never filled in.
DrawnZero == 0

\* rand.Read: a key nobody had before.
Drawn == drawn + 1

\* A fresh random key, sealed under the process's own wrapping key.
Propose(r) ==
    /\ pc[r] = "propose" /\ drawn < MaxKeys
    /\ drawn' = drawn + 1
    /\ mine' = [mine EXCEPT ![r] = [key |-> Drawn, under |-> Current[r]]]
    /\ Goto(r, "insert")
    /\ UNCHANGED <<applied, locker, keys, todo, index>>

\* Mutant of Inserted: the last insert wins.
InsertedAlways(r) == mine[r]

\* ON CONFLICT DO NOTHING: the first insert wins.
Inserted(r) == IF keys = None THEN mine[r] ELSE keys

Insert(r) ==
    /\ pc[r] = "insert"
    /\ keys' = Inserted(r)
    /\ Goto(r, "read")
    /\ UNCHANGED <<applied, locker, drawn, todo, mine, index>>

\* Mutant of ReadBack: a process keeps what it proposed.
ReadBackOwn(r) == mine[r]

\* Everyone reads that one back.
ReadBack(r) == keys

Read(r) ==
    /\ pc[r] = "read"
    /\ mine' = [mine EXCEPT ![r] = ReadBack(r)]
    /\ Goto(r, "open")
    /\ UNCHANGED <<db, todo, index>>

\* The row opens with a wrapping key the process has, or it does not start.
Adopt(r) ==
    /\ pc[r] = "open"
    /\ \/ /\ mine[r].under \in Loaded[r]
          /\ index' = [index EXCEPT ![r] = mine[r].key]
          /\ Goto(r, "up")
          /\ UNCHANGED <<db, todo, mine>>
       \/ mine[r].under \notin Loaded[r] /\ Stop(r)

-----------------------------------------------------------------------------
\* The process dies, its start times out, or it cannot get the lock in time.
Crash(r) == pc[r] # "down" /\ Stop(r)

\* A rotation by one of the processes re-wraps the row; the key in it stays.  That a stale write
\* cannot land is shown in Store.
Rotate(r) ==
    /\ pc[r] = "up" /\ keys # None
    /\ keys.under \in Loaded[r] /\ keys.under # Current[r]
    /\ keys' = [keys EXCEPT !.under = Current[r]]
    /\ UNCHANGED <<applied, locker, drawn, local>>

Init ==
    /\ applied = [v \in Migrations |-> 0]
    /\ locker = None
    /\ keys = None
    /\ drawn = 0
    /\ pc = [r \in Replicas |-> "down"]
    /\ todo = [r \in Replicas |-> {}]
    /\ mine = [r \in Replicas |-> None]
    /\ index = [r \in Replicas |-> None]

Next == \E r \in Replicas :
    \/ Open(r) \/ MigrateLock(r) \/ MigrateApply(r) \/ MigrateUnlock(r)
    \/ SchemaCurrent(r) \/ Propose(r) \/ Insert(r) \/ Read(r) \/ Adopt(r)
    \/ Crash(r) \/ Rotate(r)

Spec == Init /\ [][Next]_vars

-----------------------------------------------------------------------------
Control == {"down", "lock", "apply", "check", "propose", "insert", "read",
            "open", "up"}

\* Rows, candidates and adopted keys are keys that were really drawn.
TypeOK ==
    /\ applied \in [Migrations -> Nat]
    /\ locker \in Replicas \cup {None}
    /\ keys \in Sealed \cup {None}
    /\ drawn \in 0..MaxKeys
    /\ pc \in [Replicas -> Control]
    /\ todo \in [Replicas -> SUBSET Migrations]
    /\ mine \in [Replicas -> Sealed \cup {None}]
    /\ index \in [Replicas -> 1..MaxKeys \cup {None}]

\* No migration is applied twice, whoever starts, stops and dies in between
\* (migrateUp: "several replicas may start at the same time").
MigratedOnce == \A v \in Migrations : applied[v] <= 1

\* A process that got past the schema finds every table it needs.
TablesThere == \A r \in Replicas :
    pc[r] \in {"propose", "insert", "read", "open", "up"} => 1..Needs[r] \subseteq Done

\* All running processes hash with the same key, the one that is stored: what
\* one of them indexes the others find (loadIndexKey: "the first insert wins
\* and everyone reads that one back").
OneIndexKey == \A r \in Replicas :
    pc[r] = "up" => keys # None /\ index[r] = keys.key

\* Once there is a blind-index key it never becomes another one, through
\* restarts and rotations: the hashes in blind_index stay valid.
IndexKeyStays == [][keys # None => keys' # None /\ keys'.key = keys.key]_vars
=============================================================================
