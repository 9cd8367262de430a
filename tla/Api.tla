-------------------------------- MODULE Api --------------------------------
(***************************************************************************)
(* One sealbox server as its clients see it (internal/api): what a request *)
(* passes through, in which order - key, role, reveal budget, the vault,   *)
(* the audit log, the answer - while other requests of the same client and *)
(* others do the same.                                                     *)
(*                                                                         *)
(* Creates, deletes and erasures are single steps of the vault here; that  *)
(* they take effect like that is what Store and StoreRefinement show.      *)
(* Validation of names and bodies only refuses requests and is left out,   *)
(* and so is subject, which lists ids and changes nothing.                 *)
(* The keys file is read at the start and does not change: a restart reads *)
(* the same one again.                                                     *)
(* Time passes in seconds.  Budgets are in tenths of a unit, because       *)
(* reveal_per_second may be a fraction.                                    *)
(***************************************************************************)
EXTENDS Integers, FiniteSets, Sums

CONSTANTS
    Ids,              \* object ids
    Requests,         \* requests the server works on at the same time
    Clients,          \* names of clients
    Keys, LongKeys,   \* API keys, and those of at least minKeyLen characters
    RoleNames,        \* what a keys file may list as a role, known or not
    Settings,         \* keys files and SEALBOX_API_KEY the server may be given
    DefaultPerSecond, \* 200 units in the code, here in tenths
    MaxTime,          \* bound: seconds
    MaxArrivals,      \* bound: requests that arrive
    None              \* no client, no key, no object

AllRoles == {"write", "delete", "read_masked", "read_full", "search"}

\* What can be asked; reveals are of one object or of a batch of them.
Reveals == {"get_masked", "get_full", "batch_masked", "batch_full"}
Reads   == Reveals \cup {"search"}

Actions == {"create", "delete", "reveal_masked", "reveal_full", "search"}

\* A line of audit_log, or an answer: who, what, which object.
Line == Clients \X Actions \X (Ids \cup {None})

\* A member of the keys file; reveal_per_second is in tenths, 0 the default.
Client == [name : Clients, key : Keys, roles : SUBSET RoleNames, per : Int]

ASSUME ApiAssumption ==
    /\ IsFiniteSet(Ids) /\ IsFiniteSet(Clients) /\ IsFiniteSet(Requests)
    /\ LongKeys \subseteq Keys /\ AllRoles \subseteq RoleNames
    /\ \A s \in Settings : /\ s.file \subseteq Client /\ s.apiKey \in Keys \cup {None}
                           /\ s.apiKey # None => "default" \in Clients
    /\ DefaultPerSecond \in Nat \ {0} /\ MaxTime \in Nat /\ MaxArrivals \in Nat
    /\ None \notin Ids /\ None \notin Clients /\ None \notin Keys

VARIABLES
    clients,        \* the clients of this server
    live, erased,   \* the vault
    log,            \* audit_log: how many times each line was appended
    tokens, clock,  \* the limiters, and the time
    spent,          \* units spent in each second since the server started
    given,          \* answers that carried something, counted like lines
    paid, handed,   \* per client: units spent, units of budgeted answers
    pc, req,        \* per request: control and locals
    arrived         \* how many requests have arrived

vault   == <<live, erased, log>>
budget  == <<tokens, clock, spent, paid>>
answers == <<given, handed>>
vars    == <<clients, vault, budget, answers, pc, req, arrived>>

NoReq == [client |-> None, key |-> None, kind |-> "none", ids |-> {}, found |-> {}]

Full(kind) == kind \in {"get_full", "batch_full"}

-----------------------------------------------------------------------------
(* Clients and their keys *)

\* The development client.
Default(s) == IF s.apiKey = None THEN {}
    ELSE {[name |-> "default", key |-> s.apiKey, roles |-> AllRoles, per |-> 0]}

\* Mutant of Unique: keys are not compared.
UniqueNames(c, d) == c.name # d.name

\* Two clients share neither name nor key.
Unique(c, d) == c.name # d.name /\ c.key # d.key

\* The server starts with at least one client, and only with valid ones.
ValidateClients(s) ==
    /\ s.file \cup Default(s) # {}
    /\ \A c \in s.file, d \in s.file \cup Default(s) : c # d \/ d \in Default(s) => Unique(c, d)
    /\ \A c \in s.file \cup Default(s) :
          /\ c.name # "" /\ c.key \in LongKeys /\ c.per >= 0
          /\ c.roles # {} /\ c.roles \subseteq AllRoles

\* Every client is compared with the key; it would be the last one that counts,
\* in the order in which a Go map was walked.
Authenticate(k) == {c \in clients : c.key = k}

-----------------------------------------------------------------------------
(* Budgets: the limiter of golang.org/x/time/rate, one per client *)

\* New: the limiter of the client with that name.
Per(c) ==
    LET pers == {d.per : d \in {d \in clients : d.name = c}}
        per  == CHOOSE p \in pers : TRUE
    IN  IF pers = {} THEN 0 ELSE IF per = 0 THEN DefaultPerSecond ELSE per

\* int(per * 5): five seconds' worth, whole units.
Burst(c) == (5 * Per(c)) \div 10

\* Mutant of Refill: a quiet client saves up without limit.
RefillUncapped(c) == tokens[c] + Per(c)

\* What a second adds, up to the burst.
Refill(c) == IF tokens[c] + Per(c) > 10 * Burst(c)
             THEN 10 * Burst(c) ELSE tokens[c] + Per(c)

\* Mutant of AllowN: a client with anything left may spend any burst.
AllowNAny(c, n) == n <= Burst(c) /\ tokens[c] > 0

\* AllowN: are there n units now?
AllowN(c, n) == n <= Burst(c) /\ 10 * n <= tokens[c]

Spend(c, n) ==
    /\ tokens' = [tokens EXCEPT ![c] = @ - 10 * n]
    /\ spent' = [spent EXCEPT ![c][clock] = @ + n]
    /\ paid' = [paid EXCEPT ![c] = @ + n]
    /\ UNCHANGED clock

Tick ==
    /\ clock < MaxTime
    /\ clock' = clock + 1
    /\ tokens' = [c \in Clients |-> Refill(c)]
    /\ UNCHANGED <<clients, vault, spent, paid, answers, pc, req, arrived>>

-----------------------------------------------------------------------------
(* A request *)

\* Mutant of RevealRole: a batch is not checked for its level.
RevealRoleOfGet(kind) == IF kind = "get_full" THEN "read_full" ELSE "read_masked"

RevealRole(kind) == IF Full(kind) THEN "read_full" ELSE "read_masked"

RoleOf(kind) == CASE kind \in Reveals -> RevealRole(kind)
                  [] kind = "search"  -> "search"
                  [] kind = "create"  -> "write"
                  [] kind = "delete"  -> "delete"

\* requireKey and require: 401 without a client, 403 without the role.
Has(k, c, role) == c \in Authenticate(k) /\ role \in c.roles

ActionOf(kind) == CASE kind = "search" -> "search"
                    [] Full(kind)      -> "reveal_full"
                    [] OTHER           -> "reveal_masked"

Goto(q, l) == pc' = [pc EXCEPT ![q] = l]
Keep(q, r) == req' = [req EXCEPT ![q] = r]

\* The request ends; what it was about is forgotten.
End(q) == Goto(q, "idle") /\ Keep(q, NoReq)

\* get and search spend one unit before they look anything up.
First(kind) == IF kind \in {"get_full", "search"} THEN "spend" ELSE "look"

\* A read arrives.
Arrive(q, k, c, kind, S) ==
    /\ pc[q] = "idle"
    /\ arrived < MaxArrivals
    /\ kind \in Reads
    /\ kind \in {"get_masked", "get_full"} => Cardinality(S) = 1
    /\ Has(k, c, RoleOf(kind))
    /\ Keep(q, [client |-> c.name, key |-> k, kind |-> kind, ids |-> S, found |-> {}])
    /\ Goto(q, First(kind))
    /\ arrived' = arrived + 1
    /\ UNCHANGED <<clients, vault, budget, answers>>

\* allow: 429 when the unit is not there.
Allow(q) ==
    LET c == req[q].client IN
    /\ pc[q] = "spend"
    /\ IF AllowN(c, 1)
       THEN Spend(c, 1) /\ Goto(q, "look") /\ UNCHANGED req
       ELSE End(q) /\ UNCHANGED budget
    /\ UNCHANGED <<clients, vault, answers, arrived>>

\* GetMany or Search: the objects that are there now.
Look(q) ==
    LET found == req[q].ids \cap live
        kind  == req[q].kind
    IN
    /\ pc[q] = "look"
    /\ \/ /\ kind \in {"get_masked", "get_full"} /\ found = {}
          /\ End(q)
       \/ /\ kind \notin {"get_masked", "get_full"} \/ found # {}
          /\ Keep(q, [req[q] EXCEPT !.found = found])
          /\ Goto(q, IF kind = "batch_full" THEN "charge" ELSE "audit")
    /\ UNCHANGED <<clients, vault, budget, answers, arrived>>

\* Mutant of Charge: a batch costs one unit.
ChargeOne(q) ==
    LET c == req[q].client IN
    /\ pc[q] = "charge"
    /\ IF AllowN(c, 1)
       THEN Spend(c, 1) /\ Goto(q, "audit") /\ UNCHANGED req
       ELSE End(q) /\ UNCHANGED budget
    /\ UNCHANGED <<clients, vault, answers, arrived>>

\* A full batch spends one unit for each object found, after it was read and
\* before anything of it is answered.
Charge(q) ==
    LET c == req[q].client
        n == Cardinality(req[q].found)
    IN
    /\ pc[q] = "charge"
    /\ IF AllowN(c, n)
       THEN Spend(c, n) /\ Goto(q, "audit") /\ UNCHANGED req
       ELSE End(q) /\ UNCHANGED budget
    /\ UNCHANGED <<clients, vault, answers, arrived>>

\* What is logged of a read and what its answer carries.
LinesOf(q) ==
    LET r == req[q] IN
    {<<r.client, ActionOf(r.kind), i>> :
        i \in IF r.kind = "search" THEN {None} ELSE r.found}

Appended(f, L) == [l \in Line |-> f[l] + IF l \in L THEN 1 ELSE 0]

\* Mutant of Audit: a failed insert is only reported, the answer still goes out.
AuditIgnored(q, written, told) ==
    /\ pc[q] = "audit"
    /\ told => written
    /\ log' = IF written THEN Appended(log, LinesOf(q)) ELSE log
    /\ Goto(q, "answer") /\ UNCHANGED req
    /\ UNCHANGED <<clients, live, erased, budget, answers, arrived>>

\* auditMany: 500 when the log was not written, or may not have been.
Audit(q, written, told) ==
    /\ pc[q] = "audit"
    /\ told => written
    /\ log' = IF written THEN Appended(log, LinesOf(q)) ELSE log
    /\ IF told THEN Goto(q, "answer") /\ UNCHANGED req ELSE End(q)
    /\ UNCHANGED <<clients, live, erased, budget, answers, arrived>>

\* Units that an answer is worth: masked ones are free.
Worth(q) == IF req[q].kind = "search" THEN 1
            ELSE IF Full(req[q].kind) THEN Cardinality(req[q].found) ELSE 0

Answer(q) ==
    /\ pc[q] = "answer"
    /\ given' = Appended(given, LinesOf(q))
    /\ handed' = [handed EXCEPT ![req[q].client] = @ + Worth(q)]
    /\ End(q)
    /\ UNCHANGED <<clients, vault, budget, arrived>>

\* The client goes away, or something answers 500.
Fail(q) ==
    /\ pc[q] # "idle"
    /\ End(q)
    /\ UNCHANGED <<clients, vault, budget, answers, arrived>>

\* create and createBatch: all objects with their lines, under the client.
Create(k, c, S) ==
    /\ arrived < MaxArrivals
    /\ Has(k, c, RoleOf("create"))
    /\ S # {} /\ S \cap (live \cup erased) = {}
    /\ live' = live \cup S
    /\ log' = Appended(log, {<<c.name, "create", i>> : i \in S})
    /\ arrived' = arrived + 1
    /\ UNCHANGED <<clients, erased, budget, answers, pc, req>>

\* delete, and eraseSubject for everything about one person.
Delete(k, c, S) ==
    /\ arrived < MaxArrivals
    /\ Has(k, c, RoleOf("delete"))
    /\ S # {} /\ S \subseteq live
    /\ live' = live \ S /\ erased' = erased \cup S
    /\ log' = Appended(log, {<<c.name, "delete", i>> : i \in S})
    /\ arrived' = arrived + 1
    /\ UNCHANGED <<clients, budget, answers, pc, req>>

\* Every limiter starts with a full burst.
FullBudgets == [c \in Clients |-> 10 * Burst(c)]

Unspent == [c \in Clients |-> [t \in 0..MaxTime |-> 0]]

\* The process dies and is started again: its requests are gone, and the
\* limiters, which are only in memory, are new.
Restart ==
    /\ pc' = [q \in Requests |-> "idle"]
    /\ req' = [q \in Requests |-> NoReq]
    /\ tokens' = FullBudgets
    /\ spent' = Unspent
    /\ UNCHANGED <<clients, vault, clock, paid, answers, arrived>>

-----------------------------------------------------------------------------
Init ==
    /\ clients \in {s.file \cup Default(s) : s \in {s \in Settings : ValidateClients(s)}}
    /\ live = {} /\ erased = {}
    /\ log = [l \in Line |-> 0]
    /\ tokens = FullBudgets
    /\ clock = 0
    /\ spent = Unspent
    /\ paid = [c \in Clients |-> 0]
    /\ given = [l \in Line |-> 0]
    /\ handed = [c \in Clients |-> 0]
    /\ pc = [q \in Requests |-> "idle"]
    /\ req = [q \in Requests |-> NoReq]
    /\ arrived = 0

Next ==
    \/ Tick \/ Restart
    \/ \E q \in Requests :
        \/ \E k \in Keys, c \in clients, kind \in Reads, S \in SUBSET Ids \ {{}} :
               Arrive(q, k, c, kind, S)
        \/ Allow(q) \/ Look(q) \/ Charge(q) \/ Answer(q) \/ Fail(q)
        \/ \E written, told \in BOOLEAN : Audit(q, written, told)
    \/ \E k \in Keys, c \in clients, S \in SUBSET Ids : Create(k, c, S) \/ Delete(k, c, S)

Spec == Init /\ [][Next]_vars

-----------------------------------------------------------------------------
Control == {"idle", "spend", "look", "charge", "audit", "answer"}

Req == [client : Clients \cup {None}, key : Keys \cup {None},
        kind : Reads \cup {"none"}, ids : SUBSET Ids, found : SUBSET Ids]

\* Counters stay natural numbers: no budget is ever overdrawn.
TypeOK ==
    /\ clients \subseteq Client
    /\ live \subseteq Ids /\ erased \subseteq Ids
    /\ log \in [Line -> Nat] /\ given \in [Line -> Nat]
    /\ tokens \in [Clients -> Nat] /\ clock \in 0..MaxTime
    /\ spent \in [Clients -> [0..MaxTime -> Nat]]
    /\ paid \in [Clients -> Nat] /\ handed \in [Clients -> Nat]
    /\ pc \in [Requests -> Control]
    /\ req \in [Requests -> Req]
    /\ arrived \in 0..MaxArrivals

\* Units of the answers that are on their way to a client.
Owed(c) == SumOf([q \in Requests |-> Worth(q)],
                 {q \in Requests : req[q].client = c /\ pc[q] \in {"audit", "answer"}})

\* No answer outruns its payment: however a client's requests interleave, the
\* full reveals and searches it was answered, and those that only have to be
\* logged and written, are covered by the units it spent (allow in get,
\* revealBatch and search; a batch is read first and counted by what was found).
PaidFirst == \A c \in Clients : handed[c] + Owed(c) <= paid[c]

\* Since the server started, no span of seconds saw a client spend more than
\* a burst and the refill of that span (New: one limiter per client, shared by
\* all its requests).
WindowBudget ==
    \A c \in Clients : \A t1 \in 0..MaxTime : \A t2 \in t1..MaxTime :
        10 * SumOf(spent[c], t1..t2)
            <= 10 * Burst(c) + Per(c) * (t2 - t1)

\* No data leaves without a log line (auditMany): as often as a client was
\* answered with an object or a search, the log says so, under its name.
AnswersLogged == \A l \in Line : given[l] <= log[l]

\* The log never shows a name doing what a client of that name may not do:
\* names are unique, and every handler asks for its role (ValidateClients,
\* "the audit log attributes actions by name"; require).
RolesHold ==
    \A l \in Line : log[l] > 0 =>
        LET role == CASE l[2] = "create"        -> "write"
                      [] l[2] = "delete"        -> "delete"
                      [] l[2] = "reveal_masked" -> "read_masked"
                      [] l[2] = "reveal_full"   -> "read_full"
                      [] l[2] = "search"        -> "search"
        IN  \A c \in clients : c.name = l[1] => role \in c.roles

\* A request is served as the one client its key was given to: what it may do,
\* what it spends and what is logged of it are nobody else's (authenticate;
\* ValidateClients refuses shared keys, also that of SEALBOX_API_KEY).
Attributed ==
    \A q \in Requests : pc[q] # "idle" =>
        \A c \in clients : c.key = req[q].key =>
            c.name = req[q].client /\ RoleOf(req[q].kind) \in c.roles
=============================================================================
