----------------------------- MODULE ApiProofs -----------------------------
(***************************************************************************)
(* Proofs about Api, for any number of clients, requests, objects and any  *)
(* budgets.                                                                *)
(***************************************************************************)
EXTENDS ApiRefinement, SumProofs

-----------------------------------------------------------------------------
(* The inductive invariant *)

\* What ValidateClients left of the keys file: no two clients share a name or a
\* key, and no budget is negative.
ClientsValid ==
    /\ \A c \in clients : c.per >= 0
    /\ \A c, d \in clients : c.name = d.name \/ c.key = d.key => c = d

\* A request is one client's, who has the role; a budgeted read that is not a
\* batch has spent before it looks; what was found was asked for and stored.
ReqSoFar(q) ==
    /\ pc[q] = "idle" => req[q] = NoReq
    /\ pc[q] # "idle" =>
         /\ req[q].client \in Clients /\ req[q].kind \in Reads
         /\ \A c \in clients : c.key = req[q].key \/ c.name = req[q].client =>
              c.name = req[q].client /\ RoleOf(req[q].kind) \in c.roles
         /\ req[q].kind \in {"get_masked", "get_full"} => Cardinality(req[q].ids) = 1
         /\ req[q].found \subseteq req[q].ids
         /\ req[q].found \subseteq live \cup erased
    /\ pc[q] = "spend" => req[q].kind \in {"get_full", "search"}
    /\ pc[q] = "charge" => req[q].kind = "batch_full"

\* The requests that are about to answer with what line l says.
Waiting(l) == {q \in Requests : pc[q] = "answer" /\ l \in LinesOf(q)}

\* Every answer, given or about to be, has a line of its own.
LinesCounted == \A l \in Line : given[l] + Cardinality(Waiting(l)) <= log[l]

\* The units that request q has spent and was not yet answered for.
Due(q) == IF pc[q] \in {"audit", "answer"} THEN Worth(q)
          ELSE IF pc[q] = "look" /\ req[q].kind \in {"get_full", "search"} THEN 1 ELSE 0

\* The same, of client c only.
DueOf(c) == [q \in Requests |-> IF req[q].client = c THEN Due(q) ELSE 0]

\* Answers are paid for, and so are the requests that have spent already.
PaidCounted == \A c \in Clients : handed[c] + SumOf(DueOf(c), Requests) <= paid[c]

\* The token bucket: what was spent since any second and what is left were
\* never more than a burst and the refill since then.
Bucket(per, burst, left, used, now) ==
    /\ left <= 10 * burst
    /\ \A t \in 0..MaxTime : t > now => used[t] = 0
    /\ \A t \in 0..now : 10 * SumOf(used, t..now) + left <= 10 * burst + per * (now - t)
    /\ \A t1 \in 0..MaxTime : \A t2 \in t1..MaxTime : t2 < now =>
         10 * SumOf(used, t1..t2) <= 10 * burst + per * (t2 - t1)

BucketHolds(c) == Bucket(Per(c), Burst(c), tokens[c], spent[c], clock)

ApiInv ==
    /\ TypeOK
    /\ ClientsValid
    /\ \A q \in Requests : ReqSoFar(q)
    /\ LinesCounted
    /\ RolesHold
    /\ PaidCounted
    /\ \A c \in Clients : BucketHolds(c)
-----------------------------------------------------------------------------
(* Clients, budgets and requests *)

\* A budget is a natural number of tenths, its burst one of units: the budgets
\* of valid clients are.
LEMMA BudgetOfValid ==
    ASSUME clients \subseteq Client, ClientsValid, NEW c \in Clients
    PROVE  Per(c) \in Nat /\ Burst(c) \in Nat
<1> DEFINE pers == {d.per : d \in {d \in clients : d.name = c}}
<1>1. pers \subseteq Nat
  BY DEF ClientsValid, Client
<1>2. Per(c) = IF pers = {} THEN 0
               ELSE IF (CHOOSE p \in pers : TRUE) = 0 THEN DefaultPerSecond
               ELSE CHOOSE p \in pers : TRUE
  BY DEF Per
<1> HIDE DEF pers
<1>3. pers # {} => (CHOOSE p \in pers : TRUE) \in Nat
  BY <1>1
<1>4. Per(c) \in Nat
  BY <1>2, <1>3, ApiAssumption
<1> QED
  BY <1>4 DEF Burst

\* And so are those of every state.
LEMMA BudgetType ==
    ASSUME TypeOK, ClientsValid, NEW c \in Clients
    PROVE  Per(c) \in Nat /\ Burst(c) \in Nat
BY BudgetOfValid DEF TypeOK

\* The budgets depend on the clients only.
LEMMA BudgetStays ==
    ASSUME clients' = clients, NEW c
    PROVE  Per(c)' = Per(c) /\ Burst(c)' = Burst(c)
<1>1. Per(c)' = Per(c)
  BY DEF Per
<1> QED
  BY <1>1 DEF Burst

\* ValidateClients lets the server start with valid clients only.
LEMMA StartsValid ==
    ASSUME Init
    PROVE  clients \subseteq Client /\ ClientsValid
<1>1. PICK s \in Settings : ValidateClients(s) /\ clients = s.file \cup Default(s)
  BY DEF Init
<1>2. s.file \subseteq Client /\ Default(s) \subseteq Client
  <2>0. s.file \subseteq Client
    BY ApiAssumption
  <2>1. AllRoles \subseteq RoleNames
    BY ApiAssumption
  <2>2. CASE s.apiKey = None
    <3>1. Default(s) = {}
      BY <2>2 DEF Default
    <3> QED
      BY <2>0, <3>1
  <2>3. CASE s.apiKey # None
    <3>1. s.apiKey \in Keys /\ "default" \in Clients
      BY <2>3, ApiAssumption
    <3>2. [name |-> "default", key |-> s.apiKey, roles |-> AllRoles, per |-> 0] \in Client
      BY <2>1, <3>1 DEF Client
    <3> QED
      BY <2>0, <2>3, <3>2 DEF Default
  <2> QED
    BY <2>2, <2>3
<1>3. \A c \in clients : c.per >= 0
  BY <1>1 DEF ValidateClients
<1>4. \A c \in s.file, d \in s.file \cup Default(s) :
        c # d \/ d \in Default(s) => c.name # d.name /\ c.key # d.key
  BY <1>1 DEF ValidateClients, Unique
<1>5. \A c, d \in Default(s) : c = d
  BY DEF Default
<1>6. \A c, d \in clients : c.name = d.name \/ c.key = d.key => c = d
  BY <1>1, <1>4, <1>5
<1> QED
  BY <1>1, <1>2, <1>3, <1>6 DEF ClientsValid

\* Every request but q is where it was.
OthersStay(q) == \A p \in Requests \ {q} : pc'[p] = pc[p] /\ req'[p] = req[p]

\* A step that moves only q leaves the others where they were.
LEMMA OnlyOneMoves ==
    ASSUME TypeOK, NEW q \in Requests, NEW l \in Control, NEW r \in Req, Goto(q, l), Keep(q, r)
    PROVE  /\ OthersStay(q) /\ pc'[q] = l /\ req'[q] = r
           /\ pc' \in [Requests -> Control] /\ req' \in [Requests -> Req]
BY DEF TypeOK, Goto, Keep, OthersStay

\* A step that keeps q's locals keeps them.
LEMMA KeepsLocals ==
    ASSUME TypeOK, NEW q \in Requests, UNCHANGED req
    PROVE  Keep(q, req[q])
BY DEF TypeOK, Keep

\* The locals of no request.
LEMMA NoReqType == NoReq \in Req
BY ApiAssumption DEF NoReq, Req

\* What a request found, and what its answer is worth, is finite.
LEMMA WorthType ==
    ASSUME TypeOK, NEW q \in Requests
    PROVE  /\ req[q] \in Req /\ IsFiniteSet(req[q].found)
           /\ Cardinality(req[q].found) \in Nat
           /\ Worth(q) \in Nat /\ Due(q) \in Nat
<1>1. req[q] \in Req /\ req[q].found \subseteq Ids
  BY DEF TypeOK, Req
<1>2. IsFiniteSet(req[q].found) /\ Cardinality(req[q].found) \in Nat
  BY <1>1, ApiAssumption, FS_Subset, FS_CardinalityType
<1>3. Worth(q) \in Nat
  BY <1>2 DEF Worth
<1> QED
  BY <1>1, <1>2, <1>3 DEF Due

\* What is logged of a read are lines of the log, under the client's name.
LEMMA LinesType ==
    ASSUME TypeOK, NEW q \in Requests, ReqSoFar(q), pc[q] # "idle"
    PROVE  LinesOf(q) \subseteq Line
<1>1. req[q].client \in Clients /\ req[q].kind \in Reads /\ req[q].found \subseteq Ids
  BY DEF ReqSoFar, TypeOK, Req
<1>2. ActionOf(req[q].kind) \in Actions
  BY DEF ActionOf, Actions
<1> QED
  BY <1>1, <1>2 DEF LinesOf, Line

\* Lines that are appended, or answers that are counted, are counted once.
LEMMA AppendedType ==
    ASSUME NEW f \in [Line -> Nat], NEW L
    PROVE  /\ Appended(f, L) \in [Line -> Nat]
           /\ \A l \in Line : Appended(f, L)[l] = IF l \in L THEN f[l] + 1 ELSE f[l]
BY DEF Appended

-----------------------------------------------------------------------------
(* What a step of one request keeps *)

\* The other requests keep what was true of them.
LEMMA OthersKept ==
    ASSUME ApiInv, NEW q \in Requests, OthersStay(q), ReqSoFar(q)', clients' = clients,
           live \cup erased \subseteq live' \cup erased'
    PROVE  \A p \in Requests : ReqSoFar(p)'
<1>1. SUFFICES ASSUME NEW p \in Requests \ {q} PROVE ReqSoFar(p)'
  OBVIOUS
<1>2. ReqSoFar(p) /\ pc'[p] = pc[p] /\ req'[p] = req[p]
  BY DEF ApiInv, OthersStay
<1> QED
  BY <1>2 DEF ReqSoFar

\* No answer is closer than before, and the log has not lost a line.
LEMMA LinesKept ==
    ASSUME ApiInv, NEW q \in Requests, OthersStay(q), pc'[q] # "answer", given' = given,
           log' \in [Line -> Nat], \A l \in Line : log'[l] >= log[l]
    PROVE  LinesCounted'
<1>1. SUFFICES ASSUME NEW l \in Line
               PROVE  given'[l] + Cardinality(Waiting(l)') <= log'[l]
  BY DEF LinesCounted
<1>2. Waiting(l)' \subseteq Waiting(l)
  BY DEF Waiting, OthersStay, LinesOf
<1>3. IsFiniteSet(Waiting(l))
  BY ApiAssumption, FS_Subset DEF Waiting
<1>4. Cardinality(Waiting(l)') \in Nat /\ Cardinality(Waiting(l)) \in Nat
      /\ Cardinality(Waiting(l)') <= Cardinality(Waiting(l))
  BY <1>2, <1>3, FS_Subset, FS_CardinalityType
<1>5. given[l] + Cardinality(Waiting(l)) <= log[l]
  BY DEF ApiInv, LinesCounted
<1>6. given[l] \in Nat /\ log[l] \in Nat /\ log'[l] \in Nat /\ log'[l] >= log[l]
  BY DEF ApiInv, TypeOK
<1> QED
  BY <1>4, <1>5, <1>6

\* What a client's requests are due to it is a natural number.
LEMMA DueType ==
    ASSUME TypeOK, NEW c \in Clients
    PROVE  /\ \A p \in Requests : DueOf(c)[p] \in Nat
           /\ SumOf(DueOf(c), Requests) \in Nat
<1>1. \A p \in Requests : DueOf(c)[p] \in Nat
  BY WorthType DEF DueOf
<1> QED
  BY <1>1, SumNat, ApiAssumption

\* The request that moves gains no more than is paid, and what is handed out of
\* it is taken from what it was due.
LEMMA PaidKept ==
    ASSUME ApiInv, TypeOK', NEW q \in Requests, OthersStay(q),
           \A c \in Clients : handed'[c] + paid[c] + DueOf(c)'[q]
                                <= handed[c] + paid'[c] + DueOf(c)[q]
    PROVE  PaidCounted'
<1>1. SUFFICES ASSUME NEW c \in Clients
               PROVE  handed'[c] + SumOf(DueOf(c)', Requests) <= paid'[c]
  BY DEF PaidCounted
<1>2. \A p \in Requests : DueOf(c)[p] \in Nat
  BY DueType DEF ApiInv
<1>3. \A p \in Requests : DueOf(c)'[p] \in Nat
  <2>1. SUFFICES ASSUME NEW p \in Requests PROVE (DueOf(c)[p] \in Nat)'
    OBVIOUS
  <2>2. req'[p] \in Req /\ req'[p].found \subseteq Ids
    BY DEF TypeOK, Req
  <2>3. IsFiniteSet(req'[p].found) /\ Cardinality(req'[p].found) \in Nat
    BY <2>2, ApiAssumption, FS_Subset, FS_CardinalityType
  <2>4. Worth(p)' \in Nat
    BY <2>3 DEF Worth
  <2>5. Due(p)' \in Nat
    BY <2>4 DEF Due
  <2> QED
    BY <2>5 DEF DueOf
<1>4. \A p \in Requests : p # q => DueOf(c)'[p] = DueOf(c)[p]
  BY DEF DueOf, Due, Worth, OthersStay
<1>5. SumOf(DueOf(c)', Requests) + DueOf(c)[q] = SumOf(DueOf(c), Requests) + DueOf(c)'[q]
  BY <1>2, <1>3, <1>4, SumChange, ApiAssumption
<1>6. SumOf(DueOf(c), Requests) \in Nat /\ SumOf(DueOf(c)', Requests) \in Nat
  BY <1>2, <1>3, SumNat, ApiAssumption
<1>7. handed[c] + SumOf(DueOf(c), Requests) <= paid[c]
  BY DEF ApiInv, PaidCounted
<1>8. handed[c] \in Nat /\ paid[c] \in Nat /\ handed'[c] \in Nat /\ paid'[c] \in Nat
  BY DEF ApiInv, TypeOK
<1>9. handed'[c] + paid[c] + DueOf(c)'[q] <= handed[c] + paid'[c] + DueOf(c)[q]
  OBVIOUS
<1>10. DueOf(c)[q] \in Nat /\ DueOf(c)'[q] \in Nat
  BY <1>2, <1>3
<1> QED
  BY <1>5, <1>6, <1>7, <1>8, <1>9, <1>10

\* Budgets that nobody touches stay what they were.
LEMMA BucketsKept ==
    ASSUME ApiInv, clients' = clients, UNCHANGED <<tokens, clock, spent>>
    PROVE  \A c \in Clients : BucketHolds(c)'
BY BudgetStays DEF ApiInv, BucketHolds, Bucket

\* A request moves, and whatever else it changes it does right: all of the
\* invariant stays.
LEMMA MovedCounted ==
    ASSUME ApiInv, TypeOK', clients' = clients, NEW q \in Requests, OthersStay(q),
           ReqSoFar(q)', live \cup erased \subseteq live' \cup erased',
           LinesCounted', RolesHold', \A c \in Clients : BucketHolds(c)',
           \A c \in Clients : handed'[c] + paid[c] + DueOf(c)'[q]
                                <= handed[c] + paid'[c] + DueOf(c)[q]
    PROVE  ApiInv'
<1>1. \A p \in Requests : ReqSoFar(p)'
  BY OthersKept
<1>2. PaidCounted'
  BY PaidKept
<1>3. ClientsValid'
  BY DEF ApiInv, ClientsValid
<1> QED
  BY <1>1, <1>2, <1>3 DEF ApiInv

\* The same for one that does not move to its answer: lines are kept.
LEMMA Moved ==
    ASSUME ApiInv, TypeOK', clients' = clients, NEW q \in Requests, OthersStay(q),
           pc'[q] # "answer", ReqSoFar(q)', given' = given,
           live \cup erased \subseteq live' \cup erased',
           \A l \in Line : log'[l] >= log[l], RolesHold',
           \A c \in Clients : BucketHolds(c)',
           \A c \in Clients : handed'[c] + paid[c] + DueOf(c)'[q]
                                <= handed[c] + paid'[c] + DueOf(c)[q]
    PROVE  ApiInv'
<1>1. log' \in [Line -> Nat]
  BY DEF TypeOK
<1>2. LinesCounted'
  BY <1>1, LinesKept
<1> QED
  BY <1>2, MovedCounted

-----------------------------------------------------------------------------
(* Roles and lines *)

\* The role that an action of the log needs.
RoleFor(action) == CASE action = "create"        -> "write"
                     [] action = "delete"        -> "delete"
                     [] action = "reveal_masked" -> "read_masked"
                     [] action = "reveal_full"   -> "read_full"
                     [] action = "search"        -> "search"

\* Clients of that name may do what the line says.
Allowed(l) == \A c \in clients : c.name = l[1] => RoleFor(l[2]) \in c.roles

\* A log that gains lines of clients who may do it still shows only those.
LEMMA RolesLogged ==
    ASSUME ApiInv, clients' = clients, NEW L, \A l \in Line : l \in L => Allowed(l),
           log' = Appended(log, L)
    PROVE  /\ RolesHold' /\ log' \in [Line -> Nat]
           /\ \A l \in Line : log'[l] >= log[l]
<1>1. log \in [Line -> Nat]
  BY DEF ApiInv, TypeOK
<1>2. /\ log' \in [Line -> Nat]
      /\ \A l \in Line : log'[l] = IF l \in L THEN log[l] + 1 ELSE log[l]
  BY <1>1, AppendedType
<1>3. ASSUME NEW l \in Line PROVE log'[l] >= log[l]
  BY <1>1, <1>2
<1>4. \A l \in Line : log[l] > 0 => Allowed(l)
  BY DEF ApiInv, RolesHold, Allowed, RoleFor
<1>5. \A l \in Line : log'[l] > 0 => Allowed(l)
  BY <1>1, <1>2, <1>4
<1>6. \A l \in Line : log'[l] > 0 => Allowed(l)'
  BY <1>5 DEF Allowed
<1>7. RolesHold'
  BY <1>6 DEF RolesHold, Allowed, RoleFor
<1> QED
  BY <1>2, <1>3, <1>7

\* What a read logs is what its client may do.
LEMMA LinesAllowed ==
    ASSUME ApiInv, NEW q \in Requests, pc[q] # "idle"
    PROVE  \A l \in Line : l \in LinesOf(q) => Allowed(l)
<1>1. SUFFICES ASSUME NEW l \in LinesOf(q), NEW c \in clients, c.name = l[1]
               PROVE  RoleFor(l[2]) \in c.roles
  BY DEF Allowed
<1>2. l[1] = req[q].client /\ l[2] = ActionOf(req[q].kind)
  BY DEF LinesOf
<1>3. RoleOf(req[q].kind) \in c.roles /\ req[q].kind \in Reads
  BY <1>1, <1>2 DEF ApiInv, ReqSoFar
<1>4. RoleFor(ActionOf(req[q].kind)) = RoleOf(req[q].kind)
  BY <1>3 DEF RoleFor, ActionOf, RoleOf, RevealRole, Reads, Reveals, Full
<1> QED
  BY <1>2, <1>3, <1>4

\* The client that a key belongs to has the role asked for, and is the only one
\* with its name.
LEMMA HasRole ==
    ASSUME ApiInv, NEW k, NEW c \in clients, NEW role, Has(k, c, role)
    PROVE  /\ c.name \in Clients
           /\ \A d \in clients : d.key = k \/ d.name = c.name => d.name = c.name /\ role \in d.roles
<1>1. c.key = k /\ role \in c.roles
  BY DEF Has, Authenticate
<1>2. \A d \in clients : d.key = k \/ d.name = c.name => d = c
  BY <1>1 DEF ApiInv, ClientsValid
<1>3. c \in Client
  BY DEF ApiInv, TypeOK
<1> QED
  BY <1>1, <1>2, <1>3 DEF Client

\* Nothing is appended.
LEMMA RolesKept ==
    ASSUME ApiInv, clients' = clients, log' = log
    PROVE  RolesHold' /\ \A l \in Line : log'[l] >= log[l]
<1>1. RolesHold'
  BY DEF ApiInv, RolesHold
<1>2. ASSUME NEW l \in Line PROVE log'[l] >= log[l]
  BY DEF ApiInv, TypeOK
<1> QED
  BY <1>1, <1>2

-----------------------------------------------------------------------------
(* The end of a request, whatever it was doing *)

\* A request that ends, having written the log or not, leaves the invariant.
LEMMA Ends ==
    ASSUME ApiInv, NEW q \in Requests, End(q),
           UNCHANGED <<clients, live, erased, budget, answers, arrived>>,
           log' \in [Line -> Nat], \A l \in Line : log'[l] >= log[l], RolesHold'
    PROVE  ApiInv'
<1>1. /\ OthersStay(q) /\ pc'[q] = "idle" /\ req'[q] = NoReq
      /\ pc' \in [Requests -> Control] /\ req' \in [Requests -> Req]
  BY OnlyOneMoves, NoReqType DEF End, ApiInv, Control
<1>2. TypeOK'
  BY <1>1 DEF ApiInv, TypeOK, budget, answers
<1>3. ReqSoFar(q)'
  BY <1>1 DEF ReqSoFar
<1>4. \A c \in Clients : BucketHolds(c)'
  BY BucketsKept DEF budget
<1>5. ASSUME NEW c \in Clients
      PROVE  handed'[c] + paid[c] + DueOf(c)'[q] <= handed[c] + paid'[c] + DueOf(c)[q]
  <2>1. DueOf(c)'[q] = 0
    BY <1>1 DEF DueOf, Due
  <2>2. DueOf(c)[q] \in Nat
    BY DueType DEF ApiInv
  <2>3. handed' = handed /\ paid' = paid /\ handed[c] \in Nat /\ paid[c] \in Nat
    BY DEF ApiInv, TypeOK, budget, answers
  <2> QED
    BY <2>1, <2>2, <2>3
<1>6. given' = given /\ live \cup erased \subseteq live' \cup erased' /\ clients' = clients
  BY DEF answers
<1>7. pc'[q] # "answer"
  BY <1>1
<1> QED
  BY <1>1, <1>2, <1>3, <1>4, <1>5, <1>6, <1>7, Moved

\* Fail: the same, with nothing written.
LEMMA EndsQuietly ==
    ASSUME ApiInv, NEW q \in Requests, End(q),
           UNCHANGED <<clients, vault, budget, answers, arrived>>
    PROVE  ApiInv'
<1>1. log' = log /\ clients' = clients /\ log' \in [Line -> Nat]
  BY DEF vault, ApiInv, TypeOK
<1>2. RolesHold' /\ \A l \in Line : log'[l] >= log[l]
  BY <1>1, RolesKept
<1>3. UNCHANGED <<clients, live, erased, budget, answers, arrived>>
  BY DEF vault
<1> QED
  BY <1>1, <1>2, <1>3, Ends

-----------------------------------------------------------------------------
(* Reads *)

\* A read arrives: it has spent nothing and found nothing yet.
LEMMA ArriveKeeps ==
    ASSUME ApiInv, NEW q \in Requests, NEW k \in Keys, NEW c \in clients, NEW kind \in Reads,
           NEW S \in SUBSET Ids, Arrive(q, k, c, kind, S)
    PROVE  ApiInv'
<1> DEFINE r == [client |-> c.name, key |-> k, kind |-> kind, ids |-> S, found |-> {}]
<1>1. /\ c.name \in Clients
      /\ \A d \in clients : d.key = k \/ d.name = c.name =>
           d.name = c.name /\ RoleOf(kind) \in d.roles
  BY HasRole DEF Arrive
<1>2. r \in Req /\ First(kind) \in Control
  BY <1>1 DEF Req, First, Control
<1>3. Keep(q, r) /\ Goto(q, First(kind)) /\ pc[q] = "idle"
  BY DEF Arrive
<1>4. r.client = c.name /\ r.key = k /\ r.kind = kind /\ r.ids = S /\ r.found = {}
  OBVIOUS
<1> HIDE DEF r
<1>5. /\ OthersStay(q) /\ pc'[q] = First(kind) /\ req'[q] = r
      /\ pc' \in [Requests -> Control] /\ req' \in [Requests -> Req]
  BY <1>2, <1>3, OnlyOneMoves DEF ApiInv
<1>6. /\ UNCHANGED <<clients, live, erased, log, tokens, clock, spent, paid, given, handed>>
      /\ arrived < MaxArrivals /\ arrived' = arrived + 1
  BY DEF Arrive, vault, budget, answers
<1>7. TypeOK'
  BY <1>5, <1>6, ApiAssumption DEF ApiInv, TypeOK
<1>8. ReqSoFar(q)'
  <2>1. kind \in {"get_masked", "get_full"} => Cardinality(S) = 1
    BY DEF Arrive
  <2>2. pc'[q] = "spend" => kind \in {"get_full", "search"}
    BY <1>5 DEF First
  <2>3. pc'[q] # "charge" /\ pc'[q] # "idle"
    BY <1>5 DEF First
  <2> QED
    BY <1>1, <1>4, <1>5, <1>6, <2>1, <2>2, <2>3 DEF ReqSoFar
<1>9. ASSUME NEW d \in Clients
      PROVE  handed'[d] + paid[d] + DueOf(d)'[q] <= handed[d] + paid'[d] + DueOf(d)[q]
  <2>1. DueOf(d)'[q] = 0
    BY <1>4, <1>5 DEF DueOf, Due, First
  <2>2. DueOf(d)[q] \in Nat
    BY DueType DEF ApiInv
  <2>3. handed' = handed /\ paid' = paid /\ handed[d] \in Nat /\ paid[d] \in Nat
    BY <1>6 DEF ApiInv, TypeOK
  <2> QED
    BY <2>1, <2>2, <2>3
<1>10. \A d \in Clients : BucketHolds(d)'
  BY <1>6, BucketsKept
<1>11. RolesHold' /\ \A l \in Line : log'[l] >= log[l]
  BY <1>6, RolesKept
<1>12. pc'[q] # "answer"
  BY <1>5 DEF First
<1> QED
  BY <1>5, <1>6, <1>7, <1>8, <1>9, <1>10, <1>11, <1>12, Moved

\* Look: a read of one object that has spent a unit finds at most one.
LEMMA LookKeeps ==
    ASSUME ApiInv, NEW q \in Requests, Look(q)
    PROVE  ApiInv'
<1> DEFINE found == req[q].ids \cap live
           kind  == req[q].kind
           r     == [req[q] EXCEPT !.found = found]
           l     == IF kind = "batch_full" THEN "charge" ELSE "audit"
<1>1. CASE End(q)
  BY <1>1, EndsQuietly DEF Look
<1>2. CASE Keep(q, r) /\ Goto(q, l)
  <2>1. /\ UNCHANGED <<clients, live, erased, log, tokens, clock, spent, paid, given, handed, arrived>>
        /\ pc[q] = "look"
    BY DEF Look, vault, budget, answers
  <2>2. req[q] \in Req /\ ReqSoFar(q) /\ live \subseteq Ids
    BY DEF ApiInv, TypeOK
  <2>3. /\ r \in Req /\ r.client = req[q].client /\ r.key = req[q].key /\ r.kind = kind
        /\ r.ids = req[q].ids /\ r.found = found /\ found \subseteq req[q].ids
        /\ found \subseteq live /\ found \subseteq Ids
    BY <2>2 DEF Req
  <2>4. l \in Control /\ l # "answer" /\ l # "idle" /\ l # "spend" /\ l # "look"
    BY DEF Control
  <2>5. Keep(q, r) /\ Goto(q, l)
    BY <1>2
  <2>6. l = IF kind = "batch_full" THEN "charge" ELSE "audit"
    OBVIOUS
  <2> HIDE DEF found, r, l
  <2>7. /\ OthersStay(q) /\ pc'[q] = l /\ req'[q] = r
        /\ pc' \in [Requests -> Control] /\ req' \in [Requests -> Req]
    BY <2>3, <2>4, <2>5, OnlyOneMoves DEF ApiInv
  <2>8. TypeOK'
    BY <2>1, <2>7 DEF ApiInv, TypeOK
  <2>9. ReqSoFar(q)'
    BY <2>1, <2>2, <2>3, <2>4, <2>6, <2>7 DEF ReqSoFar
  <2>10. Due(q)' <= Due(q) /\ Due(q)' \in Nat /\ Due(q) \in Nat
    <3>1. kind \in Reads /\ (kind \in {"get_masked", "get_full"} => Cardinality(req[q].ids) = 1)
      BY <2>1, <2>2 DEF ReqSoFar
    <3>2. IsFiniteSet(req[q].ids) /\ req[q].ids \subseteq Ids
      BY <2>2, ApiAssumption, FS_Subset DEF Req
    <3>3. Cardinality(found) \in Nat /\ Cardinality(found) <= Cardinality(req[q].ids)
      BY <2>3, <3>2, FS_Subset, FS_CardinalityType
    <3>4. Due(q)' = IF kind = "search" THEN 1
                    ELSE IF kind = "get_full" THEN Cardinality(found) ELSE 0
      BY <2>3, <2>6, <2>7, <3>1 DEF Due, Worth, Full, Reads, Reveals
    <3>5. Due(q) = IF kind \in {"get_full", "search"} THEN 1 ELSE 0
      BY <2>1 DEF Due
    <3>6. kind = "get_full" => Cardinality(found) <= 1
      BY <3>1, <3>3
    <3> HIDE DEF kind
    <3> QED
      BY <3>3, <3>4, <3>5, <3>6
  <2>11. ASSUME NEW c \in Clients
         PROVE  handed'[c] + paid[c] + DueOf(c)'[q] <= handed[c] + paid'[c] + DueOf(c)[q]
    <3>1. /\ DueOf(c)[q] = IF req[q].client = c THEN Due(q) ELSE 0
          /\ DueOf(c)'[q] = IF req[q].client = c THEN Due(q)' ELSE 0
      BY <2>3, <2>7 DEF DueOf
    <3>2. handed' = handed /\ paid' = paid /\ handed[c] \in Nat /\ paid[c] \in Nat
      BY <2>1 DEF ApiInv, TypeOK
    <3> QED
      BY <2>10, <3>1, <3>2
  <2>12. \A d \in Clients : BucketHolds(d)'
    BY <2>1, BucketsKept
  <2>13. RolesHold' /\ \A m \in Line : log'[m] >= log[m]
    BY <2>1, RolesKept
  <2> QED
    BY <2>1, <2>4, <2>7, <2>8, <2>9, <2>11, <2>12, <2>13, Moved
<1> QED
  BY <1>1, <1>2 DEF Look

\* The requests that wait to answer with l are finitely many.
LEMMA WaitingType ==
    ASSUME NEW l
    PROVE  IsFiniteSet(Waiting(l)) /\ Cardinality(Waiting(l)) \in Nat
<1>1. IsFiniteSet(Waiting(l))
  BY ApiAssumption, FS_Subset DEF Waiting
<1> QED
  BY <1>1, FS_CardinalityType

\* Audit: the lines are in the log before the answer waits for anything.
LEMMA AuditKeeps ==
    ASSUME ApiInv, NEW q \in Requests, NEW written \in BOOLEAN, NEW told \in BOOLEAN,
           Audit(q, written, told)
    PROVE  ApiInv'
<1>1. /\ pc[q] = "audit" /\ (told => written)
      /\ UNCHANGED <<clients, live, erased, tokens, clock, spent, paid, given, handed, arrived>>
  BY DEF Audit, budget, answers
<1>2. \A l \in Line : l \in LinesOf(q) => Allowed(l)
  BY <1>1, LinesAllowed
<1>3. CASE ~told
  <2>1. End(q) /\ UNCHANGED <<clients, live, erased, budget, answers, arrived>>
    BY <1>3 DEF Audit
  <2>2. log' = log \/ log' = Appended(log, LinesOf(q))
    BY DEF Audit
  <2>3. log \in [Line -> Nat]
    BY DEF ApiInv, TypeOK
  <2>4. /\ RolesHold' /\ log' \in [Line -> Nat]
        /\ \A l \in Line : log'[l] >= log[l]
    BY <1>1, <1>2, <2>2, <2>3, RolesKept, RolesLogged
  <2> QED
    BY <2>1, <2>4, Ends
<1>4. CASE told
  <2>1. /\ log' = Appended(log, LinesOf(q)) /\ Goto(q, "answer") /\ req' = req
    BY <1>1, <1>4 DEF Audit
  <2>2. req[q] \in Req /\ Keep(q, req[q]) /\ "answer" \in Control
    BY <2>1, KeepsLocals DEF ApiInv, TypeOK, Control
  <2>3. /\ OthersStay(q) /\ pc'[q] = "answer" /\ req'[q] = req[q]
        /\ pc' \in [Requests -> Control] /\ req' \in [Requests -> Req]
    BY <2>1, <2>2, OnlyOneMoves DEF ApiInv
  <2>4. /\ RolesHold' /\ log' \in [Line -> Nat]
        /\ \A l \in Line : log'[l] >= log[l]
    BY <1>1, <1>2, <2>1, RolesLogged
  <2>5. TypeOK'
    BY <1>1, <2>3, <2>4 DEF ApiInv, TypeOK
  <2>6. ReqSoFar(q)'
    BY <1>1, <2>3 DEF ApiInv, ReqSoFar
  <2>7. LinesCounted'
    <3>1. SUFFICES ASSUME NEW l \in Line
                   PROVE  given'[l] + Cardinality(Waiting(l)') <= log'[l]
      BY DEF LinesCounted
    <3>2. /\ given'[l] = given[l] /\ given[l] \in Nat /\ log[l] \in Nat
          /\ given[l] + Cardinality(Waiting(l)) <= log[l]
      BY <1>1 DEF ApiInv, TypeOK, LinesCounted
    <3>3. log'[l] = IF l \in LinesOf(q) THEN log[l] + 1 ELSE log[l]
      <4>1. log \in [Line -> Nat]
        BY DEF ApiInv, TypeOK
      <4> QED
        BY <2>1, <4>1, AppendedType
    <3>4. Waiting(l)' = IF l \in LinesOf(q) THEN Waiting(l) \cup {q} ELSE Waiting(l)
      <4>1. \A p \in Requests : LinesOf(p)' = LinesOf(p)
        BY <2>1 DEF LinesOf
      <4>2. \A p \in Requests : p # q => pc'[p] = pc[p]
        BY <2>3 DEF OthersStay
      <4>3. Waiting(l)' = {p \in Requests : pc'[p] = "answer" /\ l \in LinesOf(p)}
        BY <4>1 DEF Waiting
      <4> QED
        BY <1>1, <2>3, <4>2, <4>3 DEF Waiting
    <3>5. q \notin Waiting(l)
      BY <1>1 DEF Waiting
    <3>6. Cardinality(Waiting(l) \cup {q}) = Cardinality(Waiting(l)) + 1
      BY <3>5, WaitingType, FS_AddElement
    <3> QED
      BY <3>2, <3>3, <3>4, <3>6, WaitingType
  <2>8. ASSUME NEW c \in Clients
        PROVE  handed'[c] + paid[c] + DueOf(c)'[q] <= handed[c] + paid'[c] + DueOf(c)[q]
    <3>1. DueOf(c)'[q] = DueOf(c)[q]
      BY <1>1, <2>3 DEF DueOf, Due, Worth
    <3>2. DueOf(c)[q] \in Nat
      BY DueType DEF ApiInv
    <3>3. handed' = handed /\ paid' = paid /\ handed[c] \in Nat /\ paid[c] \in Nat
      BY <1>1 DEF ApiInv, TypeOK
    <3> QED
      BY <3>1, <3>2, <3>3
  <2>9. \A d \in Clients : BucketHolds(d)'
    BY <1>1, BucketsKept
  <2> QED
    BY <1>1, <2>3, <2>4, <2>5, <2>6, <2>7, <2>8, <2>9, MovedCounted
<1> QED
  BY <1>3, <1>4

\* Answer: what waited is given, and what was due is handed out.
LEMMA AnswerKeeps ==
    ASSUME ApiInv, NEW q \in Requests, Answer(q)
    PROVE  ApiInv'
<1>1. /\ pc[q] = "answer" /\ End(q)
      /\ given' = Appended(given, LinesOf(q))
      /\ handed' = [handed EXCEPT ![req[q].client] = @ + Worth(q)]
      /\ UNCHANGED <<clients, live, erased, log, tokens, clock, spent, paid, arrived>>
  BY DEF Answer, vault, budget
<1>2. /\ OthersStay(q) /\ pc'[q] = "idle" /\ req'[q] = NoReq
      /\ pc' \in [Requests -> Control] /\ req' \in [Requests -> Req]
  BY <1>1, OnlyOneMoves, NoReqType DEF End, ApiInv, Control
<1>3. Worth(q) \in Nat /\ req[q].client \in Clients
  BY <1>1, WorthType DEF ApiInv, ReqSoFar
<1>4. /\ given' \in [Line -> Nat]
      /\ \A l \in Line : given'[l] = IF l \in LinesOf(q) THEN given[l] + 1 ELSE given[l]
  <2>1. given \in [Line -> Nat]
    BY DEF ApiInv, TypeOK
  <2> QED
    BY <1>1, <2>1, AppendedType
<1>5. TypeOK'
  <2>1. handed' \in [Clients -> Nat]
    BY <1>1, <1>3 DEF ApiInv, TypeOK
  <2> QED
    BY <1>1, <1>2, <1>4, <2>1 DEF ApiInv, TypeOK
<1>6. ReqSoFar(q)'
  BY <1>2 DEF ReqSoFar
<1>7. LinesCounted'
  <2>1. SUFFICES ASSUME NEW l \in Line
                 PROVE  given'[l] + Cardinality(Waiting(l)') <= log'[l]
    BY DEF LinesCounted
  <2>2. /\ log'[l] = log[l] /\ given[l] \in Nat /\ log[l] \in Nat
        /\ given[l] + Cardinality(Waiting(l)) <= log[l]
    BY <1>1 DEF ApiInv, TypeOK, LinesCounted
  <2>3. Waiting(l)' = Waiting(l) \ {q}
    BY <1>1, <1>2 DEF Waiting, OthersStay, LinesOf
  <2>4. q \in Waiting(l) <=> l \in LinesOf(q)
    BY <1>1 DEF Waiting
  <2>5. Cardinality(Waiting(l)') = IF l \in LinesOf(q) THEN Cardinality(Waiting(l)) - 1
                                   ELSE Cardinality(Waiting(l))
    BY <2>3, <2>4, WaitingType, FS_RemoveElement
  <2>6. Cardinality(Waiting(l)) \in Nat
    BY WaitingType
  <2> QED
    BY <1>4, <2>2, <2>5, <2>6
<1>8. ASSUME NEW c \in Clients
      PROVE  handed'[c] + paid[c] + DueOf(c)'[q] <= handed[c] + paid'[c] + DueOf(c)[q]
  <2>1. DueOf(c)'[q] = 0
    BY <1>2 DEF DueOf, Due
  <2>2. DueOf(c)[q] = IF req[q].client = c THEN Worth(q) ELSE 0
    BY <1>1 DEF DueOf, Due
  <2>3. handed[c] \in Nat /\ paid[c] \in Nat /\ paid' = paid
    BY <1>1 DEF ApiInv, TypeOK
  <2>4. handed'[c] = IF req[q].client = c THEN handed[c] + Worth(q) ELSE handed[c]
    BY <1>1 DEF ApiInv, TypeOK
  <2> QED
    BY <1>3, <2>1, <2>2, <2>3, <2>4
<1>9. \A d \in Clients : BucketHolds(d)'
  BY <1>1, BucketsKept
<1>10. RolesHold'
  BY <1>1, RolesKept
<1> QED
  BY <1>1, <1>2, <1>5, <1>6, <1>7, <1>8, <1>9, <1>10, MovedCounted

-----------------------------------------------------------------------------
(* Creates and deletes *)

\* A step of the vault that logs what its client may do, and no request moves.
LEMMA VaultStepKeeps ==
    ASSUME ApiInv, NEW L, \A l \in Line : l \in L => Allowed(l), log' = Appended(log, L),
           live' \subseteq Ids, erased' \subseteq Ids,
           live \cup erased \subseteq live' \cup erased',
           arrived < MaxArrivals, arrived' = arrived + 1,
           UNCHANGED <<clients, tokens, clock, spent, paid, given, handed, pc, req>>
    PROVE  ApiInv'
<1>1. /\ RolesHold' /\ log' \in [Line -> Nat]
      /\ \A l \in Line : log'[l] >= log[l]
  BY RolesLogged
<1>2. TypeOK'
  BY <1>1, ApiAssumption DEF ApiInv, TypeOK
<1>3. ASSUME NEW p \in Requests PROVE ReqSoFar(p)'
  <2>1. ReqSoFar(p)
    BY DEF ApiInv
  <2> QED
    BY <2>1 DEF ReqSoFar
<1>4. LinesCounted'
  <2>1. SUFFICES ASSUME NEW l \in Line
                 PROVE  given'[l] + Cardinality(Waiting(l)') <= log'[l]
    BY DEF LinesCounted
  <2>2. Waiting(l)' = Waiting(l)
    BY DEF Waiting, LinesOf
  <2>3. /\ given[l] \in Nat /\ log[l] \in Nat /\ log'[l] \in Nat /\ log'[l] >= log[l]
        /\ given[l] + Cardinality(Waiting(l)) <= log[l]
    BY <1>1 DEF ApiInv, TypeOK, LinesCounted
  <2> QED
    BY <2>2, <2>3, WaitingType
<1>5. PaidCounted'
  <2>1. \A c \in Clients : DueOf(c)' = DueOf(c)
    BY DEF DueOf, Due, Worth
  <2> QED
    BY <2>1 DEF ApiInv, PaidCounted
<1>6. \A c \in Clients : BucketHolds(c)'
  BY BucketsKept
<1>7. ClientsValid'
  BY DEF ApiInv, ClientsValid
<1> QED
  BY <1>1, <1>2, <1>3, <1>4, <1>5, <1>6, <1>7 DEF ApiInv

\* Create.
LEMMA CreateKeeps ==
    ASSUME ApiInv, NEW k \in Keys, NEW c \in clients, NEW S \in SUBSET Ids, Create(k, c, S)
    PROVE  ApiInv'
<1> DEFINE L == {<<c.name, "create", i>> : i \in S}
<1>1. \A d \in clients : d.name = c.name => "write" \in d.roles
  BY HasRole DEF Create, RoleOf, Reveals
<1>2. \A l \in Line : l \in L => Allowed(l)
  BY <1>1 DEF Allowed, RoleFor
<1>3. log' = Appended(log, L)
  BY DEF Create
<1>4. /\ live' = live \cup S /\ erased' = erased /\ live \subseteq Ids /\ erased \subseteq Ids
      /\ arrived < MaxArrivals /\ arrived' = arrived + 1
      /\ UNCHANGED <<clients, tokens, clock, spent, paid, given, handed, pc, req>>
  BY DEF Create, ApiInv, TypeOK, budget, answers
<1> HIDE DEF L
<1> QED
  BY <1>2, <1>3, <1>4, VaultStepKeeps

\* Delete: an object that was found may be erased before it is answered.
LEMMA DeleteKeeps ==
    ASSUME ApiInv, NEW k \in Keys, NEW c \in clients, NEW S \in SUBSET Ids, Delete(k, c, S)
    PROVE  ApiInv'
<1> DEFINE L == {<<c.name, "delete", i>> : i \in S}
<1>1. \A d \in clients : d.name = c.name => "delete" \in d.roles
  BY HasRole DEF Delete, RoleOf, Reveals
<1>2. \A l \in Line : l \in L => Allowed(l)
  BY <1>1 DEF Allowed, RoleFor
<1>3. log' = Appended(log, L)
  BY DEF Delete
<1>4. /\ live' = live \ S /\ erased' = erased \cup S /\ live \subseteq Ids /\ erased \subseteq Ids
      /\ arrived < MaxArrivals /\ arrived' = arrived + 1
      /\ UNCHANGED <<clients, tokens, clock, spent, paid, given, handed, pc, req>>
  BY DEF Delete, ApiInv, TypeOK, budget, answers
<1> HIDE DEF L
<1> QED
  BY <1>2, <1>3, <1>4, VaultStepKeeps

-----------------------------------------------------------------------------
(* Budgets *)

\* A span of seconds.
LEMMA SpanType ==
    ASSUME TypeOK, NEW c \in Clients, NEW t1 \in 0..MaxTime, NEW t2 \in 0..MaxTime
    PROVE  /\ IsFiniteSet(t1..t2) /\ \A t \in t1..t2 : spent[c][t] \in Nat
           /\ SumOf(spent[c], t1..t2) \in Nat
<1>1. IsFiniteSet(t1..t2)
  BY FS_Interval, ApiAssumption
<1>2. \A t \in t1..t2 : spent[c][t] \in Nat
  BY ApiAssumption DEF TypeOK
<1> QED
  BY <1>1, <1>2, SumNat

\* What a refill adds up to in a span, and in one second more.
LEMMA RefillOfSpan ==
    ASSUME NEW a \in Nat, NEW b \in Nat
    PROVE  a * b \in Nat /\ a * (b + 1) = a * b + a /\ a * 0 = 0
OBVIOUS

\* Spend: what a client spends is taken from its own bucket.
LEMMA SpendKeeps ==
    ASSUME ApiInv, clients' = clients, NEW c \in Clients, NEW n \in Nat, AllowN(c, n), Spend(c, n)
    PROVE  /\ tokens' \in [Clients -> Nat] /\ clock' = clock
           /\ spent' \in [Clients -> [0..MaxTime -> Nat]] /\ paid' \in [Clients -> Nat]
           /\ \A d \in Clients : paid'[d] = IF d = c THEN paid[d] + n ELSE paid[d]
           /\ \A d \in Clients : BucketHolds(d)'
<1>1. /\ tokens \in [Clients -> Nat] /\ spent \in [Clients -> [0..MaxTime -> Nat]]
      /\ paid \in [Clients -> Nat] /\ clock \in 0..MaxTime /\ TypeOK
      /\ 10 * n <= tokens[c] /\ MaxTime \in Nat
  BY ApiAssumption DEF ApiInv, TypeOK, AllowN
<1>2. tokens' \in [Clients -> Nat] /\ tokens'[c] = tokens[c] - 10 * n
      /\ \A d \in Clients : d # c => tokens'[d] = tokens[d]
  BY <1>1 DEF Spend
<1>3. spent' = [spent EXCEPT ![c] = [spent[c] EXCEPT ![clock] = @ + n]]
  BY DEF Spend
<1>4. /\ spent' \in [Clients -> [0..MaxTime -> Nat]]
      /\ spent'[c] = [spent[c] EXCEPT ![clock] = @ + n]
      /\ \A d \in Clients : d # c => spent'[d] = spent[d]
  BY <1>1, <1>3
<1>5. spent'[c][clock] = spent[c][clock] + n
      /\ \A t \in 0..MaxTime : t # clock => spent'[c][t] = spent[c][t]
  BY <1>1, <1>4
<1>6. paid' \in [Clients -> Nat] /\ clock' = clock
      /\ \A d \in Clients : paid'[d] = IF d = c THEN paid[d] + n ELSE paid[d]
  BY <1>1 DEF Spend
<1>7. ASSUME NEW d \in Clients, d # c PROVE BucketHolds(d)'
  <2>1. /\ tokens'[d] = tokens[d] /\ spent'[d] = spent[d] /\ clock' = clock
        /\ Per(d)' = Per(d) /\ Burst(d)' = Burst(d)
    BY <1>2, <1>4, <1>6, <1>7, BudgetStays
  <2>2. BucketHolds(d)
    BY DEF ApiInv
  <2> QED
    BY <2>1, <2>2 DEF BucketHolds, Bucket
<1>8. BucketHolds(c)'
  <2>1. BucketHolds(c) /\ tokens[c] \in Nat /\ Per(c) \in Nat /\ Burst(c) \in Nat
    BY <1>1, BudgetType DEF ApiInv
  <2>2. tokens'[c] <= 10 * Burst(c)
    BY <1>1, <1>2, <2>1 DEF BucketHolds, Bucket
  <2>3. \A t \in 0..MaxTime : t > clock => spent'[c][t] = 0
    <3>1. \A t \in 0..MaxTime : t > clock => spent[c][t] = 0
      BY <2>1 DEF BucketHolds, Bucket
    <3>2. ASSUME NEW t \in 0..MaxTime, t > clock PROVE t # clock
      BY <1>1, <3>2
    <3> QED
      BY <1>5, <3>1, <3>2
  <2>4. ASSUME NEW t \in 0..clock
        PROVE  10 * SumOf(spent'[c], t..clock) + tokens'[c] <= 10 * Burst(c) + Per(c) * (clock - t)
    <3>1. t \in 0..MaxTime /\ clock \in t..clock /\ t..clock \subseteq 0..MaxTime
      BY <1>1
    <3>2. IsFiniteSet(t..clock) /\ \A x \in t..clock : spent[c][x] \in Nat /\ spent'[c][x] \in Nat
      <4>1. IsFiniteSet(t..clock)
        BY <1>1, <3>1, SpanType
      <4>2. ASSUME NEW x \in 0..MaxTime PROVE spent[c][x] \in Nat /\ spent'[c][x] \in Nat
        BY <1>1, <1>4
      <4> QED
        BY <3>1, <4>1, <4>2
    <3>3. \A x \in t..clock : x # clock => spent'[c][x] = spent[c][x]
      BY <1>5, <3>1
    <3>4. SumOf(spent'[c], t..clock) + spent[c][clock] = SumOf(spent[c], t..clock) + spent'[c][clock]
      BY <3>1, <3>2, <3>3, SumChange
    <3>5. SumOf(spent[c], t..clock) \in Nat /\ SumOf(spent'[c], t..clock) \in Nat
          /\ spent[c][clock] \in Nat
      BY <3>1, <3>2, SumNat
    <3>6. SumOf(spent'[c], t..clock) = SumOf(spent[c], t..clock) + n
      BY <1>5, <3>4, <3>5
    <3>7. 10 * SumOf(spent[c], t..clock) + tokens[c] <= 10 * Burst(c) + Per(c) * (clock - t)
      BY <2>1 DEF BucketHolds, Bucket
    <3>8. clock - t \in Nat /\ Per(c) * (clock - t) \in Nat
      BY <1>1, <2>1, RefillOfSpan
    <3> DEFINE A == SumOf(spent[c], t..clock)
               B == SumOf(spent'[c], t..clock)
               R == Per(c) * (clock - t)
    <3>9. /\ A \in Nat /\ B = A + n /\ R \in Nat /\ tokens[c] \in Nat /\ Burst(c) \in Nat
          /\ 10 * A + tokens[c] <= 10 * Burst(c) + R /\ tokens'[c] = tokens[c] - 10 * n
      BY <1>2, <2>1, <3>5, <3>6, <3>7, <3>8
    <3> HIDE DEF A, B, R
    <3>10. 10 * B + tokens'[c] <= 10 * Burst(c) + R
      BY <3>9
    <3> QED
      BY <3>10 DEF B, R
  <2>5. ASSUME NEW t1 \in 0..MaxTime, NEW t2 \in t1..MaxTime, t2 < clock
        PROVE  10 * SumOf(spent'[c], t1..t2) <= 10 * Burst(c) + Per(c) * (t2 - t1)
    <3>1. t2 \in 0..MaxTime /\ IsFiniteSet(t1..t2)
      BY <1>1, SpanType
    <3>2. \A x \in t1..t2 : spent'[c][x] = spent[c][x]
      BY <1>1, <1>5, <2>5
    <3>3. SumOf(spent'[c], t1..t2) = SumOf(spent[c], t1..t2)
      BY <3>1, <3>2, SumSame
    <3>4. 10 * SumOf(spent[c], t1..t2) <= 10 * Burst(c) + Per(c) * (t2 - t1)
      BY <2>1, <2>5 DEF BucketHolds, Bucket
    <3> QED
      BY <3>3, <3>4
  <2> QED
    BY <1>6, <2>2, <2>3, <2>4, <2>5, BudgetStays DEF BucketHolds, Bucket
<1> QED
  BY <1>2, <1>4, <1>6, <1>7, <1>8

\* Allow and Charge: a request that spends n units is due them.
LEMMA PaysKeeps ==
    ASSUME ApiInv, NEW q \in Requests, NEW n \in Nat, NEW l \in {"look", "audit"},
           pc[q] \in {"spend", "charge"},
           AllowN(req[q].client, n), Spend(req[q].client, n), Goto(q, l), UNCHANGED req,
           UNCHANGED <<clients, vault, answers, arrived>>, Due(q)' <= n, Due(q)' \in Nat
    PROVE  ApiInv'
<1>1. req[q].client \in Clients /\ Due(q) = 0
  BY DEF ApiInv, ReqSoFar, Due
<1>2. /\ tokens' \in [Clients -> Nat] /\ clock' = clock
      /\ spent' \in [Clients -> [0..MaxTime -> Nat]] /\ paid' \in [Clients -> Nat]
      /\ \A d \in Clients : paid'[d] = IF d = req[q].client THEN paid[d] + n ELSE paid[d]
      /\ \A d \in Clients : BucketHolds(d)'
  BY <1>1, SpendKeeps
<1>3. req[q] \in Req /\ Keep(q, req[q]) /\ l \in Control
  BY KeepsLocals DEF ApiInv, TypeOK, Control
<1>4. /\ OthersStay(q) /\ pc'[q] = l /\ req'[q] = req[q]
      /\ pc' \in [Requests -> Control] /\ req' \in [Requests -> Req]
  BY <1>3, OnlyOneMoves DEF ApiInv
<1>5. UNCHANGED <<clients, live, erased, log, given, handed, arrived>>
  BY DEF vault, answers
<1>6. TypeOK'
  BY <1>2, <1>4, <1>5 DEF ApiInv, TypeOK
<1>7. ReqSoFar(q)'
  BY <1>4, <1>5 DEF ApiInv, ReqSoFar
<1>8. ASSUME NEW d \in Clients
      PROVE  handed'[d] + paid[d] + DueOf(d)'[q] <= handed[d] + paid'[d] + DueOf(d)[q]
  <2>1. DueOf(d)'[q] = IF req[q].client = d THEN Due(q)' ELSE 0
    BY <1>4 DEF DueOf
  <2>2. DueOf(d)[q] = 0
    BY <1>1 DEF DueOf
  <2>3. handed'[d] = handed[d] /\ handed[d] \in Nat /\ paid[d] \in Nat
    BY <1>5 DEF ApiInv, TypeOK
  <2> QED
    BY <1>2, <2>1, <2>2, <2>3
<1>9. RolesHold' /\ \A m \in Line : log'[m] >= log[m]
  BY <1>5, RolesKept
<1>10. pc'[q] # "answer"
  BY <1>4
<1> QED
  BY <1>2, <1>4, <1>5, <1>6, <1>7, <1>8, <1>9, <1>10, Moved

\* Allow: one unit, before anything is looked up.
LEMMA AllowKeeps ==
    ASSUME ApiInv, NEW q \in Requests, Allow(q)
    PROVE  ApiInv'
<1>1. CASE End(q) /\ UNCHANGED budget
  BY <1>1, EndsQuietly DEF Allow
<1>2. CASE /\ AllowN(req[q].client, 1) /\ Spend(req[q].client, 1)
           /\ Goto(q, "look") /\ UNCHANGED req
  <2>1. pc[q] = "spend" /\ UNCHANGED <<clients, vault, answers, arrived>>
    BY DEF Allow
  <2>2. pc'[q] = "look"
    BY <1>2 DEF Goto, ApiInv, TypeOK
  <2>3. Due(q)' <= 1 /\ Due(q)' \in Nat
    BY <2>2 DEF Due
  <2> QED
    BY <1>2, <2>1, <2>3, PaysKeeps
<1> QED
  BY <1>1, <1>2 DEF Allow

\* Charge: a unit for each object found, before anything is answered.
LEMMA ChargeKeeps ==
    ASSUME ApiInv, NEW q \in Requests, Charge(q)
    PROVE  ApiInv'
<1> DEFINE n == Cardinality(req[q].found)
<1>1. CASE End(q) /\ UNCHANGED budget
  BY <1>1, EndsQuietly DEF Charge
<1>2. CASE /\ AllowN(req[q].client, n) /\ Spend(req[q].client, n)
           /\ Goto(q, "audit") /\ UNCHANGED req
  <2>1. pc[q] = "charge" /\ UNCHANGED <<clients, vault, answers, arrived>>
    BY DEF Charge
  <2>2. pc'[q] = "audit"
    BY <1>2 DEF Goto, ApiInv, TypeOK
  <2>3. n \in Nat
    BY WorthType DEF ApiInv
  <2>4. req[q].kind = "batch_full"
    BY <2>1 DEF ApiInv, ReqSoFar
  <2>5. Due(q)' = n
    BY <1>2, <2>2, <2>4 DEF Due, Worth, Full
  <2>6. Due(q)' <= n /\ Due(q)' \in Nat
    BY <2>3, <2>5
  <2> HIDE DEF n
  <2> QED
    BY <1>2, <2>1, <2>3, <2>6, PaysKeeps
<1> QED
  BY <1>1, <1>2 DEF Charge

\* Nothing spent in a span adds up to nothing.
LEMMA UnspentSum ==
    ASSUME NEW f \in [0..MaxTime -> {0}], NEW t1 \in 0..MaxTime, NEW t2 \in 0..MaxTime
    PROVE  SumOf(f, t1..t2) = 0
<1>1. IsFiniteSet(t1..t2) /\ t1..t2 \subseteq 0..MaxTime
  BY FS_Interval, ApiAssumption
<1>2. \A x \in t1..t2 : f[x] = 0 /\ f[x] \in Nat
  BY <1>1
<1>3. {} \in SUBSET (t1..t2)
  OBVIOUS
<1>4. SumOf(f, t1..t2) = SumOf(f, {})
  BY <1>1, <1>2, <1>3, SumZeros
<1> QED
  BY <1>4, SumEmpty

\* A new bucket is full.
LEMMA FullBucket ==
    ASSUME NEW per \in Nat, NEW burst \in Nat, NEW used \in [0..MaxTime -> {0}],
           NEW now \in 0..MaxTime
    PROVE  Bucket(per, burst, 10 * burst, used, now)
<1>1. MaxTime \in Nat
  BY ApiAssumption
<1>2. ASSUME NEW t1 \in 0..MaxTime, NEW t2 \in t1..MaxTime
      PROVE  SumOf(used, t1..t2) = 0 /\ per * (t2 - t1) \in Nat
  <2>1. t2 \in 0..MaxTime /\ t2 - t1 \in Nat
    BY <1>1
  <2> QED
    BY <2>1, UnspentSum, RefillOfSpan
<1>3. ASSUME NEW t \in 0..now
      PROVE  10 * SumOf(used, t..now) + 10 * burst <= 10 * burst + per * (now - t)
  <2>1. t \in 0..MaxTime /\ now \in t..MaxTime
    BY <1>1
  <2>2. SumOf(used, t..now) = 0 /\ per * (now - t) \in Nat
    BY <1>2, <2>1
  <2> QED
    BY <2>2
<1>4. ASSUME NEW t1 \in 0..MaxTime, NEW t2 \in t1..MaxTime
      PROVE  10 * SumOf(used, t1..t2) <= 10 * burst + per * (t2 - t1)
  <2>1. SumOf(used, t1..t2) = 0 /\ per * (t2 - t1) \in Nat
    BY <1>2
  <2> QED
    BY <2>1
<1>5. 10 * burst <= 10 * burst /\ \A t \in 0..MaxTime : t > now => used[t] = 0
  OBVIOUS
<1> QED
  BY <1>3, <1>4, <1>5 DEF Bucket

\* A second passes: the refill of a second, at most to the burst.
LEMMA RefilledBucket ==
    ASSUME NEW per \in Nat, NEW burst \in Nat, NEW left \in Nat, NEW more \in Nat,
           NEW used \in [0..MaxTime -> Nat], NEW now \in 0..MaxTime, now < MaxTime,
           Bucket(per, burst, left, used, now), more <= left + per, more <= 10 * burst
    PROVE  Bucket(per, burst, more, used, now + 1)
<1>1. MaxTime \in Nat /\ now + 1 \in 0..MaxTime
  BY ApiAssumption
<1>2. \A t \in 0..MaxTime : t > now => used[t] = 0
  BY DEF Bucket
<1>3. ASSUME NEW t \in 0..MaxTime, t > now + 1 PROVE used[t] = 0
  BY <1>1, <1>2, <1>3
<1>4. ASSUME NEW t \in 0..now
      PROVE  /\ SumOf(used, t..now) \in Nat /\ per * (now - t) \in Nat
             /\ 10 * SumOf(used, t..now) + left <= 10 * burst + per * (now - t)
             /\ SumOf(used, t..(now + 1)) = SumOf(used, t..now)
             /\ per * (now + 1 - t) = per * (now - t) + per
  <2>1. IsFiniteSet(t..now) /\ t..now \subseteq 0..MaxTime
    <3>1. IsFiniteSet(t..now)
      BY FS_Interval
    <3>2. t..now \subseteq 0..MaxTime
      BY <1>1
    <3> QED
      BY <3>1, <3>2
  <2>2. t..(now + 1) = t..now \cup {now + 1} /\ now + 1 \notin t..now
    BY <1>1
  <2>3. \A x \in t..now : used[x] \in Nat
    BY <2>1
  <2>4. used[now + 1] = 0
    BY <1>1, <1>2
  <2>5. SumOf(used, t..now) \in Nat
    BY <2>1, <2>3, SumNat
  <2>6. SumOf(used, t..(now + 1)) = 0 + SumOf(used, t..now)
    <3>1. used[now + 1] \in Nat
      BY <2>4
    <3>2. SumOf(used, t..now \cup {now + 1}) = used[now + 1] + SumOf(used, t..now)
      BY <2>1, <2>2, <2>3, <3>1, SumAdd
    <3> QED
      BY <2>2, <2>4, <3>2
  <2>7. now - t \in Nat /\ now + 1 - t = (now - t) + 1
    OBVIOUS
  <2>8. per * (now - t) \in Nat /\ per * ((now - t) + 1) = per * (now - t) + per
    BY <2>7, RefillOfSpan
  <2>9. 10 * SumOf(used, t..now) + left <= 10 * burst + per * (now - t)
    BY DEF Bucket
  <2> QED
    BY <2>5, <2>6, <2>7, <2>8, <2>9
<1>5. ASSUME NEW t \in 0..(now + 1)
      PROVE  10 * SumOf(used, t..(now + 1)) + more <= 10 * burst + per * (now + 1 - t)
  <2>1. CASE t \in 0..now
    <3> DEFINE A == SumOf(used, t..now)
               R == per * (now - t)
    <3>1. /\ A \in Nat /\ R \in Nat /\ 10 * A + left <= 10 * burst + R
          /\ SumOf(used, t..(now + 1)) = A /\ per * (now + 1 - t) = R + per
      BY <1>4, <2>1
    <3> HIDE DEF A, R
    <3> QED
      BY <3>1
  <2>2. CASE t = now + 1
    <3>1. t..(now + 1) = {} \cup {now + 1}
      BY <2>2
    <3>2. used[now + 1] = 0
      BY <1>1, <1>2
    <3>3. SumOf(used, {} \cup {now + 1}) = used[now + 1] + SumOf(used, {})
      <4>1. IsFiniteSet({}) /\ now + 1 \notin {} /\ used[now + 1] \in Nat
        BY <3>2, FS_EmptySet
      <4> QED
        BY <4>1, SumAdd
    <3>4. SumOf(used, t..(now + 1)) = 0
      <4>1. SumOf(used, {}) = 0
        BY SumEmpty
      <4>2. SumOf(used, {} \cup {now + 1}) = 0
        BY <3>2, <3>3, <4>1
      <4> QED
        BY <3>1, <4>2, Zenon
    <3>5. now + 1 - t = 0 /\ per * 0 = 0
      BY <2>2, RefillOfSpan
    <3> QED
      BY <3>4, <3>5
  <2> QED
    BY <2>1, <2>2
<1>6. ASSUME NEW t1 \in 0..MaxTime, NEW t2 \in t1..MaxTime, t2 < now + 1
      PROVE  10 * SumOf(used, t1..t2) <= 10 * burst + per * (t2 - t1)
  <2>1. CASE t2 < now
    BY <2>1 DEF Bucket
  <2>2. CASE t2 = now
    <3>1. t1 \in 0..now
      BY <2>2
    <3> DEFINE A == SumOf(used, t1..now)
               R == per * (now - t1)
    <3>2. A \in Nat /\ R \in Nat /\ 10 * A + left <= 10 * burst + R
      BY <1>4, <3>1
    <3>3. SumOf(used, t1..t2) = A /\ per * (t2 - t1) = R
      BY <2>2
    <3> HIDE DEF A, R
    <3> QED
      BY <3>2, <3>3
  <2> QED
    BY <1>1, <1>6, <2>1, <2>2
<1> QED
  BY <1>3, <1>5, <1>6 DEF Bucket

\* Refill: what a second leaves in a bucket.
LEMMA RefillType ==
    ASSUME TypeOK, ClientsValid, NEW c \in Clients
    PROVE  /\ Refill(c) \in Nat /\ Refill(c) <= tokens[c] + Per(c)
           /\ Refill(c) <= 10 * Burst(c) /\ tokens[c] \in Nat
<1>1. Per(c) \in Nat /\ Burst(c) \in Nat /\ tokens[c] \in Nat
  BY BudgetType DEF TypeOK
<1> QED
  BY <1>1 DEF Refill

\* Tick.
LEMMA TickKeeps ==
    ASSUME ApiInv, Tick
    PROVE  ApiInv'
<1>1. /\ clock < MaxTime /\ clock' = clock + 1 /\ tokens' = [c \in Clients |-> Refill(c)]
      /\ UNCHANGED <<clients, live, erased, log, spent, paid, given, handed, pc, req, arrived>>
  BY DEF Tick, vault, answers
<1>2. TypeOK /\ ClientsValid /\ MaxTime \in Nat /\ clock \in 0..MaxTime
  BY ApiAssumption DEF ApiInv, TypeOK
<1>3. tokens' \in [Clients -> Nat] /\ clock' \in 0..MaxTime
  BY <1>1, <1>2, RefillType
<1>4. TypeOK'
  BY <1>1, <1>3 DEF ApiInv, TypeOK
<1>5. ASSUME NEW c \in Clients PROVE BucketHolds(c)'
  <2>1. /\ Refill(c) \in Nat /\ Refill(c) <= tokens[c] + Per(c)
        /\ Refill(c) <= 10 * Burst(c) /\ tokens[c] \in Nat
    BY <1>2, RefillType
  <2>2. Per(c) \in Nat /\ Burst(c) \in Nat /\ spent[c] \in [0..MaxTime -> Nat]
    BY <1>2, BudgetType DEF TypeOK
  <2>3. Bucket(Per(c), Burst(c), tokens[c], spent[c], clock)
    BY DEF ApiInv, BucketHolds
  <2>4. Bucket(Per(c), Burst(c), Refill(c), spent[c], clock + 1)
    BY <1>1, <1>2, <2>1, <2>2, <2>3, RefilledBucket
  <2>5. Per(c)' = Per(c) /\ Burst(c)' = Burst(c) /\ tokens'[c] = Refill(c)
    BY <1>1, BudgetStays
  <2> QED
    BY <1>1, <2>4, <2>5 DEF BucketHolds
<1>6. \A p \in Requests : ReqSoFar(p)'
  BY <1>1 DEF ApiInv, ReqSoFar
<1>7. LinesCounted'
  BY <1>1 DEF ApiInv, LinesCounted, Waiting, LinesOf
<1>8. PaidCounted'
  <2>1. \A c \in Clients : DueOf(c)' = DueOf(c)
    BY <1>1 DEF DueOf, Due, Worth
  <2> QED
    BY <1>1, <2>1 DEF ApiInv, PaidCounted
<1>9. RolesHold' /\ ClientsValid'
  BY <1>1, RolesKept DEF ApiInv, ClientsValid
<1> QED
  BY <1>4, <1>5, <1>6, <1>7, <1>8, <1>9 DEF ApiInv

\* Nobody waits for an answer, and nobody is due one.
LEMMA NobodyDue ==
    ASSUME NEW f \in [Requests -> {0}]
    PROVE  SumOf(f, Requests) = 0
<1>1. \A x \in Requests : f[x] = 0 /\ f[x] \in Nat
  OBVIOUS
<1>2. {} \in SUBSET Requests
  OBVIOUS
<1>3. SumOf(f, Requests) = SumOf(f, {})
  BY <1>1, <1>2, SumZeros, ApiAssumption
<1> QED
  BY <1>3, SumEmpty

\* Restart: requests are gone, budgets are new, the log stays.
LEMMA RestartKeeps ==
    ASSUME ApiInv, Restart
    PROVE  ApiInv'
<1>1. /\ pc' = [q \in Requests |-> "idle"] /\ req' = [q \in Requests |-> NoReq]
      /\ tokens' = [c \in Clients |-> 10 * Burst(c)]
      /\ spent' = [c \in Clients |-> [t \in 0..MaxTime |-> 0]]
      /\ UNCHANGED <<clients, live, erased, log, clock, paid, given, handed, arrived>>
  BY DEF Restart, FullBudgets, Unspent, vault, answers
<1>2. TypeOK /\ ClientsValid
  BY DEF ApiInv
<1>3. TypeOK'
  <2>1. tokens' \in [Clients -> Nat] /\ spent' \in [Clients -> [0..MaxTime -> Nat]]
    BY <1>1, <1>2, BudgetType
  <2>2. pc' \in [Requests -> Control] /\ req' \in [Requests -> Req]
    BY <1>1, NoReqType DEF Control
  <2> QED
    BY <1>1, <2>1, <2>2 DEF ApiInv, TypeOK
<1>4. ASSUME NEW c \in Clients PROVE BucketHolds(c)'
  <2>1. Per(c) \in Nat /\ Burst(c) \in Nat /\ clock \in 0..MaxTime
    BY <1>2, BudgetType DEF TypeOK
  <2>2. spent'[c] \in [0..MaxTime -> {0}] /\ tokens'[c] = 10 * Burst(c)
    BY <1>1
  <2>3. Bucket(Per(c), Burst(c), 10 * Burst(c), spent'[c], clock)
    BY <2>1, <2>2, FullBucket
  <2>4. Per(c)' = Per(c) /\ Burst(c)' = Burst(c)
    BY <1>1, BudgetStays
  <2> QED
    BY <1>1, <2>2, <2>3, <2>4 DEF BucketHolds
<1>5. \A p \in Requests : ReqSoFar(p)'
  BY <1>1 DEF ReqSoFar
<1>6. LinesCounted'
  <2>1. SUFFICES ASSUME NEW l \in Line
                 PROVE  given'[l] + Cardinality(Waiting(l)') <= log'[l]
    BY DEF LinesCounted
  <2>2. Waiting(l)' = {}
    BY <1>1 DEF Waiting
  <2>3. given[l] \in Nat /\ log[l] \in Nat /\ given[l] + Cardinality(Waiting(l)) <= log[l]
    BY DEF ApiInv, TypeOK, LinesCounted
  <2>4. Cardinality(Waiting(l)') = 0 /\ Cardinality(Waiting(l)) \in Nat
    BY <2>2, FS_EmptySet, WaitingType
  <2> QED
    BY <1>1, <2>3, <2>4
<1>7. PaidCounted'
  <2>1. SUFFICES ASSUME NEW c \in Clients
                 PROVE  handed'[c] + SumOf(DueOf(c)', Requests) <= paid'[c]
    BY DEF PaidCounted
  <2>2. DueOf(c)' \in [Requests -> {0}]
    BY <1>1 DEF DueOf, Due
  <2>3. SumOf(DueOf(c)', Requests) = 0
    BY <2>2, NobodyDue
  <2>4. SumOf(DueOf(c), Requests) \in Nat /\ handed[c] \in Nat /\ paid[c] \in Nat
    BY <1>2, DueType DEF TypeOK
  <2>5. handed[c] + SumOf(DueOf(c), Requests) <= paid[c]
    BY DEF ApiInv, PaidCounted
  <2> QED
    BY <1>1, <2>3, <2>4, <2>5
<1>8. RolesHold' /\ ClientsValid'
  BY <1>1, RolesKept DEF ApiInv, ClientsValid
<1> QED
  BY <1>3, <1>4, <1>5, <1>6, <1>7, <1>8 DEF ApiInv

-----------------------------------------------------------------------------
(* The theorems *)

\* A server that has just started.
LEMMA ApiInvInit ==
    ASSUME Init
    PROVE  ApiInv
<1>1. clients \subseteq Client /\ ClientsValid
  BY StartsValid
<1>2. /\ live = {} /\ erased = {} /\ log = [l \in Line |-> 0] /\ clock = 0
      /\ tokens = [c \in Clients |-> 10 * Burst(c)]
      /\ spent = [c \in Clients |-> [t \in 0..MaxTime |-> 0]]
      /\ paid = [c \in Clients |-> 0] /\ given = [l \in Line |-> 0]
      /\ handed = [c \in Clients |-> 0] /\ arrived = 0
      /\ pc = [q \in Requests |-> "idle"] /\ req = [q \in Requests |-> NoReq]
  BY DEF Init, FullBudgets, Unspent
<1>3. ASSUME NEW c \in Clients PROVE Per(c) \in Nat /\ Burst(c) \in Nat
  BY <1>1, BudgetOfValid
<1>4. TypeOK
  <2>1. tokens \in [Clients -> Nat] /\ spent \in [Clients -> [0..MaxTime -> Nat]]
    BY <1>2, <1>3
  <2>2. pc \in [Requests -> Control] /\ req \in [Requests -> Req]
    BY <1>2, NoReqType DEF Control
  <2>3. clock \in 0..MaxTime /\ arrived \in 0..MaxArrivals
    BY <1>2, ApiAssumption
  <2> QED
    BY <1>1, <1>2, <2>1, <2>2, <2>3 DEF TypeOK
<1>5. ASSUME NEW c \in Clients PROVE BucketHolds(c)
  <2>1. Per(c) \in Nat /\ Burst(c) \in Nat /\ clock \in 0..MaxTime
    BY <1>3, <1>4 DEF TypeOK
  <2>2. spent[c] \in [0..MaxTime -> {0}] /\ tokens[c] = 10 * Burst(c)
    BY <1>2
  <2> QED
    BY <2>1, <2>2, FullBucket DEF BucketHolds
<1>6. \A p \in Requests : ReqSoFar(p)
  BY <1>2 DEF ReqSoFar
<1>7. LinesCounted
  <2>1. SUFFICES ASSUME NEW l \in Line
                 PROVE  given[l] + Cardinality(Waiting(l)) <= log[l]
    BY DEF LinesCounted
  <2>2. Waiting(l) = {}
    BY <1>2 DEF Waiting
  <2> QED
    BY <1>2, <2>2, FS_EmptySet
<1>8. PaidCounted
  <2>1. SUFFICES ASSUME NEW c \in Clients
                 PROVE  handed[c] + SumOf(DueOf(c), Requests) <= paid[c]
    BY DEF PaidCounted
  <2>2. DueOf(c) \in [Requests -> {0}]
    BY <1>2 DEF DueOf, Due
  <2> QED
    BY <1>2, <2>2, NobodyDue
<1>9. RolesHold
  BY <1>2 DEF RolesHold
<1> QED
  BY <1>1, <1>4, <1>5, <1>6, <1>7, <1>8, <1>9 DEF ApiInv

\* Every step keeps the invariant.
LEMMA ApiInvNext ==
    ASSUME ApiInv, [Next]_vars
    PROVE  ApiInv'
<1>1. CASE Tick
  BY <1>1, TickKeeps
<1>2. CASE Restart
  BY <1>2, RestartKeeps
<1>3. ASSUME NEW q \in Requests, NEW k \in Keys, NEW c \in clients, NEW kind \in Reads,
             NEW S \in SUBSET Ids, Arrive(q, k, c, kind, S)
      PROVE  ApiInv'
  BY <1>3, ArriveKeeps
<1>4. ASSUME NEW q \in Requests, Allow(q) \/ Look(q) \/ Charge(q) \/ Answer(q)
      PROVE  ApiInv'
  BY <1>4, AllowKeeps, LookKeeps, ChargeKeeps, AnswerKeeps
<1>5. ASSUME NEW q \in Requests, Fail(q)
      PROVE  ApiInv'
  BY <1>5, EndsQuietly DEF Fail
<1>6. ASSUME NEW q \in Requests, NEW written \in BOOLEAN, NEW told \in BOOLEAN,
             Audit(q, written, told)
      PROVE  ApiInv'
  BY <1>6, AuditKeeps
<1>7. ASSUME NEW k \in Keys, NEW c \in clients, NEW S \in SUBSET Ids,
             Create(k, c, S) \/ Delete(k, c, S)
      PROVE  ApiInv'
  BY <1>7, CreateKeeps, DeleteKeeps
<1>8. CASE UNCHANGED vars
  <2>1. UNCHANGED <<clients, live, erased, log, tokens, clock, spent, paid, given, handed,
                    pc, req, arrived>>
    BY <1>8 DEF vars, vault, budget, answers
  <2>2. TypeOK' /\ ClientsValid' /\ RolesHold' /\ \A p \in Requests : ReqSoFar(p)'
    BY <2>1 DEF ApiInv, TypeOK, ClientsValid, RolesHold, ReqSoFar
  <2>3. LinesCounted'
    BY <2>1 DEF ApiInv, LinesCounted, Waiting, LinesOf
  <2>4. PaidCounted'
    <3>1. \A c \in Clients : DueOf(c)' = DueOf(c)
      BY <2>1 DEF DueOf, Due, Worth
    <3> QED
      BY <2>1, <3>1 DEF ApiInv, PaidCounted
  <2>5. \A c \in Clients : BucketHolds(c)'
    BY <2>1, BucketsKept
  <2> QED
    BY <2>2, <2>3, <2>4, <2>5 DEF ApiInv
<1> QED
  BY <1>1, <1>2, <1>3, <1>4, <1>5, <1>6, <1>7, <1>8 DEF Next

\* The inductive invariant holds in every state of the server.
THEOREM ApiInvHolds == Spec => []ApiInv
<1>1. Init => ApiInv
  BY ApiInvInit
<1>2. ApiInv /\ [Next]_vars => ApiInv'
  BY ApiInvNext
<1> QED
  BY <1>1, <1>2, PTL DEF Spec

\* Every counter of the server, the tokens of every limiter among them, stays a
\* natural number (AllowN before Spend): no budget is overdrawn.
THEOREM ApiTypeCorrect == Spec => []TypeOK
<1>1. ApiInv => TypeOK
  BY DEF ApiInv
<1> QED
  BY <1>1, ApiInvHolds, PTL

\* A request is served as the one client that its key belongs to (authenticate,
\* ValidateClients).
THEOREM ServedAsItsClient == Spec => []Attributed
<1>1. ApiInv => Attributed
  BY DEF ApiInv, Attributed, ReqSoFar
<1> QED
  BY <1>1, ApiInvHolds, PTL

\* The log never shows a name doing what a client of that name may not do
\* (require, ValidateClients).
THEOREM LogShowsRoles == Spec => []RolesHold
<1>1. ApiInv => RolesHold
  BY DEF ApiInv
<1> QED
  BY <1>1, ApiInvHolds, PTL

\* No data leaves without a line of the log of its own (auditMany before
\* writeJSON).
THEOREM NothingLeavesUnlogged == Spec => []AnswersLogged
<1>1. ASSUME ApiInv PROVE AnswersLogged
  <2>1. SUFFICES ASSUME NEW l \in Line PROVE given[l] <= log[l]
    BY DEF AnswersLogged
  <2>2. given[l] \in Nat /\ log[l] \in Nat /\ given[l] + Cardinality(Waiting(l)) <= log[l]
    BY <1>1 DEF ApiInv, TypeOK, LinesCounted
  <2> QED
    BY <2>2, WaitingType
<1> QED
  BY <1>1, ApiInvHolds, PTL

\* No answer outruns its payment, however the requests of a client interleave
\* (allow in get, search and revealBatch).
THEOREM NothingUnpaid == Spec => []PaidFirst
<1>1. ASSUME ApiInv PROVE PaidFirst
  <2>1. SUFFICES ASSUME NEW c \in Clients PROVE handed[c] + Owed(c) <= paid[c]
    BY DEF PaidFirst
  <2> DEFINE T == {q \in Requests : req[q].client = c /\ pc[q] \in {"audit", "answer"}}
             W == [q \in Requests |-> Worth(q)]
  <2>2. TypeOK /\ IsFiniteSet(Requests) /\ T \in SUBSET Requests
    BY <1>1, ApiAssumption DEF ApiInv
  <2>3. \A q \in T : DueOf(c)[q] = W[q]
    BY DEF DueOf, Due
  <2>4. Owed(c) = SumOf(W, T)
    BY DEF Owed
  <2>5. IsFiniteSet(T)
    BY <2>2, FS_Subset
  <2> HIDE DEF T, W
  <2>6. SumOf(DueOf(c), T) = SumOf(W, T)
    BY <2>3, <2>5, SumSame
  <2>7. (\A q \in Requests : DueOf(c)[q] \in Nat) /\ SumOf(DueOf(c), Requests) \in Nat
    BY <2>2, DueType
  <2>8. SumOf(DueOf(c), T) <= SumOf(DueOf(c), Requests)
    BY <2>2, <2>7, SumSubset
  <2>9. SumOf(DueOf(c), T) \in Nat
    BY <2>2, <2>5, <2>7, SumNat
  <2>10. /\ handed[c] + SumOf(DueOf(c), Requests) <= paid[c]
         /\ handed[c] \in Nat /\ paid[c] \in Nat
    BY <1>1 DEF ApiInv, TypeOK, PaidCounted
  <2> QED
    BY <2>4, <2>6, <2>7, <2>8, <2>9, <2>10
<1> QED
  BY <1>1, ApiInvHolds, PTL

\* A longer span is refilled at least as much.
LEMMA RefillGrows ==
    ASSUME NEW a \in Nat, NEW b \in Nat, NEW d \in Nat
    PROVE  a * (b + d) >= a * b
<1>1. a * d \in Nat /\ a * b \in Nat
  BY RefillOfSpan
<1>2. a * (b + d) = a * b + a * d
  OBVIOUS
<1> QED
  BY <1>1, <1>2

\* What a bucket holds bounds every span.
LEMMA BucketBoundsSpan ==
    ASSUME NEW per \in Nat, NEW burst \in Nat, NEW left \in Nat,
           NEW used \in [0..MaxTime -> Nat], NEW now \in 0..MaxTime,
           Bucket(per, burst, left, used, now), NEW t1 \in 0..MaxTime, NEW t2 \in t1..MaxTime
    PROVE  10 * SumOf(used, t1..t2) <= 10 * burst + per * (t2 - t1)
<1>1. MaxTime \in Nat /\ t2 \in 0..MaxTime /\ t2 - t1 \in Nat
  BY ApiAssumption
<1>2. IsFiniteSet(t1..t2)
  BY FS_Interval
<1>3. ASSUME NEW x \in t1..t2 PROVE x \in 0..MaxTime /\ used[x] \in Nat
  BY <1>1
<1>4. \A t \in 0..MaxTime : t > now => used[t] = 0
  BY DEF Bucket
<1>5. CASE t2 < now
  BY <1>5 DEF Bucket
<1>6. CASE t2 >= now /\ t1 <= now
  <2>1. t1..now \in SUBSET (t1..t2)
    BY <1>1, <1>6
  <2>2. ASSUME NEW x \in (t1..t2) \ (t1..now) PROVE used[x] = 0
    <3>1. x \in 0..MaxTime /\ x > now
      BY <1>1, <1>6
    <3> QED
      BY <1>4, <3>1
  <2>3. SumOf(used, t1..t2) = SumOf(used, t1..now)
    BY <1>2, <1>3, <2>1, <2>2, SumZeros
  <2>4. IsFiniteSet(t1..now)
    BY FS_Interval
  <2>5. SumOf(used, t1..now) \in Nat
    BY <1>3, <2>1, <2>4, SumNat
  <2>6. t1 \in 0..now
    BY <1>6
  <2>7. 10 * SumOf(used, t1..now) + left <= 10 * burst + per * (now - t1)
    BY <2>6 DEF Bucket
  <2>8. now - t1 \in Nat /\ t2 - now \in Nat /\ t2 - t1 = (now - t1) + (t2 - now)
    BY <1>1, <1>6
  <2>9. per * ((now - t1) + (t2 - now)) >= per * (now - t1)
    BY <2>8, RefillGrows
  <2>10. per * (t2 - t1) >= per * (now - t1) /\ per * (t2 - t1) \in Nat /\ per * (now - t1) \in Nat
    BY <1>1, <2>8, <2>9, RefillOfSpan
  <2> DEFINE A == SumOf(used, t1..now)
             R == per * (now - t1)
             Q == per * (t2 - t1)
  <2>11. /\ A \in Nat /\ R \in Nat /\ Q \in Nat /\ Q >= R
         /\ 10 * A + left <= 10 * burst + R
    BY <2>5, <2>7, <2>10
  <2> HIDE DEF A, R, Q
  <2>12. 10 * A <= 10 * burst + Q
    BY <2>11
  <2> QED
    BY <2>3, <2>12 DEF A, Q
<1>7. CASE t1 > now
  <2>1. ASSUME NEW x \in t1..t2 PROVE used[x] = 0
    <3>1. x \in 0..MaxTime /\ x > now
      BY <1>1, <1>7
    <3> QED
      BY <1>4, <3>1
  <2>2. {} \in SUBSET (t1..t2)
    OBVIOUS
  <2>3. SumOf(used, t1..t2) = SumOf(used, {})
    BY <1>2, <1>3, <2>1, <2>2, SumZeros
  <2>4. SumOf(used, t1..t2) = 0
    BY <2>3, SumEmpty
  <2>5. per * (t2 - t1) \in Nat
    BY <1>1, RefillOfSpan
  <2> QED
    BY <2>4, <2>5
<1> QED
  BY <1>1, <1>5, <1>6, <1>7

\* No span of seconds since the server started saw a client spend more than a
\* burst and the refill of the span (New: one limiter per client).
THEOREM BudgetsHold == Spec => []WindowBudget
<1>1. ASSUME ApiInv PROVE WindowBudget
  <2>1. SUFFICES ASSUME NEW c \in Clients, NEW t1 \in 0..MaxTime, NEW t2 \in t1..MaxTime
                 PROVE  10 * SumOf(spent[c], t1..t2) <= 10 * Burst(c) + Per(c) * (t2 - t1)
    BY DEF WindowBudget
  <2>2. /\ Per(c) \in Nat /\ Burst(c) \in Nat /\ tokens[c] \in Nat
        /\ spent[c] \in [0..MaxTime -> Nat] /\ clock \in 0..MaxTime
    BY <1>1, BudgetType DEF ApiInv, TypeOK
  <2>3. Bucket(Per(c), Burst(c), tokens[c], spent[c], clock)
    BY <1>1 DEF ApiInv, BucketHolds
  <2> QED
    BY <2>2, <2>3, BucketBoundsSpan
<1> QED
  BY <1>1, ApiInvHolds, PTL

-----------------------------------------------------------------------------
(* Api implements Vault *)

\* The lines that Vault counts as one.
Same(action, i) == Clients \X Merged(action) \X {i}

Counted == {"create", "reveal", "delete"}

\* They are finitely many lines of the log.
LEMMA SameType ==
    ASSUME NEW a \in Counted, NEW i \in Ids
    PROVE  Same(a, i) \subseteq Line /\ IsFiniteSet(Same(a, i))
<1>1. Merged(a) \subseteq Actions
  BY DEF Merged, Counted, Actions
<1>2. Same(a, i) \subseteq Line
  BY <1>1 DEF Same, Line
<1>3. IsFiniteSet(Clients \X Merged(a))
  <2>1. IsFiniteSet(Actions)
    <3>1. IsFiniteSet({}) /\ \A S, x : IsFiniteSet(S) => IsFiniteSet(S \cup {x})
      BY FS_EmptySet, FS_AddElement
    <3>2. Actions = (((({} \cup {"create"}) \cup {"delete"}) \cup {"reveal_masked"})
                      \cup {"reveal_full"}) \cup {"search"}
      BY DEF Actions
    <3> QED
      BY <3>1, <3>2, Zenon
  <2>2. IsFiniteSet(Merged(a))
    BY <1>1, <2>1, FS_Subset
  <2> QED
    BY <2>2, ApiAssumption, FS_Product
<1>4. IsFiniteSet(Same(a, i))
  <2> DEFINE f == [p \in Clients \X Merged(a) |-> <<p[1], p[2], i>>]
  <2>1. f \in Surjection(Clients \X Merged(a), Same(a, i))
    <3>1. f \in [Clients \X Merged(a) -> Same(a, i)]
      BY DEF Same
    <3>2. ASSUME NEW y \in Same(a, i) PROVE \E p \in Clients \X Merged(a) : f[p] = y
      <4>1. <<y[1], y[2]>> \in Clients \X Merged(a) /\ y = <<y[1], y[2], i>>
        BY DEF Same
      <4>2. f[<<y[1], y[2]>>] = y
        BY <4>1
      <4> QED
        BY <4>1, <4>2
    <3> HIDE DEF f
    <3> QED
      BY <3>1, <3>2 DEF Surjection
  <2> HIDE DEF f
  <2> QED
    BY <1>3, <2>1, FS_Surjection
<1> QED
  BY <1>2, <1>4

\* Lines of one client and one action add one for each object, to the totals of
\* that action only.
LEMMA TotalAppended ==
    ASSUME NEW f \in [Line -> Nat], NEW c \in Clients, NEW b \in Actions, NEW S,
           NEW a \in Counted, NEW i \in Ids
    PROVE  LET e == Appended(f, {<<c, b, j>> : j \in S})
           IN  /\ Total(f, a, i) \in Nat
               /\ Total(e, a, i) = IF b \in Merged(a) /\ i \in S
                                   THEN Total(f, a, i) + 1 ELSE Total(f, a, i)
<1> DEFINE L == {<<c, b, j>> : j \in S}
           e == Appended(f, L)
           y == <<c, b, i>>
<1>1. /\ e \in [Line -> Nat]
      /\ \A l \in Line : e[l] = IF l \in L THEN f[l] + 1 ELSE f[l]
  BY AppendedType
<1>2. Same(a, i) \subseteq Line /\ IsFiniteSet(Same(a, i))
  BY SameType
<1>3. \A l \in Same(a, i) : f[l] \in Nat /\ e[l] \in Nat
  <2> HIDE DEF e
  <2> QED
    BY <1>1, <1>2
<1>4. SumOf(f, Same(a, i)) \in Nat /\ SumOf(e, Same(a, i)) \in Nat
  <2> HIDE DEF e
  <2> QED
    BY <1>2, <1>3, SumNat
<1>5. Total(f, a, i) = SumOf(f, Same(a, i)) /\ Total(e, a, i) = SumOf(e, Same(a, i))
  BY DEF Total, Same
<1>6. \A l \in Same(a, i) : l \in L <=> l = y /\ b \in Merged(a) /\ i \in S
  BY DEF Same
<1>7. b \in Merged(a) => y \in Same(a, i)
  BY DEF Same
<1> HIDE DEF L, e, y
<1>8. CASE b \in Merged(a) /\ i \in S
  <2>1. \A l \in Same(a, i) : l # y => e[l] = f[l]
    BY <1>1, <1>2, <1>6
  <2>2. y \in Same(a, i) /\ e[y] = f[y] + 1
    BY <1>1, <1>2, <1>6, <1>7, <1>8
  <2>3. SumOf(e, Same(a, i)) + f[y] = SumOf(f, Same(a, i)) + e[y]
    BY <1>2, <1>3, <2>1, <2>2, SumChange
  <2>4. f[y] \in Nat
    BY <1>3, <2>2
  <2>5. SumOf(e, Same(a, i)) = SumOf(f, Same(a, i)) + 1
    BY <1>4, <2>2, <2>3, <2>4
  <2> QED
    BY <1>4, <1>5, <1>8, <2>5 DEF e, L
<1>9. CASE ~(b \in Merged(a) /\ i \in S)
  <2>1. \A l \in Same(a, i) : e[l] = f[l]
    BY <1>1, <1>2, <1>6, <1>9
  <2>2. SumOf(e, Same(a, i)) = SumOf(f, Same(a, i))
    BY <1>2, <2>1, SumSame
  <2> QED
    BY <1>4, <1>5, <1>9, <2>2 DEF e, L
<1> QED
  BY <1>8, <1>9

\* The lines of one action are one of Vault's steps of the log.
LEMMA LoggedMaps ==
    ASSUME TypeOK, NEW c \in Clients, NEW a \in Counted, NEW b \in Merged(a), NEW S \in SUBSET Ids,
           log' = Appended(log, {<<c, b, i>> : i \in S})
    PROVE  V!Logged(a, S)
<1>1. b \in Actions /\ log \in [Line -> Nat]
  BY DEF Merged, Counted, Actions, TypeOK
<1>2. ASSUME NEW a2 \in Counted PROVE b \in Merged(a2) <=> a2 = a
  BY DEF Merged, Counted
<1>3. ASSUME NEW a2 \in Counted, NEW i \in Ids
      PROVE  /\ Total(log, a2, i) \in Nat
             /\ Total(log', a2, i) = Total(log, a2, i) + IF a2 = a /\ i \in S THEN 1 ELSE 0
  <2>1. /\ Total(log, a2, i) \in Nat
        /\ Total(log', a2, i) = IF b \in Merged(a2) /\ i \in S
                                THEN Total(log, a2, i) + 1 ELSE Total(log, a2, i)
    BY <1>1, TotalAppended
  <2>2. b \in Merged(a2) <=> a2 = a
    BY <1>2
  <2> QED
    BY <2>1, <2>2
<1>5. "reindex" \notin Counted /\ a # "reindex"
      /\ {"create", "reveal", "delete", "reindex"} = Counted \cup {"reindex"}
  BY DEF Counted
<1>6. ASSUME NEW l \in {"create", "reveal", "delete", "reindex"} \X Ids
      PROVE  (IF l[1] = "reindex" THEN 0 ELSE Total(log', l[1], l[2]))
               = (IF l[1] = "reindex" THEN 0 ELSE Total(log, l[1], l[2]))
                  + (IF l[1] = a /\ l[2] \in S THEN 1 ELSE 0)
  <2>1. CASE l[1] = "reindex"
    BY <1>5, <2>1
  <2>2. CASE l[1] \in Counted /\ l[2] \in Ids
    BY <1>3, <1>5, <2>2
  <2> QED
    BY <1>5, <2>1, <2>2
<1> QED
  BY <1>6 DEF V!Logged, V!Lines, Total

\* Steps that change neither the vault nor the answers are not seen.
LEMMA UnseenMaps ==
    ASSUME UNCHANGED <<vault, given>>
    PROVE  UNCHANGED V!vars
<1>1. live' = live /\ erased' = erased /\ log' = log /\ given' = given
  BY DEF vault
<1> QED
  BY <1>1 DEF V!vars, StateOf, Total

\* Create is a batch that appears at once.
LEMMA CreateMaps ==
    ASSUME ApiInv, NEW k \in Keys, NEW c \in clients, NEW S \in SUBSET Ids, Create(k, c, S)
    PROVE  V!Next
<1>1. /\ S \cap (live \cup erased) = {} /\ live' = live \cup S /\ erased' = erased
      /\ log' = Appended(log, {<<c.name, "create", i>> : i \in S}) /\ given' = given
  BY DEF Create, answers
<1>2. V!Logged("create", S)
  <2>1. c.name \in Clients /\ "create" \in Counted /\ "create" \in Merged("create") /\ TypeOK
    BY DEF ApiInv, TypeOK, Client, Counted, Merged
  <2> QED
    BY <1>1, <2>1, LoggedMaps
<1>3. \A i \in S : [j \in Ids |-> StateOf(j)][i] = "absent"
  BY <1>1 DEF StateOf
<1>4. [i \in Ids |-> StateOf(i)]'
        = [i \in Ids |-> IF i \in S THEN "live" ELSE [j \in Ids |-> StateOf(j)][i]]
  BY <1>1 DEF StateOf
<1>5. [i \in Ids |-> Total(given, "reveal", i)]' = [i \in Ids |-> Total(given, "reveal", i)]
  BY <1>1 DEF Total
<1>6. V!Create(S, {})
  BY <1>2, <1>3, <1>4, <1>5 DEF V!Create
<1>7. {} \in SUBSET V!PlacesOf(S)
  OBVIOUS
<1> QED
  BY <1>6, <1>7 DEF V!Next

\* Delete is an erasure of live objects.
LEMMA DeleteMaps ==
    ASSUME ApiInv, NEW k \in Keys, NEW c \in clients, NEW S \in SUBSET Ids, Delete(k, c, S)
    PROVE  V!Next
<1>1. /\ S \subseteq live /\ live' = live \ S /\ erased' = erased \cup S
      /\ log' = Appended(log, {<<c.name, "delete", i>> : i \in S}) /\ given' = given
  BY DEF Delete, answers
<1>2. V!Logged("delete", S)
  <2>1. c.name \in Clients /\ "delete" \in Counted /\ "delete" \in Merged("delete") /\ TypeOK
    BY DEF ApiInv, TypeOK, Client, Counted, Merged
  <2> QED
    BY <1>1, <2>1, LoggedMaps
<1>3. \A i \in S : [j \in Ids |-> StateOf(j)][i] = "live"
  BY <1>1 DEF StateOf
<1>4. [i \in Ids |-> StateOf(i)]'
        = [i \in Ids |-> IF i \in S THEN "erased" ELSE [j \in Ids |-> StateOf(j)][i]]
  BY <1>1 DEF StateOf
<1>5. [i \in Ids |-> Total(given, "reveal", i)]' = [i \in Ids |-> Total(given, "reveal", i)]
  BY <1>1 DEF Total
<1>6. V!Erase(S)
  BY <1>2, <1>3, <1>4, <1>5 DEF V!Erase, V!PlacesOf
<1> QED
  BY <1>6 DEF V!Next

\* What a reveal logs and answers: lines of one action, one for each object.
LEMMA RevealLines ==
    ASSUME ApiInv, NEW q \in Requests, pc[q] # "idle", req[q].kind # "search"
    PROVE  LET b == ActionOf(req[q].kind) IN
           /\ b \in Merged("reveal") /\ b \in Actions /\ req[q].client \in Clients
           /\ req[q].found \in SUBSET Ids /\ req[q].found \subseteq live \cup erased
           /\ LinesOf(q) = {<<req[q].client, b, i>> : i \in req[q].found}
<1>1. req[q].kind \in Reveals /\ req[q].client \in Clients /\ req[q].found \subseteq live \cup erased
  BY DEF ApiInv, ReqSoFar, Reads
<1>2. req[q].found \in SUBSET Ids
  BY DEF ApiInv, TypeOK, Req
<1>3. ActionOf(req[q].kind) \in {"reveal_masked", "reveal_full"}
  BY DEF ActionOf
<1>4. LinesOf(q) = {<<req[q].client, ActionOf(req[q].kind), i>> : i \in req[q].found}
  BY DEF LinesOf
<1> QED
  BY <1>1, <1>2, <1>3, <1>4 DEF Merged, Actions

\* A search logs and answers no object.
LEMMA SearchLines ==
    ASSUME NEW q \in Requests, req[q].kind = "search", NEW f \in [Line -> Nat],
           NEW a \in Counted, NEW i \in Ids
    PROVE  Total(Appended(f, LinesOf(q)), a, i) = Total(f, a, i)
<1>1. \A l \in LinesOf(q) : l[2] = "search"
  <2>1. ActionOf(req[q].kind) = "search"
    BY DEF ActionOf, Full
  <2> QED
    BY <2>1 DEF LinesOf
<1>2. Same(a, i) \subseteq Line /\ IsFiniteSet(Same(a, i))
  BY SameType
<1>3. \A l \in Same(a, i) : l \notin LinesOf(q)
  BY <1>1 DEF Same, Merged, Counted
<1>4. ASSUME NEW l \in Same(a, i) PROVE Appended(f, LinesOf(q))[l] = f[l]
  <2>1. l \in Line /\ l \notin LinesOf(q)
    BY <1>2, <1>3
  <2> QED
    BY <2>1, AppendedType
<1>5. SumOf(Appended(f, LinesOf(q)), Same(a, i)) = SumOf(f, Same(a, i))
  BY <1>2, <1>4, SumSame
<1> QED
  BY <1>5 DEF Total, Same

\* Audit logs a reveal of stored objects, or nothing that Vault tells apart.
LEMMA AuditMaps ==
    ASSUME ApiInv, NEW q \in Requests, NEW written \in BOOLEAN, NEW told \in BOOLEAN,
           Audit(q, written, told)
    PROVE  V!Next \/ UNCHANGED V!vars
<1>1. /\ pc[q] = "audit" /\ live' = live /\ erased' = erased /\ given' = given
      /\ log' = log \/ log' = Appended(log, LinesOf(q))
  BY DEF Audit, answers
<1>2. CASE log' = log
  BY <1>1, <1>2, UnseenMaps DEF vault
<1>3. /\ [i \in Ids |-> StateOf(i)]' = [i \in Ids |-> StateOf(i)]
      /\ [i \in Ids |-> Total(given, "reveal", i)]' = [i \in Ids |-> Total(given, "reveal", i)]
  BY <1>1 DEF StateOf, Total
<1>4. CASE log' = Appended(log, LinesOf(q)) /\ req[q].kind = "search"
  <2>1. log \in [Line -> Nat]
    BY DEF ApiInv, TypeOK
  <2>2. ASSUME NEW a \in Counted, NEW i \in Ids PROVE Total(log', a, i) = Total(log, a, i)
    BY <1>4, <2>1, SearchLines
  <2>3. {"create", "reveal", "delete", "reindex"} = Counted \cup {"reindex"}
    BY DEF Counted
  <2>4. ASSUME NEW l \in {"create", "reveal", "delete", "reindex"} \X Ids, l[1] # "reindex"
        PROVE  Total(log', l[1], l[2]) = Total(log, l[1], l[2])
    BY <2>2, <2>3, <2>4
  <2> QED
    BY <1>3, <2>4 DEF V!vars, Total
<1>5. CASE log' = Appended(log, LinesOf(q)) /\ req[q].kind # "search"
  <2>0. PICK c, b, S : c = req[q].client /\ b = ActionOf(req[q].kind) /\ S = req[q].found
    OBVIOUS
  <2>1. /\ b \in Merged("reveal") /\ c \in Clients /\ S \in SUBSET Ids
        /\ S \subseteq live \cup erased
        /\ LinesOf(q) = {<<c, b, i>> : i \in S}
    <3>1. pc[q] # "idle" /\ req[q].kind # "search"
      BY <1>1, <1>5
    <3> QED
      BY <2>0, <3>1, RevealLines
  <2>2. TypeOK /\ "reveal" \in Counted
    BY DEF ApiInv, Counted
  <2>3. V!Logged("reveal", S)
    <3>1. log' = Appended(log, {<<c, b, i>> : i \in S})
      BY <1>5, <2>1, Zenon
    <3> QED
      BY <2>1, <2>2, <3>1, LoggedMaps
  <2>4. \A i \in S : [j \in Ids |-> StateOf(j)][i] # "absent"
    BY <2>1 DEF StateOf
  <2>5. V!LogReveal(S)
    BY <1>3, <2>3, <2>4 DEF V!LogReveal
  <2> QED
    BY <2>1, <2>5 DEF V!Next
<1> QED
  BY <1>1, <1>2, <1>4, <1>5

\* An answer that is about to leave has lines that no other answer used.
LEMMA AnswerIsBehind ==
    ASSUME ApiInv, NEW q \in Requests, pc[q] = "answer", req[q].kind # "search",
           NEW i \in req[q].found
    PROVE  Total(given, "reveal", i) < Total(log, "reveal", i)
<1>0. PICK c, b, S : c = req[q].client /\ b = ActionOf(req[q].kind) /\ S = {i}
  OBVIOUS
<1> DEFINE y == <<c, b, i>>
           e == Appended(given, {<<c, b, j>> : j \in S})
<1>1. /\ b \in Merged("reveal") /\ b \in Actions /\ c \in Clients
      /\ i \in Ids /\ LinesOf(q) = {<<c, b, j>> : j \in req[q].found}
  BY <1>0, RevealLines
<1>2. given \in [Line -> Nat] /\ log \in [Line -> Nat] /\ "reveal" \in Counted
  BY DEF ApiInv, TypeOK, Counted
<1>3. Same("reveal", i) \subseteq Line /\ IsFiniteSet(Same("reveal", i))
  BY <1>1, <1>2, SameType
<1>4. /\ Total(given, "reveal", i) \in Nat
      /\ Total(e, "reveal", i) = Total(given, "reveal", i) + 1
  <2>1. /\ Total(given, "reveal", i) \in Nat
        /\ Total(e, "reveal", i) = IF b \in Merged("reveal") /\ i \in S
                 THEN Total(given, "reveal", i) + 1 ELSE Total(given, "reveal", i)
    BY <1>1, <1>2, TotalAppended
  <2> QED
    BY <1>0, <1>1, <2>1
<1>5. /\ e \in [Line -> Nat]
      /\ \A l \in Line : e[l] = IF l \in {<<c, b, j>> : j \in S}
                                THEN given[l] + 1 ELSE given[l]
  BY <1>2, AppendedType
<1>6. ASSUME NEW l \in Line PROVE e[l] <= log[l] /\ e[l] \in Nat /\ log[l] \in Nat
  <2>1. given[l] \in Nat /\ log[l] \in Nat /\ given[l] + Cardinality(Waiting(l)) <= log[l]
    BY <1>2 DEF ApiInv, LinesCounted
  <2>2. IsFiniteSet(Waiting(l)) /\ Cardinality(Waiting(l)) \in Nat
    BY WaitingType
  <2>3. l = y => Cardinality(Waiting(l)) # 0
    <3>1. y \in LinesOf(q)
      BY <1>1
    <3>2. l = y => q \in Waiting(l)
      BY <3>1 DEF Waiting
    <3> QED
      BY <2>2, <3>2, FS_EmptySet
  <2>4. e[l] = IF l = y THEN given[l] + 1 ELSE given[l]
    <3> HIDE DEF e
    <3> QED
      BY <1>0, <1>5
  <2> HIDE DEF e, y
  <2> QED
    BY <2>1, <2>2, <2>3, <2>4
<1> HIDE DEF e
<1>7. SumOf(e, Same("reveal", i)) <= SumOf(log, Same("reveal", i))
  BY <1>3, <1>6, SumMonotone
<1>8. SumOf(log, Same("reveal", i)) \in Nat
  BY <1>3, <1>6, SumNat
<1>9. Total(e, "reveal", i) <= Total(log, "reveal", i) /\ Total(log, "reveal", i) \in Nat
  BY <1>7, <1>8 DEF Total, Same
<1> QED
  BY <1>4, <1>9

\* Answer is Vault's, of the objects found.
LEMMA AnswerMaps ==
    ASSUME ApiInv, NEW q \in Requests, Answer(q)
    PROVE  V!Next \/ UNCHANGED V!vars
<1>1. /\ pc[q] = "answer" /\ live' = live /\ erased' = erased /\ log' = log
      /\ given' = Appended(given, LinesOf(q))
  BY DEF Answer, vault
<1>2. given \in [Line -> Nat] /\ "reveal" \in Counted
  BY DEF ApiInv, TypeOK, Counted
<1>3. /\ [i \in Ids |-> StateOf(i)]' = [i \in Ids |-> StateOf(i)]
      /\ \A a, i : Total(log, a, i)' = Total(log, a, i)
      /\ \A i : Total(given, "reveal", i)' = Total(given', "reveal", i)
  BY <1>1 DEF StateOf, Total
<1>4. CASE req[q].kind = "search"
  <2>1. ASSUME NEW i \in Ids PROVE Total(given', "reveal", i) = Total(given, "reveal", i)
    BY <1>1, <1>2, <1>4, SearchLines
  <2> QED
    BY <1>3, <2>1 DEF V!vars
<1>5. CASE req[q].kind # "search"
  <2> DEFINE b == ActionOf(req[q].kind)
             S == req[q].found
  <2>1. /\ b \in Merged("reveal") /\ b \in Actions /\ req[q].client \in Clients
        /\ S \in SUBSET Ids /\ LinesOf(q) = {<<req[q].client, b, i>> : i \in S}
    BY <1>1, <1>5, RevealLines
  <2>2. ASSUME NEW i \in S PROVE Total(given, "reveal", i) < Total(log, "reveal", i)
    BY <1>1, <1>5, AnswerIsBehind
  <2> HIDE DEF b, S
  <2>3. ASSUME NEW i \in Ids
        PROVE  Total(given', "reveal", i)
                 = Total(given, "reveal", i) + IF i \in S THEN 1 ELSE 0
    <3>1. /\ Total(given, "reveal", i) \in Nat
          /\ Total(given', "reveal", i) = IF b \in Merged("reveal") /\ i \in S
                   THEN Total(given, "reveal", i) + 1 ELSE Total(given, "reveal", i)
      BY <1>1, <1>2, <2>1, TotalAppended
    <3> QED
      BY <2>1, <3>1
  <2>4. V!Answer(S)
    BY <1>3, <2>1, <2>2, <2>3 DEF V!Answer
  <2> QED
    BY <2>1, <2>4 DEF V!Next
<1> QED
  BY <1>4, <1>5

\* Every step of the server is a step of Vault, or clients do not see it.
LEMMA ApiNextMaps == ApiInv /\ [Next]_vars => [V!Next]_(V!vars)
<1> SUFFICES ASSUME ApiInv, [Next]_vars PROVE V!Next \/ UNCHANGED V!vars
  OBVIOUS
<1>1. CASE Tick \/ Restart
  BY <1>1, UnseenMaps DEF Tick, Restart, answers
<1>2. ASSUME NEW q \in Requests, NEW k \in Keys, NEW c \in clients, NEW kind \in Reads,
             NEW S \in SUBSET Ids, Arrive(q, k, c, kind, S)
      PROVE  UNCHANGED V!vars
  BY <1>2, UnseenMaps DEF Arrive, answers
<1>3. ASSUME NEW q \in Requests, Allow(q) \/ Look(q) \/ Charge(q) \/ Fail(q)
      PROVE  UNCHANGED V!vars
  BY <1>3, UnseenMaps DEF Allow, Look, Charge, Fail, answers
<1>4. ASSUME NEW q \in Requests, Answer(q)
      PROVE  V!Next \/ UNCHANGED V!vars
  BY <1>4, AnswerMaps
<1>5. ASSUME NEW q \in Requests, NEW written \in BOOLEAN, NEW told \in BOOLEAN,
             Audit(q, written, told)
      PROVE  V!Next \/ UNCHANGED V!vars
  BY <1>5, AuditMaps
<1>6. ASSUME NEW k \in Keys, NEW c \in clients, NEW S \in SUBSET Ids,
             Create(k, c, S) \/ Delete(k, c, S)
      PROVE  V!Next
  BY <1>6, CreateMaps, DeleteMaps
<1>7. CASE UNCHANGED vars
  BY <1>7, UnseenMaps DEF vars, answers
<1> QED
  BY <1>1, <1>2, <1>3, <1>4, <1>5, <1>6, <1>7 DEF Next

\* A server that has just started, with nothing stored, is the empty vault.
LEMMA ApiInitMaps == Init => V!Init
<1> SUFFICES ASSUME Init PROVE V!Init
  OBVIOUS
<1>1. live = {} /\ erased = {} /\ log = [l \in Line |-> 0] /\ given = [l \in Line |-> 0]
  BY DEF Init
<1>2. ASSUME NEW a \in Counted, NEW i \in Ids, NEW f \in [Line -> {0}] PROVE Total(f, a, i) = 0
  <2>1. Same(a, i) \subseteq Line /\ IsFiniteSet(Same(a, i))
    BY SameType
  <2>2. \A l \in Same(a, i) : f[l] = 0 /\ f[l] \in Nat
    BY <2>1
  <2>3. {} \in SUBSET Same(a, i)
    OBVIOUS
  <2>4. SumOf(f, Same(a, i)) = SumOf(f, {})
    BY <2>1, <2>2, <2>3, SumZeros
  <2>5. SumOf(f, Same(a, i)) = 0
    BY <2>4, SumEmpty
  <2> QED
    BY <2>5 DEF Total, Same
<1>3. log \in [Line -> {0}] /\ given \in [Line -> {0}]
  BY <1>1
<1>4. {"create", "reveal", "delete", "reindex"} = Counted \cup {"reindex"} /\ "reveal" \in Counted
  BY DEF Counted
<1>5. ASSUME NEW l \in {"create", "reveal", "delete", "reindex"} \X Ids
      PROVE  (IF l[1] = "reindex" THEN 0 ELSE Total(log, l[1], l[2])) = 0
  BY <1>2, <1>3, <1>4
<1>6. ASSUME NEW i \in Ids PROVE Total(given, "reveal", i) = 0
  BY <1>2, <1>3, <1>4
<1>7. [i \in Ids |-> StateOf(i)] = [i \in Ids |-> "absent"]
  BY <1>1 DEF StateOf
<1> QED
  BY <1>5, <1>6, <1>7 DEF V!Init, V!Lines

\* Api implements Vault: whoever asks, whatever budgets and restarts do to the
\* requests in between, objects are created and erased in batches with their
\* log lines, and no object is answered more often than its reveals were logged
\* (auditMany before writeJSON in get and revealBatch).
THEOREM ServerImplementsVault == Spec => ApiImplementsVault
BY ApiInitMaps, ApiNextMaps, ApiInvHolds, PTL DEF Spec, ApiImplementsVault, V!Spec
=============================================================================
