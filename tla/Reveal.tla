------------------------------- MODULE Reveal -------------------------------
(***************************************************************************)
(* A batch reveal: revealBatch asks GetMany for a list of ids, GetMany     *)
(* reads their rows in one SELECT and has OpenMany open them, OpenMany     *)
(* groups them by wrapping key, unwraps one group after the other - one    *)
(* key at a time, or through a transit engine's batch_input - and puts the *)
(* results back in the order of the rows.                                  *)
(*                                                                         *)
(* Cryptography is what binds a row together: a wrapped key is that of one *)
(* object, a ciphertext is that of one object.  A row whose parts are not  *)
(* its own, after a bad restore or an edit in the database, must not open. *)
(* Role, budget and audit log are in Api.                                  *)
(***************************************************************************)
EXTENDS Naturals, Sequences, SequencesExt

CONSTANTS
    Ids,         \* ids of live rows of the collection
    Keys,        \* ids of wrapping keys
    Loaded,      \* those this server has a wrapper for
    Batching,    \* those whose wrapper is a BatchUnwrapper (transit)
    Binding,     \* those that bind a wrapped key to its row
    Tables,      \* possible contents of the rows: functions from Ids to Row
    Unknown,     \* ids of no live row
    Requests,    \* what callers ask for: sequences of ids, known or not
    BatchSize,   \* keys in one batch_input (500 in the code)
    None         \* a wrapped key that does not open; no result

\* key_id, whose data key wrapped_dek is, whose object the ciphertext is.
Row == [key : Keys, wrap : Ids \cup {None}, body : Ids]

ASSUME RevealAssumption ==
    /\ Batching \subseteq Loaded /\ Loaded \subseteq Keys /\ Binding \subseteq Keys
    /\ Tables \subseteq [Ids -> Row]
    /\ Requests \subseteq Seq(Ids \cup Unknown)
    /\ BatchSize \in Nat \ {0}
    /\ None \notin Ids

VARIABLES
    table, req,      \* the rows, and the ids that are asked for
    pc,
    rows,            \* the ids GetMany read, in the order of the SELECT
    at,              \* the loops over rows and over ids: how many are done
    byKey,           \* OpenMany: the slots of the rows under each key
    left, key,       \* groups still to do, and the one in hand
    start, deks,     \* UnwrapMany: next item; the results so far
    plain, errs,     \* OpenMany's results, one slot for each row
    calls,           \* history: round trips for each key
    answer           \* objects, missing, and the audit entries written

input  == <<table, req>>
select == <<rows, at, byKey>>
group  == <<left, key, start, deks>>
result == <<plain, errs>>
vars   == <<input, pc, select, group, result, calls, answer>>

NoAnswer == [objects |-> [i \in Ids |-> None], missing |-> <<>>, entries |-> <<>>]
NoGroups == [k \in Keys |-> <<>>]

-----------------------------------------------------------------------------
(* Opening one row *)

\* Wrapper.Unwrap of a wrapped key, for the row i: None is ErrOpen.
Unwrap(k, wrap, i) == IF k \in Binding /\ wrap # i THEN None ELSE wrap

\* openWithDEK: the ciphertext opens under its own key, in its own row.
OpenWithDEK(dek, body, i) == IF dek = body /\ body = i THEN body ELSE None

\* Envelope.Open of row i by itself: the reference for OpenMany.
Open(i) ==
    LET r == table[i] IN
    IF r.key \notin Loaded THEN [plain |-> None, err |-> "unknown"]
    ELSE LET p == OpenWithDEK(Unwrap(r.key, r.wrap, i), r.body, i)
         IN  [plain |-> p, err |-> IF p = None THEN "open" ELSE "none"]

-----------------------------------------------------------------------------
(* GetMany and OpenMany *)

\* GetMany's SELECT has no ORDER BY.
Select(order) ==
    /\ pc = "select"
    /\ rows' = order
    /\ plain' = [n \in 1..Len(order) |-> None]
    /\ errs' = [n \in 1..Len(order) |-> "none"]
    /\ pc' = "index"
    /\ UNCHANGED <<input, at, byKey, group, calls, answer>>

\* byKey[k] = append(byKey[k], i), for each row; then the groups are there.
GroupRow ==
    LET n == at + 1
        k == table[rows[n]].key
    IN
    /\ pc = "index"
    /\ IF at < Len(rows)
       THEN /\ byKey' = [byKey EXCEPT ![k] = Append(@, n)]
            /\ at' = n
            /\ UNCHANGED <<left, pc>>
       ELSE /\ left' = {h \in Keys : byKey[h] # <<>>}
            /\ at' = 0 /\ pc' = "group"
            /\ UNCHANGED byKey
    /\ UNCHANGED <<input, rows, key, start, deks, result, calls, answer>>

\* A group whose key is not loaded.
UnknownKey(k) ==
    /\ pc = "group" /\ k \in left \ Loaded
    /\ errs' = [n \in 1..Len(rows) |->
                  IF n \in ToSet(byKey[k]) THEN "unknown" ELSE errs[n]]
    /\ left' = left \ {k}
    /\ UNCHANGED <<input, pc, select, key, start, deks, plain, calls, answer>>

\* The next group, in the order a Go map is walked.
BeginGroup(k) ==
    /\ pc = "group" /\ k \in left \cap Loaded
    /\ key' = k /\ start' = 0 /\ deks' = <<>>
    /\ pc' = IF k \in Batching THEN "batch" ELSE "one"
    /\ UNCHANGED <<input, select, left, result, calls, answer>>

\* What the wrapper answers for the n-th row of the group in hand.
UnwrapSlot(n) == LET i == rows[byKey[key][n]] IN Unwrap(key, table[i].wrap, i)

\* One key at a time.
UnwrapOne ==
    /\ pc = "one"
    /\ IF Len(deks) < Len(byKey[key])
       THEN deks' = Append(deks, UnwrapSlot(Len(deks) + 1)) /\ UNCHANGED pc
       ELSE pc' = "scatter" /\ UNCHANGED deks
    /\ UNCHANGED <<input, select, left, key, start, result, calls, answer>>

\* min(start+batchSize, len(wrapped))
BatchEnd(n) == IF start + BatchSize < n THEN start + BatchSize ELSE n

\* Mutant of BatchStep: one key for each round trip.
BatchStepOne == 1

\* start += batchSize
BatchStep == BatchSize

\* UnwrapMany: a round trip for the next items, with one result for each.
UnwrapBatch ==
    LET n == Len(byKey[key]) IN
    /\ pc = "batch"
    /\ IF start < n
       THEN /\ deks' = deks \o [j \in 1..(BatchEnd(n) - start) |-> UnwrapSlot(start + j)]
            /\ start' = start + BatchStep
            /\ calls' = [calls EXCEPT ![key] = @ + 1]
            /\ UNCHANGED pc
       ELSE /\ pc' = "scatter"
            /\ UNCHANGED <<deks, start, calls>>
    /\ UNCHANGED <<input, select, left, key, result, answer>>

\* Mutant of SlotOf: results are put where they stand in their group.
SlotOfGroup(j) == j

\* The slot of the j-th result of a group.
SlotOf(j) == byKey[key][j]

\* Open the rows of the group and put what comes out into their slots.
Scatter ==
    LET Js     == 1..Len(byKey[key])
        Filled == {SlotOf(j) : j \in Js}
        J(n)   == CHOOSE j \in Js : SlotOf(j) = n
        Out(n) == OpenWithDEK(deks[J(n)], table[rows[n]].body, rows[n])
    IN
    /\ pc = "scatter"
    /\ plain' = [n \in 1..Len(rows) |-> IF n \in Filled THEN Out(n) ELSE plain[n]]
    /\ errs' = [n \in 1..Len(rows) |->
                  IF n \notin Filled THEN errs[n]
                  ELSE IF Out(n) = None THEN "open" ELSE "none"]
    /\ left' = left \ {key}
    /\ pc' = "group"
    /\ UNCHANGED <<input, select, key, start, deks, calls, answer>>

\* 500: nothing of what was read is answered.
Fail ==
    /\ pc' = "failed"
    /\ rows' = <<>> /\ at' = 0 /\ byKey' = NoGroups
    /\ left' = {} /\ key' = None /\ start' = 0 /\ deks' = <<>>
    /\ plain' = <<>> /\ errs' = <<>>
    /\ calls' = [k \in Keys |-> 0]
    /\ UNCHANGED <<input, answer>>

\* A key service that cannot be reached, or that answers a batch with an error
\* or with another number of results.
Unreachable == pc \in {"one", "batch"} /\ Fail

\* Mutant of Opened: rows that do not open are left out of the answer.
OpenedSome ==
    /\ pc = "group" /\ left = {}
    /\ pc' = "respond"
    /\ UNCHANGED <<input, select, group, result, calls, answer>>

\* GetMany returns: a row that no longer opens is an error.
Opened ==
    /\ pc = "group" /\ left = {}
    /\ IF \A n \in 1..Len(rows) : errs[n] = "none"
       THEN pc' = "respond" /\ UNCHANGED <<input, select, group, result, calls, answer>>
       ELSE Fail

-----------------------------------------------------------------------------
(* The answer *)

\* found[id]: the slots of the row that was read for it.
Found(id) == {n \in 1..Len(rows) : rows[n] = id}

\* seen[id]: an earlier place of the request has it.
Seen(id) == \E m \in 1..at : req[m] = id

\* revealBatch, one id: it is given, with an entry for the log, or missing.
Give(id) ==
    IF Seen(id) THEN answer
    ELSE IF Found(id) = {} THEN [answer EXCEPT !.missing = Append(@, id)]
    ELSE [answer EXCEPT !.objects[id] = plain[CHOOSE n \in Found(id) : TRUE],
                        !.entries = Append(@, id)]

\* The loop over the ids of the request.
Respond ==
    /\ pc = "respond"
    /\ IF at < Len(req)
       THEN answer' = Give(req[at + 1]) /\ at' = at + 1 /\ UNCHANGED pc
       ELSE pc' = "answered" /\ UNCHANGED <<at, answer>>
    /\ UNCHANGED <<input, rows, byKey, group, result, calls>>

-----------------------------------------------------------------------------
Init ==
    /\ table \in Tables /\ req \in Requests
    /\ pc = "select" /\ rows = <<>> /\ at = 0 /\ byKey = NoGroups
    /\ left = {} /\ key = None /\ start = 0 /\ deks = <<>>
    /\ plain = <<>> /\ errs = <<>>
    /\ calls = [k \in Keys |-> 0]
    /\ answer = NoAnswer

Next ==
    \/ \E order \in SetToSeqs(ToSet(req) \cap Ids) : Select(order)
    \/ GroupRow
    \/ \E k \in Keys : UnknownKey(k) \/ BeginGroup(k)
    \/ UnwrapOne \/ UnwrapBatch \/ Scatter \/ Unreachable
    \/ Opened \/ Respond

Spec == Init /\ [][Next]_vars

-----------------------------------------------------------------------------
\* OpenMany gives each row what opening it by itself would give, in the slot of
\* that row, whatever the other groups and items do; a group's results are as
\* many as its rows.
OpenManyExact ==
    /\ pc = "scatter" => Len(deks) = Len(byKey[key])
    /\ pc \in {"group", "respond"} =>
         \A n \in 1..Len(rows) :
             table[rows[n]].key \notin left =>
                 [plain |-> plain[n], err |-> errs[n]] = Open(rows[n])

\* What is answered is right and complete: every id that was asked for is either
\* given, with its own plaintext, or reported missing, once; an entry is logged
\* for each one given; and nothing is answered when one of the rows is damaged.
AnswerExact ==
    pc = "answered" =>
        /\ \A i \in Ids : answer.objects[i] = IF i \in ToSet(req) THEN i ELSE None
        /\ \A i \in ToSet(req) \cap Ids : Open(i).err = "none"
        /\ ToSet(answer.missing) = ToSet(req) \ Ids
        /\ ToSet(answer.entries) = ToSet(req) \cap Ids
        /\ IsInjective(answer.missing) /\ IsInjective(answer.entries)

\* README.md: 500 keys per round trip, a page of a thousand objects is two
\* calls.  A group never takes more round trips than its size asks for.
RoundTrips ==
    \A k \in Keys : calls[k] * BatchSize < Len(byKey[k]) + BatchSize
=============================================================================
