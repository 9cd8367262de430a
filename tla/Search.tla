------------------------------- MODULE Search -------------------------------
(***************************************************************************)
(* Finding objects by an indexed value: a caller pages through a search    *)
(* (client.SearchAfter, api.search, store.Search) while objects of the     *)
(* collection are created and shredded, the servers are restarted with a   *)
(* new schema, and "sealbox reindex" rebuilds the index for it.            *)
(*                                                                         *)
(* Creates, shreddings and the rewriting of one object's index rows are    *)
(* single steps: Store and StoreRefinement show that this is how they take *)
(* effect.  Budget, role and audit line of a search are in Api.            *)
(***************************************************************************)
EXTENDS Schema, SequencesExt

CONSTANTS
    Ids,          \* object ids; random in the code, so their order is arbitrary
    Objects,      \* what callers store: field name -> JSON value
    Queries,      \* what callers search for: records [field, text]
    OldSchemas,   \* the schema at first is one of these...
    NewSchema,    \* ... and this one after the restart
    SearchPage,   \* ids in one answer (100 in the code)
    PageSize,     \* LIMIT 500 of Reindex
    None          \* no object, no query

ASSUME SearchAssumption ==
    /\ Ids \subseteq Nat \ {0} /\ IsFiniteSet(Ids)
    /\ \A s \in OldSchemas \cup {NewSchema} : Parse(s) /\ (s.declared \/ s = Undeclared)
    /\ \A o \in Objects : \A name \in DOMAIN o :
         o[name].kind = "string" => o[name].text \in Seq(STRING)
    /\ \A q \in Queries : q.text \in Seq(STRING)
    /\ SearchPage \in Nat \ {0} /\ PageSize \in Nat \ {0}
    /\ None \notin Objects /\ None \notin Queries

\* A string with something appended is another string.
ASSUME NamesAssumption ==
    \A s \in OldSchemas \cup {NewSchema} : \A name \in DOMAIN s.fields :
        Fragment(name) # Whole(name)

VARIABLES
    objects,   \* id -> object, None before it is created
    live,      \* ids of the objects that are not shredded
    checked,   \* history: those of them that were validated by NewSchema
    index,     \* blind_index: records [key, id]; a key is what is hashed
    schema,    \* the schema of the servers and of the command
    rix,       \* "sealbox reindex": control, page and cursor
    pager,     \* the caller: control, query, cursor, ids collected
    always     \* history: ids that matched whenever the caller looked, and between

stored == <<objects, live, checked>>
vars   == <<stored, index, schema, rix, pager, always>>

NoRun   == [pc |-> "off", page |-> {}, last |-> 0]
NoQuery == [pc |-> "idle", query |-> None, after |-> 0, got |-> <<>>]

\* The index rows of object i for what Indexed returned.
Entries(i, out) == {[key |-> k, id |-> i] : k \in out}

EntriesOf(i) == {e \in index : e.id = i}

\* The first n of S in id order: ORDER BY id LIMIT n.
First(S, n) == {i \in S : Cardinality({j \in S : j < i}) < n}

-----------------------------------------------------------------------------
(* Objects and their index rows *)

\* create: an object the schema accepts is stored with its index rows.
Create(i, o) ==
    /\ objects[i] = None
    /\ Validate(schema, o)
    /\ objects' = [objects EXCEPT ![i] = o]
    /\ live' = live \cup {i}
    /\ checked' = IF schema = NewSchema THEN checked \cup {i} ELSE checked
    /\ \E out \in Indexed(schema, o) : index' = index \cup Entries(i, out)
    /\ UNCHANGED <<schema, rix, pager>>

\* delete: its index rows go with it.
Shred(i) ==
    /\ i \in live
    /\ live' = live \ {i} /\ checked' = checked \ {i}
    /\ index' = index \ EntriesOf(i)
    /\ UNCHANGED <<objects, schema, rix, pager>>

\* The schema file is changed and the servers are restarted.
Redeploy ==
    /\ schema # NewSchema
    /\ schema' = NewSchema
    /\ UNCHANGED <<stored, index, rix, pager>>

-----------------------------------------------------------------------------
(* Reindex *)

\* "sealbox reindex" with the new schema.
ReindexStart ==
    /\ rix.pc = "off" /\ schema = NewSchema
    /\ rix' = [NoRun EXCEPT !.pc = "scan"]
    /\ UNCHANGED <<stored, index, schema, pager>>

\* id > last
ReindexAfter(i) == i > rix.last

\* The next page; without one the run is over.
ReindexPage ==
    LET S == First({i \in live : ReindexAfter(i)}, PageSize) IN
    /\ rix.pc = "scan"
    /\ rix' = [rix EXCEPT !.pc = IF S = {} THEN "done" ELSE "rows", !.page = S]
    /\ UNCHANGED <<stored, index, schema, pager>>

\* rewriteIndex of the next row of the page; one shredded since is left alone.
ReindexRow ==
    LET i == Min(rix.page) IN
    /\ rix.pc = "rows"
    /\ \/ /\ i \in live
          /\ \E out \in Indexed(schema, objects[i]) :
                index' = (index \ EntriesOf(i)) \cup Entries(i, out)
       \/ i \notin live /\ UNCHANGED index
    /\ rix' = [pc   |-> IF rix.page = {i} THEN "scan" ELSE "rows",
               page |-> rix.page \ {i}, last |-> i]
    /\ UNCHANGED <<stored, schema, pager>>

\* The command fails or is killed; it is run again from the start.
ReindexFail ==
    /\ rix.pc \in {"scan", "rows"}
    /\ rix' = NoRun
    /\ UNCHANGED <<stored, index, schema, pager>>

-----------------------------------------------------------------------------
(* Search *)

\* The ids that blind_index has now for query q.
Hits(q) ==
    LET k == Normalize(schema, q.field, q.text)
    IN  IF k = Refused THEN {} ELSE {e.id : e \in {e \in index : e.key = k}}

\* SearchAfter with no cursor.
Ask(q) ==
    /\ pager.pc = "idle"
    /\ pager' = [NoQuery EXCEPT !.pc = "ask", !.query = q]
    /\ UNCHANGED <<stored, index, schema, rix>>

\* Mutant of SearchAfter: the cursor's own id is returned again.
SearchFrom(i) == i >= pager.after

\* object_id > $4
SearchAfter(i) == i > pager.after

\* Mutant of Continues: a full page is taken for the last one.
ContinuesNever(S) == FALSE

\* The answer has "next": the page is full.
Continues(S) == Cardinality(S) = SearchPage

\* One request: Normalize, Search, and the answer; 400 when the field is not
\* indexed under the schema the server has by now.
Page ==
    LET q == pager.query
        S == First({i \in Hits(q) : SearchAfter(i)}, SearchPage)
    IN
    /\ pager.pc = "ask"
    /\ IF Normalize(schema, q.field, q.text) = Refused
       THEN pager' = NoQuery
       ELSE pager' = [pager EXCEPT
                !.got = @ \o Ascending(S),
                !.after = IF Continues(S) THEN Max(S) ELSE @,
                !.pc = IF Continues(S) THEN "ask" ELSE "done"]
    /\ UNCHANGED <<stored, index, schema, rix>>

\* The caller has what it wanted, or gives up.
Forget ==
    /\ pager.pc # "idle"
    /\ pager' = NoQuery
    /\ UNCHANGED <<stored, index, schema, rix>>

\* History: what matches the caller's query, now and so far.
Matching == IF pager.query = None THEN {} ELSE Hits(pager.query)
Track == always' = IF pager.query = None THEN Matching' ELSE always \cap Matching'

-----------------------------------------------------------------------------
Init ==
    /\ objects = [i \in Ids |-> None]
    /\ live = {} /\ checked = {} /\ index = {}
    /\ schema \in OldSchemas
    /\ rix = NoRun /\ pager = NoQuery /\ always = {}

Next ==
    /\ \/ \E i \in Ids, o \in Objects : Create(i, o)
       \/ \E i \in Ids : Shred(i)
       \/ Redeploy
       \/ ReindexStart \/ ReindexPage \/ ReindexRow \/ ReindexFail
       \/ \E q \in Queries : Ask(q)
       \/ Page \/ Forget
    /\ Track

Spec == Init /\ [][Next]_vars

-----------------------------------------------------------------------------
\* The schema is the one every live object is indexed by, or "sealbox reindex"
\* has exited since it changed.
Settled == schema # NewSchema \/ rix.pc = "done"

\* The string in a field of an object, as Go decodes it.
TextOf(i, field) == Text(objects[i][field])

Holds(i, field) == field \in DOMAIN objects[i] /\ IsText(objects[i][field])

Same(field, v, w) ==
    normalize(schema.fields[field].type, v) = normalize(schema.fields[field].type, w)

\* The index that the search for q looks in is that of its field alone.
LooksInOwn(q) == Unshared(schema, q.field, Normalize(schema, q.field, q.text)[1])

\* README.md: a search finds the objects whose value is equal after
\* normalization.  However a live object's value is spelled, and whether it was
\* stored under this schema or before it, a search for any spelling that is not
\* refused finds it once the index is settled (Indexed and Normalize agree),
\* unless another field has the name of the index it looks in.
SearchFinds ==
    Settled => \A q \in Queries, i \in live :
        /\ Normalize(schema, q.field, q.text) # Refused
        /\ LooksInOwn(q)
        /\ Holds(i, q.field)
        /\ Same(q.field, TextOf(i, q.field), q.text)
        => i \in Hits(q)

\* A search finds nothing else: what it finds is live, and, again unless another
\* field has the name of its index, equal after normalization or, for exactly
\* four digits, ending in them.
SearchExact ==
    Settled => \A q \in Queries : \A i \in Hits(q) :
        /\ i \in live
        /\ LooksInOwn(q) =>
             /\ Holds(i, q.field)
             /\ \/ Same(q.field, TextOf(i, q.field), q.text)
                \/ /\ Len(digits(q.text)) = 4
                   /\ IsSuffix(digits(q.text), digits(TextOf(i, q.field)))

\* Pages never repeat or reorder an id, whatever is created, shredded or
\* reindexed between them.
PagesAscend ==
    \A m, n \in 1..Len(pager.got) : m < n => pager.got[m] < pager.got[n]

\* When the last page has no "next", the caller has every id that matched its
\* query all along.
PagesComplete ==
    pager.pc = "done" =>
        \A i \in always : \E n \in 1..Len(pager.got) : pager.got[n] = i

\* README.md: a masked read shows the last four digits of a phone or card
\* number.  It shows those and nothing else of every number that was validated,
\* and at least three digits stay hidden.
MasksHide ==
    \A i \in checked : \A name \in DOMAIN objects[i] \cap DOMAIN schema.fields :
        schema.fields[name].type \in {"phone", "card"} =>
            LET all   == digits(TextOf(i, name))
                shown == digits(MaskValue(schema, name, objects[i][name]))
            IN  /\ Len(shown) = 4 /\ IsSuffix(shown, all)
                /\ Len(all) - Len(shown) >= 3

Differ(v, w) == Cardinality({n \in 1..Len(v) : v[n] # w[n]})

\* No two card numbers that were validated differ in one digit only: whoever
\* mistypes a digit of a stored card is refused (luhn).
TypoRefused ==
    \A i, j \in checked :
        \A name \in DOMAIN objects[i] \cap DOMAIN objects[j] \cap DOMAIN schema.fields :
            LET v == digits(TextOf(i, name))
                w == digits(TextOf(j, name))
            IN  schema.fields[name].type = "card" /\ Len(v) = Len(w) => Differ(v, w) # 1
=============================================================================
