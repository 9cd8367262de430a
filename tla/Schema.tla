------------------------------- MODULE Schema -------------------------------
(***************************************************************************)
(* What a collection may hold (internal/schema): field types with their    *)
(* validation, normal form and mask, what an object puts into the blind    *)
(* index, and what a search looks up there.  Pure functions.               *)
(*                                                                         *)
(* A string is a sequence of characters, because what is kept of a value   *)
(* depends on each of them; a piece of fixed text in a mask counts as one. *)
(* A JSON value is a string, null, or something else.  A schema is the     *)
(* declaration of one collection: collections do not affect each other,    *)
(* since the name of the collection is part of every hash.                 *)
(***************************************************************************)
EXTENDS Sequences, Sums

Digits == <<"0", "1", "2", "3", "4", "5", "6", "7", "8", "9">>
Digit  == {Digits[n] : n \in 1..10}

\* Spaces; letters of both cases, as the values that are checked use them.
Space == " "
Lower == [A |-> "a", B |-> "b"]

Types == {"string", "email", "phone", "card"}

\* A field's declaration, and a collection's; declared is FALSE for a
\* collection that the schema does not mention, whose fields are then none.
Field == [type : Types, index : BOOLEAN, fragments : SUBSET {"last4"}]
Undeclared == [declared |-> FALSE, fields |-> <<>>]

-----------------------------------------------------------------------------
(* Strings *)

Positions(v, ch) == {i \in 1..Len(v) : v[i] = ch}

AllOf(v, chars) == \A i \in 1..Len(v) : v[i] \in chars

\* The n-th number of a finite set, and the set in ascending order.
Nth(S, n)    == CHOOSE i \in S : Cardinality({j \in S : j < i}) = n - 1
Ascending(S) == [n \in 1..Cardinality(S) |-> Nth(S, n)]

\* The digits of v, in their order.
digits(v) ==
    LET at == Ascending({i \in 1..Len(v) : v[i] \in Digit})
    IN  [n \in DOMAIN at |-> v[at[n]]]

\* Mutant of last4: the wrong end.
first4(d) == SubSeq(d, 1, IF Len(d) < 4 THEN 0 ELSE 4)

\* d[len(d)-4:], or nothing when d is shorter.
last4(d) == IF Len(d) < 4 THEN <<>> ELSE SubSeq(d, Len(d) - 3, Len(d))

trimSpace(v) ==
    LET S == (1..Len(v)) \ Positions(v, Space)
    IN  IF S = {} THEN <<>> ELSE SubSeq(v, Min(S), Max(S))

toLower(v) == [i \in 1..Len(v) |->
                 IF v[i] \in DOMAIN Lower THEN Lower[v[i]] ELSE v[i]]

\* strings.Cut(v, "@"): what is before the first @ and what is after it.
Cut(v) ==
    LET at == Positions(v, "@")
    IN  IF at = {} THEN [ok |-> FALSE, local |-> v, domain |-> <<>>]
        ELSE [ok     |-> TRUE,
              local  |-> SubSeq(v, 1, Min(at) - 1),
              domain |-> SubSeq(v, Min(at) + 1, Len(v))]

\* Mutant of Weight: the doubled digit is not reduced.
WeightUnreduced(d, i) ==
    LET n == (CHOOSE k \in 1..10 : Digits[k] = d[i]) - 1
    IN  IF (Len(d) - i) % 2 = 0 THEN n ELSE 2 * n

\* What digit i of d adds to the Luhn sum: every second one from the right is
\* doubled.
Weight(d, i) ==
    LET n == (CHOOSE k \in 1..10 : Digits[k] = d[i]) - 1
    IN  CASE (Len(d) - i) % 2 = 0 -> n
          [] (Len(d) - i) % 2 = 1 /\ 2 * n <= 9 -> 2 * n
          [] (Len(d) - i) % 2 = 1 /\ 2 * n > 9  -> 2 * n - 9

luhn(d) == SumOf([i \in 1..Len(d) |-> Weight(d, i)], 1..Len(d)) % 10 = 0

-----------------------------------------------------------------------------
(* The types: validate, normalize and mask *)

validateEmail(v) ==
    LET c == Cut(v) IN
    /\ c.ok /\ c.local # <<>> /\ c.domain # <<>>
    /\ Positions(v, Space) = {} /\ Positions(c.domain, "@") = {}

\* Mutant of validatePhone: four digits are enough.
validatePhoneShort(v) ==
    /\ AllOf(v, Digit \cup {Space, "+", "-", "(", ")", "."})
    /\ Len(digits(v)) \in 4..15

validatePhone(v) ==
    /\ AllOf(v, Digit \cup {Space, "+", "-", "(", ")", "."})
    /\ Len(digits(v)) \in 7..15

validateCard(v) ==
    /\ AllOf(v, Digit \cup {Space, "-"})
    /\ Len(digits(v)) \in 13..19
    /\ luhn(digits(v))

validate(t, v) == CASE t = "string" -> TRUE
                    [] t = "email"  -> validateEmail(v)
                    [] t = "phone"  -> validatePhone(v)
                    [] t = "card"   -> validateCard(v)

\* Type string has no normal form; Parse keeps it out of every index.
normalize(t, v) == CASE t = "email"             -> toLower(trimSpace(v))
                     [] t \in {"phone", "card"} -> digits(v)

hidden == <<"***">>

\* The first character and the domain.
maskEmail(v) ==
    LET c == Cut(v) IN
    IF c.domain = <<>> THEN hidden
    ELSE SubSeq(c.local, 1, 1) \o hidden \o <<"@">> \o c.domain

\* The last four digits, after fixed text.
maskTail(v, text) ==
    IF last4(digits(v)) = <<>> THEN hidden ELSE text \o last4(digits(v))

mask(t, v) == CASE t = "string" -> hidden
                [] t = "email"  -> maskEmail(v)
                [] t = "phone"  -> maskTail(v, hidden)
                [] t = "card"   -> maskTail(v, <<"**** **** **** ">>)

-----------------------------------------------------------------------------
(* A schema *)

\* Parse accepts the declaration s.
Parse(s) ==
    \A name \in DOMAIN s.fields :
        LET f == s.fields[name] IN
        /\ f \in Field
        /\ f.index => f.type # "string"
        /\ f.fragments # {} => f.type \in {"phone", "card"}

\* json.Unmarshal into a string: null leaves it empty and is no error.
IsText(x) == x.kind \in {"string", "null"}
Text(x)   == IF x.kind = "null" THEN <<>> ELSE x.text

\* The object o may be stored under s.
Validate(s, o) ==
    s.declared =>
        \A name \in DOMAIN o :
            /\ name \in DOMAIN s.fields
            /\ o[name].kind = "string"
            /\ validate(s.fields[name].type, o[name].text)

\* The name of an index: of the whole value, or of a fragment of it.  Both are
\* strings in one space of names, and Parse does not keep them apart: a field
\* may have the name of another one's fragment.
Whole(name)    == name
Fragment(name) == name \o "#last4"

\* Mutant of HasTail: a value of exactly four digits has no last four.
HasTailLonger(n) == Len(n) > 4

\* A normalized value long enough for the last4 fragment.
HasTail(n) == Len(n) >= 4

\* What the loop of Indexed assigns for one field of an object: pairs of index
\* name and normalized value.
IndexedField(f, name, v) ==
    LET n == normalize(f.type, v) IN
    (IF f.index THEN {<<Whole(name), n>>} ELSE {}) \cup
    (IF f.fragments # {} /\ HasTail(n) THEN {<<Fragment(name), last4(n)>>} ELSE {})

Assigned(s, o) ==
    UNION {IndexedField(s.fields[name], name, Text(o[name])) :
             name \in {x \in DOMAIN o \cap DOMAIN s.fields : IsText(o[x])}}

\* Indexed: the possible contents of the map out.  It has one value for each
\* name; fields are walked in any order, so where two of them assign to one name
\* either value may be the one that stays.
Indexed(s, o) ==
    {out \in SUBSET Assigned(s, o) :
        /\ \A a \in Assigned(s, o) : \E b \in out : b[1] = a[1]
        /\ \A a, b \in out : a[1] = b[1] => a = b}

\* The indexes that values of a field are put into.
IndexNames(s, name) ==
    (IF s.fields[name].index THEN {Whole(name)} ELSE {}) \cup
    (IF s.fields[name].fragments # {} THEN {Fragment(name)} ELSE {})

\* No field but this one fills the index.
Unshared(s, field, index) ==
    \A name \in DOMAIN s.fields \ {field} : index \notin IndexNames(s, name)

\* A search may name the field.
Searchable(s, field) ==
    field \in DOMAIN s.fields /\ (s.fields[field].index \/ s.fields[field].fragments # {})

Refused == <<>>

\* Normalize: which index to look in and for what, or Refused.
Normalize(s, field, v) ==
    LET f == s.fields[field]
        n == normalize(f.type, v)
    IN  IF ~Searchable(s, field) THEN Refused
        ELSE IF f.fragments # {} /\ Len(n) = 4 THEN <<Fragment(field), n>>
        ELSE IF f.index THEN <<Whole(field), n>>
        ELSE Refused

\* Mask of one value of an object: hidden unless it is text of a declared type.
MaskValue(s, name, x) ==
    IF ~IsText(x) THEN hidden
    ELSE mask(IF name \in DOMAIN s.fields THEN s.fields[name].type ELSE "string", Text(x))
=============================================================================
