------------------------------ MODULE MCSearch ------------------------------
(***************************************************************************)
(* A small instance of Search.  At first the collection is not in the      *)
(* schema, or its phone field is plain text, or a second field has the     *)
(* name of the index of the first one's last four digits; then phone       *)
(* numbers become searchable, whole and by their last four digits, cards   *)
(* by those only.                                                          *)
(***************************************************************************)
EXTENDS Search

String(v) == [kind |-> "string", text |-> v]
Null      == [kind |-> "null"]
Other     == [kind |-> "other"]

Plain  == [type |-> "string", index |-> FALSE, fragments |-> {}]
Email  == [type |-> "email", index |-> TRUE, fragments |-> {}]
Phone  == [type |-> "phone", index |-> TRUE, fragments |-> {"last4"}]
Second == [type |-> "phone", index |-> TRUE, fragments |-> {}]
Card   == [type |-> "card", index |-> FALSE, fragments |-> {"last4"}]

\* 1234, 555-1234, 123-4555, a@b, and a card number that ends in 1234.
Short   == <<"1", "2", "3", "4">>
Long    == <<"5", "5", "5", "-", "1", "2", "3", "4">>
Twisted == <<"1", "2", "3", "-", "4", "5", "5", "5">>
Address == <<"a", "@", "b">>
Number  == <<"4", "0", "0", "0", "0", "0", "0", "0", "2", "1", "2", "3", "4">>

\* The number with its last digit or the one before it mistyped, and written
\* with spaces.
Typos  == {[Number EXCEPT ![i] = ch] : i \in {12, 13}, ch \in {"5", "8"}}
Spaced == <<Head(Number), " ">> \o Tail(Number)

\* A field that shares its index with the last four digits of the phone field.
Clash == "phone#last4"

MCObjects ==
    {("phone" :> String(Long)) @@ (Clash :> String(Twisted)),
     [phone |-> String(Short)], [phone |-> String(Long)], [phone |-> String(Twisted)],
     [phone |-> Null], [phone |-> Other],
     [mail |-> String(Address)], [card |-> String(Spaced)]}
    \cup {[card |-> String(v)] : v \in Typos}

\* Each in another spelling than it is stored in.
MCQueries == {[field |-> "phone", text |-> <<"1", "2", "-", "3", "4">>],
              [field |-> "phone", text |-> digits(Long)],
              [field |-> "phone", text |-> <<"-">>],
              [field |-> "mail", text |-> <<" ", "A", "@", "B">>],
              [field |-> "card", text |-> Short],
              [field |-> Clash, text |-> Short],
              [field |-> Clash, text |-> digits(Twisted)]}

Declared(fields) == [declared |-> TRUE, fields |-> fields]

MCOldSchemas == {Undeclared, Declared([phone |-> Plain, mail |-> Email]),
                 Declared(("phone" :> Phone) @@ (Clash :> Second))}
MCNewSchema  == Declared([phone |-> Phone, mail |-> Email, card |-> Card])
=============================================================================
