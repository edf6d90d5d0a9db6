--------------------------- MODULE MCVconFilters ---------------------------
(* Model values and bounds for checking VconFilters. *)
EXTENDS VconFilters

\* joann's address ends like ann's; bob has no display name.
ann == [name |-> "Ann", mailto |-> "ann@x"]
joann == [name |-> "Jo", mailto |-> "joann@x"]
cat == [name |-> "Cat", mailto |-> "cat@x"]
bob == [name |-> "", mailto |-> "bob@x"]

MCAddress == {ann, joann, cat, bob}
MCInvited == {cat}
MCWithin == {<<"ann@x", "joann@x">>}

Mail(from, to, date, media) ==
    [from |-> from, to |-> to, subject |-> TRUE, date |-> date, media |-> media]

MCMessage == {Mail(joann, <<ann>>, TRUE, "plain"),
              Mail(joann, <<cat>>, TRUE, "none"),
              Mail(bob, <<ann>>, TRUE, "other"),
              Mail(bob, <<ann>>, FALSE, "other")}

MCOutputs == {{}, {"srt"}}

MCLists == {<<2, 2, 1>>}
=============================================================================
