------------------------------- MODULE MCMenu -------------------------------
(***************************************************************************)
(* Small instances of Menu: three entries, two of which begin alike.       *)
(***************************************************************************)
EXTENDS Menu

ThreeEntries == << <<"a", "b">>, <<"a", "b", "c">>, <<"b">> >>

Nothing == {<<>>}
SomeText == {<<>>, <<"a", "b">>}

\* How read_string is called for shell commands, for commands and tags, and for
\* files and addresses.
Plain == [completer |-> FALSE, delay |-> TRUE, thread |-> FALSE]
AtOnce == [completer |-> TRUE, delay |-> FALSE, thread |-> FALSE]
ByThread == [completer |-> TRUE, delay |-> TRUE, thread |-> TRUE]

PlainAndAtOnce == {Plain, AtOnce}
OnlyPlain == {Plain}
OnlyByThread == {ByThread}
=============================================================================
