--------------------------- MODULE MCPollHandlers ---------------------------
(* Instances of PollHandlers for TLC. *)
EXTENDS PollHandlers

(* Every kind of entry: a BULK of two columns with a GET, a GET alone, nothing. *)
MixedProfiles == {<<"subtree", "column", "oid">>, <<"invalid", "instance">>, <<>>}
SmallProfiles == {<<"column", "oid">>}
=============================================================================
