----------------------------- MODULE MCServerList -----------------------------
(* Two servers, a list of one, and one with an address that cannot be parsed. *)
EXTENDS ServerList
MCDefault == <<"a", "b">>
MCLists == {<<>>, <<"b", "a">>, <<"c">>, <<"bad", "a">>}
MCTwoLists == {<<"c", "a">>, <<"b", "a">>}
MCParses(s) == s # "bad"
=============================================================================
