---------------------------- MODULE MCApiServer ----------------------------
(***************************************************************************)
(* A small instance of ApiServer: two entries for the file "f", one for    *)
(* each name the workflow takes, one for somebody else, and datagrams that *)
(* are no JSON or lack a member.                                           *)
(***************************************************************************)
EXTENDS ApiServer

APath    == {"", "f"}
AMatches == {<<"", "">>, <<"f", "f">>}
ALength  == [p \in APath |-> IF p = "" THEN 0 ELSE 1]
AParent  == [p \in APath |-> ""]
AApp     == {"a", "b", "c"}
AStrip   == [x \in AApp |-> x]

AUses == {[api |-> api, path |-> "f", arg |-> DefaultEntry] :
            api \in {"newFile", "isPermanent"}}

Dgram(w, e) == [json |-> TRUE, path |-> "f", workflow |-> w, entry |-> e]
ByA == [producers |-> <<"a">>, commit_rule |-> "on_close",
        commit_on_close_count |-> 2, permanent |-> TRUE,
        file_dependencies |-> <<"f">>]
ByB == [producers |-> <<"b">>, fire_rule |-> "no_update", is_file |-> FALSE,
        commit_on_close_count |-> 1, directory_children_count |-> 3,
        enable_directory_count_update |-> FALSE]
ByC == [producers |-> <<"c">>]

Names == <<"CAPIO", "wf">>
Good  == {Dgram("CAPIO", ByA), Dgram("wf", ByB)}
Bad   == {Dgram("other", ByC), Dgram("CAPIO", NoText)}
AllDatagrams == Good \cup Bad
NoDatagram   == {}
ACalls       == AUses \cup {AddCall(d) : d \in {x \in AllDatagrams : Complete(x)}}

=============================================================================
