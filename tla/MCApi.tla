------------------------------- MODULE MCApi -------------------------------
(* Every parameter in every form, two dates in every order, and all texts that could *)
(* run together in a key.                                                            *)
EXTENDS Api

MCSep == "|"
MCChar == {"a", "0", "1", "2", "3", "|"}
MCStamp == {<<"0">>, <<"1">>, <<"2">>, <<"3">>}
MCText == {<<>>, <<"a">>, <<"a", "a">>}
MCFormat == [d \in 0 .. 3 |-> CASE d = 0 -> <<"0">> [] d = 1 -> <<"1">>
                                [] d = 2 -> <<"2">> [] OTHER -> <<"3">>]

Numbered == {[Unset EXCEPT !["offset"] = o] : o \in {Repeated, Garbled, 5}} \cup
            {[Unset EXCEPT !["limit"] = l] : l \in {Repeated, Garbled, 0, 1, 100, 101}}
Dated == {[Unset EXCEPT !["from"] = f, !["to"] = t] :
            f \in {Absent, Repeated, Garbled, 0, 2, 3}, t \in {Absent, Garbled, 0, 2}}
Named == {[Unset EXCEPT !["country"] = co, !["city"] = ci] :
            co \in MCText \cup {Absent}, ci \in {Absent, <<"a">>, <<"a", "a">>}}
Versioned == {[Unset EXCEPT !["version"] = <<"a">>, !["service"] = s] : s \in {<<"a">>, Absent}}
Doubled == {[Unset EXCEPT ![p] = Repeated] : p \in Texts}
MCQuery == Numbered \cup Dated \cup Named \cup Versioned \cup Doubled
=============================================================================
