----------------------------- MODULE MCHistoryTab -----------------------------
(* A page and a static asset of one host; four filters: none, "Hide        *)
(* static", which only the UI applies, a search text that the asset does   *)
(* not contain, which only the SQL applies, and that text with the host    *)
(* selected in the site map.                                               *)
EXTENDS HistoryTab, TLC

CONSTANTS all, noStatic, search, hostSearch

SomeFilters == {all, noStatic, search, hostSearch}
TwoRows == <<"page", "asset">>
Both == {"page", "asset"}
SomeInPage ==
    [f \in SomeFilters |-> IF f \in {search, hostSearch} THEN {"page"} ELSE Both]
SomeMatching == [f \in SomeFilters |-> IF f = noStatic THEN {"page"} ELSE Both]
SomeOfHost == hostSearch :> Both
SomeUnselected == [f \in SomeFilters |-> IF f = hostSearch THEN search ELSE f]
=============================================================================
