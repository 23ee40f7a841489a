--------------------------- MODULE MCStatusTracking ---------------------------
(* Instances of StatusTracking: one window with two pages, or two windows. *)
EXTENDS StatusTracking, TLC

CONSTANTS page1, page2  \* the pages

OneWindow  == [x \in {page1, page2} |-> "w"]
TwoWindows == [x \in {page1, page2} |-> IF x = page1 THEN "w" ELSE "x"]
Symmetric  == Permutations({page1, page2})

OldRead      == {{"read"}}
ReadArchived == {{"read"}, {"archived"}}
SentStatuses == {{"read", "sent", "trashed"}}
=============================================================================
