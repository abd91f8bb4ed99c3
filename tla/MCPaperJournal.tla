--------------------------- MODULE MCPaperJournal ---------------------------
(* A manual entry that buys or sells 1, a signal that buys 2 (half units), a *)
(* close: the entries add to, reduce or reverse each other's position.          *)
EXTENDS PaperJournal

CONSTANTS e1, s1

MCProtect == [e \in Entries |-> IF e = e1 THEN {"stop", "take"} ELSE {"stop"}]
MCSizes == [e \in Entries |-> IF e = e1 THEN {1, -1} ELSE {2}]
MCMovable == {e1, <<s1, "stop">>}

\* The rows of a stale projection are never read.
JournalView == <<journal, work, marks, stale, moved, tick, IF stale THEN Nothing ELSE snapshot>>
=============================================================================
