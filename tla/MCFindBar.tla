------------------------------ MODULE MCFindBar ------------------------------
(***************************************************************************)
(* FindBar with pages of up to three documents, each like one of four, and *)
(* three pages to go to: one that has no document to search, one without   *)
(* matches and one with.                                                   *)
(***************************************************************************)
EXTENDS FindBar

Marked(x, y, z) == [p \in Pos |-> <<x, y, z>>[p + 1]]

MCDocs  == {Marked("none", "none", "none"), Marked("hidden", "strong", "weak"),
            Marked("weak", "none", "hidden"), Marked("strong", "hidden", "strong")}
MCPages == UNION {[1 .. n -> MCDocs] : n \in 1 .. 2}
           \cup {<<x, y, x>> : x, y \in MCDocs}
MCNext  == {<< >>, <<Marked("none", "none", "none")>>,
            <<Marked("strong", "none", "none"), Marked("none", "weak", "none")>>}
=============================================================================
