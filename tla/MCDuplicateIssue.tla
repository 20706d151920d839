--------------------------- MODULE MCDuplicateIssue ---------------------------
(***************************************************************************)
(* TLC instance of GitHubSync: one agent, one gate, an empty log and a     *)
(* failing call of gh.                                                     *)
(***************************************************************************)
EXTENDS GitHubSync

MCCovers == [g \in {"G3"} |-> <<"qa">>]
MCHistories == {<< >>}
=============================================================================
