----------------------------- MODULE MCLangflowIngest -----------------------------
(* Instances of LangflowIngest for TLC. *)
EXTENDS LangflowIngest, TLC

CONSTANTS teamA, teamB, notes, stored

(* team-a/notes.md and team-b/notes.md; uploads 1 and 3 keep the name in     *)
(* their path (user/id/notes.md), upload 2 is stored as user/id.md.          *)
MCName == [f \in Files |-> notes]
MCLastPart == [u \in Ids |-> [f \in Files |-> IF u = 2 THEN stored ELSE notes]]

(* The source of a row is its upload path; or it has a title and, elsewhere  *)
(* in its metadata, the path.                                                *)
MCPathOnly == {<<"path", "part">>}
MCPathOrTitle == {<<"path", "part">>, <<"name", "path", "part">>}

CommandSymmetry == Permutations(Commands)
===================================================================================
