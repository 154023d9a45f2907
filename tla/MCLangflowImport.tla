----------------------------- MODULE MCLangflowImport -----------------------------
(* Instances of LangflowImport for TLC. *)
EXTENDS LangflowImport, TLC

CONSTANTS h1, f1, a, b

(* A host document that changes, grows and goes, next to an unnamed row     *)
(* with the text of one of its versions.                                    *)
MCCollections ==
    {[d \in Docs |-> IF d = h1 THEN x ELSE y] :
        x \in {<<>>, <<a>>, <<b>>, <<a, b>>}, y \in {<<>>, <<b>>}}

ImportSymmetry == Permutations(Importers)
===================================================================================
