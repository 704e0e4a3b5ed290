--------------------------- MODULE MCDependencies ---------------------------
(***************************************************************************)
(* Dependencies for model checking: two packages, and the two kinds of     *)
(* lines that name none.                                                   *)
(***************************************************************************)
EXTENDS Dependencies

MCLines == <<"numpy", "# plotting", "", "pandas">>
MCComments == {"# plotting"}
MCBlank == ""
=============================================================================
