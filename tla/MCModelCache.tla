---------------------------- MODULE MCModelCache ----------------------------
(* Two hosts with names, addresses and versions of their own, and two      *)
(* threshold rows, one of which cannot be converted.                       *)
EXTENDS ModelCache

MCNewHosts == {Row("a", "ipA", "verA"), Row("b", "ipB", "verB")}
=============================================================================
