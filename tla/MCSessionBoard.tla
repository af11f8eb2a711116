--------------------------- MODULE MCSessionBoard ---------------------------
(* The board alone, with two jobs for the Liepin run: somebody both runs    *)
(* find and somebody only Liepin finds.                                     *)
EXTENDS SessionBoard, TLC

MCSourceOf == "c1" :> "cts" @@ "l1" :> "liepin" @@ "l2" :> "liepin"
MCKeysOf == "c1" :> {"provider c1", "field ann"} @@ "l1" :> {"provider l1", "field ann"}
            @@ "l2" :> {"provider l2"}
MCQuotas == {[jobs |-> {1, 2}, reviews |-> 0, faults |-> 0]}
=============================================================================
