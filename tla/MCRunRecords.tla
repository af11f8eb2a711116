--------------------------- MODULE MCRunRecords ----------------------------
(***************************************************************************)
(* x answers the job in one round and is shown two resumes of one person,  *)
(* b and b2, of which it keeps b; y is shown b2 alone, and its second      *)
(* query finds nothing.  Both shortlist a.  Instead of a run, y may be one *)
(* of the exports; beside the corpus export x is not evaluated.            *)
(***************************************************************************)
EXTENDS RunRecords

CONSTANTS x, y, a, b, b2, job, q1, q3, q4, t1, t2

MCSent == x :> << <<q1>> >> @@ y :> << <<q3, q4>> >>
MCArrivals == x :> << [query |-> q1, resume |-> a], [query |-> q1, resume |-> b],
                      [query |-> q1, resume |-> b2] >>
              @@ y :> << [query |-> q3, resume |-> a], [query |-> q3, resume |-> b2] >>
MCPerson == a :> a @@ b :> b @@ b2 :> b
MCFits == {a}
MCTermsOf == q1 :> {t1} @@ q3 :> {t1} @@ q4 :> {t2}
MCRefused == x :> {t2} @@ y :> {}
MCVerdicts == x :> {[r \in {a, b, b2} |-> TRUE]} @@ y :> {[r \in {a, b, b2} |-> FALSE]}
MCRoles == {x :> "run" @@ y :> "run", x :> "run" @@ y :> "dataset", x :> "plain" @@ y :> "corpus"}

=============================================================================
