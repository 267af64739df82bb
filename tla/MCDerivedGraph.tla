--------------------------- MODULE MCDerivedGraph ---------------------------
(***************************************************************************)
(* Model values of the runs of DerivedGraph.                               *)
(***************************************************************************)
EXTENDS DerivedGraph

\* Two symbols in one file, one in each of two others; c and d are declared
\* under one name.
Uids   == {"a", "b", "c", "d"}
Names  == {"na", "nb", "nc"}
Files  == [a |-> "p1", b |-> "p1", c |-> "p2", d |-> "p3"]
Naming == [a |-> "na", b |-> "nb", c |-> "nc", d |-> "nc"]

Order  == [a |-> 1, b |-> 2, c |-> 3, d |-> 4]

\* A body calls one name or none, nc with or without knowing whose it is;
\* nobody calls a.
Plain(n) == {[name |-> n, qn |-> Absent]}
Calling  == {{}, Plain("nb"), Plain("nc"), {[name |-> "nc", qn |-> "c"]}}

\* a calls b, b calls c.
Project == [a |-> Plain("nb"), b |-> Plain("nc"), c |-> {}, d |-> Absent]
=============================================================================
