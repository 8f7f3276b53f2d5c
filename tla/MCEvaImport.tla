---------------------------- MODULE MCEvaImport ----------------------------
(***************************************************************************)
(* Two pieces of analysis and a task that waits for them, in one or two    *)
(* EVA projects.  Every way to skip a row, and every estimate, has a row.  *)
(***************************************************************************)
EXTENDS EvaImport

CONSTANTS a, b, d, x, y, z, n1, n2

Row(n, eva, kind, project, evaStatus, estimate, sprint) ==
    [number |-> n, eva |-> eva, kind |-> kind, title |-> n1, parent |-> NoTitle,
     project |-> project, epic |-> NoTitle, evaStatus |-> evaStatus,
     closedType |-> FALSE, estimate |-> estimate, sprint |-> sprint]

MCRows ==
    {Row(a, x, "analysis", n1, "done", "hours", ""),
     Row(a, x, "analysis", n1, "open", "invalid", ""),
     Row(a, y, "analysis", n1, "open", "hours", ""),
     Row(b, y, "analysis", NoTitle, "completed", "blank", ""),
     Row(d, z, "gated", n1, "open", "blank", ""),
     Row(d, z, "gated", NoTitle, "cancelled", "hours", "one"),
     Row(d, z, "gated", n1, "open", "zero", "many")}

\* Files with all columns, and files without a status.
MCColumns == {OptionalColumns, OptionalColumns \ {"status", "sprints"}}

=============================================================================
