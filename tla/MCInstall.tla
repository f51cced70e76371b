----------------------------- MODULE MCInstall -----------------------------
(* Three commands and one kubectl call that fails: enough for an installation *)
(* on top of what an earlier one has left, and for a predelete hook that runs *)
(* beside the hooks of the next installation.                                 *)
EXTENDS Install

\* The defaults of the chart, and a predelete hook that keeps what it may keep.
ChartFlags == {[deleteCsr |-> TRUE, deleteCRD |-> TRUE],
               [deleteCsr |-> FALSE, deleteCRD |-> FALSE]}

=============================================================================
