------------------------- MODULE AdmissionRefinement -------------------------
(***************************************************************************)
(* Admission implements AdmissionContract.  Of a goroutine's frame the     *)
(* contract sees the object, the response under construction and the       *)
(* answer; the facts are the history of the request.                       *)
(***************************************************************************)
EXTENDS AdmissionInvariant

includes(h, k) == \A f \in DOMAIN h : h[f] \subseteq k[f]

Contract == INSTANCE AdmissionContract WITH
    NoObject <- None, NoAnswer <- None,
    Supports <- Grounds, Extends <- includes,
    object <- [r \in Requests |-> loc[r].obj],
    refused <- [r \in Requests |-> ~loc[r].allowed],
    answer <- [r \in Requests |-> loc[r].answer],
    facts <- seen

\* Whatever calls, loops, edits and crashes a request goes through, the webhook
\* keeps its contract with the API server: it answers every request once and for
\* good, admits none that either review has refused, admits only on grounds that
\* were there while it had the request, and loses open requests only all together.
RefinesContract == Contract!Spec

=============================================================================
