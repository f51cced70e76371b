-------------------------- MODULE AdmissionContract --------------------------
(***************************************************************************)
(* What the admission webhook promises the API server, without its         *)
(* policies, clients and loops (ReviewHandler, createDeniedResponse): a    *)
(* request comes in, the webhook learns facts while it has it, it may      *)
(* refuse, and it answers once.  It admits only what it has not refused    *)
(* and what the facts learned support.  When its process dies, everything  *)
(* that is open is lost at once.                                           *)
(***************************************************************************)
CONSTANTS
    Requests, Objects,
    NoObject, NoAnswer,
    Supports(_, _),    \* facts are grounds to admit an object
    Extends(_, _)      \* the second facts include the first

VARIABLES
    object,     \* the object of each request, NoObject before it comes in
    refused,    \* the request will not be admitted
    answer,     \* the response, NoAnswer until it is sent
    facts       \* what each request has been able to learn

contract == <<object, refused, answer, facts>>

Open(r) == object[r] # NoObject /\ answer[r] = NoAnswer

Init ==
    /\ object = [r \in Requests |-> NoObject]
    /\ refused = [r \in Requests |-> FALSE]
    /\ answer = [r \in Requests |-> NoAnswer]

\* The rule for every answer, with the values it is given with.
Fair(r) ==
    /\ answer'[r] = "allowed" => ~refused'[r] /\ Supports(facts'[r], object'[r])
    /\ answer'[r] = "denied" => refused'[r]

OnlyOf(r) ==
    \A q \in Requests \ {r} :
        object'[q] = object[q] /\ refused'[q] = refused[q] /\ answer'[q] = answer[q]

\* A request comes in; some are answered at once.
Receive(r) ==
    /\ object[r] = NoObject
    /\ object'[r] \in Objects
    /\ answer'[r] # "lost"
    /\ Fair(r) /\ OnlyOf(r)
    /\ \A q \in Requests \ {r} : facts'[q] = facts[q]

\* The webhook refuses, or answers, or both.
Decide(r) ==
    /\ Open(r)
    /\ object'[r] = object[r]
    /\ refused[r] => refused'[r]
    /\ answer'[r] \in {NoAnswer, "allowed", "denied"}
    /\ Fair(r) /\ OnlyOf(r)
    /\ UNCHANGED facts

\* The world moves on, which only open requests notice.
Learn ==
    /\ \A r \in Requests :
          IF Open(r) THEN Extends(facts[r], facts'[r]) ELSE facts'[r] = facts[r]
    /\ UNCHANGED <<object, refused, answer>>

Lose ==
    /\ answer' = [r \in Requests |-> IF Open(r) THEN "lost" ELSE answer[r]]
    /\ UNCHANGED <<object, refused, facts>>

Next == (\E r \in Requests : Receive(r) \/ Decide(r)) \/ Learn \/ Lose

Spec == Init /\ [][Next]_contract

=============================================================================
