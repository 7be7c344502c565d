---------------------------- MODULE PolkitPromise ----------------------------
(***************************************************************************)
(* What an authentication agent promises polkit: a request that it is      *)
(* asked to authenticate is answered, and once.  It promises this to those *)
(* who ask one request after the other and to a configuration that uses    *)
(* the requests only through the agent; to others it promises nothing.     *)
(***************************************************************************)
EXTENDS Sequences

CONSTANTS
    Requests        (* the requests for authentication                       *)

VARIABLES
    asked,          (* the requests polkit has made                          *)
    answers,        (* the answers to each request, in order                 *)
    patient         (* whether the promise is given                          *)

vars == <<asked, answers, patient>>

Outcomes == {"granted", "cancelled"}

Init == /\ asked = {}
        /\ answers = [r \in Requests |-> <<>>]
        /\ patient \in BOOLEAN

Ask(r) == /\ r \notin asked
          /\ asked' = asked \cup {r}
          /\ \/ UNCHANGED answers
             \/ answers' = [answers EXCEPT ![r] = <<"cancelled">>]   \* refused at once
          /\ UNCHANGED patient

Answer(r) == /\ r \in asked /\ answers[r] = <<>>
             /\ \E outcome \in Outcomes : answers' = [answers EXCEPT ![r] = Append(@, outcome)]
             /\ UNCHANGED <<asked, patient>>

Next == (\E r \in Requests : Ask(r) \/ Answer(r)) \/ ~patient

Answered == \A r \in Requests : (patient /\ r \in asked) ~> (answers[r] # <<>>)

Safe == Init /\ [][Next]_vars

Spec == Safe /\ Answered

=============================================================================
