----------------------------- MODULE RequestReply -----------------------------
(***************************************************************************)
(* What a caller of the BFF is promised: each request gets one reply of a  *)
(* known kind, or its connection breaks, and nothing follows it.           *)
(***************************************************************************)
CONSTANT Requests

VARIABLE reply   \* per request, "none" until it is answered

Kinds == {"success", "clientError", "serverError", "broken"}

Init == reply = [r \in Requests |-> "none"]

Answer(r) ==
    /\ reply[r] = "none"
    /\ \E kind \in Kinds : reply' = [reply EXCEPT ![r] = kind]

Next == \E r \in Requests : Answer(r)

Spec == Init /\ [][Next]_reply /\ \A r \in Requests : WF_reply(Answer(r))
===============================================================================
