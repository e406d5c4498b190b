---------------------------- MODULE MCErrorBoundary ---------------------------
(* Small instances of ErrorBoundary for TLC.  The contexts are those of two  *)
(* objects, of which one may share or contain the other or itself.           *)
EXTENDS ErrorBoundary, TLC

CONSTANTS o1, o2

MCObjects == {o1, o2}

Object(ordinary, secret, allowed) ==
    "ordinary" :> ordinary @@ "secret" :> secret @@ "allowed" :> allowed

MCContexts ==
    {[root |-> o1, heap |-> o1 :> Object(a, o2, b) @@ o2 :> Object(c, "opaque", "credential")] :
        a \in {o1, o2}, b \in {"invalidDate", "toJSON", o2}, c \in {"text", o1}}

\* Known and unknown errors of both classes, one with a status in each place.
MCHandlerErrors ==
    {[app |-> TRUE, type |-> "other", status |-> s, statusCode |-> "absent"] : s \in {"4xx", "5xx"}}
    \cup {[app |-> FALSE, type |-> "listed", status |-> s, statusCode |-> "4xx"] : s \in {"5xx", "absent"}}
    \cup {[app |-> FALSE, type |-> "other", status |-> "4xx", statusCode |-> "4xx"]}
\* Logged contexts and requests share nothing but the pipes, so the contexts
\* are logged when the requests are through.
MCNext ==
    \/ \E r \in Requests : Step(r)
    \/ Hangup /\ UNCHANGED <<request, lines, throws>>
    \/ /\ \A r \in Requests : stage[r] = "done"
       /\ Log /\ UNCHANGED <<request, lines, throws>>

MCSpec == Init /\ [][MCNext]_vars /\ \A r \in Requests : WF_vars(Step(r))
===============================================================================
