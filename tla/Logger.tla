-------------------------------- MODULE Logger --------------------------------
(***************************************************************************)
(* Structured logging of the BFF: what redaction leaves of a context, the  *)
(* level threshold, and the writing of a line to pipes that may be gone.   *)
(***************************************************************************)
EXTENDS Naturals, Sequences, FiniteSets

CONSTANTS
    LogLevel,   \* config.logLevel
    Objects,    \* objects a logged context is made of
    Contexts,   \* the contexts logged, a set of [root, heap]
    MaxLogs     \* bound on contexts logged, for model checking

Levels == [debug |-> 10, info |-> 20, warn |-> 30, error |-> 40]

\* Keys by what isSecretKey tells apart: ordinary ones, ones that contain a
\* secret fragment ("redisPassword"), and allowlisted ones that do, too
\* ("tokenCount").
Keys == {"ordinary", "secret", "allowed"}

\* Values: plain text, text that matches a value pattern (a bearer token), a
\* secret that looks like nothing, an invalid Date, which throws when it is
\* walked, and a toJSON, which throws when the line is serialized.
Scalars == {"text", "credential", "opaque", "invalidDate", "toJSON"}
Values == Scalars \cup Objects
Heap == [Objects -> [Keys -> Values]]

ASSUME LoggerAssumption ==
    /\ LogLevel \in DOMAIN Levels
    /\ Contexts \subseteq [root : Values, heap : Heap]
    /\ IsFiniteSet(Objects) /\ Objects \cap Scalars = {}
    /\ MaxLogs \in Nat

VARIABLES
    stdout, stderr,   \* whether the pipe still takes writes
    printed,          \* the contexts written, as [context, leaves]
    logs

logger == <<stdout, stderr, printed, logs>>

-------------------------------------------------------------------------------
(* Redaction.  The result of a walk is the set of its leaves, each with the *)
(* keys that lead to it.                                                    *)

IsSecretKey(key) == key # "allowed" /\ key \in {"secret", "allowed"}

RedactString(s) == IF s = "credential" THEN "[REDACTED]" ELSE s

Leaf(value) == [path |-> <<>>, value |-> value]
Under(key, leaves) == {[leaf EXCEPT !.path = <<key>> \o @] : leaf \in leaves}

\* Mutant: the value patterns alone decide.
WalkValuesOnly(c) ==
    LET walk[seen \in SUBSET Objects] == [x \in Values |->
            IF x \in Scalars THEN {Leaf(RedactString(x))}
            ELSE IF x \in seen THEN {Leaf("[Circular]")}
            ELSE UNION {Under(key, walk[seen \cup {x}][c.heap[x][key]]) : key \in Keys}]
    IN  walk[{}][c.root]

\* `seen` holds the objects on the current path.
Walk(c) ==
    LET walk[seen \in SUBSET Objects] == [x \in Values |->
            IF x \in Scalars THEN {Leaf(RedactString(x))}
            ELSE IF x \in seen THEN {Leaf("[Circular]")}
            ELSE UNION {Under(key, IF IsSecretKey(key) THEN {Leaf("[REDACTED]")}
                                   ELSE walk[seen \cup {x}][c.heap[x][key]]) : key \in Keys}]
    IN  walk[{}][c.root]

HasValue(leaves, value) == \E leaf \in leaves : leaf.value = value

\* redact fails closed; so does the serialization of the line.
Redact(c) ==
    IF HasValue(Walk(c), "invalidDate") THEN {Leaf("[unserializable]")} ELSE Walk(c)

Serialized(leaves) ==
    IF HasValue(leaves, "toJSON") THEN {Leaf("[unserializable]")} ELSE leaves

-------------------------------------------------------------------------------
(* Writing                                                                 *)

Enabled(level) == Levels[level] >= Levels[LogLevel]

\* Mutant: the line is not retried.
PipeOnce == IF stdout THEN "stdout" ELSE "none"

\* The pipe a line reaches: stdout, stderr when that throws, or none.
Pipe == IF stdout THEN "stdout" ELSE IF stderr THEN "stderr" ELSE "none"

\* A call site anywhere in the process logs a context; an audit entry does not
\* ask for the level.
Log ==
    /\ logs < MaxLogs /\ logs' = logs + 1
    /\ \E c \in Contexts, level \in DOMAIN Levels, audit \in BOOLEAN :
         printed' = IF (audit \/ Enabled(level)) /\ Pipe # "none"
                    THEN printed \cup {[context |-> c, leaves |-> Serialized(Redact(c))]}
                    ELSE printed
    /\ UNCHANGED <<stdout, stderr>>

\* The reader of a pipe goes away.
Hangup ==
    /\ \/ stdout /\ stdout' = FALSE /\ UNCHANGED stderr
       \/ stderr /\ stderr' = FALSE /\ UNCHANGED stdout
    /\ UNCHANGED <<printed, logs>>

LoggerInit == stdout = TRUE /\ stderr = TRUE /\ printed = {} /\ logs = 0

-------------------------------------------------------------------------------
(* Properties                                                              *)

\* The value a path leads to in the context as it was logged.
Followed(c, path) ==
    LET at[n \in 0..Len(path)] ==
            IF n = 0 THEN c.root ELSE c.heap[at[n - 1]][path[n]]
    IN  at

\* logger.ts:1-11: no credential and nothing under a secret key is written,
\* wherever in the context and along whatever shared or cyclic path it lies.
SecretsStay ==
    \A p \in printed : \A leaf \in p.leaves :
        /\ leaf.value # "credential"
        /\ (\E n \in DOMAIN leaf.path : leaf.path[n] = "secret") => leaf.value = "[REDACTED]"

\* logger.ts:130-134 and :48-52: what is written keeps everything else: a value
\* is given up only if it is a secret, lies on a true cycle, or the context
\* holds something that cannot be written at all.
ContextKept ==
    \A p \in printed : \A leaf \in p.leaves :
        LET at == Followed(p.context, leaf.path)
            last == at[Len(leaf.path)]
        IN  \/ leaf.value = last
            \/ leaf.value = "[REDACTED]"
               /\ (last = "credential" \/ \E n \in DOMAIN leaf.path : leaf.path[n] = "secret")
            \/ leaf.value = "[Circular]" /\ \E n \in 0..(Len(leaf.path) - 1) : at[n] = last
            \/ leaf.value = "[unserializable]"
               /\ \/ p.context.root \in {"invalidDate", "toJSON"}
                  \/ \E o \in Objects, key \in Keys :
                       p.context.heap[o][key] \in {"invalidDate", "toJSON"}

\* Redaction takes out all that it should and nothing else.
RedactionExact == SecretsStay /\ ContextKept
===============================================================================
