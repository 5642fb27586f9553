------------------------------ MODULE Handlers ------------------------------
(***************************************************************************)
(* The HTTP requests of the modules that extend this one: where each is    *)
(* suspended, and which were over before it began.                         *)
(***************************************************************************)
CONSTANTS
    Requests,   \* the requests there will be
    None,       \* no value
    Gone        \* instead of a row: it has been deleted

VARIABLES
    pc,      \* pc[r]: the await request r is suspended at, or how it ended
    op,      \* op[r]: the service method it is in
    before   \* history: before[r], the requests that had ended when r began

hvars == <<pc, op, before>>

Ended     == {"done", "failed"}
Active(r) == pc[r] \notin {"idle"} \cup Ended

HandlersInit == /\ pc     = [r \in Requests |-> "idle"]
                /\ op     = [r \in Requests |-> "none"]
                /\ before = [r \in Requests |-> {}]

Begin(r, method, to) ==
    /\ pc[r] = "idle"
    /\ pc' = [pc EXCEPT ![r] = to]
    /\ op' = [op EXCEPT ![r] = method]
    /\ before' = [before EXCEPT ![r] = {q \in Requests : pc[q] \in Ended}]

Goto(r, method, from, to) == /\ pc[r] = from /\ op[r] = method
                             /\ pc' = [pc EXCEPT ![r] = to]
                             /\ UNCHANGED <<op, before>>

\* A key that is not as request r left it was changed by one that had not
\* ended before r began.
Stands(r, last) == last \notin before[r] \cup {r, None}

\* Neither of two requests was over when the other began.
Overlap(q, r) == {q, r} \subseteq Requests /\ q \notin before[r] /\ r \notin before[q]

\* Property NamesClashOnlyByRace: request r has overlapped another.
Raced(r) == \E q \in Requests \ {r} : op[q] # "none" /\ Overlap(q, r)
=============================================================================
