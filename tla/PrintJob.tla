------------------------------ MODULE PrintJob ------------------------------
(***************************************************************************)
(* What one execution of a plan promises, whatever the plan looks like: the *)
(* bytes of the job are handed to the printer in pieces, in order and at   *)
(* most once; no piece is handed over after cancellation or after the      *)
(* result; and a result other than "Unknown" is exact about what the       *)
(* printer took.  README.md of mb-printer-executor and the rules of        *)
(* section 2.2 of REFACTORING_PLAN.md state these promises; Executor is     *)
(* shown to keep them.                                                     *)
(***************************************************************************)
EXTENDS Integers, Sequences

VARIABLES
    job,        \* the bytes to print: a set of pairs ordered by Before
    taken,      \* the bytes the printer took, in order
    pending,    \* the bytes of the piece handed over and not yet taken
    confirmed,  \* the number of bytes known to be taken
    cancelled,  \* cancellation was requested
    result      \* "Running", "Completed", "Exact" or "Unknown"

jobVars == <<job, taken, pending, confirmed, cancelled, result>>

\* Lexicographic order: the action first, then the byte in it.
Before(b, c) == b[1] < c[1] \/ (b[1] = c[1] /\ b[2] < c[2])

Remaining == {b \in job : \A k \in 1..Len(taken) : taken[k] # b}

Start ==
    /\ taken = <<>>
    /\ pending = {}
    /\ confirmed = 0
    /\ cancelled = FALSE
    /\ result = "Running"

\* Hand over the next piece: the remaining bytes up to one of them.
Offer ==
    /\ result = "Running"
    /\ ~cancelled
    /\ pending = {}
    /\ confirmed = Len(taken)
    /\ \E last \in Remaining : pending' = {b \in Remaining : b = last \/ Before(b, last)}
    /\ UNCHANGED <<job, taken, confirmed, cancelled, result>>

\* The printer takes the next byte of the piece, perhaps after the result.
Take ==
    /\ \E b \in pending :
           /\ \A c \in pending : c = b \/ Before(b, c)
           /\ taken' = Append(taken, b)
           /\ pending' = pending \ {b}
    /\ UNCHANGED <<job, confirmed, cancelled, result>>

Confirm ==
    /\ result = "Running"
    /\ pending = {}
    /\ confirmed' = Len(taken)
    /\ UNCHANGED <<job, taken, pending, cancelled, result>>

Cancel ==
    /\ cancelled' = TRUE
    /\ UNCHANGED <<job, taken, pending, confirmed, result>>

Exact == pending = {} /\ confirmed = Len(taken)

End ==
    /\ result = "Running"
    /\ \/ result' = "Completed" /\ Exact /\ Remaining = {}
       \/ result' = "Exact" /\ Exact
       \/ result' = "Unknown"
    /\ UNCHANGED <<job, taken, pending, confirmed, cancelled>>

Step == Offer \/ Take \/ Confirm \/ Cancel \/ End

JobSpec == Start /\ [][Step]_jobVars
=============================================================================
