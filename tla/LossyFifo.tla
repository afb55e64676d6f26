------------------------------ MODULE LossyFifo ------------------------------
(****************************************************************************)
(* What the archive queue promises to the code that offers jobs to it: a    *)
(* bounded first-in first-out buffer that never makes its callers wait.     *)
(* An offer is accepted while there is room, dropped when there is none and *)
(* ignored once the buffer is shut.  What was accepted is handled in order, *)
(* also after the buffer was shut, and nothing accepted is ever lost.       *)
(****************************************************************************)
EXTENDS Naturals, Sequences

CONSTANTS
    Jobs,       \* everything that may ever be offered
    Capacity    \* how many accepted jobs may be waiting

VARIABLES
    pending,    \* the accepted jobs that wait, oldest first
    fate,       \* what became of every job
    open        \* whether the buffer still accepts

vars == <<pending, fate, open>>

Fates == {"none", "queued", "storing", "stored", "failed", "dropped", "discarded"}

Init ==
    /\ pending = <<>>
    /\ fate = [j \in Jobs |-> "none"]
    /\ open = TRUE

Accept(j) ==
    /\ open
    /\ fate[j] = "none"
    /\ Len(pending) < Capacity
    /\ pending' = Append(pending, j)
    /\ fate' = [fate EXCEPT ![j] = "queued"]
    /\ UNCHANGED open

Drop(j) ==
    /\ open
    /\ fate[j] = "none"
    /\ Len(pending) = Capacity
    /\ fate' = [fate EXCEPT ![j] = "dropped"]
    /\ UNCHANGED <<pending, open>>

Ignore(j) ==
    /\ ~open
    /\ fate[j] = "none"
    /\ fate' = [fate EXCEPT ![j] = "discarded"]
    /\ UNCHANGED <<pending, open>>

\* The oldest job is handed to the store, one at a time.
Take ==
    /\ pending # <<>>
    /\ \A j \in Jobs : fate[j] # "storing"
    /\ fate' = [fate EXCEPT ![Head(pending)] = "storing"]
    /\ pending' = Tail(pending)
    /\ UNCHANGED open

Finish(j) ==
    /\ fate[j] = "storing"
    /\ \E outcome \in {"stored", "failed"} :
          fate' = [fate EXCEPT ![j] = outcome]
    /\ UNCHANGED <<pending, open>>

Shut ==
    /\ open
    /\ open' = FALSE
    /\ UNCHANGED <<pending, fate>>

Next ==
    \/ \E j \in Jobs : Accept(j) \/ Drop(j) \/ Ignore(j)
    \/ Take
    \/ \E j \in Jobs : Finish(j)
    \/ Shut

Spec == Init /\ [][Next]_vars
==============================================================================
