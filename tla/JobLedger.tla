----------------------------- MODULE JobLedger -----------------------------
(***************************************************************************)
(* What the job queue of src/jobs.js promises to whoever queues work,      *)
(* without processes, leases, claims or database statements: a job is      *)
(* pending until it is done, failed or withdrawn, and nothing takes it out *)
(* of those but a retry; it is tried at most Limit times; it is done only  *)
(* if a handler performed it, and failed only if every try is spent.       *)
(***************************************************************************)
EXTENDS Naturals

CONSTANTS Ids, Limit   \* the jobs; how often one may be tried

VARIABLES
  status,     \* what a caller sees of each job
  tries,      \* how often it was started since it was last queued
  performed   \* whether a handler has run it to its end since then

vars == <<status, tries, performed>>

Closed == {"done", "failed", "cancelled"}

TypeOK == /\ status \in [Ids -> {"absent", "pending"} \cup Closed]
          /\ tries \in [Ids -> Nat]
          /\ performed \in [Ids -> BOOLEAN]

Init == /\ status = [i \in Ids |-> "absent"]
        /\ tries = [i \in Ids |-> 0]
        /\ performed = [i \in Ids |-> FALSE]

\* A job becomes pending, new or by a retry of a closed one.
Submit(i) ==
  /\ status[i] \in Closed \cup {"absent"}
  /\ status' = [status EXCEPT ![i] = "pending"]
  /\ tries' = [tries EXCEPT ![i] = 0]
  /\ performed' = [performed EXCEPT ![i] = FALSE]

Try(i) ==
  /\ status[i] = "pending" /\ tries[i] < Limit
  /\ tries' = [tries EXCEPT ![i] = @ + 1]
  /\ UNCHANGED <<status, performed>>

Perform(i) ==
  /\ status[i] = "pending" /\ tries[i] > 0
  /\ performed' = [performed EXCEPT ![i] = TRUE]
  /\ UNCHANGED <<status, tries>>

Close(i, s) == /\ status[i] = "pending"
               /\ status' = [status EXCEPT ![i] = s]
               /\ UNCHANGED <<tries, performed>>

Complete(i) == performed[i] /\ Close(i, "done")
Withdraw(i) == Close(i, "cancelled")

\* Several jobs may be found spent by one pass of the sweeper.
GiveUp(S) ==
  /\ \A i \in S : status[i] = "pending" /\ tries[i] = Limit
  /\ status' = [i \in Ids |-> IF i \in S THEN "failed" ELSE status[i]]
  /\ UNCHANGED <<tries, performed>>

Next == \/ \E i \in Ids : \/ Submit(i) \/ Try(i) \/ Perform(i)
                          \/ Complete(i) \/ Withdraw(i)
        \/ \E S \in SUBSET Ids : GiveUp(S)

Spec == Init /\ [][Next]_vars
=============================================================================
