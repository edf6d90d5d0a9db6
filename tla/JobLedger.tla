------------------------------ MODULE JobLedger ------------------------------
(***************************************************************************)
(* What the job queue promises its clients, without lists, ids or hashes:  *)
(* one ledger line per pushed job, and the order in which the jobs of a    *)
(* queue are started.  JobQueue implements this specification.             *)
(***************************************************************************)
EXTENDS Sequences, Naturals

CONSTANT Queue

VARIABLE ledger    \* ledger[j]: the line of the j-th job ever pushed

Status == {"queued", "running", "completed", "returned"}

Line == [queue : Queue, status : Status, fresh : BOOLEAN]

Waiting(q) ==
    {j \in DOMAIN ledger : ledger[j].queue = q /\ ledger[j].status = "queued"}

Init == ledger = <<>>

Submit(q) ==
    ledger' = Append(ledger, [queue |-> q, status |-> "queued", fresh |-> TRUE])

\* A job that was never started waits for the jobs that were put back and for
\* the older ones.
IsNext(j) ==
    ledger[j].fresh =>
        \A i \in Waiting(ledger[j].queue) : ledger[i].fresh /\ j <= i

\* A job that was started once is not fresh any more.
MoveTo(j, status) ==
    ledger' = [ledger EXCEPT ![j] = [queue  |-> ledger[j].queue,
                                     status |-> status,
                                     fresh  |-> FALSE]]

Start(j) ==
    /\ ledger[j].status = "queued"
    /\ IsNext(j)
    /\ MoveTo(j, "running")

PutBack(j) ==
    /\ ledger[j].status = "running"
    /\ MoveTo(j, "queued")

Complete(j) ==
    /\ ledger[j].status = "running"
    /\ MoveTo(j, "completed")

\* Deleting a queue hands back every job that waits in it, and no other.
HandBack(q) ==
    ledger' = [j \in DOMAIN ledger |->
                  IF j \in Waiting(q)
                  THEN [queue  |-> ledger[j].queue,
                        status |-> "returned",
                        fresh  |-> ledger[j].fresh]
                  ELSE ledger[j]]

Next ==
    \/ \E q \in Queue : Submit(q) \/ HandBack(q)
    \/ \E j \in DOMAIN ledger : Start(j) \/ PutBack(j) \/ Complete(j)

Spec == Init /\ [][Next]_ledger
=============================================================================
