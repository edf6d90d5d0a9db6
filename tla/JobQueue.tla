------------------------------ MODULE JobQueue ------------------------------
(***************************************************************************)
(* The Redis job queue of py_vcon_server/queue/__init__.py.                *)
(*                                                                         *)
(* Every method of class JobQueue that changes Redis is one Lua script,    *)
(* which Redis runs atomically, so each method is one action.  A call that *)
(* the Python wrapper turns into an exception is the same action with      *)
(* another value of reply: the script returned an error code.              *)
(*                                                                         *)
(* A job's payload, {"job_type", "vcon_uuid": [uuid]}, is abstracted to    *)
(* the serial number of the push that stored it: two pushes of one UUID    *)
(* are two jobs that happen to look alike.  The history variables record   *)
(* what became of each job; the code does not have them.                   *)
(***************************************************************************)
EXTENDS Sequences, Functions

CONSTANTS QueueName,     \* names a client may use for a queue
          ServerKey,     \* server keys a worker may pass to pop_queued_job
          MaxPushes,     \* bound: jobs ever pushed
          MaxRequeues    \* bound: in progress jobs ever requeued

ASSUME BoundsAreNat == MaxPushes \in Nat /\ MaxRequeues \in Nat

VARIABLES queues,        \* set "queues": the names of the existing queues
          queue,         \* lists "queue:<name>"; an absent key reads as <<>>
          jobid,         \* counter "jobid": the last id handed out, 0 if none
          inprogress,    \* hash "inprogress": job id to in progress job
          reply,         \* "ok", or the exception the last call raised
          pushes,        \* history: pushes[j] is the queue job j was pushed to
          popped,        \* history: jobs that were popped at least once
          completed,     \* history: jobs removed from inprogress as completed
          returned,      \* history: jobs handed back by delete_queue
          requeues       \* history: number of requeued in progress jobs

redis   == <<queues, queue, jobid, inprogress>>
history == <<pushes, popped, completed, returned, requeues>>
queueVars == <<redis, reply, history>>

Job == 1 .. Len(pushes)

InProgressJob == [queue : QueueName, server : ServerKey, job : Nat \ {0}]

\* The argument of requeue and remove: any int the REST path accepts, those
\* that were never handed out included.
JobIdArg == -1 .. MaxPushes + MaxRequeues

\* Operators named Faulty... are plausible mistakes in the definition they
\* precede.  No specification uses them: they show that the properties below
\* would notice.

\* Ids count from 0.
FaultyHSetFromZero(hash, key, value) ==
    [k \in DOMAIN hash \cup {key - 1} |-> IF k = key - 1 THEN value ELSE hash[k]]

\* SET: the key holds one entry.
FaultyHSetReplacing(hash, key, value) == [k \in {key} |-> value]

HSet(hash, key, value) ==
    [k \in DOMAIN hash \cup {key} |-> IF k = key THEN value ELSE hash[k]]

\* The entry is read and stays.
FaultyHDel(hash, key) == hash

HDel(hash, key) == Restrict(hash, DOMAIN hash \ {key})

-----------------------------------------------------------------------------

Init ==
    /\ queues = {}
    /\ queue = [n \in QueueName |-> <<>>]
    /\ jobid = 0
    /\ inprogress = [i \in {} |-> {}]
    /\ reply = "ok"
    /\ pushes = <<>>
    /\ popped = {}
    /\ completed = {}
    /\ returned = {}
    /\ requeues = 0

Raise(exception) ==
    /\ reply' = exception
    /\ UNCHANGED <<redis, history>>

CreateQueue(n) ==
    \/ /\ n \in queues
       /\ Raise("Exception")
    \/ /\ n \notin queues
       /\ queues' = queues \cup {n}
       /\ reply' = "ok"
       /\ UNCHANGED <<queue, jobid, inprogress, history>>

\* The list outlives its queue.
FaultyDeleteKeepingList(n) ==
    \/ /\ n \notin queues
       /\ Raise("QueueDoesNotExist")
    \/ /\ n \in queues
       /\ queues' = queues \ {n}
       /\ returned' = returned \cup Range(queue[n])
       /\ reply' = "ok"
       /\ UNCHANGED <<queue, jobid, inprogress,
                      pushes, popped, completed, requeues>>

DeleteQueue(n) ==
    \/ /\ n \notin queues
       /\ Raise("QueueDoesNotExist")
    \/ /\ n \in queues
       /\ queues' = queues \ {n}
       /\ returned' = returned \cup Range(queue[n])
       /\ queue' = [queue EXCEPT ![n] = <<>>]
       /\ reply' = "ok"
       /\ UNCHANGED <<jobid, inprogress, pushes, popped, completed, requeues>>

\* LPUSH for RPUSH.
FaultyPushInFront(n, numUuids) ==
    /\ numUuids = 1
    /\ n \in queues
    /\ queue' = [queue EXCEPT ![n] = <<Len(pushes) + 1>> \o @]
    /\ pushes' = Append(pushes, n)
    /\ reply' = "ok"
    /\ UNCHANGED <<queues, jobid, inprogress,
                   popped, completed, returned, requeues>>

\* numUuids is the length of the vcon_uuids argument: exactly one is accepted.
Push(n, numUuids) ==
    \/ /\ numUuids # 1
       /\ Raise("Exception")
    \/ /\ numUuids = 1
       /\ n \notin queues
       /\ Raise("QueueDoesNotExist")
    \/ /\ numUuids = 1
       /\ n \in queues
       /\ queue' = [queue EXCEPT ![n] = Append(@, Len(pushes) + 1)]
       /\ pushes' = Append(pushes, n)
       /\ reply' = "ok"
       /\ UNCHANGED <<queues, jobid, inprogress,
                      popped, completed, returned, requeues>>

Pop(n, server) ==
    \/ /\ n \notin queues
       /\ Raise("QueueDoesNotExist")
    \/ /\ n \in queues
       /\ queue[n] = <<>>
       /\ Raise("EmptyJobQueue")
    \/ /\ n \in queues
       /\ queue[n] # <<>>
       /\ queue' = [queue EXCEPT ![n] = Tail(@)]
       /\ jobid' = jobid + 1
       /\ inprogress' = HSet(inprogress, jobid + 1,
                             [queue  |-> n,
                              server |-> server,
                              job    |-> Head(queue[n])])
       /\ popped' = popped \cup {Head(queue[n])}
       /\ reply' = "ok"
       /\ UNCHANGED <<queues, pushes, completed, returned, requeues>>

\* The wrappers of requeue and remove reject a negative id; the scripts find
\* out whether the id is in the hash.
NoSuchJob(id) ==
    \/ /\ id < 0
       /\ Raise("Exception")
    \/ /\ id >= 0
       /\ id \notin DOMAIN inprogress
       /\ Raise("JobDoesNotExist")

\* RPUSH for LPUSH.
FaultyRequeueAtEnd(id) ==
    /\ id \in DOMAIN inprogress
    /\ inprogress[id].queue \in queues
    /\ queue' = [queue EXCEPT ![inprogress[id].queue] =
                                  Append(@, inprogress[id].job)]
    /\ inprogress' = HDel(inprogress, id)
    /\ requeues' = requeues + 1
    /\ reply' = "ok"
    /\ UNCHANGED <<queues, jobid, pushes, popped, completed, returned>>

RequeueInProgress(id) ==
    \/ NoSuchJob(id)
    \/ /\ id \in DOMAIN inprogress
       /\ inprogress[id].queue \notin queues
       /\ Raise("QueueDoesNotExist")
    \/ /\ id \in DOMAIN inprogress
       /\ inprogress[id].queue \in queues
       /\ queue' = [queue EXCEPT ![inprogress[id].queue] =
                                     <<inprogress[id].job>> \o @]
       /\ inprogress' = HDel(inprogress, id)
       /\ requeues' = requeues + 1
       /\ reply' = "ok"
       /\ UNCHANGED <<queues, jobid, pushes, popped, completed, returned>>

RemoveInProgress(id) ==
    \/ NoSuchJob(id)
    \/ /\ id \in DOMAIN inprogress
       /\ completed' = completed \cup {inprogress[id].job}
       /\ inprogress' = HDel(inprogress, id)
       /\ reply' = "ok"
       /\ UNCHANGED <<queues, queue, jobid, pushes, popped, returned, requeues>>

\* Clients of the queue: API requests and pipeline workers, in any order.
\* The bounds stop the clients, never the queue.
ClientPush == /\ Len(pushes) < MaxPushes
              /\ \E n \in QueueName, k \in 0 .. 2 : Push(n, k)

ClientRequeue == /\ requeues < MaxRequeues
                 /\ \E id \in JobIdArg : RequeueInProgress(id)

Next ==
    \/ \E n \in QueueName : CreateQueue(n)
    \/ \E n \in QueueName : DeleteQueue(n)
    \/ ClientPush
    \/ \E n \in QueueName, s \in ServerKey : Pop(n, s)
    \/ ClientRequeue
    \/ \E id \in JobIdArg : RemoveInProgress(id)

Spec == Init /\ [][Next]_queueVars

-----------------------------------------------------------------------------

Replies == {"ok", "Exception", "QueueDoesNotExist",
            "EmptyJobQueue", "JobDoesNotExist"}

\* The types of the Redis keys and of the histories.
TypeOK ==
    /\ queues \subseteq QueueName
    /\ queue \in [QueueName -> Seq(Nat \ {0})]
    /\ jobid \in Nat
    /\ DOMAIN inprogress \subseteq 1 .. jobid
    /\ inprogress \in [DOMAIN inprogress -> InProgressJob]
    /\ reply \in Replies
    /\ pushes \in Seq(QueueName)
    /\ popped \subseteq Job
    /\ completed \subseteq Job
    /\ returned \subseteq Job
    /\ requeues \in Nat

Queued(j) == \E n \in QueueName : j \in Range(queue[n])
Running(j) == \E id \in DOMAIN inprogress : inprogress[id].job = j

\* No job is lost: a job that was pushed is in a queue, in progress, removed
\* as completed, or was handed back by the delete of its queue, whatever the
\* order of pops, requeues and queue deletions.
NoJobLost ==
    \A j \in Job : Queued(j) \/ Running(j) \/ j \in completed \/ j \in returned

OnePosition ==
    \A m, n \in QueueName : \A i \in DOMAIN queue[m], k \in DOMAIN queue[n] :
        queue[m][i] = queue[n][k] => m = n /\ i = k

OneJobId ==
    \A a, b \in DOMAIN inprogress :
        inprogress[a].job = inprogress[b].job => a = b

OneState ==
    \A j \in Job :
        /\ Queued(j) => ~Running(j) /\ j \notin completed \cup returned
        /\ Running(j) => j \notin completed \cup returned
        /\ j \in completed => j \notin returned

\* No job is in two places: it is not twice in the queues, not under two job
\* ids, and never both queued and in progress.  A job that left for good does
\* not come back.
NoJobDuplicated == OnePosition /\ OneJobId /\ OneState

\* A list exists only for a queue that exists: jobs left behind under the key
\* of a deleted queue would come back to life with the next queue of that name.
NoOrphanList == \A n \in QueueName : queue[n] # <<>> => n \in queues

\* A job is only ever in the queue it was pushed to, before it is popped and
\* after it was requeued.
HomeQueue ==
    /\ \A n \in QueueName : \A j \in Range(queue[n]) : j \in Job /\ pushes[j] = n
    /\ \A id \in DOMAIN inprogress :
           inprogress[id].job \in Job
           /\ pushes[inprogress[id].job] = inprogress[id].queue

\* First in, first out: the jobs of a queue that were never popped are in the
\* order of their pushes, and a job that was put back is ahead of all of them.
FreshJobsInOrder ==
    \A n \in QueueName : \A i, k \in DOMAIN queue[n] :
        (i < k /\ queue[n][i] \notin popped)
            => (queue[n][k] \notin popped /\ queue[n][i] < queue[n][k])

\* What makes the invariants above inductive: only popped jobs are, or were,
\* in progress, so whatever is put back counts as popped.
OnlyPoppedJobsLeft ==
    /\ \A id \in DOMAIN inprogress : inprogress[id].job \in popped
    /\ completed \subseteq popped

IInv == /\ TypeOK
        /\ NoJobLost
        /\ NoJobDuplicated
        /\ NoOrphanList
        /\ HomeQueue
        /\ FreshJobsInOrder
        /\ OnlyPoppedJobsLeft

\* A job id is used for one pop only, whatever was requeued or removed in the
\* meantime, and the entry it names does not change while it is there.
JobIdsAreUnique ==
    [][\A id \in DOMAIN inprogress' :
           IF id \in DOMAIN inprogress
           THEN inprogress'[id] = inprogress[id]
           ELSE id > jobid /\ id <= jobid']_queueVars

\* A call that raises an exception has changed nothing in Redis: requeueing a
\* job whose queue is gone leaves the job in progress.
FailedCallChangesNothing == [][reply' # "ok" => UNCHANGED redis]_queueVars

-----------------------------------------------------------------------------

(***************************************************************************)
(* The refinement mapping to JobLedger.                                    *)
(***************************************************************************)
StatusOf(j) ==
    IF Queued(j) THEN "queued"
    ELSE IF Running(j) THEN "running"
    ELSE IF j \in completed THEN "completed" ELSE "returned"

LineOf(j) == [queue  |-> pushes[j],
              status |-> StatusOf(j),
              fresh  |-> j \notin popped]

LedgerView == [j \in Job |-> LineOf(j)]

Ledger == INSTANCE JobLedger WITH Queue <- QueueName, ledger <- LedgerView

\* The queue is a job ledger: every step of the scripts starts, puts back,
\* completes or hands back jobs as JobLedger allows, or changes no job.
ImplementsLedger == Ledger!Spec

=============================================================================
