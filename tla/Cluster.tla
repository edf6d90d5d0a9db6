------------------------------ MODULE Cluster ------------------------------
(***************************************************************************)
(* A cluster of pipeline servers around one Redis: processes that start,   *)
(* stop and crash (ServerState), their workers, the clients of the job     *)
(* queue (JobQueue), and the operators who clean up after crashed servers. *)
(*                                                                         *)
(* The workers and the operators are not code of the repository.  A worker *)
(* follows the contract of pop_queued_job and remove_in_progress_job: it   *)
(* pops under its server key and removes what it has completed.  An        *)
(* operator follows the pseudo code in the documentation of GET /servers   *)
(* (admin_api.py), one HTTP request at a time.                             *)
(***************************************************************************)
EXTENDS JobQueue, ServerState, FiniteSets

CONSTANTS Operator,      \* people or scripts that clean up after crashes
          NUM_WORKERS    \* jobs a server works on at a time

ASSUME KeyAssumption == ServerKey = Key

VARIABLES work,      \* work[a]: ids of the jobs the workers at a work on
          op,        \* op[o]: where operator o is in the clean up procedure
          givenUp    \* ids whose requeue failed because their queue was gone

clusterVars == <<queueVars, serverVars, work, op, givenUp>>

\* listed: the keys GET /servers returned, of the addresses still to visit;
\* stale: the keys of the visited address to clean up; key, ids: the one at
\* hand and its jobs still to requeue.
OperatorState == [at     : {"idle", "visit", "clean", "requeue"},
                  listed : SUBSET Key,
                  stale  : SUBSET Key,
                  key    : Key \cup {<<>>},
                  ids    : SUBSET Nat]

Idle == [at |-> "idle", listed |-> {}, stale |-> {}, key |-> <<>>, ids |-> {}]

ClusterInit ==
    /\ Init
    /\ ServersInit
    /\ work = [a \in Address |-> {}]
    /\ op = [o \in Operator |-> Idle]
    /\ givenUp = {}

-----------------------------------------------------------------------------
\* Clients of the queue.  Calls that would only raise are left to JobQueue.

ClientStep ==
    /\ \E n \in QueueName :
           \/ n \notin queues /\ CreateQueue(n)
           \/ n \in queues /\ DeleteQueue(n)
           \/ n \in queues /\ Len(pushes) < MaxPushes /\ Push(n, 1)
    /\ UNCHANGED <<serverVars, work, op, givenUp>>

-----------------------------------------------------------------------------
\* Server processes and their workers.

ProcessStep(a) ==
    /\ Lifecycle(a)
    /\ UNCHANGED <<queueVars, work, op, givenUp>>

\* A graceful shutdown waits for the workers; a crash takes them along.
ShutDown(a) ==
    /\ work[a] = {}
    /\ ShuttingDown(a)
    /\ UNCHANGED <<queueVars, work, op, givenUp>>

ProcessCrash(a) ==
    /\ Crash(a)
    /\ work' = [work EXCEPT ![a] = {}]
    /\ UNCHANGED <<queueVars, op, givenUp>>

WorkerPop(a) ==
    /\ phase[a] = "running"
    /\ Cardinality(work[a]) < NUM_WORKERS
    /\ \E n \in queues : queue[n] # <<>> /\ Pop(n, CurrentKey(a))
    /\ work' = [work EXCEPT ![a] = @ \cup {jobid'}]
    /\ UNCHANGED <<serverVars, op, givenUp>>

WorkerDone(a, id) ==
    /\ id \in work[a]
    /\ RemoveInProgress(id)
    /\ work' = [work EXCEPT ![a] = @ \ {id}]
    /\ UNCHANGED <<serverVars, op, givenUp>>

-----------------------------------------------------------------------------
\* The clean up procedure.

\* Operator o is now at a point of the procedure, with what it knows.
Proceed(o, at, listed, stale, key, ids) ==
    op' = [op EXCEPT ![o] = [at |-> at, listed |-> listed, stale |-> stale,
                             key |-> key, ids |-> ids]]

\* GET /servers
ListServers(o) ==
    /\ op[o].at = "idle"
    /\ Proceed(o, "visit", DOMAIN servers, {}, <<>>, {})
    /\ UNCHANGED <<queueVars, serverVars, work, givenUp>>

At(a, keys) == {k \in keys : k[1] = a}

\* Mistakes the properties should notice: the active key is cleaned up with the
\* others; only servers that died while running are cleaned up.
FaultyAskNobody(o, a) ==
    /\ op[o].at = "visit"
    /\ At(a, op[o].listed) # {}
    /\ phase[a] = "running"
    /\ Proceed(o, "clean", op[o].listed \ At(a, op[o].listed),
               At(a, op[o].listed), <<>>, {})
    /\ UNCHANGED <<queueVars, serverVars, work, givenUp>>

FaultyAskAboutRunning(o, a) ==
    /\ op[o].at = "visit"
    /\ At(a, op[o].listed) # {}
    /\ phase[a] = "running"
    /\ Proceed(o, "clean", op[o].listed \ At(a, op[o].listed),
               {k \in At(a, op[o].listed) \ {CurrentKey(a)} :
                    k \in DOMAIN servers /\ servers[k] = "running"}, <<>>, {})
    /\ UNCHANGED <<queueVars, serverVars, work, givenUp>>

\* GET /server/info of the process that answers at an address: every other key
\* listed for the address is stale.
AskActiveKey(o, a) ==
    /\ op[o].at = "visit"
    /\ At(a, op[o].listed) # {}
    /\ phase[a] = "running"
    /\ Proceed(o, "clean", op[o].listed \ At(a, op[o].listed),
               At(a, op[o].listed) \ {CurrentKey(a)}, <<>>, {})
    /\ UNCHANGED <<queueVars, serverVars, work, givenUp>>

\* Nobody answers: the operator leaves the address for the next time.
SkipAddress(o, a) ==
    /\ op[o].at = "visit"
    /\ At(a, op[o].listed) # {}
    /\ phase[a] # "running"
    /\ Proceed(o, "visit", op[o].listed \ At(a, op[o].listed), {}, <<>>, {})
    /\ UNCHANGED <<queueVars, serverVars, work, givenUp>>

\* A mistake the properties should notice: the jobs of another server.
FaultyReadActiveJobs(o, k) ==
    /\ op[o].at = "clean"
    /\ k \in op[o].stale
    /\ Proceed(o, "requeue", op[o].listed, op[o].stale, k,
               {id \in DOMAIN inprogress :
                    inprogress[id].server = CurrentKey(k[1])})
    /\ UNCHANGED <<queueVars, serverVars, work, givenUp>>

\* GET /in_progress, for one of the stale keys.
ReadStaleJobs(o, k) ==
    /\ op[o].at = "clean"
    /\ k \in op[o].stale
    /\ Proceed(o, "requeue", op[o].listed, op[o].stale, k,
               {id \in DOMAIN inprogress : inprogress[id].server = k})
    /\ UNCHANGED <<queueVars, serverVars, work, givenUp>>

\* PUT /in_progress/{job_id}
RequeueStaleJob(o, id) ==
    /\ op[o].at = "requeue"
    /\ id \in op[o].ids
    /\ RequeueInProgress(id)
    /\ Proceed(o, "requeue", op[o].listed, op[o].stale, op[o].key,
               op[o].ids \ {id})
    /\ givenUp' = IF reply' = "QueueDoesNotExist" THEN givenUp \cup {id}
                                                  ELSE givenUp
    /\ UNCHANGED <<serverVars, work>>

\* A mistake the properties should notice: the server goes before its jobs.
FaultyRemoveServerFirst(o) ==
    /\ op[o].at = "requeue"
    /\ DeleteServerState(op[o].key)
    /\ Proceed(o, "clean", op[o].listed, op[o].stale \ {op[o].key}, <<>>, {})
    /\ UNCHANGED <<queueVars, phase, started, work, givenUp>>

\* DELETE /servers/{server_key}
RemoveStaleServer(o) ==
    /\ op[o].at = "requeue"
    /\ op[o].ids = {}
    /\ DeleteServerState(op[o].key)
    /\ Proceed(o, "clean", op[o].listed, op[o].stale \ {op[o].key}, <<>>, {})
    /\ UNCHANGED <<queueVars, phase, started, work, givenUp>>

LeaveAddress(o) ==
    /\ op[o].at = "clean"
    /\ op[o].stale = {}
    /\ Proceed(o, "visit", op[o].listed, {}, <<>>, {})
    /\ UNCHANGED <<queueVars, serverVars, work, givenUp>>

FinishCleanup(o) ==
    /\ op[o].at = "visit"
    /\ op[o].listed = {}
    /\ Proceed(o, "idle", {}, {}, <<>>, {})
    /\ UNCHANGED <<queueVars, serverVars, work, givenUp>>

OperatorStep(o) ==
    \/ ListServers(o)
    \/ \E a \in Address : AskActiveKey(o, a) \/ SkipAddress(o, a)
    \/ \E k \in Key : ReadStaleJobs(o, k)
    \/ \E id \in op[o].ids : RequeueStaleJob(o, id)
    \/ RemoveStaleServer(o)
    \/ LeaveAddress(o)
    \/ FinishCleanup(o)

ClusterNext ==
    \/ ClientStep
    \/ \E a \in Address : \/ ProcessStep(a)
                          \/ ShutDown(a)
                          \/ ProcessCrash(a)
                          \/ WorkerPop(a)
                          \/ \E id \in work[a] : WorkerDone(a, id)
    \/ \E o \in Operator : OperatorStep(o)

\* A supervisor restarts what is down, a process completes its startup and its
\* shutdown, and the operators keep cleaning up.
ClusterSpec ==
    /\ ClusterInit
    /\ [][ClusterNext]_clusterVars
    /\ \A a \in Address : WF_clusterVars(ProcessStep(a))
    /\ \A o \in Operator : WF_clusterVars(OperatorStep(o))

-----------------------------------------------------------------------------

\* The types of the cluster's own state.
ClusterTypeOK ==
    /\ phase \in [Address -> Phase]
    /\ started \in [Address -> 0 .. MaxStarts]
    /\ DOMAIN servers \subseteq Key
    /\ work \in [Address -> SUBSET Nat]
    /\ op \in [Operator -> OperatorState]

\* Clean up never takes a job from a worker that is alive: the job a worker
\* works on stays in progress under its server's key, whatever servers restart
\* between the requests of however many operators.  So no job is worked on twice
\* at a time.
LiveWorkIsHeld ==
    \A a \in Address : \A id \in work[a] :
        id \in DOMAIN inprogress /\ inprogress[id].server = CurrentKey(a)

\* Clean up never removes the entry of a live server, and the entry tells the
\* phase the server is in.
LiveServerIsRegistered ==
    \A a \in Address :
        /\ phase[a] \in State =>
               CurrentKey(a) \in DOMAIN servers
               /\ servers[CurrentKey(a)] = phase[a]
        /\ phase[a] = "disconnected" => CurrentKey(a) \in DOMAIN servers

\* The jobs a dead server left in progress can be found: the server is still
\* listed, unless an operator has tried to requeue the job in vain.
DeadWorkIsListed ==
    \A id \in DOMAIN inprogress :
        ~Alive(inprogress[id].server)
            => inprogress[id].server \in DOMAIN servers \/ id \in givenUp

\* What makes LiveWorkIsHeld inductive.  A key that an operator takes for stale
\* belongs to an earlier process of its address, for good, and the job ids it
\* holds are those of that process, since an id is never used again.
StaleKeysAreDead ==
    /\ \A k \in DOMAIN servers : k[2] <= started[k[1]]
    /\ \A o \in Operator :
           /\ \A k \in op[o].listed : k[2] <= started[k[1]]
           /\ \A k \in op[o].stale : k[2] < started[k[1]]

StaleJobsAreDead ==
    \A o \in Operator : \A id \in op[o].ids :
        /\ op[o].key \in Key
        /\ op[o].key[2] < started[op[o].key[1]]
        /\ id <= jobid
        /\ id \in DOMAIN inprogress => inprogress[id].server = op[o].key

WorkersRunInServers == \A a \in Address : work[a] # {} => phase[a] = "running"

\* What makes LiveServerIsRegistered and DeadWorkIsListed inductive.  The key an
\* operator is about to delete is one it takes for stale, and the jobs still in
\* progress under it are at hand or were given up: a dead server pops no more.
KeyAtHandIsStale ==
    \A o \in Operator : op[o].at = "requeue" =>
        /\ op[o].key \in op[o].stale
        /\ \A id \in DOMAIN inprogress :
               inprogress[id].server = op[o].key => id \in op[o].ids \cup givenUp

\* A job in progress was popped by a process that has been started, and while
\* that process lives it is one of its workers that works on the job.
JobsHaveWorkers ==
    \A id \in DOMAIN inprogress :
        /\ inprogress[id].server[2] <= started[inprogress[id].server[1]]
        /\ Alive(inprogress[id].server)
               => id \in work[inprogress[id].server[1]]

Abandoned(id) ==
    id \in DOMAIN inprogress /\ ~Alive(inprogress[id].server)

\* No job stays with a dead server: it is requeued, or its requeue was refused
\* because its queue was deleted.
AbandonedJobIsRequeued ==
    \A id \in 1 .. MaxPushes + MaxRequeues :
        Abandoned(id) ~> (id \notin DOMAIN inprogress \/ id \in givenUp)

\* The entry of a dead server is removed.
StaleServerIsRemoved ==
    \A k \in Key :
        (k \in DOMAIN servers /\ ~Alive(k)) ~> k \notin DOMAIN servers
=============================================================================
