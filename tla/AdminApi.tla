------------------------------ MODULE AdminApi ------------------------------
(***************************************************************************)
(* The job queue entry points of py_vcon_server/admin_api.py, beside the   *)
(* pipeline workers that use the same queue without the REST API.          *)
(*                                                                         *)
(* A handler awaits exactly one JobQueue call, so it is one action: that   *)
(* call, and the HTTP status the handler's except clauses make of it.      *)
(* The call may also end in an exception of the Redis client: Redis was    *)
(* not reached, or it ran the script and its reply was lost.  The handler  *)
(* cannot tell the two apart, and answers as for any other exception.      *)
(* WORK_QUEUES, the queues this server is configured to work on, is a dict *)
(* of the server process; the handlers change it beside the queue.         *)
(***************************************************************************)
EXTENDS JobQueue

VARIABLES workQueues,    \* the keys of settings.WORK_QUEUES
          response,      \* entry point and status of the last API request
          settled        \* history: job ids for which a requeue or remove
                         \* request changed Redis, whatever was answered

apiVars == <<queueVars, workQueues, response, settled>>

\* 500 is InternalErrorResponse; "unhandled" is an exception that leaves the
\* handler, for which the framework, not the API, answers.
Status == {"none", "200", "204", "404", "500", "unhandled"}

Respond(entry, status) == response' = [entry |-> entry, status |-> status]

NoRequest == [entry |-> "none", status |-> "none"]

ApiInit ==
    /\ Init
    /\ workQueues \in SUBSET QueueName
    /\ response = NoRequest
    /\ settled = {}

\* The Redis client raises an exception: the script was run, or it was not.
ReplyLost(script) == script \/ UNCHANGED queueVars

-----------------------------------------------------------------------------

\* A job_type other than "vcon_uuid" is logged as an error and pushed as well.
AddQueueJob(name, numUuids) ==
    /\ \/ /\ Push(name, numUuids)
          /\ Respond("add_queue_job", IF reply' = "ok" THEN "200" ELSE "500")
       \/ /\ ReplyLost(Push(name, numUuids))
          /\ Respond("add_queue_job", "500")
    /\ UNCHANGED <<workQueues, settled>>

CreateNewJobQueue(name) ==
    /\ \/ /\ CreateQueue(name)
          /\ Respond("create_new_job_queue",
                     CASE reply' = "ok" -> "204"
                       [] reply' = "QueueDoesNotExist" -> "404"
                       [] OTHER -> "500")
       \/ /\ ReplyLost(CreateQueue(name))
          /\ Respond("create_new_job_queue", "500")
    /\ UNCHANGED <<workQueues, settled>>

DeleteJobQueue(name) ==
    /\ \/ /\ DeleteQueue(name)
          /\ Respond("delete_job_queue",
                     CASE reply' = "ok" -> "200"
                       [] reply' = "QueueDoesNotExist" -> "404"
                       [] OTHER -> "500")
       \/ /\ ReplyLost(DeleteQueue(name))
          /\ Respond("delete_job_queue", "500")
    /\ UNCHANGED <<workQueues, settled>>

\* The handler of DELETE /in_progress/{job_id} calls requeue_in_progress_job
\* too.  The first except clause of both names py_vcon_server.queue.JobNotFound,
\* which does not exist: whatever the call raised, evaluating the clause raises
\* AttributeError instead.
RequeueFor(entry, id) ==
    /\ \/ /\ RequeueInProgress(id)
          /\ Respond(entry, IF reply' = "ok" THEN "204" ELSE "unhandled")
       \/ /\ ReplyLost(RequeueInProgress(id))
          /\ Respond(entry, "unhandled")
    /\ settled' = IF UNCHANGED redis THEN settled ELSE settled \cup {id}
    /\ UNCHANGED workQueues

RequeueInProgressJob(id) == RequeueFor("requeue_in_progress_job", id)

RemoveInProgressJob(id) == RequeueFor("remove_in_progress_job", id)

SetServerQueueProperties(name) ==
    /\ workQueues' = workQueues \cup {name}
    /\ Respond("set_server_queue_properties", "204")
    /\ UNCHANGED <<queueVars, settled>>

\* A mistake a property should notice, as in JobQueue: the queue goes with its
\* configuration.
FaultyDeleteServerQueueAndQueue(name) ==
    /\ workQueues' = workQueues \ {name}
    /\ queues' = queues \ {name}
    /\ Respond("delete_server_queue", "204")
    /\ UNCHANGED <<queue, jobid, inprogress, reply, history, settled>>

DeleteServerQueue(name) ==
    /\ \/ /\ name \in workQueues
          /\ workQueues' = workQueues \ {name}
          /\ Respond("delete_server_queue", "204")
       \/ /\ name \notin workQueues
          /\ Respond("delete_server_queue", "404")
          /\ UNCHANGED workQueues
    /\ UNCHANGED <<queueVars, settled>>

\* A pipeline worker, external to the repository, takes jobs of the queues its
\* server is configured for, and removes each when it has completed it.
WorkerTakesJob(s) == /\ \E n \in workQueues : Pop(n, s)
                     /\ response' = NoRequest
                     /\ UNCHANGED <<workQueues, settled>>

WorkerEndsJob(id) == /\ id \in DOMAIN inprogress
                     /\ RemoveInProgress(id)
                     /\ response' = NoRequest
                     /\ UNCHANGED <<workQueues, settled>>

ApiNext ==
    \/ \E n \in QueueName, k \in 0 .. 2 :
           Len(pushes) < MaxPushes /\ AddQueueJob(n, k)
    \/ \E n \in QueueName : \/ CreateNewJobQueue(n)
                            \/ DeleteJobQueue(n)
                            \/ SetServerQueueProperties(n)
                            \/ DeleteServerQueue(n)
    \/ \E id \in JobIdArg :
           requeues < MaxRequeues
           /\ (RequeueInProgressJob(id) \/ RemoveInProgressJob(id))
    \/ \E s \in ServerKey : WorkerTakesJob(s)
    \/ \E id \in JobIdArg : WorkerEndsJob(id)

ApiSpec == ApiInit /\ [][ApiNext]_apiVars

-----------------------------------------------------------------------------

\* The types of the API's own state, on top of those of the queue.
ApiTypeOK ==
    /\ TypeOK
    /\ workQueues \subseteq QueueName
    /\ response.status \in Status
    /\ settled \subseteq JobIdArg

\* The API and the workers are clients of the queue: no handler changes the
\* queue other than through a JobQueue operation, so what holds of JobQueue
\* holds behind the API.
ImplementsQueue == Spec

\* A requeue or remove request about a job id has an effect at most once.  After
\* an error a client cannot know whether it had one, and repeats it: by then the
\* job may be queued, with a worker again, completed or requeued once more, and
\* the repetition must find nothing under the old id, answered or not.
RepeatedRequestIsHarmless ==
    [][\A id \in settled :
           RequeueInProgressJob(id) \/ RemoveInProgressJob(id)
               => UNCHANGED redis]_apiVars

\* A job taken out with its deleted queue is gone from Redis, whether or not the
\* client got the answer it is in: no later request queues or starts it again.
ReturnedJobsAreGone ==
    [][\A j \in returned :
           j \in returned' /\ ~Queued(j)' /\ ~Running(j)']_apiVars

\* "Remove the in progress job indicated by its job id and do NOT add it back
\* to the queue from which it came": the documentation of
\* DELETE /in_progress/{job_id}.
RemoveDoesNotRequeue ==
    [][response'.entry = "remove_in_progress_job" /\ response'.status = "204"
           => \A n \in QueueName : Len(queue'[n]) <= Len(queue[n])]_apiVars
=============================================================================
