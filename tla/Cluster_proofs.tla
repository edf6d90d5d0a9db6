--------------------------- MODULE Cluster_proofs ---------------------------
(***************************************************************************)
(* Proofs about the cluster for any number of addresses, processes,        *)
(* workers and operators: the clean up of crashed servers takes no job and *)
(* no registration from a server that is alive, and finds what a dead one  *)
(* has left behind.                                                        *)
(***************************************************************************)
EXTENDS Cluster, JobQueue_proofs

Types == /\ phase \in [Address -> Phase]
         /\ started \in [Address -> 0 .. MaxStarts]
         /\ \A a \in Address : phase[a] # "down" => started[a] # 0
         /\ DOMAIN servers \subseteq Key
         /\ work \in [Address -> SUBSET Nat]
         /\ op \in [Operator -> OperatorState]

CInv == /\ IInv
        /\ Types
        /\ StaleKeysAreDead
        /\ StaleJobsAreDead
        /\ WorkersRunInServers
        /\ LiveWorkIsHeld

LEMMA KeyFacts ==
  ASSUME Types, NEW a \in Address, phase[a] # "down"
  PROVE  /\ CurrentKey(a) \in Key
         /\ CurrentKey(a)[1] = a /\ CurrentKey(a)[2] = started[a]
         /\ CurrentKey(a) \in ServerKey
BY StartsAssumption, KeyAssumption DEF Types, CurrentKey, Key

LEMMA ClusterInitCInv == ClusterInit => CInv
<1> SUFFICES ASSUME ClusterInit PROVE CInv
  OBVIOUS
<1>1. IInv
  BY InitIInv DEF ClusterInit
<1>2. Idle \in OperatorState
  BY DEF Idle, OperatorState
<1>3. Types
  BY <1>2, StartsAssumption DEF ClusterInit, ServersInit, Types, Phase
<1>4. StaleKeysAreDead /\ StaleJobsAreDead
  BY DEF ClusterInit, ServersInit, Idle, StaleKeysAreDead, StaleJobsAreDead
<1>5. WorkersRunInServers /\ LiveWorkIsHeld
  BY DEF ClusterInit, WorkersRunInServers, LiveWorkIsHeld
<1>6. QED
  BY <1>1, <1>3, <1>4, <1>5 DEF CInv

(***************************************************************************)
(* Steps of the queue's clients and of the workers.                        *)
(***************************************************************************)

LEMMA ClientStepCInv == ASSUME CInv, ClientStep PROVE CInv'
<1>1. PICK n \in QueueName : CreateQueue(n) \/ DeleteQueue(n) \/ Push(n, 1)
  BY DEF ClientStep
<1>2. IInv'
  BY <1>1, CreateQueueIInv, DeleteQueueIInv, PushIInv DEF CInv
<1>3. UNCHANGED <<serverVars, work, op, inprogress, jobid>>
  BY <1>1 DEF ClientStep, CreateQueue, DeleteQueue, Push, Raise, redis
<1>4. QED
  BY <1>2, <1>3 DEF CInv, Types, StaleKeysAreDead, StaleJobsAreDead,
                    WorkersRunInServers, LiveWorkIsHeld, serverVars, CurrentKey

LEMMA WorkerPopCInv ==
  ASSUME CInv, NEW a \in Address, WorkerPop(a) PROVE CInv'
<1>1. PICK n \in queues : queue[n] # <<>> /\ Pop(n, CurrentKey(a))
  BY DEF WorkerPop
<1>2. n \in QueueName /\ phase[a] = "running" /\ CurrentKey(a) \in ServerKey
  BY KeyFacts DEF WorkerPop, CInv, IInv, TypeOK
<1>3. IInv'
  BY <1>1, <1>2, PopIInv DEF CInv
<1>4. /\ jobid \in Nat
      /\ jobid' = jobid + 1
      /\ jobid + 1 \notin DOMAIN inprogress
      /\ DOMAIN inprogress' = DOMAIN inprogress \cup {jobid + 1}
      /\ inprogress'[jobid + 1].server = CurrentKey(a)
      /\ \A id \in DOMAIN inprogress : inprogress'[id] = inprogress[id]
  BY <1>1 DEF Pop, HSet, Raise, CInv, IInv, TypeOK
<1>5. /\ UNCHANGED <<phase, started, servers, op>>
      /\ work' = [work EXCEPT ![a] = @ \cup {jobid'}]
  BY DEF WorkerPop, serverVars
<1>6. Types'
  BY <1>4, <1>5 DEF CInv, Types
<1>7. StaleKeysAreDead' /\ WorkersRunInServers'
  BY <1>2, <1>5 DEF CInv, Types, StaleKeysAreDead, WorkersRunInServers
<1>8. StaleJobsAreDead'
  <2> SUFFICES ASSUME NEW o \in Operator, NEW id \in op[o].ids
               PROVE  /\ op[o].key \in Key
                      /\ op[o].key[2] < started[op[o].key[1]]
                      /\ id <= jobid'
                      /\ id \in DOMAIN inprogress' =>
                             inprogress'[id].server = op[o].key
    BY <1>5 DEF StaleJobsAreDead
  <2>1. id \in Nat /\ id <= jobid
    BY DEF CInv, Types, OperatorState, StaleJobsAreDead
  <2>2. QED
    BY <1>4, <2>1 DEF CInv, StaleJobsAreDead
<1>9. LiveWorkIsHeld'
  BY <1>4, <1>5 DEF CInv, Types, LiveWorkIsHeld, CurrentKey
<1>10. QED
  BY <1>3, <1>6, <1>7, <1>8, <1>9 DEF CInv

\* Removing an id from the hash keeps the held jobs of the others held.
LEMMA HashWithoutId ==
  ASSUME NEW id \in DOMAIN inprogress, inprogress' = HDel(inprogress, id)
  PROVE  /\ DOMAIN inprogress' = DOMAIN inprogress \ {id}
         /\ \A k \in DOMAIN inprogress' : inprogress'[k] = inprogress[k]
BY DEF HDel, Restrict

LEMMA WorkerDoneCInv ==
  ASSUME CInv, NEW a \in Address, NEW id \in work[a], WorkerDone(a, id)
  PROVE  CInv'
<1>1. /\ id \in Int /\ id >= 0 /\ id \in DOMAIN inprogress
      /\ inprogress[id].server = CurrentKey(a)
  BY DEF CInv, Types, LiveWorkIsHeld
<1>2. IInv'
  BY <1>1, RemoveInProgressIInv DEF WorkerDone, CInv
<1>3. inprogress' = HDel(inprogress, id) /\ UNCHANGED jobid
  BY <1>1 DEF WorkerDone, RemoveInProgress, NoSuchJob
<1>4. /\ UNCHANGED <<phase, started, servers, op>>
      /\ work' = [work EXCEPT ![a] = @ \ {id}]
  BY DEF WorkerDone, serverVars
<1>5. Types' /\ StaleKeysAreDead' /\ WorkersRunInServers'
  BY <1>4 DEF CInv, Types, StaleKeysAreDead, WorkersRunInServers
<1>6. StaleJobsAreDead'
  BY <1>1, <1>3, <1>4, HashWithoutId DEF CInv, StaleJobsAreDead
<1>7. LiveWorkIsHeld'
  <2> SUFFICES ASSUME NEW b \in Address, NEW i \in work'[b]
               PROVE  /\ i \in DOMAIN inprogress'
                      /\ inprogress'[i].server = CurrentKey(b)
    BY <1>4 DEF LiveWorkIsHeld, CurrentKey
  <2>1. i \in work[b] /\ (b = a => i # id)
    BY <1>4 DEF CInv, Types
  <2>2. i \in DOMAIN inprogress /\ inprogress[i].server = CurrentKey(b)
    BY <2>1 DEF CInv, LiveWorkIsHeld
  <2>3. i # id
    BY <1>1, <2>1, <2>2 DEF CurrentKey
  <2>4. QED
    BY <1>1, <1>3, <2>2, <2>3, HashWithoutId
<1>8. QED
  BY <1>2, <1>5, <1>6, <1>7 DEF CInv

(***************************************************************************)
(* Steps of the server processes.                                          *)
(***************************************************************************)

\* Whatever a process does, its keys are never older than a stale one, and it
\* works on nothing while it is not running.
LEMMA ProcessCInv ==
  ASSUME CInv, NEW a \in Address,
         UNCHANGED <<queueVars, op>>,
         phase' \in [Address -> Phase],
         \A b \in Address : b # a => phase'[b] = phase[b] /\ work'[b] = work[b],
         started' \in [Address -> 0 .. MaxStarts],
         phase'[a] # "down" => started'[a] # 0,
         \A b \in Address : started[b] <= started'[b],
         \A b \in Address : work[b] # {} /\ work'[b] # {} => started'[b] = started[b],
         \A k \in DOMAIN servers' : \/ k \in DOMAIN servers
                                    \/ k = <<a, started'[a]>> /\ started'[a] # 0,
         work' \in [Address -> SUBSET Nat],
         work'[a] = work[a] \/ work'[a] = {},
         work'[a] # {} => phase'[a] = "running"
  PROVE  CInv'
<1>1. IInv'
  <2>1. reply' \in Replies /\ UNCHANGED <<redis, history>>
    BY DEF queueVars, CInv, IInv, TypeOK
  <2>2. QED
    BY <2>1, UnchangedIInv DEF CInv
<1>2. UNCHANGED <<inprogress, jobid, op>>
  BY DEF queueVars, redis
<1>3. \A b \in Address : started[b] \in Nat /\ started'[b] \in Nat
  BY DEF CInv, Types
<1>4. \A k \in Key : k[1] \in Address /\ k[2] \in Nat
  BY DEF Key
<1>5. Types'
  <2>1. \A k \in DOMAIN servers' : k \in Key
    BY StartsAssumption DEF CInv, Types, Key
  <2>2. \A b \in Address : phase'[b] # "down" => started'[b] # 0
    BY <1>3 DEF CInv, Types
  <2>3. QED
    BY <1>2, <2>1, <2>2 DEF CInv, Types
<1>6. StaleKeysAreDead'
  <2>1. ASSUME NEW k \in DOMAIN servers' PROVE k[2] <= started'[k[1]]
    <3>1. CASE k = <<a, started'[a]>>
      BY <3>1, <1>3
    <3>2. CASE k \in DOMAIN servers
      <4>1. k \in Key /\ k[2] <= started[k[1]]
        BY <3>2 DEF CInv, Types, StaleKeysAreDead
      <4>2. QED
        BY <4>1, <1>3, <1>4
    <3>3. QED
      BY <3>1, <3>2
  <2>2. ASSUME NEW o \in Operator
        PROVE  /\ op[o].listed \subseteq Key /\ op[o].stale \subseteq Key
               /\ \A k \in op[o].listed : k[2] <= started[k[1]]
               /\ \A k \in op[o].stale : k[2] < started[k[1]]
    BY DEF CInv, Types, OperatorState, StaleKeysAreDead
  <2>3. \A o \in Operator :
            /\ \A k \in op[o].listed : k[2] <= started'[k[1]]
            /\ \A k \in op[o].stale : k[2] < started'[k[1]]
    BY <2>2, <1>3, <1>4
  <2>4. QED
    BY <1>2, <2>1, <2>3 DEF StaleKeysAreDead
<1>7. StaleJobsAreDead'
  BY <1>2, <1>3, <1>4 DEF CInv, StaleJobsAreDead
<1>8. WorkersRunInServers'
  BY DEF CInv, WorkersRunInServers
<1>9. LiveWorkIsHeld'
  BY <1>2 DEF CInv, LiveWorkIsHeld, CurrentKey
<1>10. QED
  BY <1>1, <1>5, <1>6, <1>7, <1>8, <1>9 DEF CInv

\* Each step of a process meets what ProcessCInv asks of it.
LEMMA ProcessStepCInv ==
  ASSUME CInv, NEW a \in Address, ProcessStep(a) \/ ShutDown(a) \/ ProcessCrash(a)
  PROVE  CInv'
<1>1. UNCHANGED <<queueVars, op>>
  BY DEF ProcessStep, ShutDown, ProcessCrash
<1>2. CASE Start(a) /\ UNCHANGED work
  BY <1>1, <1>2, ProcessCInv, StartsAssumption
     DEF Start, Phase, CInv, Types, WorkersRunInServers
<1>3. CASE /\ \/ Starting(a)
              \/ Serving(a)
              \/ ShuttingDown(a) /\ work[a] = {}
           /\ UNCHANGED work
  <2>1. phase[a] # "down" /\ started[a] # 0
    BY <1>3 DEF Starting, Serving, ShuttingDown, CInv, Types
  <2>2. DOMAIN servers' = DOMAIN servers \cup {<<a, started[a]>>}
    BY <1>3 DEF Starting, Serving, ShuttingDown, Register, CurrentKey
  <2>3. UNCHANGED started
    BY <1>3 DEF Starting, Serving, ShuttingDown
  <2>4. /\ phase' \in [Address -> Phase]
        /\ \A b \in Address : b # a => phase'[b] = phase[b]
        /\ work[a] # {} => phase'[a] = "running"
    BY <1>3 DEF Starting, Serving, ShuttingDown, Phase, State, CInv, Types,
                WorkersRunInServers
  <2>5. /\ work' \in [Address -> SUBSET Nat]
        /\ started \in [Address -> 0 .. MaxStarts]
        /\ \A b \in Address : started[b] <= started[b]
    BY <1>3 DEF CInv, Types
  <2>6. QED
    BY <1>1, <1>3, <2>1, <2>2, <2>3, <2>4, <2>5, ProcessCInv
<1>4. CASE \/ Disconnect(a) /\ UNCHANGED work
           \/ Unregister(a) /\ UNCHANGED work
           \/ Crash(a) /\ work' = [work EXCEPT ![a] = {}]
  <2>1. UNCHANGED started /\ DOMAIN servers' \subseteq DOMAIN servers
    BY <1>4 DEF Disconnect, Unregister, Crash, DeleteServerState, Restrict
  <2>2. /\ phase' \in [Address -> Phase]
        /\ \A b \in Address : b # a => phase'[b] = phase[b]
        /\ phase'[a] # "down" => phase[a] # "down"
    BY <1>4 DEF Disconnect, Unregister, Crash, Phase, State, CInv, Types
  <2>3. /\ work' \in [Address -> SUBSET Nat]
        /\ \A b \in Address : b # a => work'[b] = work[b]
        /\ work'[a] = {}
    BY <1>4 DEF Disconnect, Unregister, CInv, Types, WorkersRunInServers
  <2>4. /\ started \in [Address -> 0 .. MaxStarts]
        /\ \A b \in Address : started[b] <= started[b]
        /\ phase[a] # "down" => started[a] # 0
    BY DEF CInv, Types
  <2>5. QED
    BY <1>1, <2>1, <2>2, <2>3, <2>4, ProcessCInv
<1>5. CASE ProcessStep(a)
  <2>1. UNCHANGED work
    BY <1>5 DEF ProcessStep
  <2>2. QED
    BY <1>2, <1>3, <1>4, <1>5, <2>1 DEF ProcessStep, Lifecycle
<1>6. CASE ShutDown(a)
  <2>1. UNCHANGED work /\ ShuttingDown(a) /\ work[a] = {}
    BY <1>6 DEF ShutDown
  <2>2. QED
    BY <1>3, <2>1
<1>7. CASE ProcessCrash(a)
  BY <1>4, <1>7 DEF ProcessCrash
<1>8. QED
  BY <1>5, <1>6, <1>7

(***************************************************************************)
(* Steps of the operators.                                                 *)
(***************************************************************************)

\* A step of an operator that changes nothing but what the operator knows
\* keeps the invariant, if what it knows is of dead keys and dead jobs.
LEMMA OperatorCInv ==
  ASSUME CInv, NEW o \in Operator, NEW state \in OperatorState,
         op' = [op EXCEPT ![o] = state],
         UNCHANGED <<queueVars, phase, started, work>>,
         DOMAIN servers' \subseteq DOMAIN servers,
         \A k \in state.listed : k[2] <= started[k[1]],
         \A k \in state.stale : k[2] < started[k[1]],
         \A id \in state.ids :
             /\ state.key \in Key
             /\ state.key[2] < started[state.key[1]]
             /\ id <= jobid
             /\ id \in DOMAIN inprogress => inprogress[id].server = state.key
  PROVE  CInv'
<1>1. IInv'
  <2>1. reply' \in Replies /\ UNCHANGED <<redis, history>>
    BY DEF queueVars, CInv, IInv, TypeOK
  <2>2. QED
    BY <2>1, UnchangedIInv DEF CInv
<1>2. UNCHANGED <<inprogress, jobid>>
  BY DEF queueVars, redis
<1>3. op'[o] = state /\ \A p \in Operator : p # o => op'[p] = op[p]
  BY DEF CInv, Types
<1>4. Types'
  BY DEF CInv, Types
<1>5. StaleKeysAreDead'
  BY <1>3 DEF CInv, StaleKeysAreDead
<1>6. StaleJobsAreDead'
  BY <1>2, <1>3 DEF CInv, StaleJobsAreDead
<1>7. WorkersRunInServers' /\ LiveWorkIsHeld'
  BY <1>2 DEF CInv, WorkersRunInServers, LiveWorkIsHeld, CurrentKey
<1>8. QED
  BY <1>1, <1>4, <1>5, <1>6, <1>7 DEF CInv

\* A requeued job was the job of a dead server: no live worker held it.
LEMMA RequeueStaleJobCInv ==
  ASSUME CInv, NEW o \in Operator, NEW id \in op[o].ids, RequeueStaleJob(o, id)
  PROVE  CInv'
<1>1. /\ op[o] \in OperatorState /\ id \in Nat
      /\ op[o].key \in Key
      /\ op[o].key[2] < started[op[o].key[1]]
      /\ id \in DOMAIN inprogress => inprogress[id].server = op[o].key
  BY DEF CInv, Types, OperatorState, StaleJobsAreDead
<1>2. RequeueInProgress(id) /\ UNCHANGED <<phase, started, servers, work>>
  BY DEF RequeueStaleJob, serverVars
<1>3. IInv'
  BY <1>1, <1>2, RequeueInProgressIInv DEF CInv
<1>4. /\ UNCHANGED jobid
      /\ \/ UNCHANGED inprogress
         \/ id \in DOMAIN inprogress /\ inprogress' = HDel(inprogress, id)
  BY <1>2 DEF RequeueInProgress, NoSuchJob, Raise, redis
<1>5. /\ DOMAIN inprogress' \subseteq DOMAIN inprogress
      /\ \A k \in DOMAIN inprogress' : inprogress'[k] = inprogress[k]
      /\ \A k \in DOMAIN inprogress : k # id => k \in DOMAIN inprogress'
      /\ id \notin DOMAIN inprogress => UNCHANGED inprogress
  BY <1>4 DEF HDel, Restrict
<1>6. PICK state : state = [at |-> "requeue", listed |-> op[o].listed,
                            stale |-> op[o].stale, key |-> op[o].key,
                            ids |-> op[o].ids \ {id}]
  OBVIOUS
<1>7. /\ state \in OperatorState
      /\ state.listed = op[o].listed /\ state.stale = op[o].stale
      /\ state.key = op[o].key /\ state.ids = op[o].ids \ {id}
  BY <1>1, <1>6 DEF OperatorState
<1>8. /\ op' = [op EXCEPT ![o] = state]
      /\ op'[o] = state
      /\ \A p \in Operator : p # o => op'[p] = op[p]
  BY <1>6 DEF RequeueStaleJob, Proceed, CInv, Types
<1>9. Types'
  BY <1>2, <1>7, <1>8 DEF CInv, Types
<1>10. StaleKeysAreDead'
  BY <1>2, <1>7, <1>8 DEF CInv, StaleKeysAreDead
<1>11. StaleJobsAreDead'
  BY <1>2, <1>4, <1>5, <1>7, <1>8 DEF CInv, StaleJobsAreDead
<1>12. LiveWorkIsHeld'
  <2> SUFFICES ASSUME NEW a \in Address, NEW i \in work[a]
               PROVE  /\ i \in DOMAIN inprogress'
                      /\ inprogress'[i].server = CurrentKey(a)
    BY <1>2 DEF LiveWorkIsHeld, CurrentKey
  <2>1. i \in DOMAIN inprogress /\ inprogress[i].server = CurrentKey(a)
    BY DEF CInv, LiveWorkIsHeld
  <2>2. i # id
    <3> SUFFICES ASSUME i = id PROVE FALSE
      OBVIOUS
    <3>1. op[o].key = <<a, started[a]>>
      BY <1>1, <2>1 DEF CurrentKey
    <3>2. started[a] \in Nat
      BY DEF CInv, Types
    <3>3. QED
      BY <1>1, <3>1, <3>2
  <2>3. QED
    BY <1>5, <2>1, <2>2
<1>13. QED
  BY <1>2, <1>3, <1>9, <1>10, <1>11, <1>12 DEF CInv, WorkersRunInServers

LEMMA OperatorStepCInv ==
  ASSUME CInv, NEW o \in Operator, OperatorStep(o) PROVE CInv'
<1>1. /\ op[o] \in OperatorState
      /\ \A k \in op[o].listed : k \in Key /\ k[2] <= started[k[1]]
      /\ \A k \in op[o].stale : k \in Key /\ k[2] < started[k[1]]
      /\ \A id \in op[o].ids :
             /\ op[o].key \in Key
             /\ op[o].key[2] < started[op[o].key[1]]
             /\ id <= jobid
             /\ id \in DOMAIN inprogress => inprogress[id].server = op[o].key
  BY DEF CInv, Types, OperatorState, StaleKeysAreDead, StaleJobsAreDead
<1>2. /\ \A b \in Address : started[b] \in Nat
      /\ \A k \in Key : k[1] \in Address /\ k[2] \in Nat
  BY DEF CInv, Types, Key
<1> DEFINE Knows(at, listed, stale, key, ids) ==
             [at |-> at, listed |-> listed, stale |-> stale,
              key |-> key, ids |-> ids]
\* A step to a state without job ids at hand.
<1>3. ASSUME NEW at \in {"idle", "visit", "clean"},
             NEW listed \in SUBSET Key, NEW stale \in SUBSET Key,
             Proceed(o, at, listed, stale, <<>>, {}),
             UNCHANGED <<queueVars, phase, started, work>>,
             DOMAIN servers' \subseteq DOMAIN servers,
             \A k \in listed : k[2] <= started[k[1]],
             \A k \in stale : k[2] < started[k[1]]
      PROVE  CInv'
  <2>1. PICK state : state = Knows(at, listed, stale, <<>>, {})
    OBVIOUS
  <2>2. /\ state \in OperatorState
        /\ state.listed = listed /\ state.stale = stale /\ state.ids = {}
    BY <2>1 DEF OperatorState
  <2>3. op' = [op EXCEPT ![o] = state]
    BY <1>3, <2>1 DEF Proceed
  <2>4. QED
    BY <1>3, <2>2, <2>3, OperatorCInv
<1>4. CASE ListServers(o)
  <2>1. \A k \in DOMAIN servers : k \in Key /\ k[2] <= started[k[1]]
    BY DEF CInv, Types, StaleKeysAreDead
  <2>2. QED
    BY <1>3, <1>4, <2>1 DEF ListServers, serverVars
<1>5. ASSUME NEW a \in Address, AskActiveKey(o, a) PROVE CInv'
  <2> DEFINE stale == At(a, op[o].listed) \ {CurrentKey(a)}
  <2>1. \A k \in stale : k \in Key /\ k[2] < started[k[1]]
    <3> SUFFICES ASSUME NEW k \in stale PROVE k \in Key /\ k[2] < started[k[1]]
      OBVIOUS
    <3>1. k \in Key /\ k[1] = a /\ k[2] <= started[a] /\ k # <<a, started[a]>>
      BY <1>1 DEF At, CurrentKey
    <3>2. k = <<k[1], k[2]>>
      BY <3>1 DEF Key
    <3>3. k[2] # started[a]
      BY <3>1, <3>2
    <3>4. QED
      BY <1>2, <3>1, <3>3
  <2>2. \A k \in op[o].listed \ At(a, op[o].listed) :
            k \in Key /\ k[2] <= started[k[1]]
    BY <1>1
  <2> HIDE DEF stale
  <2>3. Proceed(o, "clean", op[o].listed \ At(a, op[o].listed), stale, <<>>, {})
    BY <1>5 DEF AskActiveKey, stale
  <2>4. QED
    BY <1>3, <1>5, <2>1, <2>2, <2>3 DEF AskActiveKey, serverVars
<1>6. ASSUME NEW a \in Address, SkipAddress(o, a) PROVE CInv'
  <2>1. \A k \in op[o].listed \ At(a, op[o].listed) :
            k \in Key /\ k[2] <= started[k[1]]
    BY <1>1
  <2>2. QED
    BY <1>3, <1>6, <2>1 DEF SkipAddress, serverVars
<1>7. ASSUME NEW k \in Key, ReadStaleJobs(o, k) PROVE CInv'
  <2>1. PICK ids : ids = {id \in DOMAIN inprogress : inprogress[id].server = k}
    OBVIOUS
  <2>2. \A id \in ids : /\ id \in Nat /\ id <= jobid
                        /\ inprogress[id].server = k
    BY <2>1 DEF CInv, IInv, TypeOK
  <2>3. PICK state : state = Knows("requeue", op[o].listed, op[o].stale, k, ids)
    OBVIOUS
  <2>4. /\ state \in OperatorState
        /\ state.listed = op[o].listed /\ state.stale = op[o].stale
        /\ state.key = k /\ state.ids = ids
    BY <1>1, <2>2, <2>3 DEF OperatorState
  <2>5. k[2] < started[k[1]]
    BY <1>1, <1>7 DEF ReadStaleJobs
  <2>6. op' = [op EXCEPT ![o] = state]
    BY <1>7, <2>1, <2>3 DEF ReadStaleJobs, Proceed
  <2>7. QED
    BY <1>1, <1>7, <2>2, <2>4, <2>5, <2>6, OperatorCInv DEF ReadStaleJobs, serverVars
<1>8. ASSUME NEW id \in op[o].ids, RequeueStaleJob(o, id) PROVE CInv'
  BY <1>8, RequeueStaleJobCInv
<1>9. CASE RemoveStaleServer(o)
  <2>1. \A k \in op[o].stale \ {op[o].key} : k \in Key /\ k[2] < started[k[1]]
    BY <1>1
  <2>2. DOMAIN servers' \subseteq DOMAIN servers
    BY <1>9 DEF RemoveStaleServer, DeleteServerState, Restrict
  <2>3. QED
    BY <1>1, <1>3, <1>9, <2>1, <2>2 DEF RemoveStaleServer
<1>10. CASE LeaveAddress(o) \/ FinishCleanup(o)
  BY <1>1, <1>3, <1>10 DEF LeaveAddress, FinishCleanup, serverVars
<1>11. QED
  BY <1>4, <1>5, <1>6, <1>7, <1>8, <1>9, <1>10 DEF OperatorStep

LEMMA ClusterNextCInv == CInv /\ [ClusterNext]_clusterVars => CInv'
<1> SUFFICES ASSUME CInv, [ClusterNext]_clusterVars PROVE CInv'
  OBVIOUS
<1>1. CASE ClientStep
  BY <1>1, ClientStepCInv
<1>2. ASSUME NEW a \in Address, ProcessStep(a) \/ ShutDown(a) \/ ProcessCrash(a)
      PROVE  CInv'
  BY <1>2, ProcessStepCInv
<1>3. ASSUME NEW a \in Address, WorkerPop(a) PROVE CInv'
  BY <1>3, WorkerPopCInv
<1>4. ASSUME NEW a \in Address, NEW id \in work[a], WorkerDone(a, id) PROVE CInv'
  BY <1>4, WorkerDoneCInv
<1>5. ASSUME NEW o \in Operator, OperatorStep(o) PROVE CInv'
  BY <1>5, OperatorStepCInv
<1>6. CASE UNCHANGED clusterVars
  <2>1. UNCHANGED <<queueVars, serverVars, work, op>>
    BY <1>6 DEF clusterVars
  <2>2. IInv'
    <3>1. reply' \in Replies /\ UNCHANGED <<redis, history>>
      BY <2>1 DEF queueVars, CInv, IInv, TypeOK
    <3>2. QED
      BY <3>1, UnchangedIInv DEF CInv
  <2>3. UNCHANGED <<inprogress, jobid, phase, started, servers>>
    BY <2>1 DEF queueVars, redis, serverVars
  <2>4. QED
    BY <2>1, <2>2, <2>3
       DEF CInv, Types, StaleKeysAreDead, StaleJobsAreDead,
           WorkersRunInServers, LiveWorkIsHeld, CurrentKey
<1>7. QED
  BY <1>1, <1>2, <1>3, <1>4, <1>5, <1>6 DEF ClusterNext

LEMMA ClusterInvariance == ClusterSpec => []CInv
BY ClusterInitCInv, ClusterNextCInv, PTL DEF ClusterSpec

\* Whatever processes start, stop and crash between the requests of however
\* many operators, a job that a live worker works on stays its own.
THEOREM CleanupSparesLiveWork == ClusterSpec => []LiveWorkIsHeld
<1>1. CInv => LiveWorkIsHeld
  BY DEF CInv
<1>2. QED
  BY <1>1, ClusterInvariance, PTL

\* And no job is lost or duplicated by crashes and clean ups.
THEOREM CleanupKeepsTheJobs == ClusterSpec => [](NoJobLost /\ NoJobDuplicated)
<1>1. CInv => NoJobLost /\ NoJobDuplicated
  BY DEF CInv, IInv
<1>2. QED
  BY <1>1, ClusterInvariance, PTL

\* Servers, workers and operators have the states they may have.
THEOREM ClusterTypeCorrect == ClusterSpec => []ClusterTypeOK
<1>1. CInv => ClusterTypeOK
  BY DEF CInv, Types, ClusterTypeOK
<1>2. QED
  BY <1>1, ClusterInvariance, PTL

(***************************************************************************)
(* What the servers hash tells: live servers are listed, and so are dead   *)
(* ones as long as they hold jobs that can be requeued.                    *)
(***************************************************************************)

DInv == /\ CInv
        /\ LiveServerIsRegistered
        /\ DeadWorkIsListed
        /\ KeyAtHandIsStale
        /\ JobsHaveWorkers

\* The three parts that only a job, a server or an operator's step can disturb,
\* for one job: its server, whether somebody works on it, and whether it can
\* be found.
JobIsAccountedFor(id) ==
    LET key == inprogress[id].server
    IN  /\ key[2] <= started[key[1]]
        /\ IF Alive(key) THEN id \in work[key[1]]
                         ELSE key \in DOMAIN servers \/ id \in givenUp

LEMMA AccountedFor ==
  (\A id \in DOMAIN inprogress : JobIsAccountedFor(id))
      <=> DeadWorkIsListed /\ JobsHaveWorkers
BY DEF JobIsAccountedFor, DeadWorkIsListed, JobsHaveWorkers

LEMMA AccountedForNext ==
  ASSUME \A id \in DOMAIN inprogress' : JobIsAccountedFor(id)'
  PROVE  DeadWorkIsListed' /\ JobsHaveWorkers'
BY DEF JobIsAccountedFor, DeadWorkIsListed, JobsHaveWorkers, Alive

\* The server of a job in progress is a process of an address.
LEMMA JobFacts ==
  ASSUME CInv, NEW id \in DOMAIN inprogress
  PROVE  /\ id \in Nat /\ id <= jobid
         /\ inprogress[id].server \in Key
         /\ inprogress[id].server[1] \in Address
         /\ inprogress[id].server[2] \in 1 .. MaxStarts
         /\ inprogress[id].server =
                <<inprogress[id].server[1], inprogress[id].server[2]>>
<1>1. inprogress[id] \in InProgressJob /\ id \in 1 .. jobid /\ jobid \in Nat
  BY DEF CInv, IInv, TypeOK
<1>2. inprogress[id].server \in Key
  BY <1>1, KeyAssumption DEF InProgressJob
<1>3. QED
  BY <1>1, <1>2 DEF Key

LEMMA ClusterInitDInv == ClusterInit => DInv
<1> SUFFICES ASSUME ClusterInit PROVE DInv
  OBVIOUS
<1>1. CInv
  BY ClusterInitCInv
<1>2. LiveServerIsRegistered
  BY DEF ClusterInit, ServersInit, LiveServerIsRegistered, State
<1>3. DOMAIN inprogress = {}
  BY DEF ClusterInit, Init
<1>4. DeadWorkIsListed /\ JobsHaveWorkers
  BY <1>3 DEF DeadWorkIsListed, JobsHaveWorkers
<1>5. KeyAtHandIsStale
  BY DEF ClusterInit, Idle, KeyAtHandIsStale
<1>6. QED
  BY <1>1, <1>2, <1>4, <1>5 DEF DInv

\* Steps that leave servers, workers, operators and jobs in progress alone.
LEMMA SameClusterDInv ==
  ASSUME DInv, CInv',
         UNCHANGED <<inprogress, phase, started, servers, work, op, givenUp>>
  PROVE  DInv'
BY DEF DInv, LiveServerIsRegistered, DeadWorkIsListed, KeyAtHandIsStale,
       JobsHaveWorkers, Alive, CurrentKey

LEMMA ClientStepDInv == ASSUME DInv, ClientStep PROVE DInv'
<1>1. CInv'
  BY ClientStepCInv DEF DInv
<1>2. UNCHANGED <<serverVars, work, op, givenUp, inprogress>>
  BY DEF ClientStep, CreateQueue, DeleteQueue, Push, Raise, redis
<1>3. QED
  BY <1>1, <1>2, SameClusterDInv DEF serverVars

\* A new job is the job of a live server, so of none an operator cleans up.
LEMMA WorkerPopDInv ==
  ASSUME DInv, NEW a \in Address, WorkerPop(a) PROVE DInv'
<1>1. CInv /\ CInv'
  BY WorkerPopCInv DEF DInv
<1>2. PICK n \in queues : queue[n] # <<>> /\ Pop(n, CurrentKey(a))
  BY DEF WorkerPop
<1>3. /\ jobid' = jobid + 1
      /\ DOMAIN inprogress' = DOMAIN inprogress \cup {jobid + 1}
      /\ inprogress'[jobid + 1].server = CurrentKey(a)
      /\ \A id \in DOMAIN inprogress : inprogress'[id] = inprogress[id]
  BY <1>1, <1>2 DEF Pop, HSet, Raise, CInv, IInv, TypeOK
<1>4. /\ UNCHANGED <<phase, started, servers, op, givenUp>>
      /\ work' = [work EXCEPT ![a] = @ \cup {jobid'}]
      /\ phase[a] = "running"
  BY DEF WorkerPop, serverVars
<1>5. /\ CurrentKey(a)[1] = a /\ CurrentKey(a)[2] = started[a]
      /\ started[a] \in Nat
  BY <1>1 DEF CInv, Types, CurrentKey
<1>6. LiveServerIsRegistered'
  BY <1>4 DEF DInv, LiveServerIsRegistered, CurrentKey
<1>7. ASSUME NEW id \in DOMAIN inprogress' PROVE JobIsAccountedFor(id)'
  <2>1. CASE id = jobid + 1
    <3>1. Alive(CurrentKey(a))'
      BY <1>4, <1>5 DEF Alive, CurrentKey
    <3>2. id \in work'[a]
      BY <1>1, <1>3, <1>4, <2>1 DEF CInv, Types
    <3>3. inprogress'[id].server = CurrentKey(a)
      BY <1>3, <2>1
    <3>4. QED
      BY <1>4, <1>5, <3>1, <3>2, <3>3 DEF JobIsAccountedFor, CurrentKey
  <2>2. CASE id \in DOMAIN inprogress
    <3>1. JobIsAccountedFor(id) /\ inprogress'[id] = inprogress[id]
      BY <1>3, <2>2, AccountedFor DEF DInv
    <3>2. \A b \in Address : work[b] \subseteq work'[b]
      BY <1>1, <1>4 DEF CInv, Types
    <3>3. inprogress[id].server[1] \in Address
      BY <1>1, <2>2, JobFacts
    <3>4. QED
      BY <1>4, <3>1, <3>2, <3>3 DEF JobIsAccountedFor, Alive, CurrentKey
  <2>3. QED
    BY <1>3, <2>1, <2>2
<1>8. KeyAtHandIsStale'
  <2> SUFFICES ASSUME NEW o \in Operator, op[o].at = "requeue"
               PROVE  /\ op[o].key \in op[o].stale
                      /\ \A id \in DOMAIN inprogress' :
                             inprogress'[id].server = op[o].key
                                 => id \in op[o].ids \cup givenUp
    BY <1>4 DEF KeyAtHandIsStale
  <2>1. /\ op[o].key \in op[o].stale
        /\ \A id \in DOMAIN inprogress :
               inprogress[id].server = op[o].key
                   => id \in op[o].ids \cup givenUp
    BY DEF DInv, KeyAtHandIsStale
  <2>2. op[o].key # CurrentKey(a)
    BY <1>1, <1>5, <2>1 DEF CInv, StaleKeysAreDead
  <2>3. QED
    BY <1>3, <2>1, <2>2
<1>9. QED
  BY <1>1, <1>6, <1>7, <1>8, AccountedForNext DEF DInv

LEMMA WorkerDoneDInv ==
  ASSUME DInv, NEW a \in Address, NEW id \in work[a], WorkerDone(a, id)
  PROVE  DInv'
<1>1. CInv /\ CInv'
  BY WorkerDoneCInv DEF DInv
<1>2. id \in Nat /\ id \in DOMAIN inprogress
  BY <1>1 DEF CInv, Types, LiveWorkIsHeld
<1>3. inprogress' = HDel(inprogress, id)
  BY <1>2 DEF WorkerDone, RemoveInProgress, NoSuchJob
<1>4. /\ UNCHANGED <<phase, started, servers, op, givenUp>>
      /\ work' = [work EXCEPT ![a] = @ \ {id}]
  BY DEF WorkerDone, serverVars
<1>5. /\ DOMAIN inprogress' = DOMAIN inprogress \ {id}
      /\ \A k \in DOMAIN inprogress' : inprogress'[k] = inprogress[k]
  BY <1>2, <1>3, HashWithoutId
<1>6. LiveServerIsRegistered'
  BY <1>4 DEF DInv, LiveServerIsRegistered, CurrentKey
<1>7. KeyAtHandIsStale'
  BY <1>4, <1>5 DEF DInv, KeyAtHandIsStale
<1>8. ASSUME NEW k \in DOMAIN inprogress' PROVE JobIsAccountedFor(k)'
  <2>1. /\ k \in DOMAIN inprogress /\ k # id
        /\ JobIsAccountedFor(k) /\ inprogress'[k] = inprogress[k]
    BY <1>5, AccountedFor DEF DInv
  <2>2. inprogress[k].server[1] \in Address
    BY <1>1, <2>1, JobFacts
  <2>3. \A b \in Address : k \in work[b] => k \in work'[b]
    BY <1>1, <1>4, <2>1 DEF CInv, Types
  <2>4. QED
    BY <1>4, <2>1, <2>2, <2>3 DEF JobIsAccountedFor, Alive, CurrentKey
<1>9. QED
  BY <1>1, <1>6, <1>7, <1>8, AccountedForNext DEF DInv

\* A step of the process at an address disturbs its own entry and the jobs of
\* its address only.
LEMMA ProcessDInv ==
  ASSUME DInv, CInv', NEW a \in Address,
         UNCHANGED <<inprogress, op, givenUp>>,
         \A b \in Address : b # a => /\ phase'[b] = phase[b]
                                     /\ started'[b] = started[b]
                                     /\ work'[b] = work[b],
         \A k \in DOMAIN servers : k[1] # a =>
             k \in DOMAIN servers' /\ servers'[k] = servers[k],
         phase'[a] \in State =>
             /\ CurrentKey(a)' \in DOMAIN servers'
             /\ servers'[CurrentKey(a)'] = phase'[a],
         phase'[a] = "disconnected" => CurrentKey(a)' \in DOMAIN servers',
         \A id \in DOMAIN inprogress :
             inprogress[id].server[1] = a => JobIsAccountedFor(id)'
  PROVE  DInv'
<1>1. LiveServerIsRegistered'
  <2> SUFFICES ASSUME NEW b \in Address
               PROVE  /\ phase'[b] \in State =>
                             /\ CurrentKey(b)' \in DOMAIN servers'
                             /\ servers'[CurrentKey(b)'] = phase'[b]
                      /\ phase'[b] = "disconnected" =>
                             CurrentKey(b)' \in DOMAIN servers'
    BY DEF LiveServerIsRegistered, State
  <2>1. CASE b = a
    BY <2>1
  <2>2. CASE b # a
    <3>1. CurrentKey(b)' = CurrentKey(b) /\ CurrentKey(b)[1] = b
      BY <2>2 DEF CurrentKey
    <3>2. QED
      BY <2>2, <3>1 DEF DInv, LiveServerIsRegistered
  <2>3. QED
    BY <2>1, <2>2
<1>2. ASSUME NEW id \in DOMAIN inprogress' PROVE JobIsAccountedFor(id)'
  <2>1. CASE inprogress[id].server[1] = a
    BY <2>1
  <2>2. CASE inprogress[id].server[1] # a
    <3>1. inprogress[id].server[1] \in Address
      BY JobFacts DEF DInv
    <3>2. JobIsAccountedFor(id)
      BY AccountedFor DEF DInv
    <3>3. QED
      BY <2>2, <3>1, <3>2 DEF JobIsAccountedFor, Alive, CurrentKey
  <2>3. QED
    BY <2>1, <2>2
<1>3. KeyAtHandIsStale'
  BY DEF DInv, KeyAtHandIsStale
<1>4. QED
  BY <1>1, <1>2, <1>3, AccountedForNext DEF DInv

LEMMA ProcessStepDInv ==
  ASSUME DInv, NEW a \in Address, ProcessStep(a) \/ ShutDown(a) \/ ProcessCrash(a)
  PROVE  DInv'
<1>1. CInv /\ CInv'
  BY ProcessStepCInv DEF DInv
<1>2. UNCHANGED <<inprogress, op, givenUp>>
  BY DEF ProcessStep, ShutDown, ProcessCrash, queueVars, redis
<1>3. /\ phase \in [Address -> Phase]
      /\ started \in [Address -> 0 .. MaxStarts]
      /\ work \in [Address -> SUBSET Nat]
  BY <1>1 DEF CInv, Types
<1>4. CurrentKey(a) = <<a, started[a]>> /\ started[a] \in Nat
  BY <1>3 DEF CurrentKey
<1>5. work[a] # {} => phase[a] = "running"
  BY <1>1 DEF CInv, WorkersRunInServers
<1>6. /\ phase[a] \in State => /\ CurrentKey(a) \in DOMAIN servers
                               /\ servers[CurrentKey(a)] = phase[a]
      /\ phase[a] = "disconnected" => CurrentKey(a) \in DOMAIN servers
  BY DEF DInv, LiveServerIsRegistered
\* What is known of a job of this address before the step.
<1> DEFINE Mine == {id \in DOMAIN inprogress : inprogress[id].server[1] = a}
           Num(id) == inprogress[id].server[2]
<1>7. ASSUME NEW id \in Mine
      PROVE  /\ inprogress[id].server = <<a, Num(id)>>
             /\ Num(id) \in Nat /\ Num(id) <= started[a]
             /\ IF phase[a] # "down" /\ Num(id) = started[a]
                THEN id \in work[a]
                ELSE <<a, Num(id)>> \in DOMAIN servers \/ id \in givenUp
  <2>1. /\ inprogress[id].server = <<a, Num(id)>>
        /\ Num(id) \in Nat
    BY <1>1, JobFacts
  <2>2. JobIsAccountedFor(id)
    BY AccountedFor DEF DInv
  <2>3. QED
    BY <1>4, <2>1, <2>2 DEF JobIsAccountedFor, Alive
<1>8. ASSUME NEW id \in Mine, UNCHANGED inprogress,
             Num(id) <= started'[a],
             IF phase'[a] # "down" /\ Num(id) = started'[a]
             THEN id \in work'[a]
             ELSE <<a, Num(id)>> \in DOMAIN servers' \/ id \in givenUp'
      PROVE  JobIsAccountedFor(id)'
  BY <1>7, <1>8 DEF JobIsAccountedFor, Alive, CurrentKey
<1> HIDE DEF Num
<1>9. CASE Start(a) /\ UNCHANGED work
  <2>1. /\ started'[a] = started[a] + 1
        /\ phase[a] = "down" /\ phase'[a] = "created"
        /\ UNCHANGED servers
        /\ \A b \in Address : b # a => /\ phase'[b] = phase[b]
                                       /\ started'[b] = started[b]
    BY <1>3, <1>9 DEF Start
  <2>2. ASSUME NEW id \in Mine PROVE JobIsAccountedFor(id)'
    <3>1. /\ Num(id) \in Nat /\ Num(id) <= started[a]
          /\ <<a, Num(id)>> \in DOMAIN servers \/ id \in givenUp
      BY <1>7, <2>1
    <3>2. Num(id) <= started'[a] /\ Num(id) # started'[a]
      BY <1>4, <2>1, <3>1
    <3>3. QED
      BY <1>2, <1>8, <2>1, <3>1, <3>2
  <2>3. QED
    BY <1>1, <1>2, <1>9, <2>1, <2>2, ProcessDInv DEF State
<1>10. CASE /\ Starting(a) \/ Serving(a) \/ ShuttingDown(a)
            /\ UNCHANGED work
  <2>1. /\ phase[a] # "down" /\ phase'[a] \in State
        /\ \A b \in Address : b # a => phase'[b] = phase[b]
        /\ UNCHANGED started
        /\ Register(a, phase'[a])
    BY <1>3, <1>10 DEF Starting, Serving, ShuttingDown, State
  <2>2. /\ DOMAIN servers' = DOMAIN servers \cup {CurrentKey(a)}
        /\ servers'[CurrentKey(a)] = phase'[a]
        /\ \A k \in DOMAIN servers : k[1] # a => servers'[k] = servers[k]
    BY <1>4, <2>1 DEF Register
  <2>3. \A id \in Mine : JobIsAccountedFor(id)'
    BY <1>2, <1>7, <1>8, <1>10, <2>1, <2>2 DEF State
  <2>4. CurrentKey(a)' = CurrentKey(a)
    BY <2>1 DEF CurrentKey
  <2>5. QED
    BY <1>1, <1>2, <1>10, <2>1, <2>2, <2>3, <2>4, ProcessDInv DEF State
<1>11. CASE Disconnect(a) /\ UNCHANGED work
  <2>1. /\ phase[a] = "shutting_down" /\ phase'[a] = "disconnected"
        /\ \A b \in Address : b # a => phase'[b] = phase[b]
        /\ UNCHANGED <<started, servers>>
    BY <1>3, <1>11 DEF Disconnect
  <2>2. \A id \in Mine : JobIsAccountedFor(id)'
    BY <1>2, <1>7, <1>8, <1>11, <2>1
  <2>3. CurrentKey(a)' = CurrentKey(a)
    BY <2>1 DEF CurrentKey
  <2>4. QED
    BY <1>1, <1>2, <1>6, <1>11, <2>1, <2>2, <2>3, ProcessDInv DEF State
\* It leaves no job behind: its workers had finished.
<1>12. CASE Unregister(a) /\ UNCHANGED work
  <2>1. /\ phase[a] = "disconnected" /\ phase'[a] = "down"
        /\ \A b \in Address : b # a => phase'[b] = phase[b]
        /\ UNCHANGED started
        /\ DOMAIN servers' = DOMAIN servers \ {CurrentKey(a)}
        /\ \A k \in DOMAIN servers' : servers'[k] = servers[k]
    BY <1>3, <1>12 DEF Unregister, DeleteServerState, Restrict
  <2>2. ASSUME NEW id \in Mine PROVE JobIsAccountedFor(id)'
    <3>1. Num(id) # started[a]
      BY <1>5, <1>7, <2>1
    <3>2. /\ Num(id) \in Nat /\ Num(id) <= started[a]
          /\ <<a, Num(id)>> \in DOMAIN servers \/ id \in givenUp
      BY <1>7, <3>1
    <3>3. <<a, Num(id)>> # CurrentKey(a)
      BY <1>4, <3>1
    <3>4. QED
      BY <1>2, <1>8, <2>1, <3>2, <3>3
  <2>3. \A k \in DOMAIN servers : k[1] # a => k \in DOMAIN servers'
    BY <1>4, <2>1
  <2>4. QED
    BY <1>1, <1>2, <1>12, <2>1, <2>2, <2>3, ProcessDInv DEF State
\* Its jobs stay behind, and so does its entry: it was running.
<1>13. CASE Crash(a) /\ work' = [work EXCEPT ![a] = {}]
  <2>1. /\ phase'[a] = "down"
        /\ \A b \in Address : b # a => phase'[b] = phase[b]
        /\ \A b \in Address : b # a => work'[b] = work[b]
        /\ UNCHANGED <<started, servers>>
    BY <1>3, <1>13 DEF Crash
  <2>2. work[a] # {} => CurrentKey(a) \in DOMAIN servers
    BY <1>5, <1>6 DEF State
  <2>3. \A id \in Mine : JobIsAccountedFor(id)'
    BY <1>2, <1>4, <1>7, <1>8, <2>1, <2>2
  <2>4. QED
    BY <1>1, <1>2, <2>1, <2>3, ProcessDInv DEF State
<1>14. QED
  <2>1. ProcessStep(a) => Lifecycle(a) /\ UNCHANGED work
    BY DEF ProcessStep
  <2>2. ShutDown(a) => ShuttingDown(a) /\ UNCHANGED work
    BY DEF ShutDown
  <2>3. ProcessCrash(a) => Crash(a) /\ work' = [work EXCEPT ![a] = {}]
    BY DEF ProcessCrash
  <2>4. QED
    BY <1>9, <1>10, <1>11, <1>12, <1>13, <2>1, <2>2, <2>3 DEF Lifecycle

\* A step that only changes what an operator knows.
LEMMA OperatorDInv ==
  ASSUME DInv, CInv', NEW o \in Operator,
         NEW at, NEW listed, NEW stale, NEW key, NEW ids,
         Proceed(o, at, listed, stale, key, ids),
         UNCHANGED <<inprogress, phase, started, servers, work, givenUp>>,
         at = "requeue" =>
             /\ key \in stale
             /\ \A id \in DOMAIN inprogress :
                    inprogress[id].server = key => id \in ids \cup givenUp
  PROVE  DInv'
<1>1. /\ op'[o].at = at /\ op'[o].stale = stale
      /\ op'[o].key = key /\ op'[o].ids = ids
      /\ \A p \in Operator : p # o => op'[p] = op[p]
  BY DEF DInv, CInv, Types, Proceed
<1>2. KeyAtHandIsStale'
  BY <1>1 DEF DInv, KeyAtHandIsStale
<1>3. LiveServerIsRegistered' /\ DeadWorkIsListed' /\ JobsHaveWorkers'
  BY DEF DInv, LiveServerIsRegistered, DeadWorkIsListed, JobsHaveWorkers,
         Alive, CurrentKey
<1>4. QED
  BY <1>2, <1>3 DEF DInv

\* A job at hand is requeued, or given up, or it has gone already.
LEMMA RequeueStaleJobDInv ==
  ASSUME DInv, NEW o \in Operator, NEW id \in op[o].ids, RequeueStaleJob(o, id)
  PROVE  DInv'
<1>1. CInv /\ CInv'
  BY RequeueStaleJobCInv DEF DInv
<1>2. op[o] \in OperatorState /\ id \in Nat
  BY <1>1 DEF CInv, Types, OperatorState
<1>3. /\ RequeueInProgress(id)
      /\ UNCHANGED <<phase, started, servers, work>>
      /\ givenUp \subseteq givenUp'
      /\ reply' = "QueueDoesNotExist" => id \in givenUp'
  BY DEF RequeueStaleJob, serverVars
<1>4. \/ UNCHANGED inprogress /\ reply' = "QueueDoesNotExist"
      \/ UNCHANGED inprogress /\ id \notin DOMAIN inprogress
      \/ id \in DOMAIN inprogress /\ inprogress' = HDel(inprogress, id)
  BY <1>2, <1>3 DEF RequeueInProgress, NoSuchJob, Raise, redis
<1>5. /\ DOMAIN inprogress' \subseteq DOMAIN inprogress
      /\ \A k \in DOMAIN inprogress' : inprogress'[k] = inprogress[k]
      /\ id \in DOMAIN inprogress' => id \in givenUp'
  BY <1>3, <1>4 DEF HDel, Restrict
<1>6. /\ op'[o].at = "requeue" /\ op'[o].stale = op[o].stale
      /\ op'[o].key = op[o].key /\ op'[o].ids = op[o].ids \ {id}
      /\ \A p \in Operator : p # o => op'[p] = op[p]
      /\ op[o].at = "requeue"
  BY <1>1 DEF RequeueStaleJob, Proceed, CInv, Types
<1>7. KeyAtHandIsStale'
  BY <1>3, <1>5, <1>6 DEF DInv, KeyAtHandIsStale
<1>8. LiveServerIsRegistered' /\ DeadWorkIsListed' /\ JobsHaveWorkers'
  BY <1>3, <1>5
     DEF DInv, LiveServerIsRegistered, DeadWorkIsListed, JobsHaveWorkers,
         Alive, CurrentKey
<1>9. QED
  BY <1>1, <1>7, <1>8 DEF DInv

\* The entry that is removed is no live server's, and no job of it is left that
\* was not given up.
LEMMA RemoveStaleServerDInv ==
  ASSUME DInv, CInv', NEW o \in Operator, RemoveStaleServer(o) PROVE DInv'
<1>1. CInv
  BY DEF DInv
<1>2. /\ op[o].at = "requeue" /\ op[o].ids = {}
      /\ UNCHANGED <<inprogress, phase, started, work, givenUp>>
      /\ DOMAIN servers' = DOMAIN servers \ {op[o].key}
      /\ \A k \in DOMAIN servers' : servers'[k] = servers[k]
  BY DEF RemoveStaleServer, DeleteServerState, Restrict, queueVars, redis
<1>3. /\ op[o].key \in op[o].stale
      /\ \A id \in DOMAIN inprogress :
             inprogress[id].server = op[o].key => id \in givenUp
  BY <1>2 DEF DInv, KeyAtHandIsStale
<1>4. \A a \in Address : op[o].key # CurrentKey(a)
  <2> SUFFICES ASSUME NEW a \in Address PROVE op[o].key # <<a, started[a]>>
    BY DEF CurrentKey
  <2>1. op[o].key[2] < started[op[o].key[1]] /\ started[a] \in Nat
    BY <1>1, <1>3 DEF CInv, Types, StaleKeysAreDead
  <2>2. QED
    BY <2>1
<1>5. LiveServerIsRegistered'
  BY <1>2, <1>4 DEF DInv, LiveServerIsRegistered, CurrentKey
<1>6. DeadWorkIsListed' /\ JobsHaveWorkers'
  BY <1>2, <1>3 DEF DInv, DeadWorkIsListed, JobsHaveWorkers, Alive, CurrentKey
<1>7. KeyAtHandIsStale'
  <2>1. op'[o].at = "clean" /\ \A p \in Operator : p # o => op'[p] = op[p]
    BY <1>1 DEF RemoveStaleServer, Proceed, CInv, Types
  <2>2. QED
    BY <1>2, <2>1 DEF DInv, KeyAtHandIsStale
<1>8. QED
  BY <1>5, <1>6, <1>7 DEF DInv

LEMMA OperatorStepDInv ==
  ASSUME DInv, NEW o \in Operator, OperatorStep(o) PROVE DInv'
<1>1. CInv'
  BY OperatorStepCInv DEF DInv
<1>2. CASE \/ ListServers(o)
           \/ \E a \in Address : AskActiveKey(o, a) \/ SkipAddress(o, a)
           \/ LeaveAddress(o)
           \/ FinishCleanup(o)
  <2>1. PICK at, listed, stale :
               Proceed(o, at, listed, stale, <<>>, {}) /\ at # "requeue"
    <3>1. \/ Proceed(o, "visit", DOMAIN servers, {}, <<>>, {})
          \/ \E a \in Address :
                 \/ Proceed(o, "clean", op[o].listed \ At(a, op[o].listed),
                            At(a, op[o].listed) \ {CurrentKey(a)}, <<>>, {})
                 \/ Proceed(o, "visit", op[o].listed \ At(a, op[o].listed),
                            {}, <<>>, {})
          \/ Proceed(o, "visit", op[o].listed, {}, <<>>, {})
          \/ Proceed(o, "idle", {}, {}, <<>>, {})
      BY <1>2 DEF ListServers, AskActiveKey, SkipAddress, LeaveAddress,
                  FinishCleanup
    <3>2. "visit" # "requeue" /\ "clean" # "requeue" /\ "idle" # "requeue"
      OBVIOUS
    <3>3. QED
      BY <3>1, <3>2, Zenon
  <2>2. UNCHANGED <<inprogress, phase, started, servers, work, givenUp>>
    BY <1>2 DEF ListServers, AskActiveKey, SkipAddress, LeaveAddress,
                FinishCleanup, queueVars, redis, serverVars
  <2>3. QED
    BY <1>1, <2>1, <2>2, OperatorDInv
<1>3. ASSUME NEW k \in Key, ReadStaleJobs(o, k) PROVE DInv'
  <2>1. PICK ids : ids = {id \in DOMAIN inprogress : inprogress[id].server = k}
    OBVIOUS
  <2>2. /\ Proceed(o, "requeue", op[o].listed, op[o].stale, k, ids)
        /\ k \in op[o].stale
        /\ UNCHANGED <<inprogress, phase, started, servers, work, givenUp>>
    BY <1>3, <2>1 DEF ReadStaleJobs, queueVars, redis, serverVars
  <2>3. \A id \in DOMAIN inprogress :
            inprogress[id].server = k => id \in ids \cup givenUp
    BY <2>1
  <2>4. QED
    BY <1>1, <2>2, <2>3, OperatorDInv
<1>4. ASSUME NEW id \in op[o].ids, RequeueStaleJob(o, id) PROVE DInv'
  BY <1>4, RequeueStaleJobDInv
<1>5. CASE RemoveStaleServer(o)
  BY <1>1, <1>5, RemoveStaleServerDInv
<1>6. QED
  BY <1>2, <1>3, <1>4, <1>5 DEF OperatorStep

LEMMA ClusterNextDInv == DInv /\ [ClusterNext]_clusterVars => DInv'
<1> SUFFICES ASSUME DInv, [ClusterNext]_clusterVars PROVE DInv'
  OBVIOUS
<1>1. CASE UNCHANGED clusterVars
  <2>1. CInv'
    BY <1>1, ClusterNextCInv DEF DInv
  <2>2. UNCHANGED <<inprogress, phase, started, servers, work, op, givenUp>>
    BY <1>1 DEF clusterVars, queueVars, redis, serverVars
  <2>3. QED
    BY <2>1, <2>2, SameClusterDInv
<1>2. QED
  BY <1>1, ClientStepDInv, ProcessStepDInv, WorkerPopDInv, WorkerDoneDInv,
     OperatorStepDInv DEF ClusterNext

\* Whatever crashes and however many operators clean up at a time, a live server
\* stays listed, in the phase it is in.
THEOREM CleanupSparesLiveServers == ClusterSpec => []LiveServerIsRegistered
<1>1. DInv => LiveServerIsRegistered
  BY DEF DInv
<1>2. QED
  BY <1>1, ClusterInitDInv, ClusterNextDInv, PTL DEF ClusterSpec

\* And a job that a dead server has left behind stays where an operator finds
\* it, until it is requeued or its requeue was refused.
THEOREM DeadWorkCanBeFound == ClusterSpec => []DeadWorkIsListed
<1>1. DInv => DeadWorkIsListed
  BY DEF DInv
<1>2. QED
  BY <1>1, ClusterInitDInv, ClusterNextDInv, PTL DEF ClusterSpec
=============================================================================
