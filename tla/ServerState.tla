---------------------------- MODULE ServerState ----------------------------
(***************************************************************************)
(* The life of the server processes and the "servers" hash in which they   *)
(* register (states/__init__.py; startup and shutdown in __init__.py).     *)
(*                                                                         *)
(* A server key "host:port:pid:start_time" is <<address, n>>: the n-th     *)
(* process started at the address host:port, since pid and start_time      *)
(* together differ for every process.  An address has one process at a     *)
(* time.  Each await of startup() and shutdown() that reaches Redis is a   *)
(* step of its own, so a process may crash between any two of them.        *)
(***************************************************************************)
EXTENDS Naturals, Functions

CONSTANTS Address,     \* the host:port pairs of the cluster
          MaxStarts    \* bound: processes started at each address

ASSUME StartsAssumption == MaxStarts \in Nat \ {0}

VARIABLES phase,       \* phase[a]: how far the process at a has come
          started,     \* started[a]: processes started at a so far
          servers      \* hash "servers": server key to registered state

serverVars == <<phase, started, servers>>

Key == Address \X (1 .. MaxStarts)

\* ServerState._states, without "unknown", which no code sets.
State == {"starting_up", "running", "shutting_down"}

\* "created": the ServerState object exists and has not registered yet.
\* "disconnected": the stores are torn down, the key is still registered.
Phase == {"down", "created", "disconnected"} \cup State

CurrentKey(a) == <<a, started[a]>>

Alive(key) == phase[key[1]] # "down" /\ CurrentKey(key[1]) = key

ServersInit ==
    /\ phase = [a \in Address |-> "down"]
    /\ started = [a \in Address |-> 0]
    /\ servers = [k \in {} |-> "unknown"]

\* A mistake the properties should notice: HSETNX for HSET.
FaultyRegisterOnce(a, state) ==
    servers' = [k \in DOMAIN servers \cup {CurrentKey(a)} |->
                   IF k \in DOMAIN servers THEN servers[k] ELSE state]

\* HSET "servers": the entry is written whether it exists or not.
Register(a, state) ==
    servers' = [k \in DOMAIN servers \cup {CurrentKey(a)} |->
                   IF k = CurrentKey(a) THEN state ELSE servers[k]]

DeleteServerState(key) ==
    servers' = Restrict(servers, DOMAIN servers \ {key})

\* A new process: ServerState.__init__ draws its start time.
Start(a) ==
    /\ phase[a] = "down"
    /\ started[a] < MaxStarts
    /\ started' = [started EXCEPT ![a] = @ + 1]
    /\ phase' = [phase EXCEPT ![a] = "created"]
    /\ UNCHANGED servers

Starting(a) ==
    /\ phase[a] = "created"
    /\ Register(a, "starting_up")
    /\ phase' = [phase EXCEPT ![a] = "starting_up"]
    /\ UNCHANGED started

\* VconStorage.setup and the JobQueue constructor suspend nowhere: they belong
\* to the step that ends startup() and lets the process serve requests.
Serving(a) ==
    /\ phase[a] = "starting_up"
    /\ Register(a, "running")
    /\ phase' = [phase EXCEPT ![a] = "running"]
    /\ UNCHANGED started

\* The last process of an address stays up (MaxStarts): only the others stop
\* or crash.
MayStop(a) == started[a] < MaxStarts

ShuttingDown(a) ==
    /\ MayStop(a)
    /\ phase[a] = "running"
    /\ Register(a, "shutting_down")
    /\ phase' = [phase EXCEPT ![a] = "shutting_down"]
    /\ UNCHANGED started

\* VconStorage.teardown and JobQueue.shutdown.
Disconnect(a) ==
    /\ phase[a] = "shutting_down"
    /\ phase' = [phase EXCEPT ![a] = "disconnected"]
    /\ UNCHANGED <<started, servers>>

Unregister(a) ==
    /\ phase[a] = "disconnected"
    /\ DeleteServerState(CurrentKey(a))
    /\ phase' = [phase EXCEPT ![a] = "down"]
    /\ UNCHANGED started

\* A crash, or a kill: the entry of the process stays behind.
Crash(a) ==
    /\ MayStop(a)
    /\ phase[a] # "down"
    /\ phase' = [phase EXCEPT ![a] = "down"]
    /\ UNCHANGED <<started, servers>>

Lifecycle(a) == Start(a) \/ Starting(a) \/ Serving(a)
                \/ Disconnect(a) \/ Unregister(a)

=============================================================================
