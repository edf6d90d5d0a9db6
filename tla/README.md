# TLA+ models of py-vcon

py-vcon is a Python library for vCons, containers of conversation data (`src/vcon/`), and a
server that stores, queues and processes them (`src/py_vcon_server/`). The server keeps all
shared state in Redis and is driven by REST requests. This directory holds TLA+ models of the
parts where the order of events matters, configurations that check them with TLC, and proofs
that TLAPS checks. Paths below are relative to the repository; `PVS` stands for
`py_vcon_server/py_vcon_server`.

`PROJECT.json` has the map from every definition to the lines it models, the runs, the
hazards and the findings in machine-readable form.

## 1. The system

| component | code | state | operations |
|---|---|---|---|
| Job queue | `PVS/queue/__init__.py` | Redis: set `queues`, lists `queue:<name>`, counter `jobid`, hash `inprogress` | create, delete, push, pop, requeue, remove: one Lua script each |
| Admin REST API | `PVS/admin_api.py`, `restful_api.py` | `settings.WORK_QUEUES` of the server process | handlers that call the queue, the server states, or change `WORK_QUEUES` |
| Server states | `PVS/states/__init__.py`, `PVS/__init__.py` | Redis hash of server key to state; the process's own phase | register, unregister, delete a state; startup and shutdown events |
| Clean up after crashes | documented at `GET /servers`, `admin_api.py:253-281` | the operator's copy of lists | one REST request per step |
| vCon signing and encryption | `vcon/__init__.py`, `vcon/security.py` | `_state`, `_vcon_dict`, `_jws_dict`, `_jwe_dict` of each `Vcon` | setters, loads, dumpd, sign, verify, encrypt, decrypt |
| vCon storage | `PVS/db/` | Redis JSON keys `vcon:<uuid>` | set, get, delete, commit, queries |
| vCon REST API and processors | `PVS/vcon_api.py`, `PVS/processor/` | per request: a `VconProcessorIO` of `MultifariousVcon`s | post, delete, run a processor and commit |
| vCon content | `vcon/__init__.py` | parties, dialog, analysis, attachments | adders and setters, e-mail import, migration |
| UUIDs | `vcon/__init__.py` | the clock of the host | `uuid8_domain_name`, `set_uuid` |
| Filter plugins | `vcon/filter_plugins/` | stack of calls | filters that transcribe (`whisper`, `deepgram`) and summarise (`openai`) |
| Plugin and processor registries | `vcon/filter_plugins/__init__.py`, `vcon/__init__.py`, `PVS/processor/__init__.py` | `_registry`, `_defaults`, methods added to class `Vcon`, `VCON_PROCESSOR_REGISTRY`, entry points | register, replace, set a default, import lazily, call; make entry points |
| Command line tool | `vcon/cli.py` | one `Vcon` per process; files, pipes, a vCon server | read, one command, give a UUID, write, post; imports of recordings, e-mails, Zoom and Google Meet |
| Pipeline | `PVS/pipeline.py` | none (a stub) | |

How they interact. A client pushes a job (vCon UUIDs) to a queue through the REST API. A worker
process pops it under the key of its server, which moves it to the `inprogress` hash, and removes
it when it is done. Nothing times out: when the server dies, its jobs stay in progress until an
operator follows the clean up procedure. The repository has no worker yet (`pipeline.py` is a
stub); the models use the worker that the documentation of the queue and of the pipeline describe, and the
map marks it external. A processor request reads vCons from storage lazily, lets a processor change
them in memory and saves those that were changed.
A filter plugin adds analyses to a vCon in memory; a filter that
summarises calls the default transcriber when it needs the text of a recording. Plugins are found
in a registry which imports them when they are first used, and which class `Vcon` consults whenever an object is made.
The `vcon` command makes one object per process, and processes meet in files, pipes and a vCon server.

What is hard here:

* Lua scripts are atomic, but every REST handler awaits between them, and clients, workers and
  operators hold on to job ids, lists and keys which others have changed in the meantime. When the reply of Redis
  is lost, the script may have run: a client that is answered an error knows nothing, and asks again.
* Servers crash between any two awaits and restart under a new key.
* Failures have to leave things as they were: a queue deleted while its jobs run, `decrypt`
  which pretends for a moment that the object is unsigned, `commit` which saves vCons one by one.
* Transcription services fail halfway and are called again, by the caller or by another filter.
* Processes of the command are run side by side and in pipelines; outputs are emptied when the arguments are parsed, buffered, and
  written when the process ends, whatever it ended of.
* A module may be missing at first and installed later, a constructor may raise, and names of plugins may be those of methods.
* The messages of a chat come with a time of day, from which the date and the zone have to be guessed.
* A signed vCon exists in two forms which have to say the same; a vCon in memory exists in four, two of which
  can be changed in place behind the back of the others.
* A request reads a vCon that it knows by its UUID when it first needs it: in the processor, when it saves, or when it answers.

What makes each part correct: no job is lost or in two places, jobs start in the order of their
pushes, a repeated request does not act on a job twice; clean up takes nothing from a live server and
leaves nothing of a dead one; what can be read of a signed vCon is what was signed, and nothing but
the plaintext of an unsigned one makes an object modifiable again; a request saves all that it
changed, once each, and nothing else, and answers what it saved; parties and dialogs that others refer to exist, no
recording is transcribed twice, and a filter that returns has done what it was asked for; a plugin is constructed
once and stays, and takes no name that is taken; the command writes what it has read and done, under the same UUID, and
calls nothing verified that is not; a chat is imported as a whole, with the right senders and times, or not at all.

## 2. The modules

| module | models | extends or uses |
|---|---|---|
| `JobQueue` | the Lua scripts and their Python wrappers, one action each | |
| `JobLedger` | abstract specification of the queue: one line per job | refined by `JobQueue` |
| `AdminApi` | the REST handlers over the queue and `WORK_QUEUES` | `JobQueue` |
| `ServerState` | registration, startup, shutdown, crash of server processes | |
| `Cluster` | server processes with workers, the queue, operators who clean up | `JobQueue`, `ServerState` |
| `VconLifecycle` | `Vcon` objects and the documents they exchange | |
| `VconContent` | parties, dialogs and analyses of an unsigned vCon, and the import of e-mails | |
| `VconFilters` | the filters that transcribe and summarise | `VconContent` |
| `VconProcessing` | processor requests, posts and deletes over storage | |
| `VconStore` | abstract specification of requests that save what they changed | refined by `VconProcessing` |
| `PluginRegistry` | the registries of plugins and processors, methods of `Vcon`, entry points | |
| `Uuid8` | the time and node parts of a UUID, as operators | |
| `Cli` | processes of the command over files, pipes and a server | `VconLifecycle`, `Uuid8` |
| `ChatTime` | `zoom_chat_to_utc`, as operators | |
| `CliImports` | the imports of the command | `VconContent`, `ChatTime` |
| `MC...` | model values, bounds, symmetry for TLC | |
| `..._proofs` | theorems with proofs | |

**JobQueue.** `queues`, `queue`, `jobid`, `inprogress` are the four Redis keys. A list that Redis
would delete because it is empty reads as `<<>>`. A script's error code, which the wrapper turns into
an exception, is the value of `reply`. A job's payload is the serial number of its push, so that two
pushes of the same UUID stay two jobs. `pushes`, `popped`, `completed`, `returned` and `requeues` are
history. The read-only queries are left out.

**JobLedger.** What clients rely on: a ledger line per pushed job (`queued`, `running`, `completed`,
`returned`), where a job that was never started waits for older ones and for those put back. It knows
neither ids nor lists. The mapping (`LedgerView`) computes a job's status from where `JobQueue` has it.

**AdminApi.** Each handler is one action: the queue operation it calls and the status it answers.
Besides, the Redis client may raise in any of these calls, after the script has run or without that (`ReplyLost`): the handler
answers as for any other exception, whatever happened in Redis. `redis_mgr.py` configures no retries, so a call is taken to run its
script once at most. `settled` is history: the job ids for which a request had an effect, whether or not it was answered. Only this module has lost
replies.
The except clauses of `requeue_in_progress_job` are modelled with what they do: they name a class that
does not exist, so that an exception there leaves the handler (`"unhandled"`).

**ServerState and Cluster.** A server key is `<<address, start number>>` for `host:port:pid:start_time`.
`Start`, `Starting`, `Serving`, `ShuttingDown`, `Disconnect`, `Unregister` are the awaits of `startup()` and
`shutdown()` (`PVS/__init__.py:38-75`), with `ProcessCrash` possible between any two. An operator's
`op[o]` holds the position in the documented procedure and the lists read so far; each HTTP request is
one action. `givenUp` records jobs whose requeue was refused because their queue is gone.

**VconLifecycle.** An object has a state, content, a JWS and a JWE. Content keeps what the properties
tell apart: UUID, subject, version, and whether its analysis needs migration. Documents are plain, JWS,
JWE or unrecognizable, and come from `Dumpd` of the objects and from other implementations
(`Foreign`). What `loads` makes of an object is an operator (`LoadsOutcome`), since `decrypt` calls it on the object it has just
declared `UNSIGNED`, and puts the state back when it raises (`Restored`). A signature records the content it is over and which authorities its certificate chain leads to. `accepted`
and `signings` are history.

**VconContent.** The three lists of `_vcon_dict` that refer to each other by index. A party has a name and a mail
address; an address is known by which others it occurs in, since parties are found by substrings. A dialog has
its parties, whether it is text or a recording, and a class of body: text, audio that Whisper supports, such audio of length zero
(`silent`), something else, or no media type. An analysis is a transcript under one of the
labels the filters use, or a summary; `sources` is history. `Identify` is one turn of the loop over
sender and recipients of a message, with the variable it reads before it is bound. `imported` is history.

**VconFilters.** `calls` is the stack of filter calls: the filter, the dialogs it was asked about, those still to do.
A step is the turn of one dialog. `Transcribe` pushes the call of Whisper that `get_dialog_text` makes when it
finds no transcript. The services' failures are choices: Whisper may fail before each of its outputs. A recording whose body is
empty is passed over (`WhisperIgnores`), or getting the body from its URL fails. What
callers do to the vCon between filter calls is `ClientStep`.

**VconProcessing.** A vCon's content is the serial number of the change that made it. An entry of a
`VconProcessorIO` has a UUID, the forms it has cached, and whether it is locked or to be updated. The
processor is any program that calls `get_vcon`, `update_vcon` and `add_vcon`, with a UUID or a vCon in any form, new or not, and that
changes the dict or the object it was given in place (`ProcessorChange`): the cache hands out these very objects. Every access to storage is
a step of its own, since it is an await: `commit` reads what is known by its UUID alone (`CommitRead`), and saves it later
(`CommitNext`). `changed` is history: of each vCon, the version that was handed over last and those made of it in place
since; of a UUID it is what storage holds when it is read.

**PluginRegistry.** A registration has the flags of its class: whether the module was attempted, was not found, had no
class of the name, and whether there is a plugin. `registry` and `names`, `defaults` and `types`, `processors` and
`processorNames` are dicts with the order of their keys, in which `Vcon.__init__` and `vcon_api.init` go through them. Everything
here runs without an await, so a call is one action. What a constructor comes to is a choice, and modules may be
installed at any time. `DataName` are the names for which `attribute_exists` answers yes and class `Vcon` has no value, such
as `dialog`: an object has them, the class has not. The built in processor derives from the plugin it is bound to
(`ImportWhisperBase`). `constructed` is history.

**Uuid8.** The UUID as far as it depends on the clock and the host: milliseconds, 12 bits of the rest, and the node. The global that
is to keep the last time stamp is never assigned, so there is no state.

**Cli.** `args` is a choice from `Scenario`, the command lines a shell runs side by side; `pc` is the position of a process in `main`:
open the files, read, do the command, give a UUID, write, post, exit. What the command does to the
vCon is done by the actions of `VconLifecycle` (`Sign`, `Verify`, `Loads`, `Dumpd` ...), with one object per process. `file` has
what a file or pipe holds: a document, the beginning of one (`Torn`), something else (`Raw`), or nothing. `extract` writes the
body of a dialog, which may be empty, and succeeds. An output is truncated at
`Start`, may get the beginning of the document at `Write`, and gets the rest at `Exit`; `Kill` loses it. `input`,
`posted` and `drawn` are history. `Fail` is an exception that nobody catches, and the end of the request timeouts.

**ChatTime and CliImports.** Times are minutes. `ZoomChatToUtc` takes the first of its `Guesses` that is `Accepted`, as the code does;
`OtherHour` is the replacement of the hour. `job` is the command that runs, with the entries of the directory that are
still to be listed, in any order, and the messages still to be added; `saved` is the vCon as it was last written, to
which a process that raises falls back. `source` knows when messages really were sent, which the code does not: the properties
compare the two. `imports` and `refused` are history.

Operators named `Faulty...` stand before some definitions. They are plausible mistakes in these
definitions. No specification uses them: put in the place of the original, each makes TLC find one
property violated, which shows that the property depends on the code and that the bounds reach it.

## 3. What the runs check

All runs use TLC's breadth-first search with two workers and take at most a few minutes.

| run | question | bounds | result |
|---|---|---|---|
| `MCJobQueue.cfg` | Do the scripts, in any order, lose, duplicate or misplace jobs, and do they implement `JobLedger`? | 2 queues, 2 servers, 3 pushes, 2 requeues | holds |
| `MCAdminApi.cfg` | Do the handlers keep to the queue's operations, and is a request harmless that is repeated after a reply was lost? | 2 queues, 1 server, 2 pushes, 2 requeues | holds |
| `MCAdminApiRemove.cfg` | Does removing a job leave it removed? | same | violated |
| `MCCluster.cfg` | Is clean up safe with two operators and processes that crash, stop and restart? | 1 address, 3 processes, 2 operators, 2 jobs, 4 requeues | holds |
| `MCClusterLive.cfg` | Is everything that dead servers leave behind cleaned up in the end? | 2 addresses, 2 processes each, 1 operator, 1 job, 2 requeues | holds |
| `MCVconLifecycle.cfg` | Do signed and readable content stay the same, through any exchange of documents? | 2 objects, 7 foreign documents, 2 dumps, 2 authorities, 2 key pairs | holds |
| `MCVconFilters.cfg` | Do references stay valid, and is everything transcribed that was asked for, once, whoever asks and whatever fails? | 3 parties, 2 dialogs, filters called with up to 2 analyses, 4 messages, dialogs asked for all or as the list 2, 2, 1, two choices of outputs | holds |
| `MCVconProcessing.cfg` | Does a request save what it changed and nothing else, and answer that, whatever forms were handed over, cached, and changed in place? | 2 requests, one with room for 2 vCons, posts and deletes at any time, 2 versions | holds |
| `MCPluginRegistry.cfg` | In any order of registrations, failures, installations and calls: is a plugin constructed once, and do failures leave things alone? | 4 names (a plugin, a type, a data attribute, a method), 2 registrations, 2 processors, 2 modules, one of which can be installed | holds |
| `MCCli.cfg` | Is what processes write what they read and did, do they all end, and is what they do to a vCon in `VconLifecycle`? | 7 sets of 3 processes, 6 files, 2 pipes, 7 dumps, 4 readings of the clock 150 ns apart | holds |
| `MCCliImports.cfg` | Are chats imported as a whole, from their senders, with the time that is known? | 2 imports in a row, 11 Zoom directories, 3 Meet recordings, 4 zones of the machine, 10 dialogs, 5 parties | holds |
| `MCVconProcessingRoute.cfg` | Does the processor run that the path names? | 2 processors | violated |

**Why the bounds are enough.** The queue's scripts touch one queue, one job and one id, and the
properties relate at most two of each. Three pushes make a queue with a requeued job before two fresh ones, and two
requeues put back the same job twice or two jobs. Ids go two past the last one that can be handed out
(and down to -1), so calls about unknown ids occur. For the cluster, one address with three processes
has two dead keys and a live one, and two operators can be at different places of the procedure for
the same key; with two addresses (liveness) an operator has to go around a process that is down. Two objects are
enough for a document to be signed by one, and verified, changed and signed again by the other; two authorities for a
chain that is good for one list of CAs and not for the other. The theorems below hold
without these bounds. For `VconFilters`, two dialogs are what is needed to mix them up, and a filter
that starts with two analyses can end with many more: enough for a call that failed after two of Whisper's outputs and is
repeated, for an old transcript beside new ones, and for a summary of two recordings. Three parties let a message
between a known and an unknown person be imported. `joann@x` contains `ann@x`, and one person has no display name. Recordings are of all four kinds, and the list of dialogs that callers ask for
has one of them twice, and the later one first. For `VconProcessing`, requests act on each other only through storage, and one reads a vCon at
most once: two versions are enough for it to go out of date, to be replaced between being read and saved, or to be changed in place after it was read or handed over. The second
vCon is for commits that save several, one by one. For `PluginRegistry`, one name is replaced by a second registration, or two names
have one each; a type stands for a name with or without a registration. The configuration of `MCPluginRegistry` has a view that
leaves out the last answer, which no guard and no invariant reads; action properties are evaluated on every step all the same. For `Cli`, the seven sets
have: a pipeline of three, a pipeline from and to files which a third process reads, writing to the file that is read,
posting after every command, signed, forged, newer and anonymous documents, and three processes that draw a UUID at a time. The readings
of the clock are on both sides of a millisecond, and closer together, and further apart, than UUIDs can tell. For `CliImports`, the
recordings are at noon, over midnight in UTC, at the meeting and at neither, in zones to the west and the east, on machines in the same zone and in others;
`Al` is part of `Alan` and `Alice`; a vCon that is read first has no party, one, or two of the same name; two imports are enough for a chat to
meet the parties and the dialogs of another.

**The properties.** What holds by the shape of the variables is not checked but proved (section 4).

* `TypeOK`, `NoJobLost`, `NoJobDuplicated`: a job is in exactly one place. `FreshJobsInOrder`: jobs that were never
  started are in the order of their pushes, behind those put back. `ImplementsLedger`.
* `ImplementsQueue`: handlers and workers change the queue only through its operations, also when replies are lost.
  `RepeatedRequestIsHarmless`: once a requeue or a removal of a job id had an effect, whatever its client was told, no other about
  this id has one, though the job may be queued, with another worker, or completed by then. `ReturnedJobsAreGone`: what was in a
  deleted queue does not come back.
* `LiveWorkIsHeld`: the job of a live worker stays in progress under its server's key, hence is not
  worked on twice at a time. `LiveServerIsRegistered`, `DeadWorkIsListed`; and the liveness properties
  `AbandonedJobIsRequeued` and `StaleServerIsRemoved`.
* `ReadableIsWhatWasSigned`, `VerifiedWasSigned`, `OnlyPlaintextThaws`. `FailedCallLeavesVcon`: a call that raises leaves the
  object as it was, which `decrypt` has to see to.
* `ReferencesExist`: no index points past the end of its list. `ParticipantsAreParties`: who sent or received an imported
  message is a party of its dialog, under this address or name, and if nobody's name or address is part of another's, nobody else is. The
  property compares for equality, and says nothing of people whom the code's search for substrings mistakes for others.
  `TranscribedOnce` and `ReturnedMeansDone`: each transcript is made once, and a call
  that returns without an exception has made all that it was asked for, but for Whisper with recordings of no length. `SummaryRestsOnItsDialogs`: a
  summary was made from transcripts of the dialogs it names.
* `FormsAgree`: the forms that are cached of a vCon show the same until one is changed in place, and those of a changed vCon what was
  handed over last or what was made of it since. `AnswerIsWhatWasSaved`: a request that answers success saved all that was
  handed over, and answers the versions it saved, also where forms differ or storage has changed since. `ReadonlyIsNeverSaved`, `ImplementsStore`.
  None of them says that requests are isolated from one another: they are not.
* `ConstructedOnce`, `PluginStays`, `MissingIsNews`: what the flags of a registration are for, in any order of calls and failures.
* `VerifiedOutputWasSigned`: what `vcon verify` writes was signed, in these words, under an authority it was told of.
  `OneVconPerProcess`: what a process posts and writes is the vCon it has read, under the UUID it had. `NewOnlyFromNothing`: the
  only ways to a new vCon where one was to be read, one of which is a process before it that extracted an empty body. `FilesAreWhole`: what a process has written stays until another one is told to write
  there, and nothing but a kill leaves a part of it. `UuidsSortByTime`, and the liveness property `EveryProcessEnds`. `LifeSpec`: the
  command does to a vCon what `VconLifecycle` allows.
* `ChatsAreWhole`: a chat is there with all its messages and their senders. `OneSenderOneParty`: whoever writes under one name is one
  party in all chats, and no command lists a name twice (a vCon that is read may). `ChatTimeIsKnown`: when the time is right, and by how
  much it is wrong elsewhere. `RefusedOverMidnight`: the one case in which a chat from the own time zone is refused.

`MCCli` does not check deadlock, since a shell session ends, nor does `MCCliImports`, since nobody has to import anything.
`MCVconFilters` does not check deadlock: callers stop adding to the vCon at its bounds, and nobody has to call a filter.

**Fairness.** `ClusterSpec` and `CliSpec` have some. `CliSpec` has `WF(Step(p))`: the operating system runs every process, and a request
ends with an answer or with the timeout of 20 seconds. Kills and the clock are not fair. For the cluster: `WF(ProcessStep(a))`: what keeps the server running starts it
again when it is down, and a process which is up gets through the awaits of startup and shutdown, as asyncio schedules
it. `WF(OperatorStep(o))`: the operator carries the documented procedure on and begins anew when it is
through. Workers, clients, shutdowns and crashes are not fair: a worker may never finish, nobody has to push,
nothing has to crash. Crashes and shutdowns are bounded by `MaxStarts`; the last process of an
address stays up, since an operator has to reach an address to learn its active key.

## 4. What is proved

TLAPS proves the following for all values of the constants that satisfy the assumptions.

| theorem | module | states |
|---|---|---|
| `Invariance`, `TypeCorrect`, `JobsAreNotLost`, `JobsAreNotDuplicated`, `QueueOrder`, `NoListWithoutQueue`, `JobsStayHome`, `UniqueJobIds`, `FailuresChangeNothing` | `JobQueue_proofs` | the properties of the queue |
| `QueueIsALedger` | `JobQueue_proofs` | `Spec => Ledger!Spec` |
| `ApiTypeCorrect`, `ApiUsesTheQueue`, `ApiKeepsTheJobs`, `RepetitionIsHarmless`, `ReturnedJobsStayOut` | `JobQueue_proofs` | the REST API refines the queue, and inherits its invariants |
| `ClusterTypeCorrect`, `CleanupSparesLiveWork`, `CleanupSparesLiveServers`, `CleanupKeepsTheJobs` | `Cluster_proofs` | clean up is safe for any number of addresses, restarts and operators |
| `DeadWorkCanBeFound` | `Cluster_proofs` | what a dead server has left behind is listed until it is requeued or refused |
| `ProcessingTypeCorrect`, `DistinctVconsTheorem`, `FormsAgreeTheorem`, `ReadonlyTheorem`, `AnswerTheorem` | `VconProcessing_proofs` | the properties of the requests, for any number of vCons, requests and versions |
| `StoreImplemented` | `VconProcessing_proofs` | `ProcessingSpec => Store!StoreSpec`: requests save what they changed, once each, and no more |
| `CommandUsesVcon` | `Cli_proofs` | `CliSpec => LifeSpec`: the theorems about vCon states hold in the processes of the command |
| `VerifiedOutputIsGenuine`, `OneVconThroughAll`, `NewVconsAreMeant`, `WrittenFilesAreWhole`, `UuidOrderIsTimeOrder` | `Cli_proofs` | the properties of the command, for any scenario, files and pipes |
| `LifeInvariance`, `LifeTypeCorrect`, `SignedContentIsFrozen`, `VerifiedContentWasSigned`, `PlaintextThaws`, `FailedCallLeavesEverything` | `Cli_proofs` | the properties of the vCon states, for any number of objects and foreign documents |
| `ReferencesAreGood`, `PeopleTakePart`, `NoTranscriptTwice`, `SummariesHaveSources`, `TranscriptionIsComplete` | `VconFilters_proofs` | the properties of a vCon's lists, for lists of any length, any messages and any calls of filters |
| `ImportsInvariance`, `ChatTimeTheorem`, `RefusedTheorem` | `CliImports_proofs` | the times of chats, for all recordings, zones and imports |
| `WholeChats`, `SendersAreKnown` | `CliImports_proofs` | chats are whole and each sender is one party, for all chats and imports |
| `InitializedOnce`, `MissingMeansMissing`, `LoadedPluginsStay` | `PluginRegistry_proofs` | the properties of the registries, for any names, modules and registrations |

*The queue.* `IInv` is the conjunction of the checked invariants and `OnlyPoppedJobsLeft`: whatever
is in progress or completed was popped. Without it `FreshJobsInOrder` is not inductive: a requeue puts
its job before all others, which is in order only because that job counts as popped. The proof
has a lemma per action and three about sequences (`Append`, `Tail`, putting an element in front). The
refinement is proved from `IInv` and a lemma per action that computes the new ledger line of each job.

*The REST API.* Every handler is a step of `JobQueue!Next` or leaves the queue alone, also when a reply is lost, so the invariants carry
over. `RepetitionIsHarmless` needs that an id for which a request had an effect is an old one and not in progress: ids are not used
again, and only a pop puts one there. `ReturnedJobsStayOut` follows from `OneState` before and after the step.

*The cluster.* `CInv` adds to the queue's types what operators know: a key that an operator holds for stale
is of an earlier process (`StaleKeysAreDead`), and the ids it holds, as long as they are in
progress, are of that process (`StaleJobsAreDead`). The latter needs that ids are not used
again. `WorkersRunInServers`: workers have ended when their process shuts down. From this,
requeueing a stale id can not hit a job of `work[a]`.

`DInv` adds what the servers hash tells. By `KeyAtHandIsStale`, the key an operator is about to unregister is one it holds for stale, so
that live servers stay registered (`StaleKeysAreDead`), and the jobs that are still in progress under this key are at hand or were given
up: an operator unregisters it when it is through with those it has, and nothing is left that can be requeued. A dead server pops no
more. By `JobsHaveWorkers`, a job in progress under a live key is one that a worker of that process
works on. `JobIsAccountedFor` puts both into one predicate on a job, so that a step has to be looked at for the jobs it touches.

*vCon states.* `LifeInv` adds to the checked invariants that every signature in a document, an object
or a ciphertext is one that was made (`EverySignatureIsKnown`). The proof looks at each object by itself
(`Sound`), so that a step has to be looked at for one object only.

*Requests.* `ProcessingInv` is `RequestOK` of each request, a predicate on its variables alone, and that versions are those made so far
(`Bounded`): storage and other requests can change at any time and it does not matter. It ties the forms of an entry that is marked as
updated to what was handed over last and made of it in place since, of which they are a part (`EntryOK`), what was handed over to such
entries (`ChangedOK`), what was saved to the dicts of those below the index of the loop (`SavedBelow`: an answer is made of the same dicts), and
keeps readonly entries from being marked (`ReadonlyOK`). `DistinctVcons` is needed for all of it: an update of one entry would
otherwise leave another one out of date. A change in place may touch an entry that is not marked, of which nothing is
said. There is a lemma per operation on a record, and one per action, which also says what step of `VconStore` it is: reading a
vCon that was handed over as its UUID is one (`Read`), since that is when it is known what is to be saved.

*The command.* Every step of a process is a step of `VconLifecycle` on its object or leaves the objects alone. A call that raises is
one as well, which is why the command may fail anywhere. The theorems about `LifeSpec` carry over. `CliInv` is `Local` of each process,
a predicate on its own variables and on the signings, which only grow, with three statements about files and `NewOnlyFromNothing`. `Local` says how far a
process is (`Progress`, `InOrder`), that its object stands for the vCon it has read (`SameVcon`: the UUID is in the content, in
the payload of the JWS, or in the plaintext of the JWE, by its state), what `verify` has to do with its input
(`SameForm`), and that its UUID is of the time at which it was drawn. For files: a torn one has a writer that is at it or was
killed (`TornByWriter`), only files that are written to change (`ChangedByWriter`), and the output of a process that succeeded is there
unless another one writes to the same file (`KeptWhenDone`). `UuidOrderIsTimeOrder` is arithmetic on `Uuid8DomainName`.

*Lists and filters.* `FiltersInv` has three parts. `ListsInv` adds to the checked invariants that transcripts have the labels of the
services that make them, so that no service makes what another one made, and that a summary's sources come before it. `CallsInv` says of
each call on the stack that a dialog which it was asked about is still to do or done (`LeftBehind`), and that what it collected are
transcripts of these dialogs; `ReplyInv` is `LeftBehind` with nothing to do. Lists only grow, so that a call stays in order while inner ones
add to the analyses. For the e-mails, the loop over sender and recipients is a recursive function and the
parties found are a sorted set. Facts about both are proved with the least counterexample (`Least`), an induction that needs no operator
as a parameter (`VconContent_proofs`).

*Registries.* `RegInv` ties the flags of a registration to the number of times its constructor was called (`FlagsAgree`): once if an
import was attempted, never before. Registrations are only added, so the theorems about a step need to look at those it touches.

*Chat times.* `ImportsInv` says of each import, of the command that runs and of the vCon that was last written, that the
messages are where `chatAt` tells, with the times `ZoomChatToUtc` gives for the recording that was listed last (`JobIsDated`,
`ImportsAreDated`). The rest is arithmetic on `ChatTime`: of a message sent while it was recorded the first guess is accepted,
or the third, and how far it is from the truth follows from the dates in UTC and at the meeting. Division and
remainder by constants are dealt with in lemmas of their own.

*Chats.* `WholeInv` says of each import that its messages are in the dialogs behind its recordings (`Said`), each by the first
party in whose name the sender's occurs (`SpokenBy`). This party stays the first one, since parties are only added at
the end (`ListsGrow`). While a directory is listed, the number of dialogs is that of the videos listed so far (`ListedAreThere`), a
cardinality, whatever the order. `SendersAreKnown` follows: two messages of one sender have the same first party.

**Assumptions.** Bounds are natural numbers (`BoundsAreNat`, `StartsAssumption`,
`ProcessingAssumption`, `ContentAssumption`), server keys are pairs of address and start number (`KeyAssumption`), foreign
documents and files that exist before are documents (`ForeignAssumption`, `FilesAssumption`), names are among those they are said to be
among, and Whisper has neither the name of data nor of a method (`NamesAssumption`). A pipe has one process on either
end, and one that writes if one reads (`ScenarioAssumption`). UUIDs drawn from the clock are UUIDs
(`UuidAssumption`). Addresses and messages are made of strings, and nothing but the empty string occurs in the empty string
(`ContentAssumption`); a list that the vCon does not have is told from lists (`AbsentAssumption`); what callers give to filters are lists
of numbers, outputs, and addresses and media there are (`FiltersAssumption`); zones are those of the world, directories are finite, and
parties that are loaded have names and addresses (`ImportsAssumption`). Beyond these,
the models assume: Redis runs a script as a whole and keeps its data; a server shuts down after its workers are
done; one process per address at a time (the port); cryptography is ideal: no signature without its key, no reading of a
JWE without its key pair; an expired CA certificate is one that is not accepted.

**Only model-checked:** the three liveness properties (`AbandonedJobIsRequeued`, `StaleServerIsRemoved`, `EveryProcessEnds`): fairness
is about `ENABLED`, which is out of the prover's reach. The findings of section 5 are counterexamples that TLC shows. Everything
else that a run checks is a theorem.

## 5. Findings

Each is a run that TLC reports as violated.

1. `DELETE /in_progress/{job_id}` requeues the job (`admin_api.py:595`); its documentation says the opposite.
2. Every processor path runs the processor registered last (`vcon_api.py:176`).

Other disagreements and remarks, which the models contain and no run singles out.

*Server.* The except clauses for a missing job name `JobNotFound`, which does not exist: a request about an unknown job id
ends in an `AttributeError` and not in 404 (`admin_api.py:548`). Committing a new vCon replaces the stored one of
its UUID (`db/redis/__init__.py:56`), which `processor/__init__.py:391-394` excludes. A UUID may be added as new: `commit` then reads the
stored vCon and writes it back, over what others made of it in between. A processor that changes the object it was given in
place may find that the dict from before is saved, or not, by which forms were asked for earlier. An answer of 500 leaves it open
whether the operation was done: who repeats `PUT /queue/{name}` may have queued the job twice, and the jobs of a deleted queue may have
been handed to nobody. `WORK_QUEUES` keeps the name of a queue that was deleted.

*Filters.* Whisper passes over a recording whose body is empty (`vcon/filter_plugins/impl/whisper.py:255`), and its caller can not tell. The
chat completion filter raises on every text dialog (`vcon/filter_plugins/impl/openai.py:469`): it reads the key
`parties` where `get_dialog_text` has `party`. A plugin or type that is named like a data attribute of `Vcon` makes every `Vcon()`
raise an `AttributeError`, where a warning is meant (`vcon/__init__.py:370-376`): `getattr` asks the class, which has no such attribute.

*Command.* `-p` posts the signed vCon after `verify`, while the output is the verified one (`vcon/bin/README.md:26` says that the
resulting output is posted). A process whose input is empty makes a new vCon without saying so, and a pipeline whose
beginning failed, or extracted a dialog without text, succeeds with one. `-r` takes four arguments, and init options are read from a fifth.

*Imports.* `zoom_chat_to_utc` computes the local date of the start (`vcon/cli.py:66`) and does not use it: where it is ahead of the
date in UTC, messages are a day early, and nothing refuses them, as any time before the start is taken for one in the
tolerance of 15 minutes. It uses summer time all the year (`vcon/cli.py:50`): messages are an hour early in winter. A chat over
local midnight, later than midnight in UTC, makes the import raise. Files of a Zoom directory are attached only if their
extension is known and they are listed after the video; others make the import fail (`vcon/bin/README.md:34` has any file attached).

*Elsewhere.* `verify` stops at a chain that can not be parsed
(`vcon/__init__.py:1698`) although a comment says that it keeps trying, and it makes content of an unsupported version
readable (`vcon/__init__.py:1735`). An e-mail of a known sender cannot be imported (`vcon/__init__.py:690`); a
message without a date leaves its subject and its parties behind; an address without a display name is taken for every
party, and one that is part of another for that one (`vcon/__init__.py:586`). `get_dialog_text` transcribes whether it was asked to or not (`vcon/__init__.py:872`), and raises on transcripts with
the labels of older versions and on text dialogs with a single party index. `decrypt` is documented to end in the signed state; decrypting a JWE whose plaintext is an
unsigned vCon ends in `UNSIGNED`, which `OnlyPlaintextThaws` states. `update_heartbeat` creates a coroutine and does
not await it. `add_queue_job` logs an unsupported job type as an error and queues the job all the same. The start time of a job
joins the seconds and microseconds of Redis without leading zeros (`queue/__init__.py:125`). Locks of vCons are not implemented: of two requests that change a vCon, the last to save wins, and a vCon
deleted while a request works on it comes back; `VconStore` says so.

## 6. What is not modelled

* Read-only queries (`get_queue_names`, jq, jsonpath), logging, settings other than `WORK_QUEUES`.
* `pipeline.py`: without behaviour.
* Redis connection pools and the binding of the storage implementation: one pool and one implementation, made when the server starts and
  dropped when it stops. (`teardown` keeps the manager of a pool that is closed, so that `setup` of the same object would raise; nothing does that.)
* Certificate chains link by link, key files, hashes: library calls; a chain is known by the authorities it leads to.
* The bodies of dialogs and attachments, their encodings, hashes and external URLs; `redacted` and `group`.
* argparse, the texts the command prints, and entries of a Zoom directory that are passed over (the configuration, an audio beside the video).
* Slices of dialog indices as index arithmetic.
* Negative indices in lists of dialogs, recordings without parties, Deepgram transcripts without paragraphs, and dialogs of
  other types than text and recording.
* Requests that are lost before they reach the server, or whose answers are lost behind it: a client that repeats them is in `AdminApi`
  already. Lost replies of Redis to the servers' own states and to vCon storage: a request that saved a vCon and is answered
  500 is in `VconProcessing`.
* Errors of the operating system while the command writes or flushes its output (a full disk, a closed pipe), and lines of a Zoom chat
  that do not parse: the command fails, as it does for other reasons in the models. Extracted bodies that are vCons themselves.
* A restart on the address of a server that is starting or stopping: the port is bound after `startup` and released before the process ends, so the
  code has fewer overlaps than `Cluster`.
* Exits of `decrypt` by other than an `Exception` (Ctrl-C), after which the process ends.
* Processors that change the UUID of a vCon in place: the index of a `VconProcessorIO` would no longer be the one it is found by.
* The start time of a job, and `last_heartbeat`: written and shown, never decided by.

## 7. Plan

Done: the queue, its API, the cluster, the vCon states, content and filters, processing, the registries, the command and its imports; and
the proofs of section 4, which state every safety property that a run checks. Next, proofs of what the models promise beyond that:

1. Action properties from the invariants there are: the lists of a vCon and the registrations only grow, and a job that was given up
   is not taken up again.
2. A refinement of `VconFilters`: an abstract specification of transcription as a set of dialogs and outputs still to be made.
3. The safety part of what `AbandonedJobIsRequeued` rests on: every step of an operator's procedure gets nearer to its end.
