--------------------------------- MODULE Cli ---------------------------------
(***************************************************************************)
(* The vcon command (vcon/cli.py, main): processes that read a vCon, do    *)
(* one thing to it, write it and post it, run by a shell in sequence, at   *)
(* the same time and in pipelines.                                         *)
(*                                                                         *)
(* A process has one Vcon object: what it does to it is done by the        *)
(* actions of VconLifecycle, so every behaviour here is one there          *)
(* (LifeSpec).  New here are the files, which argparse opens and truncates *)
(* when it parses the arguments, the buffer that reaches a file when the   *)
(* process ends, the vCon server, and the ways a process may end.          *)
(*                                                                         *)
(* What a file holds is a document or nothing one can load.  filter and    *)
(* add change the content, which is the subject here.                      *)
(***************************************************************************)
EXTENDS VconLifecycle, Uuid8

CONSTANTS Path,       \* names of files
          Pipe,       \* pipes between two processes
          Scenario,   \* what the shell is told to run: arguments by process
          FileBefore, \* what the files hold before
          Host,       \* the domain name of the host all processes run on
          Began,      \* what its clock says at first, in nanoseconds
          Grain,      \* nanoseconds by which it goes on
          MaxClock    \* bound: how often it does

Stream == Path \cup Pipe

Absent == [form |-> "absent"]
Empty  == [form |-> "empty"]   \* of length 0
Torn   == [form |-> "torn"]    \* the beginning of a document
Raw    == [form |-> "raw"]     \* the body of a dialog, or a message

\* What extract may write in place of a vCon: the body of an e-mail without text
\* is empty.
Body == {Raw, Empty}

Command == {"none", "sign", "verify", "encrypt", "decrypt", "change", "extract"}

\* -n, -g or where to read; the command, with the commands filter and add as
\* "change"; where to write; whether there is a -p.
Arguments == [in : {"new", "get"} \cup Stream, command : Command,
              out : Stream, post : BOOLEAN]

NotRun == [in |-> "not run"]

\* A pipe has at most one process on either end, and one that writes to it if
\* one reads from it.
ASSUME ScenarioAssumption ==
    /\ Scenario \subseteq [Vcon -> Arguments \cup {NotRun}]
    /\ \A s \in Scenario, p, q \in Vcon :
           /\ s[p] # NotRun /\ s[q] # NotRun
           /\ p # q
           => /\ s[p].in \in Pipe => s[q].in # s[p].in
              /\ s[p].out \in Pipe => s[q].out # s[p].out
    /\ \A s \in Scenario, p \in Vcon :
           s[p] # NotRun /\ s[p].in \in Pipe =>
               \E q \in Vcon : s[q] # NotRun /\ s[q].out = s[p].in

ASSUME FilesAssumption ==
    FileBefore \in [Path -> Foreign \cup {Absent, Empty, Raw}]

ASSUME UuidAssumption ==
    /\ Began \in Nat \ {0} /\ Grain \in Nat /\ MaxClock \in Nat
    /\ \A i \in 0 .. MaxClock :
           Uuid8DomainName(Host, Began + i * Grain) \in Uuid

VARIABLES args,     \* the arguments of every process
          pc,       \* how far it is
          status,   \* how it is doing, and ended
          file,     \* what the files and pipes hold
          server,   \* the vCons a vCon server stores
          input,    \* history: what a process read
          output,   \* what it wrote, which may still be in its buffer
          posted,   \* history: what it sent to the server
          drawn,    \* history: when it drew a UUID, or NotDrawn
          clock     \* how often the clock went on

processVars == <<args, pc, status>>
historyVars == <<input, output, posted, drawn>>
cliVars == <<lifeVars, processVars, file, server, historyVars, clock>>

Nothing == [form |-> "nothing"]
NotDrawn == 0
Now == Began + clock * Grain

CliInit ==
    /\ LifeInit
    /\ args \in Scenario
    /\ pc = [p \in Vcon |-> IF args[p] = NotRun THEN "done" ELSE "start"]
    /\ status = [p \in Vcon |-> "running"]
    /\ file = [f \in Stream |-> IF f \in Path THEN FileBefore[f] ELSE Empty]
    /\ server = {}
    /\ input = [p \in Vcon |-> Nothing]
    /\ output = [p \in Vcon |-> Nothing]
    /\ posted = [p \in Vcon |-> Nothing]
    /\ drawn = [p \in Vcon |-> NotDrawn]
    /\ clock = 0

At(p, label) == pc[p] = label /\ status[p] = "running"

Goto(p, label) == /\ pc' = [pc EXCEPT ![p] = label]
                  /\ UNCHANGED <<args, status>>

\* An exception nobody catches: the interpreter flushes its files and exits.
Fail(p) == /\ pc' = [pc EXCEPT ![p] = "exit"]
           /\ status' = [status EXCEPT ![p] = "failed"]
           /\ UNCHANGED args

\* Exceptions are reported and passed over.
FaultyProceed(p, label) == Goto(p, label)

\* A call on the Vcon object was made: go on if it did not raise.
Proceed(p, label) == IF reply' = "ok" THEN Goto(p, label) ELSE Fail(p)

-----------------------------------------------------------------------------
\* Reading

Running(p) == pc[p] \notin {"start", "done"}

\* The shell is not told to write one file with two processes at a time.
MayStart(p) ==
    /\ pc[p] = "start"
    /\ \A q \in Vcon : Running(q) => args[q].out # args[p].out

\* argparse.FileType('w') opens the output while the arguments are parsed.
Truncated(p) == IF args[p].out \in Path
                THEN [file EXCEPT ![args[p].out] = Empty] ELSE file

\* Options are opened in the order they are given: a missing input is an error
\* before or after the output was opened, unless that creates it.
Start(p) ==
    /\ MayStart(p)
    /\ LET run == args[p]
           missing == run.in \in Path /\ file[run.in] = Absent
       IN \/ /\ missing
             /\ file' \in {file} \cup (IF run.in = run.out THEN {}
                                      ELSE {Truncated(p)})
             /\ Fail(p)
          \/ /\ missing => run.in = run.out
             /\ file' = Truncated(p)
             /\ Goto(p, "load")
    /\ UNCHANGED <<lifeVars, server, historyVars, clock>>

FaultyAtEnd(p) == TRUE

\* read() of a pipe returns when its writer has ended.
AtEnd(p) == \A q \in Vcon : /\ args[p].in \in Pipe
                            /\ args[q] # NotRun
                            /\ args[q].out = args[p].in
                            => pc[q] = "done"

\* Without a look at what was read.
FaultyRead(p, contents) ==
    /\ input' = [input EXCEPT ![p] = contents]
    /\ IF contents \in documents THEN Become(p, LoadedFrom(vcon[p], contents))
       ELSE UNCHANGED <<vcon, reply>>
    /\ Goto(p, "command")
    /\ UNCHANGED <<documents, accepted, signings>>

Read(p, contents) ==
    /\ input' = [input EXCEPT ![p] = contents]
    /\ \/ /\ contents \in {Torn, Raw}
          /\ Fail(p)
          /\ UNCHANGED lifeVars
       \/ /\ contents \in documents
          /\ Loads(p, contents)
          /\ Proceed(p, "command")

\* requests.get without a timeout.
FaultyNoAnswer(p) == FALSE

\* The server does not have the vCon, or does not answer within 20 seconds.
NoAnswer(p) == /\ Fail(p)
               /\ UNCHANGED <<lifeVars, input>>

\* An input of length 0 is taken for no input: the vCon is a new one.
Load(p) ==
    /\ At(p, "load")
    /\ \/ /\ args[p].in = "new"
          /\ Goto(p, "command")
          /\ UNCHANGED <<lifeVars, input>>
       \/ /\ args[p].in = "get"
          /\ \E d \in server :
                /\ input' = [input EXCEPT ![p] = d]
                /\ Loads(p, d)
                /\ Proceed(p, "command")
       \/ /\ args[p].in = "get"
          /\ NoAnswer(p)
       \/ /\ args[p].in \in Stream
          /\ AtEnd(p)
          /\ file[args[p].in] # Empty
          /\ Read(p, file[args[p].in])
       \/ /\ args[p].in \in Stream
          /\ AtEnd(p)
          /\ file[args[p].in] = Empty
          /\ input' = [input EXCEPT ![p] = Empty]
          /\ Goto(p, "command")
          /\ UNCHANGED lifeVars
    /\ UNCHANGED <<file, server, output, posted, drawn, clock>>

-----------------------------------------------------------------------------
\* The command

\* The key files cannot be read, the filter raises, the message has no date.
\* filter says on standard output that it knows no plugin of that name.
CommandFails(p) ==
    /\ At(p, "command")
    /\ args[p].command # "none"
    /\ Fail(p)
    /\ output' \in {output} \cup
                   (IF args[p].command = "change" /\ args[p].out \in Pipe
                    THEN {[output EXCEPT ![p] = Raw]} ELSE {})
    /\ UNCHANGED <<lifeVars, file, server, input, posted, drawn, clock>>

CallOnVcon(p) ==
    \/ /\ args[p].command = "sign"
       /\ \E issuers \in Issuers : Sign(p, issuers)
    \/ /\ args[p].command = "verify"
       /\ \E cas \in SUBSET Authority : Verify(p, cas)
    \/ /\ args[p].command = "encrypt"
       /\ \E k \in KeyPair : Encrypt(p, k)
    \/ /\ args[p].command = "decrypt"
       /\ \E k \in KeyPair : Decrypt(p, k)
    \/ /\ args[p].command = "change"
       /\ \E s \in Subject : SetSubject(p, s)

DoCommand(p) ==
    /\ At(p, "command")
    /\ CallOnVcon(p)
    /\ Proceed(p, "uuid")
    /\ UNCHANGED <<file, server, historyVars, clock>>

NoCommand(p) ==
    /\ At(p, "command")
    /\ args[p].command = "none"
    /\ Goto(p, "uuid")
    /\ UNCHANGED <<lifeVars, file, server, historyVars, clock>>

AfterWrite(p) == IF args[p].post THEN "post" ELSE "exit"

\* The body of a dialog is written in place of the vCon.  There is none in a
\* new vCon, nor in a signed or encrypted one.
Extract(p) ==
    /\ At(p, "command")
    /\ args[p].command = "extract"
    /\ vcon[p].state = "UNSIGNED"
    /\ input[p] \in Document
    /\ \E body \in Body : output' = [output EXCEPT ![p] = body]
    /\ Goto(p, AfterWrite(p))
    /\ UNCHANGED <<lifeVars, file, server, input, posted, drawn, clock>>

-----------------------------------------------------------------------------
\* Writing

NeedsUuid(p) == /\ vcon[p].state = "UNSIGNED"
                /\ vcon[p].content.uuid = NoUuid

\* Every vCon that is written gets a UUID.
FaultyGiveUuid(p) ==
    /\ At(p, "uuid")
    /\ \/ /\ Modifiable(p)
          /\ SetUuid(p, Uuid8DomainName(Host, Now), TRUE)
          /\ drawn' = [drawn EXCEPT ![p] = Now]
          /\ Goto(p, "write")
       \/ /\ ~Modifiable(p)
          /\ Goto(p, "write")
          /\ UNCHANGED <<lifeVars, drawn>>
    /\ UNCHANGED <<file, server, input, output, posted, clock>>

\* set_uuid(hostname), for a vCon that needs one to be written.
GiveUuid(p) ==
    /\ At(p, "uuid")
    /\ \/ /\ NeedsUuid(p)
          /\ SetUuid(p, Uuid8DomainName(Host, Now), FALSE)
          /\ drawn' = [drawn EXCEPT ![p] = Now]
          /\ Goto(p, "write")
       \/ /\ ~NeedsUuid(p)
          /\ Goto(p, "write")
          /\ UNCHANGED <<lifeVars, drawn>>
    /\ UNCHANGED <<file, server, input, output, posted, clock>>

\* signed_json: the output of verify is meant to be read.
Signed(p) == args[p].command # "verify"

\* The bound on documents is the one of LifeNext.
Room == Cardinality(documents) < Cardinality(Foreign) + MaxDumps

\* A long document fills the buffer, and the file gets the beginning of it.
\* dumps does not raise: a command that would let it has failed.
Write(p) ==
    /\ At(p, "write")
    /\ Room
    /\ Dumpd(p, Signed(p))
    /\ output' = [output EXCEPT ![p] = Dumped(vcon[p], Signed(p))]
    /\ file' \in {file, [file EXCEPT ![args[p].out] = Torn]}
    /\ Goto(p, AfterWrite(p))
    /\ UNCHANGED <<server, input, posted, drawn, clock>>

\* post calls dumpd with its default.
PostForm == TRUE

\* The vCon server stores plain vCons that have a UUID.
Storable(doc) == doc.form = "vcon"

\* The request is refused, or lost; or answered, and the answer may be lost.
Post(p) ==
    /\ At(p, "post")
    /\ Room
    /\ Dumpd(p, PostForm)
    /\ \/ /\ reply' # "ok"
          /\ Fail(p)
          /\ UNCHANGED <<server, posted>>
       \/ /\ reply' = "ok"
          /\ posted' = [posted EXCEPT ![p] = Dumped(vcon[p], PostForm)]
          /\ \/ /\ Storable(Dumped(vcon[p], PostForm))
                /\ server' = server \cup {Dumped(vcon[p], PostForm)}
                /\ Goto(p, "exit") \/ Fail(p)
             \/ /\ Fail(p)
                /\ UNCHANGED server
    /\ UNCHANGED <<file, input, output, drawn, clock>>

-----------------------------------------------------------------------------
\* The end of a process

\* main ends with os._exit when it fails: the buffer is lost.
FaultyFlushed(p) == IF status[p] = "failed" \/ output[p] = Nothing THEN file
                    ELSE [file EXCEPT ![args[p].out] = output[p]]

Flushed(p) == IF output[p] = Nothing THEN file
              ELSE [file EXCEPT ![args[p].out] = output[p]]

\* However main ended, what was written is flushed.
Exit(p) ==
    /\ pc[p] = "exit"
    /\ file' = Flushed(p)
    /\ pc' = [pc EXCEPT ![p] = "done"]
    /\ status' = [status EXCEPT ![p] = IF @ = "running" THEN "ok" ELSE @]
    /\ UNCHANGED <<lifeVars, args, server, historyVars, clock>>

\* A signal ends the process, and what is in the buffer is lost.
Kill(p) ==
    /\ Running(p)
    /\ pc' = [pc EXCEPT ![p] = "done"]
    /\ status' = [status EXCEPT ![p] = "killed"]
    /\ UNCHANGED <<lifeVars, args, file, server, historyVars, clock>>

Tick ==
    /\ clock < MaxClock
    /\ clock' = clock + 1
    /\ UNCHANGED <<lifeVars, processVars, file, server, historyVars>>

Step(p) ==
    \/ Start(p) \/ Load(p) \/ DoCommand(p) \/ NoCommand(p) \/ CommandFails(p)
    \/ Extract(p) \/ GiveUuid(p) \/ Write(p) \/ Post(p) \/ Exit(p)

CliNext == Tick \/ \E p \in Vcon : Step(p) \/ Kill(p)

\* The operating system runs every process.
CliSpec == /\ CliInit
           /\ [][CliNext]_cliVars
           /\ \A p \in Vcon : WF_cliVars(Step(p))

-----------------------------------------------------------------------------

Succeeded(p) == status[p] = "ok"

\* vcon verify: what it wrote when it succeeded can be read as it is, and was
\* once signed, in these words, under an authority that it was told to accept.
VerifiedOutputWasSigned ==
    \A p \in Vcon :
        Succeeded(p) /\ args[p].command = "verify" =>
            /\ output[p].form = "vcon"
            /\ \E s \in signings : /\ s.authority \in accepted[p]
                                  /\ output[p].content = Migrated(s.content)

IdOf(doc) == CASE doc.form = "vcon" -> doc.content.uuid
               [] doc.form = "jws" -> doc.payload.uuid
               [] OTHER -> NoUuid

\* What a process reads, writes and posts is one vCon, under one UUID, within a
\* signature or without.  -p "does not change the stdout or effect of the -o
\* option": the server gets what is written or, from vcon verify, the signed
\* vCon that was read.
OneVconPerProcess ==
    \A p \in Vcon :
        /\ /\ input[p].form \in {"vcon", "jws"}
           /\ output[p].form \in {"vcon", "jws"}
           /\ IdOf(input[p]) # NoUuid
           => IdOf(output[p]) = IdOf(input[p])
        /\ posted[p] # Nothing /\ output[p] \notin Body =>
               \/ posted[p] = output[p]
               \/ args[p].command = "verify" /\ posted[p] = input[p]

\* A process that was to read a vCon and has found nothing, so that it makes a
\* new one, was told to write to the file it reads, or there was nothing, or
\* another process may have truncated the file, or the one before it in the
\* pipeline has failed, was stopped, or has extracted an empty body.
NewOnlyFromNothing ==
    \A p \in Vcon :
        input[p] = Empty =>
            \/ args[p].in = args[p].out
            \/ args[p].in \in Path /\ FileBefore[args[p].in] = Empty
            \/ \E q \in Vcon \ {p} :
                   /\ args[q] # NotRun
                   /\ args[q].out = args[p].in
                   /\ args[p].in \in Pipe =>
                          \/ status[q] \in {"failed", "killed"}
                          \/ args[q].command = "extract" /\ output[q] = Empty

\* What a process has written stays in its file, once it succeeded, until another
\* one is told to write to that file.  A file or a pipe ends within a document
\* only while it is being written or because the process that wrote it was
\* killed: an exception after the output was written, for want of a server to
\* post to, does not tear it.
FilesAreWhole ==
    /\ \A p \in Vcon :
           Succeeded(p) => \/ file[args[p].out] = output[p]
                           \/ \E q \in Vcon \ {p} : /\ args[q] # NotRun
                                                    /\ args[q].out = args[p].out
    /\ \A f \in Stream :
           file[f] = Torn => \E p \in Vcon : /\ args[p] # NotRun
                                            /\ args[p].out = f
                                            /\ \/ Running(p)
                                               \/ status[p] = "killed"

\* t comes before u where UUIDs are compared as numbers.
Precedes(t, u) == t.ms < u.ms \/ (t.ms = u.ms /\ t.subsec < u.subsec)

\* UUIDs of one host sort by the time they were drawn at, to 12 bits of the
\* millisecond: an earlier draw has no greater UUID, and a smaller one if it
\* was earlier by 245 ns.  Within 245 ns they may be the same: two processes
\* then write different vCons that have one UUID.
UuidsSortByTime ==
    \A p, q \in Vcon :
        /\ drawn[p] # NotDrawn /\ drawn[q] # NotDrawn
        => /\ drawn[p] <= drawn[q] =>
                  ~Precedes(vcon[q].content.uuid, vcon[p].content.uuid)
           /\ drawn[p] + 245 <= drawn[q] =>
                  Precedes(vcon[p].content.uuid, vcon[q].content.uuid)

\* Whatever a process does, and whatever happens to the others, it ends: no
\* reader waits forever for the end of its pipe.
EveryProcessEnds == <>(\A p \in Vcon : pc[p] = "done")
=============================================================================
