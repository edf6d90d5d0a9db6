--------------------------- MODULE VconProcessing ---------------------------
(***************************************************************************)
(* Requests that run a processor on a stored vCon (vcon_api.py,            *)
(* processor/__init__.py, db/__init__.py, db/redis/__init__.py).           *)
(*                                                                         *)
(* A request puts the vCon's UUID into a VconProcessorIO, awaits the       *)
(* processor, saves the vCons it changed one by one when commit_changes is *)
(* set, and answers with all of them.  Nothing is read from storage before *)
(* somebody asks the VconProcessorIO for more than the UUID, and each      *)
(* access to storage is an await: other requests run in between.           *)
(*                                                                         *)
(* A vCon's content is abstracted to its version, the serial number of the *)
(* change that made it.  A form (JSON, DICT, OBJECT) that a                *)
(* MultifariousVcon holds is the version it shows, 0 when it holds none.   *)
(* Content whose UUID cannot be read (signed or encrypted) is left out:    *)
(* RedisVconStorage.set does not store it.                                 *)
(*                                                                         *)
(* The processor is external: it may call the methods of VconProcessorIO   *)
(* in any order, with a UUID or a vCon in any form, and it may change the  *)
(* DICT or OBJECT that get_vcon returns in place, but for its UUID; a JSON *)
(* is a string.  It answers with the VconProcessorIO it was given.         *)
(***************************************************************************)
EXTENDS Naturals, Sequences, FiniteSets, Functions

CONSTANTS Uuid,          \* UUIDs of vCons
          Request,       \* requests to /process/{vcon_uuid}/{processor_name}
          Processors,    \* the registered names, in the order of registration
          MaxVersions,   \* bound: versions of vCons ever made
          MaxVcons       \* bound: MaxVcons[r] vCons in the VconProcessorIO of r

ASSUME ProcessingAssumption ==
    /\ MaxVersions \in Nat
    /\ MaxVcons \in [Request -> Nat \ {0}]
    /\ Processors \in Seq(Range(Processors)) /\ Processors # <<>>

VARIABLES stored,     \* Redis keys "vcon:<uuid>": the version, 0 if absent
          version,    \* history: versions made so far
          request     \* the requests' local variables

processingVars == <<stored, version, request>>

Form == {"JSON", "DICT", "OBJECT"}

Forms == [Form -> Nat]

\* An element of _vcons, _vcon_locks and _vcon_update.  touched is history: a
\* form was changed in place since the vCon was handed over.
Entry == [uuid : Uuid, forms : Forms, locked : BOOLEAN, update : BOOLEAN,
          touched : BOOLEAN]

\* next: the index of the loop in commit.  The last three are history.  changed:
\* the version that was handed over as changed or new, and those made of it in
\* place since, none if the vCon was not handed over; a vCon that is handed over
\* as its UUID is that in storage, 0 before it is read.  readonly: what was
\* added as readonly.  saved: the version that was saved, 0 if none was.
ProcessRequest ==
    [at       : {"idle", "process", "commit", "output",
                 "200", "404", "500"},
     route    : Range(Processors) \cup {"none"},
     ran      : Range(Processors) \cup {"none"},
     commit   : BOOLEAN,
     vcons    : Seq(Entry),
     next     : Nat,
     output   : SUBSET [uuid : Uuid, version : Nat],
     changed  : [Uuid -> SUBSET Nat],
     readonly : SUBSET Uuid,
     saved    : [Uuid -> Nat]]

NoForms == [f \in Form |-> 0]

NoVersions == [u \in Uuid |-> 0]

Idle == [at |-> "idle", route |-> "none", ran |-> "none", commit |-> FALSE,
         vcons |-> <<>>, next |-> 1, output |-> {},
         changed |-> [u \in Uuid |-> {}], readonly |-> {},
         saved |-> NoVersions]

ProcessingInit ==
    /\ stored = NoVersions
    /\ version = 0
    /\ request = [r \in Request |-> Idle]

-----------------------------------------------------------------------------
(***************************************************************************)
(* MultifariousVcon: the forms of one vCon.                                *)
(***************************************************************************)

\* Operators named Faulty... are plausible mistakes in the definition they
\* precede.  No specification uses them: they show that the properties below
\* would notice.

\* Nothing but the UUID is known.
Unread(entry) == entry.forms = NoForms

\* update_vcon starts from no forms, and from none for a UUID; asking a JSON
\* form for its UUID parses it into an object.
FormsOf(form, v) ==
    [f \in Form |-> IF f = form \/ (form = "JSON" /\ f = "OBJECT")
                    THEN v ELSE 0]

\* A form that is missing is made from the object, and the object from the
\* dict, or else from the JSON.
WithObject(forms) ==
    IF forms["OBJECT"] # 0 THEN forms
    ELSE [forms EXCEPT !["OBJECT"] = IF forms["DICT"] # 0
                                     THEN forms["DICT"] ELSE forms["JSON"]]

WithForm(forms, form) ==
    IF forms[form] # 0 THEN forms
    ELSE [WithObject(forms) EXCEPT ![form] = WithObject(forms)["OBJECT"]]

-----------------------------------------------------------------------------

\* The local variables of r become now.
Local(r, now) == request' = [request EXCEPT ![r] = now]

\* A request that fails leaves nothing behind but what it has saved.
Refuse(r, status) ==
    /\ Local(r, [Idle EXCEPT !.at = status])
    /\ UNCHANGED <<stored, version>>

\* The version v is handed over, an old or a new one: at most MaxVersions.
Made(v) ==
    /\ v <= MaxVersions
    /\ version' = IF v > version THEN v ELSE version

\* The handlers are closures over processor_name, the variable of the loop
\* that defines them: it names the last processor when they run.
Receive(r, route, u) ==
    /\ request[r].at = "idle"
    /\ Local(r, [Idle EXCEPT
                    !.at = "process",
                    !.route = route,
                    !.ran = Processors[Len(Processors)],
                    !.vcons = <<[uuid |-> u, forms |-> NoForms,
                                 locked |-> TRUE, update |-> FALSE,
                                 touched |-> FALSE]>>])
    /\ UNCHANGED <<stored, version>>

\* get_vcon of entry i: storage is read when only the UUID is known, which is
\* then what the request has changed if it is to save it.  The object is kept.
Get(r, i, form) ==
    LET entry == request[r].vcons[i]
        v     == stored[entry.uuid]
        forms == IF Unread(entry) THEN [NoForms EXCEPT !["OBJECT"] = v]
                 ELSE entry.forms
    IN  Local(r, [request[r] EXCEPT
                     !.vcons[i].forms = WithForm(forms, form),
                     !.changed[entry.uuid] =
                         IF Unread(entry) /\ entry.update THEN {v} ELSE @])

\* db.VconNotFound is answered with 404.
NotInStorage(r, i) ==
    /\ Unread(request[r].vcons[i])
    /\ stored[request[r].vcons[i].uuid] = 0
    /\ Refuse(r, "404")

ProcessorGet(r, i, form) ==
    /\ request[r].at = "process"
    /\ i \in DOMAIN request[r].vcons
    /\ \/ NotInStorage(r, i)
       \/ /\ Unread(request[r].vcons[i]) =>
                 stored[request[r].vcons[i].uuid] # 0
          /\ Get(r, i, form)
          /\ UNCHANGED <<stored, version>>

\* The processor changes a form that it was given in place; the others, and
\* what is to be saved, stay.
ProcessorChange(r, i, form) ==
    /\ request[r].at = "process"
    /\ i \in DOMAIN request[r].vcons
    /\ request[r].vcons[i].forms[form] # 0
    /\ Made(version + 1)
    /\ LET entry == request[r].vcons[i]
       IN  Local(r, [request[r] EXCEPT
                        !.vcons[i].forms[form] = version + 1,
                        !.vcons[i].touched = TRUE,
                        !.changed[entry.uuid] =
                            IF entry.update THEN @ \cup {version + 1} ELSE @])
    /\ UNCHANGED stored

\* The versions that a processor can hand over: a new one, the one it was given
\* in this form; with the UUID alone it hands over none.
HandedOver(entry, form) ==
    IF form = "UUID" THEN {0}
    ELSE {version + 1} \cup ({entry.forms[form]} \ {0})

\* The other forms stay in the cache.
FaultyUpdateKeepingForms(r, u, form) ==
    /\ request[r].at = "process"
    /\ \E i \in DOMAIN request[r].vcons :
           LET entry == request[r].vcons[i]
               kept(v) == [f \in Form |-> IF f = form THEN v ELSE entry.forms[f]]
           IN  /\ entry.uuid = u
               /\ entry.locked \/ entry.update
               /\ \E v \in HandedOver(entry, form) :
                      /\ Made(v)
                      /\ Local(r, [request[r] EXCEPT
                             !.vcons[i] = [entry EXCEPT !.forms = kept(v),
                                                        !.update = TRUE,
                                                        !.touched = FALSE],
                             !.changed[u] = {v}])
    /\ UNCHANGED stored

\* The lock is not asked for.
FaultyUpdateUnlocked(r, u, form) ==
    /\ request[r].at = "process"
    /\ \E i \in DOMAIN request[r].vcons :
           LET entry == request[r].vcons[i]
           IN  /\ entry.uuid = u
               /\ \E v \in HandedOver(entry, form) :
                      /\ Made(v)
                      /\ Local(r, [request[r] EXCEPT
                             !.vcons[i] = [entry EXCEPT !.forms = FormsOf(form, v),
                                                        !.update = TRUE,
                                                        !.touched = FALSE],
                             !.changed[u] = {v}])
    /\ UNCHANGED stored

\* update_vcon with the vCon u, in some form or as its UUID: the entry's forms
\* are replaced, and it is marked as updated.
ProcessorUpdate(r, u, form) ==
    /\ request[r].at = "process"
    /\ \E i \in DOMAIN request[r].vcons :
           LET entry == request[r].vcons[i]
           IN  /\ entry.uuid = u
               /\ entry.locked \/ entry.update
               /\ \E v \in HandedOver(entry, form) :
                      /\ Made(v)
                      /\ Local(r, [request[r] EXCEPT
                             !.vcons[i] = [entry EXCEPT !.forms = FormsOf(form, v),
                                                        !.update = TRUE,
                                                        !.touched = FALSE],
                             !.changed[u] = {v}])
    /\ UNCHANGED stored

\* add_vcon, with the UUID of a stored vCon or with a vCon.  What is neither
\* locked nor readonly is new and is to be saved, also if it is a UUID.
ProcessorAdd(r, u, form, locked, readonly) ==
    LET new == ~locked /\ ~readonly
        v   == IF form = "UUID" THEN 0 ELSE version + 1
    IN  /\ request[r].at = "process"
        /\ Len(request[r].vcons) < MaxVcons[r]
        /\ \A i \in DOMAIN request[r].vcons : request[r].vcons[i].uuid # u
        /\ ~(locked /\ readonly)
        /\ Made(v)
        /\ Local(r, [request[r] EXCEPT
                !.vcons = Append(@, [uuid    |-> u,
                                     forms   |-> FormsOf(form, v),
                                     locked  |-> locked,
                                     update  |-> new,
                                     touched |-> FALSE]),
                !.changed[u] = IF new THEN {v} ELSE {},
                !.readonly = IF readonly THEN @ \cup {u} ELSE @])
        /\ UNCHANGED stored

\* Whatever the processor or storage raises, db.VconNotFound excepted, is
\* answered with 500: a call of VconProcessorIO that is refused (an index or a
\* UUID it does not have, a second vCon of one UUID, an update of a readonly
\* one), a failure of the filter, of Redis, or of VconProcessorOutput to accept
\* the vCons.
Raise(r) ==
    /\ request[r].at \in {"process", "commit", "output"}
    /\ Refuse(r, "500")

\* The parameter commit_changes of the request is not looked at before.
ProcessorReturns(r, commit) ==
    /\ request[r].at = "process"
    /\ Local(r, [request[r] EXCEPT !.at = IF commit THEN "commit" ELSE "output",
                                   !.commit = commit])
    /\ UNCHANGED <<stored, version>>

\* Everything is saved, modified or not.
FaultyUnsavedAll(r) == {i \in DOMAIN request[r].vcons : i >= request[r].next}

Unsaved(r) ==
    {i \in DOMAIN request[r].vcons :
         i >= request[r].next /\ request[r].vcons[i].update}

\* commit, the next vCon that was modified: what is known by its UUID only is
\* read from storage, to be saved in a later step, as reading is an await.
CommitRead(r) ==
    /\ request[r].at = "commit"
    /\ \E i \in Unsaved(r) :
           /\ \A k \in Unsaved(r) : i <= k
           /\ Unread(request[r].vcons[i])
           /\ \/ NotInStorage(r, i)
              \/ /\ stored[request[r].vcons[i].uuid] # 0
                 /\ Get(r, i, "DICT")
                 /\ UNCHANGED <<stored, version>>

\* Its object is set in storage.
FaultyCommitObject(r) ==
    /\ request[r].at = "commit"
    /\ \E i \in Unsaved(r) :
           LET entry == request[r].vcons[i]
               forms == WithObject(entry.forms)
           IN  /\ \A k \in Unsaved(r) : i <= k
               /\ ~Unread(entry)
               /\ stored' = [stored EXCEPT ![entry.uuid] = forms["OBJECT"]]
               /\ Local(r, [request[r] EXCEPT
                               !.vcons[i].forms = forms,
                               !.next = i + 1,
                               !.saved[entry.uuid] = forms["OBJECT"]])
    /\ UNCHANGED version

\* Its dict is set in storage.
CommitNext(r) ==
    /\ request[r].at = "commit"
    /\ \E i \in Unsaved(r) :
           LET entry == request[r].vcons[i]
               forms == WithForm(entry.forms, "DICT")
           IN  /\ \A k \in Unsaved(r) : i <= k
               /\ ~Unread(entry)
               /\ stored' = [stored EXCEPT ![entry.uuid] = forms["DICT"]]
               /\ Local(r, [request[r] EXCEPT
                               !.vcons[i].forms = forms,
                               !.next = i + 1,
                               !.saved[entry.uuid] = forms["DICT"]])
    /\ UNCHANGED version

CommitDone(r) ==
    /\ request[r].at = "commit"
    /\ Unsaved(r) = {}
    /\ Local(r, [request[r] EXCEPT !.at = "output"])
    /\ UNCHANGED <<stored, version>>

\* get_output asks for the dicts in order; those it has to read from storage
\* are an await each.
UnreadVcons(r) ==
    {i \in DOMAIN request[r].vcons : Unread(request[r].vcons[i])}

OutputRead(r) ==
    /\ request[r].at = "output"
    /\ \E i \in UnreadVcons(r) :
           /\ \A k \in UnreadVcons(r) : i <= k
           /\ \/ NotInStorage(r, i)
              \/ /\ stored[request[r].vcons[i].uuid] # 0
                 /\ Get(r, i, "DICT")
                 /\ UNCHANGED <<stored, version>>

Output(r) ==
    /\ request[r].at = "output"
    /\ UnreadVcons(r) = {}
    /\ Local(r, [request[r] EXCEPT
                    !.at = "200",
                    !.vcons = <<>>,
                    !.next = 1,
                    !.output =
                        {[uuid    |-> entry.uuid,
                          version |-> WithForm(entry.forms, "DICT")["DICT"]] :
                             entry \in Range(request[r].vcons)}])
    /\ UNCHANGED <<stored, version>>

RequestStep(r) ==
    \/ \E route \in Range(Processors), u \in Uuid : Receive(r, route, u)
    \/ \E i \in 1 .. MaxVcons[r], form \in Form : ProcessorGet(r, i, form)
    \/ \E i \in 1 .. MaxVcons[r], form \in {"DICT", "OBJECT"} :
           ProcessorChange(r, i, form)
    \/ \E u \in Uuid, form \in Form \cup {"UUID"} : ProcessorUpdate(r, u, form)
    \/ \E u \in Uuid, form \in Form \cup {"UUID"},
          locked, readonly \in BOOLEAN :
           ProcessorAdd(r, u, form, locked, readonly)
    \/ Raise(r)
    \/ \E commit \in BOOLEAN : ProcessorReturns(r, commit)
    \/ CommitRead(r)
    \/ CommitNext(r)
    \/ CommitDone(r)
    \/ OutputRead(r)
    \/ Output(r)

\* POST /vcon.  A vCon that is not valid, or that storage refuses, is answered
\* with 422 or 500 and changes nothing.
PostVcon(u) ==
    /\ Made(version + 1)
    /\ stored' = [stored EXCEPT ![u] = version + 1]
    /\ UNCHANGED request

\* DELETE /vcon/{vcon_uuid}, of a vCon that is stored or not.
DeleteVcon(u) ==
    /\ stored' = [stored EXCEPT ![u] = 0]
    /\ UNCHANGED <<version, request>>

ProcessingNext ==
    \/ \E r \in Request : RequestStep(r)
    \/ \E u \in Uuid : PostVcon(u) \/ DeleteVcon(u)

ProcessingSpec == ProcessingInit /\ [][ProcessingNext]_processingVars

-----------------------------------------------------------------------------

\* The types of storage and of the requests' variables.
ProcessingTypeOK ==
    /\ stored \in [Uuid -> 0 .. version]
    /\ version \in Nat
    /\ request \in [Request -> ProcessRequest]
    /\ \A r \in Request :
           request[r].next \in 1 .. Len(request[r].vcons) + 1

\* A VconProcessorIO holds a vCon once: update_vcon and commit would otherwise
\* mean different ones.
DistinctVcons ==
    \A r \in Request : \A i, k \in DOMAIN request[r].vcons :
        request[r].vcons[i].uuid = request[r].vcons[k].uuid => i = k

\* The cached forms of a vCon differ only after one of them was changed in
\* place, and those of a changed or new one show the version that was handed
\* over last or one made of it in place since, whichever form it was handed
\* over in and whichever forms were asked for and changed before.
FormsAgree ==
    \A r \in Request : \A i \in DOMAIN request[r].vcons :
        LET entry   == request[r].vcons[i]
            shown   == {entry.forms[f] : f \in Form} \ {0}
            changed == request[r].changed[entry.uuid]
        IN  /\ ~entry.touched =>
                   /\ \A v, w \in shown : v = w
                   /\ \A v, w \in changed : v = w
            /\ entry.update =>
                   /\ changed # {}
                   /\ shown \subseteq changed
                   /\ Unread(entry) => changed = {0}

\* A vCon that was added as readonly is never saved.
ReadonlyIsNeverSaved ==
    \A r \in Request : \A u \in request[r].readonly : request[r].saved[u] = 0

\* What a request answers after saving is what it saved, also of a vCon whose
\* forms differ, and it saved all that was handed over, and that or what was
\* made of it since: success with commit_changes leaves nothing out, and without
\* nothing was saved.
AnswerIsWhatWasSaved ==
    \A r \in Request : request[r].at = "200" =>
        /\ \A u \in Uuid : request[r].saved[u] # 0 <=>
               request[r].commit /\ request[r].changed[u] # {}
        /\ \A out \in request[r].output :
               /\ request[r].changed[out.uuid] # {} =>
                      out.version \in request[r].changed[out.uuid]
               /\ request[r].saved[out.uuid] # 0 =>
                      out.version = request[r].saved[out.uuid]

\* The processor that runs is the one the path of the request names.
RequestedProcessorRuns ==
    \A r \in Request : request[r].ran = request[r].route

-----------------------------------------------------------------------------

StateOf(r) ==
    CASE request[r].at \in {"idle", "process"} -> "open"
      [] request[r].at = "commit"              -> "saving"
      [] request[r].at = "output"              ->
             IF request[r].commit THEN "saving" ELSE "open"
      [] request[r].at = "200"                 -> "succeeded"
      [] request[r].at \in {"404", "500"}      -> "failed"

Store == INSTANCE VconStore
             WITH Version <- 1 .. MaxVersions,
                  requests <- [r \in Request |->
                                  [state   |-> StateOf(r),
                                   changed |-> request[r].changed,
                                   saved   |-> request[r].saved]]

\* Requests save what they changed, once each and in its last version or one
\* made of it in place, and no more; success after saving means that everything
\* was saved.
ImplementsStore == Store!StoreSpec
=============================================================================
