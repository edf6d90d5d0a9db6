------------------------ MODULE VconProcessing_proofs ------------------------
(***************************************************************************)
(* Requests that run a processor on a stored vCon, for every number of     *)
(* vCons, requests, processors and versions: the cached forms of a vCon    *)
(* agree unless one was changed in place, a readonly vCon is never saved,  *)
(* the answer is what was saved, and requests implement vCon storage as    *)
(* VconStore describes it.                                                 *)
(*                                                                         *)
(* A step of a request changes the variables of that request alone, and    *)
(* what must hold of them does not depend on storage: the invariant is     *)
(* RequestOK of each request, a predicate on a record.  The lemmas on      *)
(* records come first, then one lemma per operation.                       *)
(***************************************************************************)
EXTENDS VconProcessing, TLAPS

Busy == {"process", "commit", "output"}

Failed == {"404", "500"}

\* Every form that is held shows a version of S.
Among(forms, S) == \A f \in Form : forms[f] # 0 => forms[f] \in S

\* The forms of an entry agree unless one was changed in place; those of a
\* changed vCon show what is to be saved of it, which is 0 until it is read.
EntryOK(entry, changed) ==
    /\ ~entry.touched =>
           /\ \A f, g \in Form :
                  \/ entry.forms[f] = 0
                  \/ entry.forms[g] = 0
                  \/ entry.forms[f] = entry.forms[g]
           /\ \A v, w \in changed : v = w
    /\ entry.update =>
           /\ changed # {}
           /\ Among(entry.forms, changed)
           /\ Unread(entry) => changed = {0}
           /\ ~Unread(entry) => 0 \notin changed
    /\ ~entry.update => changed = {}

TypedRequest(q) ==
    /\ q \in ProcessRequest
    /\ q.next \in 1 .. Len(q.vcons) + 1

VconsOK(q) ==
    /\ \A i, k \in DOMAIN q.vcons : q.vcons[i].uuid = q.vcons[k].uuid => i = k
    /\ \A i \in DOMAIN q.vcons :
           EntryOK(q.vcons[i], q.changed[q.vcons[i].uuid])

ReadonlyOK(q) ==
    /\ \A i \in DOMAIN q.vcons :
           q.vcons[i].uuid \in q.readonly =>
               ~q.vcons[i].locked /\ ~q.vcons[i].update
    /\ q.at \in Busy =>
           \A u \in q.readonly : \E i \in DOMAIN q.vcons : q.vcons[i].uuid = u
    /\ \A u \in q.readonly : q.saved[u] = 0

\* What was changed is in an entry that is marked as updated.
ChangedOK(q) ==
    /\ q.at \in Busy =>
           \A u \in Uuid : q.changed[u] # {} =>
               \E i \in DOMAIN q.vcons :
                   q.vcons[i].uuid = u /\ q.vcons[i].update
    /\ q.at \in {"idle"} \cup Failed => q.changed = [u \in Uuid |-> {}]

\* What was saved is the dict of what was marked as updated, below the index of
\* the loop.
SavedBelow(q) ==
    /\ \A u \in Uuid : q.saved[u] # 0 =>
           \E i \in DOMAIN q.vcons :
               q.vcons[i].uuid = u /\ q.vcons[i].update /\ i < q.next
    /\ \A i \in DOMAIN q.vcons : q.vcons[i].update /\ i < q.next =>
           /\ q.saved[q.vcons[i].uuid] # 0
           /\ q.saved[q.vcons[i].uuid] = q.vcons[i].forms["DICT"]

SavedOK(q) ==
    /\ q.at \in {"idle", "process"} \cup Failed =>
           q.saved = NoVersions /\ q.next = 1
    /\ q.at \in {"commit", "output"} => SavedBelow(q)
    /\ q.at = "commit" => q.commit
    /\ q.at = "output" =>
           IF q.commit
           THEN \A i \in DOMAIN q.vcons : q.vcons[i].update => i < q.next
           ELSE q.next = 1

AnswerOK(q) ==
    q.at = "200" =>
        /\ \A u \in Uuid : q.saved[u] # 0 <=> q.commit /\ q.changed[u] # {}
        /\ \A out \in q.output :
               /\ q.changed[out.uuid] # {} => out.version \in q.changed[out.uuid]
               /\ q.saved[out.uuid] # 0 => out.version = q.saved[out.uuid]

RequestOK(q) ==
    /\ TypedRequest(q)
    /\ VconsOK(q)
    /\ ReadonlyOK(q)
    /\ ChangedOK(q)
    /\ SavedOK(q)
    /\ AnswerOK(q)

\* What was changed is a version made so far.
Bounded(q, v) == \A u \in Uuid : \A w \in q.changed[u] : w <= v

ProcessingInv ==
    /\ version \in Nat
    /\ stored \in [Uuid -> 0 .. version]
    /\ request = [r \in Request |-> request[r]]
    /\ \A r \in Request : RequestOK(request[r]) /\ Bounded(request[r], version)

-----------------------------------------------------------------------------
(***************************************************************************)
(* The forms of a vCon.                                                    *)
(***************************************************************************)

\* Making a form of a vCon from the others shows nothing new, keeps those that
\* are held, and yields it when there was any.
LEMMA MadeForm ==
    ASSUME NEW forms \in Forms, NEW S, Among(forms, S), NEW form \in Form
    PROVE  /\ WithForm(forms, form) \in Forms
           /\ Among(WithForm(forms, form), S)
           /\ \A f \in Form : forms[f] # 0 => WithForm(forms, form)[f] = forms[f]
           /\ forms # NoForms => WithForm(forms, form)[form] # 0
<1>1. /\ WithObject(forms) \in Forms
      /\ Among(WithObject(forms), S)
      /\ \A f \in Form : forms[f] # 0 => WithObject(forms)[f] = forms[f]
      /\ forms # NoForms => WithObject(forms)["OBJECT"] # 0
  <2>1. CASE forms["OBJECT"] # 0
    BY <2>1 DEF WithObject
  <2>2. CASE forms["OBJECT"] = 0 /\ forms["DICT"] # 0
    BY <2>2 DEF WithObject, Forms, Form, Among
  <2>3. CASE forms["OBJECT"] = 0 /\ forms["DICT"] = 0
    <3>1. forms # NoForms => forms["JSON"] # 0
      BY <2>3 DEF NoForms, Forms, Form
    <3>2. QED
      BY <2>3, <3>1 DEF WithObject, Forms, Form, Among
  <2>4. QED
    BY <2>1, <2>2, <2>3
<1>2. CASE forms[form] # 0
  BY <1>2 DEF WithForm
<1>3. CASE forms[form] = 0
  BY <1>1, <1>3 DEF WithForm, Forms, Form, Among
<1>4. QED
  BY <1>2, <1>3

\* A vCon that is handed over is in order: its forms show its version, and it
\* is unread when it is handed over as its UUID.
LEMMA HandedOverOK ==
    ASSUME NEW v \in Nat, NEW form \in Form \cup {"UUID"},
           form = "UUID" <=> v = 0
    PROVE  /\ FormsOf(form, v) \in Forms
           /\ \A entry : /\ entry.forms = FormsOf(form, v)
                         /\ ~entry.touched
                         => EntryOK(entry, IF entry.update THEN {v} ELSE {})
<1>1. FormsOf(form, v) \in Forms
  BY DEF FormsOf, Forms, Form
<1>2. \A f \in Form : FormsOf(form, v)[f] \in {0, v}
  BY DEF FormsOf
<1>3. v # 0 => FormsOf(form, v)[form] # 0
  BY DEF FormsOf
<1>4. v = 0 => FormsOf(form, v) = NoForms
  BY DEF FormsOf, NoForms
<1>5. v # 0 => FormsOf(form, v) # NoForms
  BY <1>3 DEF NoForms
<1>6. ASSUME NEW entry, entry.forms = FormsOf(form, v), ~entry.touched
      PROVE  EntryOK(entry, IF entry.update THEN {v} ELSE {})
  BY <1>2, <1>4, <1>5, <1>6 DEF EntryOK, Among, Unread
<1>7. QED
  BY <1>1, <1>6

-----------------------------------------------------------------------------
(***************************************************************************)
(* The records of requests.                                                *)
(***************************************************************************)

\* The fields of a request are of their types.
LEMMA RequestTypes ==
    ASSUME NEW q, TypedRequest(q)
    PROVE  /\ q.vcons \in Seq(Entry)
           /\ DOMAIN q.vcons = 1 .. Len(q.vcons)
           /\ Len(q.vcons) \in Nat
           /\ q.next \in Nat /\ q.next >= 1
           /\ q.changed \in [Uuid -> SUBSET Nat]
           /\ q.saved \in [Uuid -> Nat]
           /\ q.readonly \in SUBSET Uuid
           /\ \A i \in DOMAIN q.vcons : q.vcons[i] \in Entry
BY DEF TypedRequest, ProcessRequest

\* A sequence with one entry replaced.
LEMMA ReplacedEntry ==
    ASSUME NEW s \in Seq(Entry), NEW i \in DOMAIN s, NEW entry \in Entry, NEW t,
           t = [s EXCEPT ![i] = entry]
    PROVE  /\ t \in Seq(Entry) /\ Len(t) = Len(s) /\ DOMAIN t = DOMAIN s
           /\ t[i] = entry
           /\ \A k \in DOMAIN s : k # i => t[k] = s[k]
<1>1. /\ t \in Seq(Entry) /\ Len(t) = Len(s) /\ DOMAIN t = DOMAIN s
  OBVIOUS
<1>2. t[i] = entry
  OBVIOUS
<1>3. \A k \in DOMAIN s : k # i => t[k] = s[k]
  OBVIOUS
<1>4. QED
  BY <1>1, <1>2, <1>3

\* A request that is idle or has failed is in order.
LEMMA IdleOK ==
    ASSUME NEW status \in Failed, NEW q,
           q = Idle \/ q = [Idle EXCEPT !.at = status]
    PROVE  RequestOK(q)
<1>1. /\ q.at \in {"idle"} \cup Failed /\ q.vcons = <<>> /\ q.next = 1
      /\ q.saved = NoVersions
      /\ q.changed = [u \in Uuid |-> {}] /\ q.readonly = {}
      /\ DOMAIN q.vcons = {} /\ Len(q.vcons) = 0
  <2>1. CASE q = Idle
    BY <2>1 DEF Idle
  <2>2. CASE q = [Idle EXCEPT !.at = status]
    BY <2>2 DEF Idle
  <2>3. QED
    BY <2>1, <2>2
<1>2. q \in ProcessRequest
  <2>1. /\ <<>> \in Seq(Entry) /\ NoVersions \in [Uuid -> Nat]
        /\ [u \in Uuid |-> {}] \in [Uuid -> SUBSET Nat]
        /\ {} \in SUBSET [uuid : Uuid, version : Nat] /\ {} \in SUBSET Uuid
    BY DEF NoVersions
  <2>2. Idle \in ProcessRequest
    BY <2>1 DEF Idle, ProcessRequest
  <2>3. QED
    BY <2>2 DEF ProcessRequest, Failed
<1>3. TypedRequest(q)
  BY <1>1, <1>2 DEF TypedRequest
<1>4. VconsOK(q) /\ ReadonlyOK(q) /\ ChangedOK(q) /\ SavedOK(q) /\ AnswerOK(q)
  BY <1>1 DEF VconsOK, ReadonlyOK, ChangedOK, SavedOK, AnswerOK, Busy, Failed
<1>5. QED
  BY <1>3, <1>4 DEF RequestOK

\* The request q with another entry i, which changes that vCon to C.
Replaced(q, i, entry, C) ==
    [q EXCEPT !.vcons = [q.vcons EXCEPT ![i] = entry],
              !.changed = [q.changed EXCEPT ![q.vcons[i].uuid] = C]]

\* What another entry for a vCon changes in a request.
LEMMA ReplacedFields ==
    ASSUME NEW q, TypedRequest(q), NEW i \in DOMAIN q.vcons,
           NEW entry \in Entry, NEW C \in SUBSET Nat,
           NEW p, p = Replaced(q, i, entry, C)
    PROVE  /\ TypedRequest(p)
           /\ p.at = q.at /\ p.commit = q.commit /\ p.next = q.next
           /\ p.saved = q.saved /\ p.readonly = q.readonly
           /\ DOMAIN p.vcons = DOMAIN q.vcons /\ p.vcons[i] = entry
           /\ \A k \in DOMAIN q.vcons : k # i => p.vcons[k] = q.vcons[k]
           /\ p.changed = [q.changed EXCEPT ![q.vcons[i].uuid] = C]
<1> DEFINE u == q.vcons[i].uuid
<1>1. /\ q \in ProcessRequest
      /\ q.vcons \in Seq(Entry)
      /\ DOMAIN q.vcons = 1 .. Len(q.vcons)
      /\ q.changed \in [Uuid -> SUBSET Nat]
      /\ u \in Uuid
  BY RequestTypes DEF TypedRequest, Entry
<1>2. /\ p.vcons = [q.vcons EXCEPT ![i] = entry]
      /\ p.changed = [q.changed EXCEPT ![u] = C]
      /\ p.at = q.at /\ p.commit = q.commit /\ p.next = q.next
      /\ p.saved = q.saved /\ p.readonly = q.readonly
  BY ONLY <1>1, p = Replaced(q, i, entry, C) DEF Replaced, ProcessRequest
<1>3. /\ p.vcons \in Seq(Entry) /\ Len(p.vcons) = Len(q.vcons)
      /\ DOMAIN p.vcons = DOMAIN q.vcons
      /\ p.vcons[i] = entry
      /\ \A k \in DOMAIN q.vcons : k # i => p.vcons[k] = q.vcons[k]
  BY ONLY <1>1, <1>2, ReplacedEntry, i \in DOMAIN q.vcons, entry \in Entry
<1>4. p.changed \in [Uuid -> SUBSET Nat]
  BY ONLY <1>1, <1>2, C \in SUBSET Nat
<1>5. p \in ProcessRequest
  BY ONLY <1>1, <1>2, <1>3, <1>4, p = Replaced(q, i, entry, C)
     DEF Replaced, ProcessRequest
<1>6. TypedRequest(p)
  BY <1>2, <1>3, <1>5 DEF TypedRequest
<1>7. QED
  BY ONLY <1>2, <1>3, <1>6

\* Another entry for a vCon keeps a request in order, when it is in order, it is
\* marked as updated only if it may be, and the dict that was saved stays.
LEMMA EntryReplacedOK ==
    ASSUME NEW q, RequestOK(q), q.at \in Busy, NEW i \in DOMAIN q.vcons,
           NEW entry \in Entry, NEW C \in SUBSET Nat, EntryOK(entry, C),
           entry.uuid = q.vcons[i].uuid,
           entry.locked = q.vcons[i].locked,
           q.vcons[i].update => entry.update,
           entry.update # q.vcons[i].update =>
               q.at = "process" /\ q.vcons[i].locked,
           i < q.next /\ entry.update =>
               entry.forms["DICT"] = q.vcons[i].forms["DICT"],
           NEW p, p = Replaced(q, i, entry, C)
    PROVE  RequestOK(p)
<1> DEFINE u == q.vcons[i].uuid
<1>0. /\ q.changed \in [Uuid -> SUBSET Nat]
      /\ \A k \in DOMAIN q.vcons : q.vcons[k] \in Entry /\ q.vcons[k].uuid \in Uuid
      /\ u \in Uuid
  BY RequestTypes DEF RequestOK, Entry
<1>1. /\ TypedRequest(p)
      /\ p.at = q.at /\ p.commit = q.commit /\ p.next = q.next
      /\ p.saved = q.saved /\ p.readonly = q.readonly
      /\ p.changed = [q.changed EXCEPT ![u] = C]
  BY ReplacedFields DEF RequestOK
<1>2. /\ DOMAIN p.vcons = DOMAIN q.vcons
      /\ p.vcons[i] = entry
      /\ \A k \in DOMAIN q.vcons : k # i => p.vcons[k] = q.vcons[k]
  BY <1>1, ReplacedFields DEF RequestOK
<1>3. /\ \A k \in DOMAIN q.vcons : p.vcons[k].uuid = q.vcons[k].uuid
      /\ \A k \in DOMAIN q.vcons : p.vcons[k].locked = q.vcons[k].locked
  BY <1>2
<1>4. \A j, k \in DOMAIN q.vcons : q.vcons[j].uuid = q.vcons[k].uuid => j = k
  BY DEF RequestOK, VconsOK
<1>5. VconsOK(p)
  <2>1. ASSUME NEW k \in DOMAIN q.vcons
        PROVE  EntryOK(p.vcons[k], p.changed[p.vcons[k].uuid])
    <3>1. CASE k = i
      BY <1>0, <1>1, <1>2, <3>1
    <3>2. CASE k # i
      <4>1. q.vcons[k].uuid # u
        BY <1>4, <3>2
      <4>2. p.changed[q.vcons[k].uuid] = q.changed[q.vcons[k].uuid]
        BY ONLY <1>0, <1>1, <4>1
      <4>3. EntryOK(q.vcons[k], q.changed[q.vcons[k].uuid])
        BY DEF RequestOK, VconsOK
      <4>4. QED
        BY <1>2, <3>2, <4>2, <4>3
    <3>3. QED
      BY <3>1, <3>2
  <2>2. QED
    BY ONLY <1>2, <1>3, <1>4, <2>1 DEF VconsOK
<1>6. ReadonlyOK(p)
  <2>1. ReadonlyOK(q)
    BY DEF RequestOK
  <2>2. u \in q.readonly => entry.update = q.vcons[i].update
    BY <2>1 DEF ReadonlyOK
  <2>3. ASSUME NEW k \in DOMAIN q.vcons, p.vcons[k].uuid \in p.readonly
        PROVE  ~p.vcons[k].locked /\ ~p.vcons[k].update
    <3>1. CASE k = i
      BY <1>1, <1>2, <2>1, <2>2, <2>3, <3>1 DEF ReadonlyOK
    <3>2. CASE k # i
      BY <1>1, <1>2, <2>1, <2>3, <3>2 DEF ReadonlyOK
    <3>3. QED
      BY <3>1, <3>2
  <2>4. QED
    BY ONLY <1>1, <1>2, <1>3, <2>1, <2>3 DEF ReadonlyOK
<1>7. \A k \in DOMAIN q.vcons : q.vcons[k].update => p.vcons[k].update
  BY <1>2
<1>8. ChangedOK(p)
  <2>1. ASSUME NEW w \in Uuid, p.changed[w] # {}
        PROVE  \E k \in DOMAIN p.vcons :
                   p.vcons[k].uuid = w /\ p.vcons[k].update
    <3>1. CASE w = u
      <4>1. C # {}
        BY <1>0, <1>1, <2>1, <3>1
      <4>2. entry.update
        BY <4>1 DEF EntryOK
      <4>3. QED
        BY <1>2, <3>1, <4>2
    <3>2. CASE w # u
      <4>1. q.changed[w] # {}
        BY <1>0, <1>1, <2>1, <3>2
      <4>2. PICK k \in DOMAIN q.vcons : q.vcons[k].uuid = w /\ q.vcons[k].update
        BY <4>1 DEF RequestOK, ChangedOK
      <4>3. QED
        BY <1>2, <1>3, <1>7, <4>2
    <3>3. QED
      BY <3>1, <3>2
  <2>2. p.at \notin {"idle"} \cup Failed
    BY <1>1 DEF Busy, Failed
  <2>3. QED
    BY <2>1, <2>2 DEF ChangedOK
<1>9. SavedOK(p)
  <2>1. SavedOK(q)
    BY DEF RequestOK
  <2>2. CASE q.at = "process"
    BY <1>1, <2>1, <2>2 DEF SavedOK
  <2>3. CASE q.at \in {"commit", "output"}
    <3>1. \A k \in DOMAIN q.vcons : p.vcons[k].update = q.vcons[k].update
      BY <1>2, <2>3
    <3>2. \A k \in DOMAIN q.vcons : p.vcons[k].update /\ k < q.next =>
              p.vcons[k].forms["DICT"] = q.vcons[k].forms["DICT"]
      BY <1>2
    <3>3. SavedBelow(p)
      BY ONLY <1>1, <1>2, <1>3, <2>1, <2>3, <3>1, <3>2 DEF SavedOK, SavedBelow
    <3>4. QED
      BY ONLY <1>1, <1>2, <2>1, <2>3, <3>1, <3>3 DEF SavedOK, Failed
  <2>4. QED
    BY <2>2, <2>3 DEF Busy
<1>10. AnswerOK(p)
  BY <1>1 DEF AnswerOK, Busy
<1>11. QED
  BY <1>1, <1>5, <1>6, <1>8, <1>9, <1>10 DEF RequestOK

\* A request that was received is in order.
LEMMA ReceivedOK ==
    ASSUME NEW route \in Range(Processors), NEW u \in Uuid, NEW q,
           q = [Idle EXCEPT
                   !.at = "process",
                   !.route = route,
                   !.ran = Processors[Len(Processors)],
                   !.vcons = <<[uuid |-> u, forms |-> NoForms,
                                locked |-> TRUE, update |-> FALSE,
                                touched |-> FALSE]>>]
    PROVE  RequestOK(q)
<1> DEFINE entry == [uuid |-> u, forms |-> NoForms,
                     locked |-> TRUE, update |-> FALSE, touched |-> FALSE]
<1>1. entry \in Entry
  BY DEF Entry, Forms, NoForms
<1>2. /\ q.at = "process" /\ q.vcons = <<entry>> /\ q.next = 1
      /\ q.saved = NoVersions
      /\ q.changed = [w \in Uuid |-> {}] /\ q.readonly = {}
  BY DEF Idle
<1>3. Processors[Len(Processors)] \in Range(Processors)
  BY ProcessingAssumption DEF Range
<1>4. q \in ProcessRequest
  <2>1. /\ <<entry>> \in Seq(Entry) /\ NoVersions \in [Uuid -> Nat]
        /\ [w \in Uuid |-> {}] \in [Uuid -> SUBSET Nat]
        /\ {} \in SUBSET [uuid : Uuid, version : Nat] /\ {} \in SUBSET Uuid
    BY <1>1 DEF NoVersions
  <2>2. QED
    BY <1>3, <2>1 DEF Idle, ProcessRequest
<1>5. TypedRequest(q)
  BY <1>2, <1>4 DEF TypedRequest
<1>6. VconsOK(q)
  <2>1. EntryOK(entry, {})
    BY DEF EntryOK, NoForms
  <2>2. DOMAIN q.vcons = {1} /\ q.vcons[1] = entry /\ q.changed[u] = {}
        /\ entry.uuid = u
    BY <1>2
  <2> HIDE DEF entry
  <2>3. QED
    BY <2>1, <2>2 DEF VconsOK
<1>7. ReadonlyOK(q) /\ ChangedOK(q) /\ SavedOK(q) /\ AnswerOK(q)
  BY <1>2 DEF ReadonlyOK, ChangedOK, SavedOK, AnswerOK, Failed
<1>8. QED
  BY <1>5, <1>6, <1>7 DEF RequestOK

\* What add_vcon makes of a request.
Added(q, u, form, locked, readonly, v) ==
    [q EXCEPT
        !.vcons = Append(@, [uuid    |-> u,
                             forms   |-> FormsOf(form, v),
                             locked  |-> locked,
                             update  |-> ~locked /\ ~readonly,
                             touched |-> FALSE]),
        !.changed[u] = IF ~locked /\ ~readonly THEN {v} ELSE {},
        !.readonly = IF readonly THEN @ \cup {u} ELSE @]

\* A vCon that the request does not have yet can be added.
LEMMA AddedOK ==
    ASSUME NEW q, RequestOK(q), q.at = "process", NEW u \in Uuid,
           \A i \in DOMAIN q.vcons : q.vcons[i].uuid # u,
           NEW form \in Form \cup {"UUID"},
           NEW locked \in BOOLEAN, NEW readonly \in BOOLEAN, NEW v \in Nat,
           form = "UUID" <=> v = 0, ~(locked /\ readonly), NEW p,
           p = Added(q, u, form, locked, readonly, v)
    PROVE  RequestOK(p)
<1> DEFINE new == ~locked /\ ~readonly
           C == IF new THEN {v} ELSE {}
           entry == [uuid |-> u, forms |-> FormsOf(form, v),
                     locked |-> locked, update |-> new, touched |-> FALSE]
           n == Len(q.vcons) + 1
<1>0. /\ q \in ProcessRequest
      /\ q.vcons \in Seq(Entry)
      /\ DOMAIN q.vcons = 1 .. Len(q.vcons)
      /\ Len(q.vcons) \in Nat
      /\ q.next \in Nat /\ q.next = 1
      /\ q.changed \in [Uuid -> SUBSET Nat]
      /\ q.readonly \in SUBSET Uuid
      /\ q.saved = NoVersions
      /\ \A k \in DOMAIN q.vcons : q.vcons[k] \in Entry
  BY RequestTypes DEF RequestOK, TypedRequest, SavedOK
<1>1. FormsOf(form, v) \in Forms
  BY HandedOverOK
<1>2. /\ entry \in Entry /\ entry.uuid = u /\ entry.update = new
      /\ entry.forms = FormsOf(form, v) /\ entry.locked = locked
      /\ ~entry.touched
  BY <1>1 DEF Entry
<1>3. EntryOK(entry, C)
  BY <1>2, HandedOverOK
<1>4. /\ p.vcons = Append(q.vcons, entry)
      /\ p.changed = [q.changed EXCEPT ![u] = C]
      /\ p.readonly = IF readonly THEN q.readonly \cup {u} ELSE q.readonly
      /\ p.at = q.at /\ p.next = q.next /\ p.saved = q.saved
  BY <1>0 DEF Added, ProcessRequest
<1>5. C \in SUBSET Nat
  OBVIOUS
<1> HIDE DEF entry
<1>6. p \in ProcessRequest
  <2>1. Append(q.vcons, entry) \in Seq(Entry)
    BY <1>0, <1>2
  <2>2. [q.changed EXCEPT ![u] = C] \in [Uuid -> SUBSET Nat]
    BY ONLY <1>0, <1>5
  <2>3. q.readonly \cup {u} \in SUBSET Uuid
    BY ONLY <1>0, u \in Uuid
  <2>4. p = [q EXCEPT !.vcons = Append(q.vcons, entry),
                      !.changed = [q.changed EXCEPT ![u] = C],
                      !.readonly = IF readonly THEN q.readonly \cup {u}
                                               ELSE q.readonly]
    BY ONLY <1>0, p = Added(q, u, form, locked, readonly, v)
       DEF Added, ProcessRequest, entry
  <2> HIDE DEF C, new
  <2>5. QED
    BY ONLY <1>0, <2>1, <2>2, <2>3, <2>4 DEF ProcessRequest
<1>7. /\ p.vcons \in Seq(Entry) /\ Len(p.vcons) = n
      /\ DOMAIN p.vcons = DOMAIN q.vcons \cup {n}
      /\ p.vcons[n] = entry
      /\ \A k \in DOMAIN q.vcons : p.vcons[k] = q.vcons[k]
  BY <1>0, <1>2, <1>4
<1>8. TypedRequest(p)
  BY <1>0, <1>4, <1>6, <1>7 DEF TypedRequest
<1>9. /\ p.changed[u] = C
      /\ \A w \in Uuid : w # u => p.changed[w] = q.changed[w]
  BY ONLY <1>0, <1>4, u \in Uuid
<1> HIDE DEF C
<1>10. VconsOK(p)
  <2>1. ASSUME NEW k \in DOMAIN q.vcons
        PROVE  EntryOK(p.vcons[k], p.changed[p.vcons[k].uuid])
    <3>1. q.vcons[k].uuid \in Uuid /\ q.vcons[k].uuid # u
      BY <1>0 DEF Entry
    <3>2. EntryOK(q.vcons[k], q.changed[q.vcons[k].uuid])
      BY DEF RequestOK, VconsOK
    <3>3. QED
      BY ONLY <1>7, <1>9, <3>1, <3>2, k \in DOMAIN q.vcons
  <2>2. EntryOK(p.vcons[n], p.changed[p.vcons[n].uuid])
    BY ONLY <1>2, <1>3, <1>7, <1>9
  <2>3. \A j, k \in DOMAIN p.vcons : p.vcons[j].uuid = p.vcons[k].uuid => j = k
    <3>1. \A j, k \in DOMAIN q.vcons :
              q.vcons[j].uuid = q.vcons[k].uuid => j = k
      BY DEF RequestOK, VconsOK
    <3>2. QED
      BY <1>2, <1>7, <3>1
  <2>4. QED
    BY ONLY <1>7, <2>1, <2>2, <2>3 DEF VconsOK
<1>11. ReadonlyOK(p)
  <2>1. u \notin q.readonly /\ ReadonlyOK(q)
    BY DEF RequestOK, ReadonlyOK, Busy
  <2>2. \A w \in p.readonly : p.saved[w] = 0
    BY <1>0, <1>4, <1>6 DEF NoVersions, ProcessRequest
  <2>3. QED
    BY <1>2, <1>4, <1>7, <2>1, <2>2 DEF ReadonlyOK, Busy
<1>12. ChangedOK(p)
  <2>1. ASSUME NEW w \in Uuid, p.changed[w] # {}
        PROVE  \E k \in DOMAIN p.vcons :
                   p.vcons[k].uuid = w /\ p.vcons[k].update
    <3>1. CASE w = u
      <4>1. new
        BY <1>9, <2>1, <3>1 DEF C
      <4>2. QED
        BY <1>2, <1>7, <3>1, <4>1
    <3>2. CASE w # u
      <4>1. q.changed[w] # {}
        BY <1>9, <2>1, <3>2
      <4>2. PICK k \in DOMAIN q.vcons : q.vcons[k].uuid = w /\ q.vcons[k].update
        BY <4>1 DEF RequestOK, ChangedOK, Busy
      <4>3. QED
        BY <1>7, <4>2
    <3>3. QED
      BY <3>1, <3>2
  <2>2. QED
    BY <1>4, <2>1 DEF ChangedOK, Failed
<1>13. SavedOK(p) /\ AnswerOK(p)
  BY <1>0, <1>4 DEF SavedOK, AnswerOK, Failed
<1>14. QED
  BY <1>8, <1>10, <1>11, <1>12, <1>13 DEF RequestOK

\* A processor that returns, and a commit that has saved everything, leave a
\* request in order.
LEMMA ContinuedOK ==
    ASSUME NEW q, RequestOK(q), NEW at \in {"commit", "output"},
           NEW commit \in BOOLEAN,
           \/ q.at = "process" /\ at = IF commit THEN "commit" ELSE "output"
           \/ /\ q.at = "commit" /\ at = "output" /\ commit = q.commit
              /\ \A i \in DOMAIN q.vcons : q.vcons[i].update => i < q.next
    PROVE  RequestOK([q EXCEPT !.at = at, !.commit = commit])
<1> DEFINE p == [q EXCEPT !.at = at, !.commit = commit]
<1>1. /\ p.at = at /\ p.vcons = q.vcons /\ p.next = q.next
      /\ p.changed = q.changed /\ p.saved = q.saved /\ p.readonly = q.readonly
      /\ p.commit = commit
  BY DEF RequestOK, TypedRequest, ProcessRequest
<1>2. p \in ProcessRequest
  BY DEF RequestOK, TypedRequest, ProcessRequest
<1>3. q.at \in Busy
  BY DEF Busy
<1> HIDE DEF p
<1>4. TypedRequest(p)
  BY <1>1, <1>2 DEF RequestOK, TypedRequest
<1>5. VconsOK(p)
  BY <1>1 DEF RequestOK, VconsOK
<1>6. ReadonlyOK(p)
  BY <1>1, <1>3 DEF RequestOK, ReadonlyOK
<1>7. ChangedOK(p)
  BY <1>1, <1>3 DEF RequestOK, ChangedOK, Failed
<1>8. SavedOK(p)
  <2>1. CASE q.at = "process"
    <3>1. q.saved = NoVersions /\ q.next = 1
      BY <2>1 DEF RequestOK, SavedOK
    <3>2. SavedBelow(p)
      BY <1>1, <3>1, RequestTypes DEF RequestOK, SavedBelow, NoVersions
    <3>3. QED
      BY <1>1, <2>1, <3>1, <3>2 DEF SavedOK, Failed
  <2>2. CASE q.at = "commit"
    <3>1. SavedBelow(p)
      BY <1>1, <2>2 DEF RequestOK, SavedOK, SavedBelow
    <3>2. QED
      BY <1>1, <2>2, <3>1 DEF RequestOK, SavedOK, Failed
  <2>3. QED
    BY <2>1, <2>2
<1>9. AnswerOK(p)
  BY <1>1 DEF AnswerOK
<1>10. QED
  BY <1>4, <1>5, <1>6, <1>7, <1>8, <1>9 DEF RequestOK, p

\* Saving the first vCon that is still to be saved keeps a request in order.
LEMMA SavedNextOK ==
    ASSUME NEW q, RequestOK(q), q.at = "commit", NEW i \in DOMAIN q.vcons,
           q.vcons[i].update, i >= q.next, q.vcons[i].forms["DICT"] # 0,
           \A k \in DOMAIN q.vcons :
               k >= q.next /\ q.vcons[k].update => i <= k,
           NEW p, p = [q EXCEPT
                          !.next = i + 1,
                          !.saved[q.vcons[i].uuid] = q.vcons[i].forms["DICT"]]
    PROVE  /\ RequestOK(p)
           /\ q.saved[q.vcons[i].uuid] = 0
<1> DEFINE u == q.vcons[i].uuid
           v == q.vcons[i].forms["DICT"]
<1>0. /\ q \in ProcessRequest
      /\ DOMAIN q.vcons = 1 .. Len(q.vcons)
      /\ Len(q.vcons) \in Nat
      /\ q.next \in Nat
      /\ q.saved \in [Uuid -> Nat]
      /\ \A k \in DOMAIN q.vcons : q.vcons[k] \in Entry
  BY RequestTypes DEF RequestOK, TypedRequest
<1>1. /\ p.at = "commit" /\ p.vcons = q.vcons /\ p.next = i + 1
      /\ p.changed = q.changed /\ p.saved = [q.saved EXCEPT ![u] = v]
      /\ p.readonly = q.readonly /\ p.commit = q.commit
  BY <1>0 DEF ProcessRequest
<1>2. u \in Uuid /\ v \in Nat /\ i + 1 \in Nat
  BY <1>0 DEF Entry, Forms, Form
<1>3. p.saved \in [Uuid -> Nat]
  BY ONLY <1>0, <1>1, <1>2
<1>4. p \in ProcessRequest
  <2>1. p = [q EXCEPT !.next = i + 1, !.saved = [q.saved EXCEPT ![u] = v]]
    BY <1>0 DEF ProcessRequest
  <2>2. QED
    BY ONLY <1>0, <1>1, <1>2, <1>3, <2>1 DEF ProcessRequest
<1>5. TypedRequest(p)
  BY <1>0, <1>1, <1>4 DEF TypedRequest
<1>6. VconsOK(p)
  BY <1>1 DEF RequestOK, VconsOK
<1>7. SavedBelow(q) /\ ReadonlyOK(q)
  BY DEF RequestOK, SavedOK
<1>8. ASSUME NEW k \in DOMAIN q.vcons, k # i
      PROVE  q.vcons[k].uuid # u /\ q.vcons[k].uuid \in Uuid
  BY <1>0, <1>8 DEF RequestOK, VconsOK, Entry
<1>9. q.saved[u] = 0
  BY <1>0, <1>2, <1>7, <1>8 DEF SavedBelow
<1>10. /\ p.saved[u] = v
       /\ \A w \in Uuid : w # u => p.saved[w] = q.saved[w]
  BY ONLY <1>0, <1>1, <1>2
<1>11. ReadonlyOK(p)
  <2>1. u \notin q.readonly
    BY <1>7 DEF ReadonlyOK
  <2>2. \A w \in q.readonly : w \in Uuid /\ p.saved[w] = 0
    BY <1>0, <1>7, <1>10, <2>1 DEF ReadonlyOK, ProcessRequest
  <2>3. QED
    BY ONLY <1>1, <1>7, <2>2, q.at = "commit" DEF ReadonlyOK
<1>12. ChangedOK(p)
  BY <1>1 DEF RequestOK, ChangedOK
<1>13. SavedBelow(p)
  <2>1. ASSUME NEW w \in Uuid, p.saved[w] # 0
        PROVE  \E k \in DOMAIN p.vcons :
                   p.vcons[k].uuid = w /\ p.vcons[k].update /\ k < p.next
    <3>1. CASE w = u
      BY <1>0, <1>1, <3>1
    <3>2. CASE w # u
      <4>1. PICK k \in DOMAIN q.vcons :
                q.vcons[k].uuid = w /\ q.vcons[k].update /\ k < q.next
        BY <1>7, <1>10, <2>1, <3>2 DEF SavedBelow
      <4>2. k < i + 1
        BY <1>0, <4>1
      <4>3. QED
        BY <1>1, <4>1, <4>2
    <3>3. QED
      BY <3>1, <3>2
  <2>2. ASSUME NEW k \in DOMAIN p.vcons, p.vcons[k].update, k < p.next
        PROVE  /\ p.saved[p.vcons[k].uuid] # 0
               /\ p.saved[p.vcons[k].uuid] = p.vcons[k].forms["DICT"]
    <3>1. CASE k = i
      BY <1>1, <1>10, <3>1
    <3>2. CASE k # i
      <4>1. k < q.next
        <5>1. k \in Nat /\ i \in Nat /\ k < i + 1
          BY <1>0, <1>1, <2>2
        <5>2. k >= q.next => i <= k
          BY <1>1, <2>2
        <5>3. QED
          BY <1>0, <3>2, <5>1, <5>2
      <4>2. /\ q.saved[q.vcons[k].uuid] # 0
            /\ q.saved[q.vcons[k].uuid] = q.vcons[k].forms["DICT"]
        BY <1>1, <1>7, <2>2, <4>1 DEF SavedBelow
      <4>3. QED
        BY <1>1, <1>8, <1>10, <3>2, <4>2
    <3>3. QED
      BY <3>1, <3>2
  <2>3. QED
    BY ONLY <2>1, <2>2 DEF SavedBelow
<1>14. SavedOK(p) /\ AnswerOK(p)
  BY <1>1, <1>13 DEF RequestOK, SavedOK, AnswerOK, Failed
<1>15. QED
  BY <1>5, <1>6, <1>9, <1>11, <1>12, <1>14 DEF RequestOK

\* The answer to a request in order: its dicts.
LEMMA AnsweredOK ==
    ASSUME NEW q, RequestOK(q), q.at = "output",
           \A i \in DOMAIN q.vcons : ~Unread(q.vcons[i]), NEW p,
           p = [q EXCEPT
                   !.at = "200",
                   !.vcons = <<>>,
                   !.next = 1,
                   !.output =
                       {[uuid    |-> entry.uuid,
                         version |-> WithForm(entry.forms, "DICT")["DICT"]] :
                            entry \in Range(q.vcons)}]
    PROVE  /\ RequestOK(p)
           /\ q.commit => \A u \in Uuid : q.changed[u] # {} => q.saved[u] # 0
<1> DEFINE answer(entry) ==
               [uuid    |-> entry.uuid,
                version |-> WithForm(entry.forms, "DICT")["DICT"]]
<1>0. /\ q \in ProcessRequest
      /\ DOMAIN q.vcons = 1 .. Len(q.vcons)
      /\ q.changed \in [Uuid -> SUBSET Nat]
      /\ q.saved \in [Uuid -> Nat]
      /\ \A k \in DOMAIN q.vcons : q.vcons[k] \in Entry
  BY RequestTypes DEF RequestOK, TypedRequest
<1>1. /\ p.at = "200" /\ p.vcons = <<>> /\ p.next = 1 /\ p.changed = q.changed
      /\ p.saved = q.saved /\ p.readonly = q.readonly /\ p.commit = q.commit
      /\ p.output = {answer(entry) : entry \in Range(q.vcons)}
  BY <1>0 DEF ProcessRequest
<1>2. SavedBelow(q)
  BY DEF RequestOK, SavedOK
<1>3. ASSUME NEW k \in DOMAIN q.vcons
      PROVE  LET u   == q.vcons[k].uuid
                 out == answer(q.vcons[k]).version
             IN  /\ u \in Uuid /\ out \in Nat
                 /\ q.changed[u] # {} => out \in q.changed[u]
                 /\ q.saved[u] # 0 => out = q.saved[u]
  <2> DEFINE u == q.vcons[k].uuid
             forms == q.vcons[k].forms
             out == WithForm(forms, "DICT")["DICT"]
  <2>1. EntryOK(q.vcons[k], q.changed[u])
    BY DEF RequestOK, VconsOK
  <2>2. u \in Uuid /\ forms \in Forms /\ "DICT" \in Form /\ forms # NoForms
    BY <1>0 DEF Entry, Form, Unread
  <2>3. Among(forms, Nat)
    BY <2>2 DEF Among, Forms
  <2>4. /\ out \in Nat
        /\ forms["DICT"] # 0 => out = forms["DICT"]
        /\ out # 0
    BY ONLY <2>2, <2>3, MadeForm DEF Forms
  <2>5. ASSUME q.changed[u] # {}
        PROVE  out \in q.changed[u]
    <3>1. Among(forms, q.changed[u])
      BY <2>1, <2>5 DEF EntryOK
    <3>2. Among(WithForm(forms, "DICT"), q.changed[u])
      BY ONLY <2>2, <3>1, MadeForm
    <3>3. QED
      BY ONLY <2>2, <2>4, <3>2 DEF Among
  <2>6. ASSUME q.saved[u] # 0
        PROVE  out = q.saved[u]
    <3>1. PICK j \in DOMAIN q.vcons :
              q.vcons[j].uuid = u /\ q.vcons[j].update /\ j < q.next
      BY <1>2, <2>2, <2>6 DEF SavedBelow
    <3>2. j = k
      BY <3>1 DEF RequestOK, VconsOK
    <3>3. q.saved[u] = forms["DICT"]
      BY <1>2, <3>1, <3>2 DEF SavedBelow
    <3>4. QED
      BY <2>4, <2>6, <3>3
  <2>7. answer(q.vcons[k]).version = out
    OBVIOUS
  <2> HIDE DEF out, forms
  <2>8. QED
    BY ONLY <2>2, <2>4, <2>5, <2>6, <2>7
<1>4. ASSUME NEW out \in p.output
      PROVE  /\ out \in [uuid : Uuid, version : Nat]
             /\ q.changed[out.uuid] # {} => out.version \in q.changed[out.uuid]
             /\ q.saved[out.uuid] # 0 => out.version = q.saved[out.uuid]
  <2>1. PICK k \in DOMAIN q.vcons : out = answer(q.vcons[k])
    BY <1>1 DEF Range
  <2>2. out.uuid = q.vcons[k].uuid
    BY <2>1
  <2>3. QED
    BY <1>3, <2>1, <2>2
<1> HIDE DEF answer
<1>5. p \in ProcessRequest
  <2> DEFINE answers == {answer(entry) : entry \in Range(q.vcons)}
  <2>1. answers \in SUBSET [uuid : Uuid, version : Nat]
    BY <1>1, <1>4
  <2>2. <<>> \in Seq(Entry)
    OBVIOUS
  <2>3. p = [q EXCEPT !.at = "200", !.vcons = <<>>, !.next = 1,
                      !.output = answers]
    BY DEF answer
  <2> HIDE DEF answers
  <2>4. QED
    BY ONLY <1>0, <2>1, <2>2, <2>3 DEF ProcessRequest
<1>6. TypedRequest(p)
  BY <1>1, <1>5 DEF TypedRequest
<1>7. VconsOK(p) /\ ChangedOK(p) /\ SavedOK(p)
  BY <1>1 DEF VconsOK, ChangedOK, SavedOK, Busy, Failed
<1>8. ReadonlyOK(p)
  BY <1>1 DEF RequestOK, ReadonlyOK, Busy
<1>9. ASSUME NEW u \in Uuid
      PROVE  q.saved[u] # 0 <=> q.commit /\ q.changed[u] # {}
  <2>1. ASSUME q.saved[u] # 0
        PROVE  q.commit /\ q.changed[u] # {}
    <3>1. PICK k \in DOMAIN q.vcons :
              q.vcons[k].uuid = u /\ q.vcons[k].update /\ k < q.next
      BY <1>2, <2>1 DEF SavedBelow
    <3>2. q.next # 1
      BY <1>0, <3>1
    <3>3. q.changed[u] # {}
      BY <3>1 DEF RequestOK, VconsOK, EntryOK
    <3>4. QED
      BY <3>2, <3>3 DEF RequestOK, SavedOK
  <2>2. ASSUME q.commit, q.changed[u] # {}
        PROVE  q.saved[u] # 0
    <3>1. PICK k \in DOMAIN q.vcons : q.vcons[k].uuid = u /\ q.vcons[k].update
      BY <2>2 DEF RequestOK, ChangedOK, Busy
    <3>2. k < q.next
      BY <2>2, <3>1 DEF RequestOK, SavedOK
    <3>3. QED
      BY <1>2, <3>1, <3>2 DEF SavedBelow
  <2>3. QED
    BY <2>1, <2>2
<1>10. AnswerOK(p)
  BY <1>1, <1>4, <1>9 DEF AnswerOK
<1>11. QED
  BY <1>6, <1>7, <1>8, <1>9, <1>10 DEF RequestOK

-----------------------------------------------------------------------------
(***************************************************************************)
(* The steps.                                                              *)
(***************************************************************************)

StorageTypeOK ==
    /\ version \in Nat
    /\ stored \in [Uuid -> 0 .. version]

\* A step of one request keeps the invariant when that request stays in order.
LEMMA LocalStep ==
    ASSUME ProcessingInv, NEW r \in Request, NEW now, RequestOK(now),
           Local(r, now), Bounded(now, version'), StorageTypeOK',
           version' >= version
    PROVE  ProcessingInv'
<1>1. request' = [request EXCEPT ![r] = now]
  BY DEF Local
<1>2. request' = [s \in Request |-> request'[s]]
  BY <1>1 DEF ProcessingInv
<1>3. \A s \in Request : RequestOK(request'[s])
  BY <1>1 DEF ProcessingInv
<1>4. ASSUME NEW s \in Request
      PROVE  Bounded(request'[s], version')
  <2>1. CASE s = r
    BY <1>1, <2>1 DEF ProcessingInv
  <2>2. CASE s # r
    <3>1. request'[s] = request[s] /\ Bounded(request[s], version)
      BY <1>1, <2>2 DEF ProcessingInv
    <3>2. request[s].changed \in [Uuid -> SUBSET Nat]
      BY RequestTypes DEF ProcessingInv, RequestOK
    <3>3. version \in Nat /\ version' \in Nat
      BY DEF ProcessingInv, StorageTypeOK
    <3>4. QED
      BY <3>1, <3>2, <3>3 DEF Bounded
  <2>3. QED
    BY <2>1, <2>2
<1>5. QED
  BY <1>2, <1>3, <1>4 DEF ProcessingInv, StorageTypeOK

\* Storage keeps its type: it is left alone, or a version is handed over.
LEMMA StorageStep ==
    ASSUME ProcessingInv
    PROVE  /\ UNCHANGED <<stored, version>> => StorageTypeOK' /\ version' >= version
           /\ \A v \in Nat : Made(v) /\ UNCHANGED stored =>
                  /\ StorageTypeOK' /\ version' >= version
                  /\ v <= version' /\ v <= MaxVersions
BY DEF ProcessingInv, StorageTypeOK, Made

\* Making a form of an entry from those it holds keeps the entry in order.
LEMMA MadeFormOK ==
    ASSUME NEW entry \in Entry, NEW C, EntryOK(entry, C), ~Unread(entry),
           NEW form \in Form, NEW made,
           made = [entry EXCEPT !.forms = WithForm(entry.forms, form)]
    PROVE  /\ made \in Entry /\ EntryOK(made, C)
           /\ made.uuid = entry.uuid /\ made.locked = entry.locked
           /\ made.update = entry.update
           /\ made.forms = WithForm(entry.forms, form)
           /\ made.forms[form] # 0
           /\ \A f \in Form :
                  entry.forms[f] # 0 => made.forms[f] = entry.forms[f]
<1>1. entry.forms \in Forms /\ entry.forms # NoForms
  BY DEF Entry, Unread
<1>2. \A S : Among(entry.forms, S) => Among(WithForm(entry.forms, form), S)
  BY <1>1, MadeForm
<1>3. /\ WithForm(entry.forms, form) \in Forms
      /\ WithForm(entry.forms, form)[form] # 0
      /\ \A f \in Form : entry.forms[f] # 0 =>
             WithForm(entry.forms, form)[f] = entry.forms[f]
  <2>1. Among(entry.forms, Nat)
    BY <1>1 DEF Among, Forms
  <2>2. QED
    BY ONLY <1>1, <2>1, MadeForm, form \in Form
<1>4. /\ made \in Entry
      /\ made.uuid = entry.uuid /\ made.locked = entry.locked
      /\ made.update = entry.update /\ made.touched = entry.touched
      /\ made.forms = WithForm(entry.forms, form)
  BY <1>3 DEF Entry
<1>5. ~Unread(made)
  BY <1>3, <1>4 DEF Unread, NoForms
<1>6. ASSUME ~entry.touched
      PROVE  \E w : Among(made.forms, {w})
  <2>1. PICK f \in Form : entry.forms[f] # 0
    BY <1>1 DEF Forms, NoForms
  <2>2. Among(entry.forms, {entry.forms[f]})
    BY <1>6, <2>1 DEF EntryOK, Among
  <2>3. QED
    BY <1>2, <1>4, <2>2
<1>7. entry.update => Among(made.forms, C)
  BY <1>2, <1>4 DEF EntryOK
<1>8. EntryOK(made, C)
  BY <1>4, <1>5, <1>6, <1>7 DEF EntryOK, Among
<1>9. QED
  BY <1>3, <1>4, <1>8

\* get_vcon keeps a request in order.  What is read of a vCon that is to be
\* saved is what was changed.
LEMMA GetOK ==
    ASSUME ProcessingInv, NEW r \in Request, NEW form \in Form,
           request[r].at \in Busy,
           NEW i \in DOMAIN request[r].vcons, Get(r, i, form),
           Unread(request[r].vcons[i]) => stored[request[r].vcons[i].uuid] # 0
    PROVE  LET q     == request[r]
               entry == q.vcons[i]
               u     == entry.uuid
           IN  /\ u \in Uuid
               /\ \E now :
                      /\ RequestOK(now) /\ Local(r, now)
                      /\ now.at = q.at /\ now.commit = q.commit
                      /\ now.saved = q.saved
                      /\ \/ now.changed = q.changed
                         \/ /\ now.changed =
                                   [q.changed EXCEPT ![u] = {stored[u]}]
                            /\ q.changed[u] = {0} /\ stored[u] # 0
<1> DEFINE q == request[r]
           entry == q.vcons[i]
           u == entry.uuid
           v == stored[u]
           read == [NoForms EXCEPT !["OBJECT"] = v]
           forms == IF Unread(entry) THEN read ELSE entry.forms
           made == [entry EXCEPT !.forms = WithForm(forms, form)]
           C == IF Unread(entry) /\ entry.update THEN {v} ELSE q.changed[u]
           now == Replaced(q, i, made, C)
<1>1. /\ RequestOK(q) /\ q \in ProcessRequest /\ entry \in Entry
      /\ EntryOK(entry, q.changed[u])
      /\ q.vcons \in Seq(Entry) /\ q.changed \in [Uuid -> SUBSET Nat]
      /\ u \in Uuid
  <2>1. RequestOK(q)
    BY DEF ProcessingInv
  <2>2. TypedRequest(q) /\ VconsOK(q)
    BY ONLY <2>1 DEF RequestOK
  <2>3. entry \in Entry
    BY <2>2, RequestTypes
  <2>4. QED
    BY <2>1, <2>2, <2>3, RequestTypes DEF TypedRequest, VconsOK, Entry
<1>2. v \in Nat /\ C \in SUBSET Nat
  <2>1. v \in Nat
    BY <1>1 DEF ProcessingInv
  <2>2. q.changed[u] \in SUBSET Nat
    BY <1>1
  <2>3. QED
    BY <2>1, <2>2
<1>3. /\ made \in Entry /\ EntryOK(made, C)
      /\ made.uuid = u /\ made.locked = entry.locked
      /\ made.update = entry.update
      /\ entry.forms["DICT"] # 0 => made.forms["DICT"] = entry.forms["DICT"]
  <2>1. CASE Unread(entry)
    <3>1. v # 0
      BY <2>1
    <3>2. /\ read \in Forms /\ Among(read, {v}) /\ read # NoForms
      <4>1. NoForms \in Forms /\ \A f \in Form : NoForms[f] = 0
        BY ONLY DEF Forms, NoForms
      <4>2. /\ read \in Forms
            /\ \A f \in Form : read[f] = IF f = "OBJECT" THEN v ELSE 0
        BY ONLY <1>2, <4>1 DEF Forms
      <4>3. "OBJECT" \in Form
        BY DEF Form
      <4>4. QED
        BY ONLY <3>1, <4>1, <4>2, <4>3 DEF Among
    <3>3. /\ WithForm(forms, form) \in Forms
          /\ Among(WithForm(forms, form), {v})
          /\ WithForm(forms, form)[form] # 0
      BY <2>1, <3>2, MadeForm
    <3>4. /\ made \in Entry /\ made.forms = WithForm(forms, form)
          /\ made.uuid = u /\ made.locked = entry.locked
          /\ made.update = entry.update
      BY <1>1, <3>3 DEF Entry
    <3>5. ~Unread(made)
      BY <3>3, <3>4 DEF Unread, NoForms
    <3>6. C = IF entry.update THEN {v} ELSE {}
      BY <1>1, <2>1 DEF EntryOK
    <3>7. entry.forms["DICT"] = 0
      BY <2>1 DEF Unread, NoForms, Form
    <3> HIDE DEF made, C
    <3>8. EntryOK(made, C)
      BY ONLY <3>1, <3>3, <3>4, <3>5, <3>6 DEF EntryOK, Among
    <3>9. QED
      BY ONLY <3>4, <3>7, <3>8
  <2>2. CASE ~Unread(entry)
    <3>1. made = [entry EXCEPT !.forms = WithForm(entry.forms, form)]
          /\ C = q.changed[u]
      BY <2>2
    <3>2. QED
      BY ONLY <1>1, <2>2, <3>1, MadeFormOK, form \in Form DEF Form
  <2>3. QED
    BY <2>1, <2>2
<1>4. i < q.next /\ entry.update => entry.forms["DICT"] # 0
  <2>1. TypedRequest(q) /\ SavedOK(q)
    BY <1>1 DEF RequestOK
  <2>2. CASE q.at = "process"
    <3>1. q.next = 1 /\ i \in Nat /\ i >= 1
      BY <2>1, <2>2, RequestTypes DEF SavedOK
    <3>2. QED
      BY <3>1
  <2>3. CASE q.at \in {"commit", "output"}
    <3>1. SavedBelow(q)
      BY <2>1, <2>3 DEF SavedOK
    <3>2. QED
      BY <3>1 DEF SavedBelow
  <2>4. QED
    BY <2>2, <2>3 DEF Busy
<1>5. now = [q EXCEPT !.vcons[i].forms = WithForm(forms, form),
                      !.changed[u] = C]
  BY <1>1 DEF Replaced, ProcessRequest
<1>6. Local(r, [q EXCEPT !.vcons[i].forms = WithForm(forms, form),
                         !.changed[u] =
                             IF Unread(entry) /\ entry.update THEN {v} ELSE @])
  BY DEF Get
<1>7. Local(r, now)
  <2>1. [q EXCEPT !.vcons[i].forms = WithForm(forms, form),
                  !.changed[u] =
                      IF Unread(entry) /\ entry.update THEN {v} ELSE @]
            = [q EXCEPT !.vcons[i].forms = WithForm(forms, form),
                        !.changed[u] = C]
    BY <1>1 DEF ProcessRequest
  <2>2. QED
    BY ONLY <1>5, <1>6, <2>1
<1> HIDE DEF made, C, forms
<1>8. /\ RequestOK(now)
      /\ now.at = q.at /\ now.commit = q.commit /\ now.saved = q.saved
      /\ now.changed = [q.changed EXCEPT ![u] = C]
  <2>1. RequestOK(now)
    BY <1>1, <1>2, <1>3, <1>4, EntryReplacedOK
  <2>2. TypedRequest(q) /\ TypedRequest(now)
    BY <1>1, <2>1 DEF RequestOK
  <2>3. /\ now.at = q.at /\ now.commit = q.commit /\ now.saved = q.saved
        /\ now.changed = [q.changed EXCEPT ![u] = C]
    BY ONLY <1>2, <1>3, <2>2, i \in DOMAIN q.vcons, ReplacedFields
  <2>4. QED
    BY <2>1, <2>3
<1> HIDE DEF now
<1>9. \/ now.changed = q.changed
      \/ /\ now.changed = [q.changed EXCEPT ![u] = {v}]
         /\ q.changed[u] = {0} /\ v # 0
  <2>1. CASE Unread(entry) /\ entry.update
    <3>1. C = {v} /\ q.changed[u] = {0} /\ v # 0
      BY <1>1, <2>1 DEF C, EntryOK
    <3>2. QED
      BY <1>8, <3>1
  <2>2. CASE ~(Unread(entry) /\ entry.update)
    <3>1. C = q.changed[u]
      BY <2>2 DEF C
    <3>2. QED
      BY ONLY <1>1, <1>8, <3>1
  <2>3. QED
    BY <2>1, <2>2
<1>10. QED
  BY <1>1, <1>7, <1>8, <1>9

\* The next vCon that commit saves, with the dict that is made for it: a dict
\* of what was changed.
LEMMA CommitNextOK ==
    ASSUME ProcessingInv, NEW r \in Request, CommitNext(r)
    PROVE  /\ ProcessingInv'
           /\ \E u \in Uuid, p \in ProcessRequest, v \in Nat \ {0} :
                  /\ p.at = "commit" /\ p.commit = request[r].commit
                  /\ p.changed = request[r].changed
                  /\ p.saved = [request[r].saved EXCEPT ![u] = v]
                  /\ Local(r, p)
                  /\ v \in request[r].changed[u]
                  /\ request[r].saved[u] = 0
                  /\ stored' = [stored EXCEPT ![u] = v]
<1> DEFINE q == request[r]
<1>1. PICK i \in Unsaved(r) :
          /\ \A k \in Unsaved(r) : i <= k
          /\ ~Unread(q.vcons[i])
          /\ stored' = [stored EXCEPT ![q.vcons[i].uuid] =
                            WithForm(q.vcons[i].forms, "DICT")["DICT"]]
          /\ Local(r, [q EXCEPT
                          !.vcons[i].forms = WithForm(q.vcons[i].forms, "DICT"),
                          !.next = i + 1,
                          !.saved[q.vcons[i].uuid] =
                              WithForm(q.vcons[i].forms, "DICT")["DICT"]])
  BY DEF CommitNext
<1> DEFINE entry == q.vcons[i]
           u == entry.uuid
           forms == WithForm(entry.forms, "DICT")
           v == forms["DICT"]
           made == [entry EXCEPT !.forms = forms]
           p == Replaced(q, i, made, q.changed[u])
           now == [p EXCEPT !.next = i + 1, !.saved[u] = v]
<1>2. /\ RequestOK(q) /\ q.at = "commit" /\ version' = version
      /\ i \in DOMAIN q.vcons /\ i >= q.next /\ entry.update
  BY <1>1 DEF ProcessingInv, CommitNext, Unsaved
<1>3. /\ q \in ProcessRequest /\ entry \in Entry /\ u \in Uuid
      /\ EntryOK(entry, q.changed[u])
      /\ q.vcons \in Seq(Entry) /\ q.changed \in [Uuid -> SUBSET Nat]
      /\ q.next \in Nat /\ i \in Nat /\ DOMAIN q.vcons \subseteq Nat
  <2>1. TypedRequest(q) /\ VconsOK(q)
    BY <1>2 DEF RequestOK
  <2>2. entry \in Entry
    BY ONLY <1>2, <2>1, RequestTypes
  <2>3. EntryOK(entry, q.changed[u])
    BY ONLY <1>2, <2>1 DEF VconsOK
  <2>4. /\ q \in ProcessRequest /\ q.vcons \in Seq(Entry)
        /\ q.changed \in [Uuid -> SUBSET Nat]
        /\ q.next \in Nat /\ DOMAIN q.vcons \subseteq Nat
    BY ONLY <2>1, RequestTypes DEF TypedRequest
  <2>5. u \in Uuid
    BY ONLY <2>2 DEF Entry
  <2>6. i \in Nat
    BY ONLY <1>2, <2>4
  <2>7. QED
    BY ONLY <2>2, <2>3, <2>4, <2>5, <2>6
<1>4. "DICT" \in Form
  BY DEF Form
<1>5. /\ made \in Entry /\ EntryOK(made, q.changed[u])
      /\ made.uuid = u /\ made.locked = entry.locked
      /\ made.update = entry.update /\ made.forms = forms
      /\ v # 0
  <2>1. ~Unread(entry)
    BY <1>1
  <2>2. QED
    BY ONLY <1>3, <1>4, <2>1, MadeFormOK
<1>6. v \in q.changed[u] /\ q.changed[u] \in SUBSET Nat
  <2>1. Among(made.forms, q.changed[u])
    BY <1>2, <1>5 DEF EntryOK
  <2>2. QED
    BY <1>3, <1>4, <1>5, <2>1 DEF Among
<1> HIDE DEF made, forms
<1>7. /\ RequestOK(p)
      /\ p.at = q.at /\ p.commit = q.commit /\ p.next = q.next
      /\ p.saved = q.saved
      /\ DOMAIN p.vcons = DOMAIN q.vcons /\ p.vcons[i] = made
      /\ \A k \in DOMAIN q.vcons : k # i => p.vcons[k] = q.vcons[k]
      /\ p.changed = [q.changed EXCEPT ![u] = q.changed[u]]
  <2>1. RequestOK(p)
    <3>1. q.at \in Busy /\ ~(i < q.next)
      BY ONLY <1>2, <1>3 DEF Busy
    <3>2. QED
      BY ONLY <1>2, <1>3, <1>5, <1>6, <3>1, EntryReplacedOK
  <2>2. TypedRequest(q) /\ i \in DOMAIN q.vcons
    BY <1>2 DEF RequestOK
  <2>3. TypedRequest(p)
    BY ONLY <2>1 DEF RequestOK
  <2>4. /\ p.at = q.at /\ p.commit = q.commit /\ p.next = q.next
        /\ p.saved = q.saved
        /\ DOMAIN p.vcons = DOMAIN q.vcons /\ p.vcons[i] = made
        /\ \A k \in DOMAIN q.vcons : k # i => p.vcons[k] = q.vcons[k]
        /\ p.changed = [q.changed EXCEPT ![u] = q.changed[u]]
    <3>1. p = Replaced(q, i, made, q.changed[u])
      OBVIOUS
    <3>2. made \in Entry /\ q.changed[u] \in SUBSET Nat
      BY <1>5, <1>6
    <3> DEFINE C == q.changed[u]
    <3> HIDE DEF p, q, C
    <3>3. QED
      BY ONLY <2>2, <2>3, <3>1, <3>2, ReplacedFields DEF C
  <2>5. QED
    BY ONLY <2>1, <2>4
<1>8. p.changed = q.changed
  BY ONLY <1>3, <1>7
<1>9. now = [q EXCEPT !.vcons[i].forms = forms,
                      !.next = i + 1,
                      !.saved[u] = v]
  <2>1. p = [q EXCEPT !.vcons = [q.vcons EXCEPT ![i] = made]]
    BY <1>3 DEF Replaced, ProcessRequest
  <2>2. QED
    BY <1>3, <2>1 DEF made, ProcessRequest
<1>10. Local(r, now)
  BY <1>1, <1>9 DEF forms
<1> HIDE DEF p
<1>11. /\ RequestOK(now)
       /\ q.saved[u] = 0
  <2>1. \A k \in DOMAIN p.vcons : k >= p.next /\ p.vcons[k].update => i <= k
    BY <1>1, <1>2, <1>3, <1>5, <1>7 DEF Unsaved
  <2>2. i \in DOMAIN p.vcons /\ p.vcons[i].update /\ i >= p.next
        /\ p.at = "commit" /\ p.vcons[i].uuid = u
        /\ p.vcons[i].forms["DICT"] = v /\ p.vcons[i].forms["DICT"] # 0
    BY ONLY <1>2, <1>5, <1>7
  <2>3. now = [p EXCEPT
                  !.next = i + 1,
                  !.saved[p.vcons[i].uuid] = p.vcons[i].forms["DICT"]]
    BY ONLY <2>2
  <2> HIDE DEF now
  <2>4. RequestOK(p)
    BY <1>7
  <2> HIDE DEF q
  <2>5. RequestOK(now) /\ p.saved[p.vcons[i].uuid] = 0
    BY ONLY <2>1, <2>2, <2>3, <2>4, SavedNextOK
  <2>6. QED
    BY ONLY <1>7, <2>2, <2>5
<1>12. stored' = [stored EXCEPT ![u] = v]
  BY <1>1 DEF forms
<1>13. p \in ProcessRequest
  BY <1>7 DEF RequestOK, TypedRequest
<1>14. /\ now.at = "commit" /\ now.commit = q.commit
       /\ now.changed = q.changed /\ now.saved = [q.saved EXCEPT ![u] = v]
  BY <1>2, <1>7, <1>8, <1>13 DEF ProcessRequest
<1> HIDE DEF now
<1>15. /\ version \in Nat /\ stored \in [Uuid -> 0 .. version]
       /\ Bounded(q, version)
  BY DEF ProcessingInv
<1>16. v \in 0 .. version
  BY <1>3, <1>6, <1>15 DEF Bounded
<1>17. StorageTypeOK' /\ version' >= version
  <2>1. version' = version /\ version \in Nat
    BY <1>2, <1>15
  <2>2. stored' \in [Uuid -> 0 .. version]
    BY ONLY <1>12, <1>15, <1>16
  <2>3. QED
    BY ONLY <2>1, <2>2 DEF StorageTypeOK
<1>18. Bounded(now, version')
  BY <1>2, <1>14, <1>15 DEF Bounded
<1>19. ProcessingInv'
  BY <1>10, <1>11, <1>17, <1>18, LocalStep
<1>20. now \in ProcessRequest
  BY <1>11 DEF RequestOK, TypedRequest
<1>21. v \in Nat \ {0}
  BY <1>5, <1>6
<1>22. QED
  BY <1>3, <1>6, <1>10, <1>11, <1>12, <1>14, <1>19, <1>20, <1>21

-----------------------------------------------------------------------------
(***************************************************************************)
(* The refinement.                                                         *)
(***************************************************************************)

\* A request as VconStore sees it.
StateShown(q) ==
    CASE q.at \in {"idle", "process"} -> "open"
      [] q.at = "commit"              -> "saving"
      [] q.at = "output"              -> IF q.commit THEN "saving" ELSE "open"
      [] q.at = "200"                 -> "succeeded"
      [] q.at \in {"404", "500"}      -> "failed"

Shown(q) == [state   |-> StateShown(q),
             changed |-> q.changed,
             saved   |-> q.saved]

ShownRequests == [r \in Request |-> Shown(request[r])]

StoreStutters == [Store!StoreNext]_(Store!storeVars)

\* A step of one request changes one of the requests that VconStore sees.
LEMMA ShownStep ==
    ASSUME ProcessingInv, NEW r \in Request, NEW now, Local(r, now)
    PROVE  /\ ShownRequests' = [ShownRequests EXCEPT ![r] = Shown(now)]
           /\ ShownRequests[r] = Shown(request[r])
           /\ Shown(now) = Shown(request[r]) => UNCHANGED ShownRequests
<1>1. request' = [request EXCEPT ![r] = now]
  BY DEF Local
<1>2. \A s \in Request : request'[s] = IF s = r THEN now ELSE request[s]
  BY <1>1 DEF ProcessingInv
<1>3. QED
  BY <1>2 DEF ShownRequests

\* The requests that VconStore is given are those.
LEMMA ShownIsMapped ==
    /\ [r \in Request |-> [state   |-> StateOf(r),
                           changed |-> request[r].changed,
                           saved   |-> request[r].saved]] = ShownRequests
    /\ [r \in Request |-> [state   |-> StateOf(r),
                           changed |-> request[r].changed,
                           saved   |-> request[r].saved]]' = ShownRequests'
BY DEF ShownRequests, Shown, StateShown, StateOf

\* What VconStore sees of a request in each state.
LEMMA ShownState ==
    ASSUME NEW q
    PROVE  /\ q.at \in {"idle", "process"} => Shown(q).state = "open"
           /\ q.at = "commit" => Shown(q).state = "saving"
           /\ q.at = "output" =>
                  Shown(q).state = IF q.commit THEN "saving" ELSE "open"
           /\ q.at = "200" => Shown(q).state = "succeeded"
           /\ q.at \in {"404", "500"} => Shown(q).state = "failed"
<1>1. CASE q.at \in {"idle", "process"}
  BY <1>1 DEF Shown, StateShown
<1>2. CASE q.at = "commit"
  BY <1>2 DEF Shown, StateShown
<1>3. CASE q.at = "output"
  BY <1>3 DEF Shown, StateShown
<1>4. CASE q.at = "200"
  BY <1>4 DEF Shown, StateShown
<1>5. CASE q.at \in {"404", "500"}
  BY <1>5 DEF Shown, StateShown
<1>6. QED
  BY <1>1, <1>2, <1>3, <1>4, <1>5

\* A step that changes nothing that VconStore sees.
LEMMA StoreUnseen == UNCHANGED <<stored, ShownRequests>> => StoreStutters
BY ShownIsMapped DEF StoreStutters, Store!storeVars

\* The steps of VconStore with which a request goes on or fails.
LEMMA StoreGoesOn ==
    ASSUME NEW r \in Request, UNCHANGED stored
    PROVE  /\ (/\ ShownRequests[r].state \in {"open", "saving"}
               /\ ShownRequests' = [ShownRequests EXCEPT ![r] =
                      [state   |-> "failed",
                       changed |-> [u \in Uuid |-> {}],
                       saved   |-> [u \in Uuid |-> 0]]])
              => StoreStutters
           /\ (/\ ShownRequests[r].state = "open"
               /\ ShownRequests' = [ShownRequests EXCEPT ![r].state = "saving"])
              => StoreStutters
           /\ (/\ \/ ShownRequests[r].state = "open"
                  \/ /\ ShownRequests[r].state = "saving"
                     /\ \A u \in Uuid : ShownRequests[r].changed[u] # {} =>
                                            ShownRequests[r].saved[u] # 0
               /\ ShownRequests' =
                      [ShownRequests EXCEPT ![r].state = "succeeded"])
              => StoreStutters
<1> USE ShownIsMapped
<1>1. (/\ ShownRequests[r].state \in {"open", "saving"}
       /\ ShownRequests' = [ShownRequests EXCEPT ![r] =
              [state   |-> "failed",
               changed |-> [u \in Uuid |-> {}],
               saved   |-> [u \in Uuid |-> 0]]])
      => StoreStutters
  BY DEF StoreStutters, Store!StoreNext, Store!Fail
<1>2. (/\ ShownRequests[r].state = "open"
       /\ ShownRequests' = [ShownRequests EXCEPT ![r].state = "saving"])
      => StoreStutters
  BY DEF StoreStutters, Store!StoreNext, Store!StartSaving
<1>3. ASSUME \/ ShownRequests[r].state = "open"
             \/ /\ ShownRequests[r].state = "saving"
                /\ \A u \in Uuid : ShownRequests[r].changed[u] # {} =>
                                       ShownRequests[r].saved[u] # 0,
             ShownRequests' = [ShownRequests EXCEPT ![r].state = "succeeded"]
      PROVE  StoreStutters
  <2>1. Store!Succeed(r)
    BY <1>3 DEF Store!Succeed
  <2>2. Store!StoreNext
    BY <2>1 DEF Store!StoreNext
  <2>3. QED
    BY <2>2 DEF StoreStutters
<1>4. QED
  BY <1>1, <1>2, <1>3

\* The steps of VconStore with which a request changes, reads and saves a vCon.
LEMMA StoreChanges ==
    ASSUME NEW r \in Request, NEW u \in Uuid, NEW S,
           ShownRequests' = [ShownRequests EXCEPT ![r].changed[u] = S],
           UNCHANGED stored,
           \/ /\ ShownRequests[r].state = "open"
              /\ \E v \in (1 .. MaxVersions) \cup {0} : S = {v}
           \/ /\ ShownRequests[r].state = "open"
              /\ ShownRequests[r].changed[u] # {}
              /\ \E v \in 1 .. MaxVersions :
                     S = ShownRequests[r].changed[u] \cup {v}
           \/ /\ ShownRequests[r].state \in {"open", "saving"}
              /\ ShownRequests[r].changed[u] = {0}
              /\ stored[u] # 0
              /\ S = {stored[u]}
    PROVE  StoreStutters
<1> USE ShownIsMapped
<1>1. ASSUME ShownRequests[r].state = "open",
             NEW v \in (1 .. MaxVersions) \cup {0}, S = {v}
      PROVE  StoreStutters
  <2>1. Store!Change(r, u, v)
    BY <1>1 DEF Store!Change
  <2>2. Store!StoreNext
    BY <2>1 DEF Store!StoreNext
  <2>3. QED
    BY <2>2 DEF StoreStutters
<1>2. ASSUME ShownRequests[r].state = "open",
             ShownRequests[r].changed[u] # {},
             NEW v \in 1 .. MaxVersions,
             S = ShownRequests[r].changed[u] \cup {v}
      PROVE  StoreStutters
  <2>1. Store!ChangeInPlace(r, u, v)
    BY <1>2 DEF Store!ChangeInPlace
  <2>2. Store!StoreNext
    BY <2>1 DEF Store!StoreNext
  <2>3. QED
    BY <2>2 DEF StoreStutters
<1>3. ASSUME ShownRequests[r].state \in {"open", "saving"},
             ShownRequests[r].changed[u] = {0},
             stored[u] # 0, S = {stored[u]}
      PROVE  StoreStutters
  <2>1. Store!Read(r, u)
    BY <1>3 DEF Store!Read
  <2>2. Store!StoreNext
    BY <2>1 DEF Store!StoreNext
  <2>3. QED
    BY <2>2 DEF StoreStutters
<1>4. QED
  BY <1>1, <1>2, <1>3

LEMMA StoreSaves ==
    ASSUME NEW r \in Request, NEW u \in Uuid, NEW v,
           ShownRequests[r].state = "saving",
           ShownRequests[r].saved[u] = 0,
           v \in ShownRequests[r].changed[u] \ {0},
           stored' = [stored EXCEPT ![u] = v],
           ShownRequests' = [ShownRequests EXCEPT ![r].saved[u] = v]
    PROVE  StoreStutters
<1>1. Store!Save(r, u)
  BY ShownIsMapped DEF Store!Save
<1>2. Store!StoreNext
  BY <1>1 DEF Store!StoreNext
<1>3. QED
  BY <1>2 DEF StoreStutters

\* A request that fails: nothing is left of it.
LEMMA RefuseStep ==
    ASSUME ProcessingInv, NEW r \in Request,
           NEW status \in {"404", "500"}, Refuse(r, status),
           request[r].at \in Busy
    PROVE  ProcessingInv' /\ StoreStutters
<1> DEFINE now == [Idle EXCEPT !.at = status]
<1>1. Local(r, now) /\ UNCHANGED <<stored, version>>
  BY DEF Refuse
<1>2. RequestOK(now)
  BY IdleOK DEF Failed
<1>3. /\ now.at = status /\ now.changed = [u \in Uuid |-> {}]
      /\ now.saved = NoVersions
  BY DEF Idle
<1> HIDE DEF now
<1>4. Bounded(now, version')
  BY <1>3 DEF Bounded
<1>5. StorageTypeOK' /\ version' >= version
  BY <1>1, StorageStep
<1>6. ProcessingInv'
  BY <1>1, <1>2, <1>4, <1>5, LocalStep
<1>7. ShownRequests[r].state \in {"open", "saving"}
  BY ShownState, ShownStep, <1>1 DEF Busy
<1>8. Shown(now) = [state   |-> "failed",
                    changed |-> [u \in Uuid |-> {}],
                    saved   |-> [u \in Uuid |-> 0]]
  BY <1>3, ShownState DEF NoVersions, Shown
<1>9. ShownRequests' = [ShownRequests EXCEPT ![r] = Shown(now)]
  BY <1>1, ShownStep
<1>10. StoreStutters
  BY <1>1, <1>7, <1>8, <1>9, StoreGoesOn
<1>11. QED
  BY <1>6, <1>10

\* A step of one request that VconStore does not see, and that leaves storage
\* alone.
LEMMA UnseenStep ==
    ASSUME ProcessingInv, NEW r \in Request, NEW now, RequestOK(now),
           Local(r, now), StorageTypeOK', version' >= version,
           UNCHANGED stored, Shown(now) = Shown(request[r])
    PROVE  ProcessingInv' /\ StoreStutters
<1>1. now.changed = request[r].changed
  BY DEF Shown
<1>2. Bounded(now, version')
  <2>1. /\ Bounded(request[r], version)
        /\ request[r].changed \in [Uuid -> SUBSET Nat]
    BY RequestTypes DEF ProcessingInv, RequestOK
  <2>2. version \in Nat /\ version' \in Nat
    BY DEF ProcessingInv, StorageTypeOK
  <2>3. QED
    BY <1>1, <2>1, <2>2 DEF Bounded
<1>3. ProcessingInv'
  BY <1>2, LocalStep
<1>4. UNCHANGED ShownRequests
  BY ShownStep
<1>5. QED
  BY <1>3, <1>4, StoreUnseen

\* A request may make S of what it has changed of u: it hands over a version,
\* makes one in place, or reads the one that is to be saved.
MayChange(r, u, S) ==
    \/ /\ request[r].at = "process"
       /\ \E v \in (1 .. MaxVersions) \cup {0} : S = {v}
    \/ /\ request[r].at = "process"
       /\ request[r].changed[u] # {}
       /\ \E v \in 1 .. MaxVersions : S = request[r].changed[u] \cup {v}
    \/ /\ request[r].at \in Busy
       /\ request[r].changed[u] = {0}
       /\ stored[u] # 0
       /\ S = {stored[u]}

\* A step of one request that changes a vCon, in memory, as VconStore lets it.
LEMMA ChangeStep ==
    ASSUME ProcessingInv, NEW r \in Request, NEW u \in Uuid, NEW S,
           NEW now, RequestOK(now), Local(r, now),
           StorageTypeOK', version' >= version, UNCHANGED stored,
           now.at = request[r].at, now.commit = request[r].commit,
           now.saved = request[r].saved,
           now.changed = [request[r].changed EXCEPT ![u] = S],
           \A w \in S : w \in request[r].changed[u] \/ w <= version',
           MayChange(r, u, S)
    PROVE  ProcessingInv' /\ StoreStutters
<1> DEFINE q == request[r]
<1>1. /\ Bounded(q, version) /\ q.changed \in [Uuid -> SUBSET Nat]
      /\ version \in Nat /\ version' \in Nat
  BY RequestTypes DEF ProcessingInv, RequestOK, StorageTypeOK
<1>2. Bounded(now, version')
  <2>1. ASSUME NEW w \in Uuid, NEW v \in now.changed[w]
        PROVE  v <= version'
    <3>1. CASE w = u /\ v \notin q.changed[u]
      BY <1>1, <2>1, <3>1
    <3>2. CASE ~(w = u /\ v \notin q.changed[u])
      <4>1. v \in q.changed[w]
        BY <1>1, <2>1, <3>2
      <4>2. v \in Nat /\ v <= version
        BY <1>1, <4>1 DEF Bounded
      <4>3. QED
        BY <1>1, <4>2
    <3>3. QED
      BY <3>1, <3>2
  <2>2. QED
    BY <2>1 DEF Bounded
<1>3. ProcessingInv'
  BY <1>2, LocalStep
<1>4. /\ ShownRequests' = [ShownRequests EXCEPT ![r] = Shown(now)]
      /\ ShownRequests[r] = Shown(q)
  BY ShownStep
<1>5. Shown(now) = [Shown(q) EXCEPT !.changed[u] = S]
  <2>1. StateShown(now) = StateShown(q)
    BY DEF StateShown
  <2>2. Shown(now) = [state   |-> StateShown(q),
                      changed |-> [q.changed EXCEPT ![u] = S],
                      saved   |-> q.saved]
    BY <2>1 DEF Shown
  <2>3. Shown(q) = [state   |-> StateShown(q),
                    changed |-> q.changed,
                    saved   |-> q.saved]
    BY DEF Shown
  <2>4. QED
    BY ONLY <2>2, <2>3
<1>6. ShownRequests' = [ShownRequests EXCEPT ![r].changed[u] = S]
  BY ONLY <1>4, <1>5
<1>7. /\ q.at = "process" => ShownRequests[r].state = "open"
      /\ q.at \in Busy => ShownRequests[r].state \in {"open", "saving"}
  BY <1>4, ShownState DEF Busy
<1>8. ShownRequests[r].changed = q.changed
  BY <1>4 DEF Shown
<1>9. StoreStutters
  BY <1>6, <1>7, <1>8, StoreChanges DEF MayChange
<1>10. QED
  BY <1>3, <1>9

\* What a step of a request's get_vcon does: it fails, it reads what is to be
\* saved, or VconStore does not see it.
LEMMA GetStep ==
    ASSUME ProcessingInv, NEW r \in Request, NEW form \in Form,
           NEW i \in DOMAIN request[r].vcons, request[r].at \in Busy,
           \/ NotInStorage(r, i)
           \/ /\ Unread(request[r].vcons[i]) =>
                     stored[request[r].vcons[i].uuid] # 0
              /\ Get(r, i, form)
              /\ UNCHANGED <<stored, version>>
    PROVE  ProcessingInv' /\ StoreStutters
<1> DEFINE q == request[r]
           u == q.vcons[i].uuid
<1>1. CASE NotInStorage(r, i)
  BY <1>1, RefuseStep DEF NotInStorage
<1>2. CASE /\ Unread(q.vcons[i]) => stored[u] # 0
           /\ Get(r, i, form)
           /\ UNCHANGED <<stored, version>>
  <2>1. u \in Uuid
    BY <1>2, GetOK
  <2>2. PICK now :
            /\ RequestOK(now) /\ Local(r, now)
            /\ now.at = q.at /\ now.commit = q.commit /\ now.saved = q.saved
            /\ \/ now.changed = q.changed
               \/ /\ now.changed = [q.changed EXCEPT ![u] = {stored[u]}]
                  /\ q.changed[u] = {0} /\ stored[u] # 0
    BY <1>2, GetOK
  <2>3. StorageTypeOK' /\ version' >= version /\ UNCHANGED <<stored, version>>
    BY <1>2, StorageStep
  <2>4. CASE now.changed = q.changed
    <3>1. Shown(now) = Shown(q)
      BY <2>2, <2>4 DEF Shown, StateShown
    <3>2. QED
      BY <2>2, <2>3, <3>1, UnseenStep
  <2>5. CASE /\ now.changed = [q.changed EXCEPT ![u] = {stored[u]}]
             /\ q.changed[u] = {0} /\ stored[u] # 0
    <3>1. stored[u] <= version'
      BY <2>1, <2>3 DEF ProcessingInv
    <3> DEFINE S == {stored[u]}
    <3>2. \A w \in S : w \in q.changed[u] \/ w <= version'
      BY <3>1
    <3>3. MayChange(r, u, S) /\ now.changed = [q.changed EXCEPT ![u] = S]
      BY <2>5 DEF MayChange
    <3> HIDE DEF u, S
    <3>4. QED
      BY ONLY ProcessingInv, <2>1, <2>2, <2>3, <3>2, <3>3, r \in Request,
         ChangeStep
  <2>6. QED
    BY <2>2, <2>4, <2>5
<1>3. QED
  BY <1>1, <1>2

LEMMA ChangeInPlaceStep ==
    ASSUME ProcessingInv, NEW r \in Request, NEW i \in 1 .. MaxVcons[r],
           NEW form \in {"DICT", "OBJECT"}, ProcessorChange(r, i, form)
    PROVE  ProcessingInv' /\ StoreStutters
<1> DEFINE q == request[r]
           entry == q.vcons[i]
           u == entry.uuid
           v == version + 1
           forms == [entry.forms EXCEPT ![form] = v]
           other == [entry EXCEPT !.forms = forms, !.touched = TRUE]
           C == IF entry.update THEN q.changed[u] \cup {v} ELSE q.changed[u]
           now == Replaced(q, i, other, C)
<1>1. /\ q.at = "process" /\ i \in DOMAIN q.vcons /\ entry.forms[form] # 0
      /\ Made(v) /\ UNCHANGED stored
      /\ Local(r, [q EXCEPT !.vcons[i].forms[form] = v,
                            !.vcons[i].touched = TRUE,
                            !.changed[u] =
                                IF entry.update THEN @ \cup {v} ELSE @])
  BY DEF ProcessorChange
<1>2. RequestOK(q) /\ TypedRequest(q) /\ VconsOK(q) /\ version \in Nat
  BY DEF ProcessingInv, RequestOK
<1>3. /\ q \in ProcessRequest /\ entry \in Entry /\ u \in Uuid
      /\ entry.forms \in Forms /\ form \in Form
      /\ q.vcons \in Seq(Entry) /\ q.changed \in [Uuid -> SUBSET Nat]
      /\ v \in Nat /\ v # 0 /\ q.next = 1 /\ i >= 1 /\ i \in Nat
  <2>1. q.next = 1
    BY <1>1, <1>2 DEF RequestOK, SavedOK
  <2>2. /\ q \in ProcessRequest /\ entry \in Entry
        /\ q.vcons \in Seq(Entry) /\ q.changed \in [Uuid -> SUBSET Nat]
        /\ i >= 1 /\ i \in Nat
    BY <1>1, <1>2, RequestTypes DEF TypedRequest
  <2>3. u \in Uuid /\ entry.forms \in Forms /\ form \in Form
    BY ONLY <2>2, form \in {"DICT", "OBJECT"} DEF Entry, Form
  <2>4. v \in Nat /\ v # 0
    BY ONLY <1>2
  <2>5. QED
    BY <2>1, <2>2, <2>3, <2>4
<1>4. EntryOK(entry, q.changed[u])
  BY <1>1, <1>2 DEF VconsOK
<1>5. /\ q.changed[u] \in SUBSET Nat /\ C \in SUBSET Nat
  BY <1>3
<1> HIDE DEF v
<1>6. /\ forms \in Forms /\ forms[form] = v
      /\ \A f \in Form : f # form => forms[f] = entry.forms[f]
  BY ONLY <1>3 DEF Forms
<1> HIDE DEF forms
<1>7. /\ other \in Entry /\ other.uuid = u /\ other.locked = entry.locked
      /\ other.update = entry.update /\ other.touched /\ other.forms = forms
  BY ONLY <1>3, <1>6 DEF Entry
<1>8. ~Unread(entry) /\ ~Unread(other)
  BY <1>1, <1>3, <1>6, <1>7 DEF Unread, NoForms
<1>9. EntryOK(other, C)
  <2>1. CASE entry.update
    <3>1. Among(forms, C)
      BY <1>4, <1>6, <2>1 DEF EntryOK, Among
    <3>2. C # {} /\ 0 \notin C
      BY <1>3, <1>4, <1>8, <2>1 DEF EntryOK
    <3> HIDE DEF other, C
    <3>3. QED
      BY ONLY <1>7, <1>8, <2>1, <3>1, <3>2 DEF EntryOK
  <2>2. CASE ~entry.update
    <3>1. C = {}
      BY <1>4, <2>2 DEF EntryOK
    <3> HIDE DEF other, C
    <3>2. QED
      BY ONLY <1>7, <2>2, <3>1 DEF EntryOK
  <2>3. QED
    BY <2>1, <2>2
<1>10. Local(r, now)
  <2>1. [q EXCEPT !.vcons[i].forms[form] = v,
                  !.vcons[i].touched = TRUE,
                  !.changed[u] = IF entry.update THEN @ \cup {v} ELSE @]
            = [q EXCEPT !.vcons = [q.vcons EXCEPT ![i] = other],
                        !.changed = [q.changed EXCEPT ![u] = C]]
    BY <1>1, <1>3 DEF forms, ProcessRequest, Entry
  <2>2. QED
    BY <1>1, <2>1 DEF Replaced
<1> HIDE DEF other, C
<1>11. RequestOK(now)
  <2>1. q.at \in Busy /\ ~(i < q.next)
    BY <1>1, <1>3 DEF Busy
  <2>2. QED
    BY <1>1, <1>2, <1>5, <1>7, <1>9, <2>1, EntryReplacedOK
<1>12. /\ now.at = q.at /\ now.commit = q.commit /\ now.saved = q.saved
       /\ now.changed = [q.changed EXCEPT ![u] = C]
  BY <1>1, <1>2, <1>5, <1>7, ReplacedFields
<1> HIDE DEF now
<1>13. /\ StorageTypeOK' /\ version' >= version
       /\ v <= version' /\ v <= MaxVersions
  BY <1>1, <1>3, StorageStep
<1>14. CASE entry.update
  <2>1. C = q.changed[u] \cup {v} /\ q.changed[u] # {}
    BY <1>4, <1>14 DEF C, EntryOK
  <2>2. MayChange(r, u, C)
    <3>1. v \in 1 .. MaxVersions
      BY <1>3, <1>13, ProcessingAssumption
    <3>2. QED
      BY <1>1, <2>1, <3>1 DEF MayChange
  <2>3. \A w \in C : w \in q.changed[u] \/ w <= version'
    BY <1>13, <2>1
  <2>4. UNCHANGED stored /\ u \in Uuid
    BY <1>1, <1>3
  <2> HIDE DEF u
  <2>5. QED
    BY ONLY ProcessingInv, <1>10, <1>11, <1>12, <1>13, <2>2, <2>3, <2>4,
       r \in Request, ChangeStep
<1>15. CASE ~entry.update
  <2>1. C = q.changed[u]
    BY <1>15 DEF C
  <2>2. now.changed = q.changed
    BY ONLY <1>3, <1>12, <2>1
  <2>3. Shown(now) = Shown(q)
    BY <1>12, <2>2 DEF Shown, StateShown
  <2>4. QED
    BY <1>1, <1>10, <1>11, <1>13, <2>3, UnseenStep
<1>16. QED
  BY <1>14, <1>15

LEMMA UpdateStep ==
    ASSUME ProcessingInv, NEW r \in Request, NEW u \in Uuid,
           NEW form \in Form \cup {"UUID"}, ProcessorUpdate(r, u, form)
    PROVE  ProcessingInv' /\ StoreStutters
<1> DEFINE q == request[r]
<1>1. PICK i \in DOMAIN q.vcons :
          /\ q.vcons[i].uuid = u
          /\ q.vcons[i].locked \/ q.vcons[i].update
          /\ \E v \in HandedOver(q.vcons[i], form) :
                 /\ Made(v)
                 /\ Local(r, [q EXCEPT
                        !.vcons[i] = [q.vcons[i] EXCEPT !.forms = FormsOf(form, v),
                                                        !.update = TRUE,
                                                        !.touched = FALSE],
                        !.changed[u] = {v}])
  BY DEF ProcessorUpdate
<1> DEFINE entry == q.vcons[i]
<1>2. PICK v \in HandedOver(entry, form) :
          /\ Made(v)
          /\ Local(r, [q EXCEPT
                 !.vcons[i] = [entry EXCEPT !.forms = FormsOf(form, v),
                                            !.update = TRUE,
                                            !.touched = FALSE],
                 !.changed[u] = {v}])
  BY <1>1
<1> DEFINE other == [entry EXCEPT !.forms = FormsOf(form, v),
                                  !.update = TRUE,
                                  !.touched = FALSE]
           C == {v}
           now == Replaced(q, i, other, C)
<1>3. /\ RequestOK(q) /\ TypedRequest(q) /\ q.at = "process" /\ UNCHANGED stored
      /\ version \in Nat
  BY DEF ProcessorUpdate, ProcessingInv, RequestOK
<1>4. /\ q \in ProcessRequest /\ entry \in Entry
      /\ q.vcons \in Seq(Entry) /\ q.changed \in [Uuid -> SUBSET Nat]
      /\ q.next = 1 /\ i >= 1 /\ i \in Nat
  BY <1>3, RequestTypes DEF TypedRequest, RequestOK, SavedOK
<1>5. v \in Nat /\ (form = "UUID" <=> v = 0)
  <2>1. CASE form = "UUID"
    BY <1>2, <2>1 DEF HandedOver
  <2>2. CASE form # "UUID"
    <3>1. entry.forms[form] \in Nat
      BY <1>4, <2>2 DEF Entry, Forms
    <3>2. QED
      BY <1>2, <1>3, <2>2, <3>1 DEF HandedOver
  <2>3. QED
    BY <2>1, <2>2
<1>6. /\ FormsOf(form, v) \in Forms
      /\ \A e : /\ e.forms = FormsOf(form, v)
                /\ ~e.touched
                => EntryOK(e, IF e.update THEN {v} ELSE {})
  BY <1>5, HandedOverOK
<1>7. /\ other \in Entry /\ other.uuid = u /\ other.locked = entry.locked
      /\ other.update /\ ~other.touched /\ other.forms = FormsOf(form, v)
  BY <1>1, <1>4, <1>6 DEF Entry
<1>8. EntryOK(other, C) /\ C \in SUBSET Nat
  BY <1>5, <1>6, <1>7
<1>9. Local(r, now)
  <2>1. [q EXCEPT !.vcons[i] = other, !.changed[u] = {v}]
            = [q EXCEPT !.vcons = [q.vcons EXCEPT ![i] = other],
                        !.changed = [q.changed EXCEPT ![u] = {v}]]
    BY <1>4 DEF ProcessRequest
  <2>2. QED
    BY <1>1, <1>2, <2>1 DEF Replaced
<1> HIDE DEF other, C
<1>10. /\ RequestOK(now)
       /\ now.at = q.at /\ now.commit = q.commit /\ now.saved = q.saved
       /\ now.changed = [q.changed EXCEPT ![u] = C]
  <2>1. q.at \in Busy /\ ~(i < q.next)
    BY <1>3, <1>4 DEF Busy
  <2>2. /\ q.vcons[i].update => other.update
        /\ other.update # q.vcons[i].update =>
               q.at = "process" /\ q.vcons[i].locked
    BY <1>1, <1>3, <1>4, <1>7 DEF Entry
  <2>3. RequestOK(now)
    BY ONLY <1>1, <1>3, <1>7, <1>8, <2>1, <2>2, EntryReplacedOK
  <2>4. /\ now.at = q.at /\ now.commit = q.commit /\ now.saved = q.saved
        /\ now.changed = [q.changed EXCEPT ![u] = C]
    BY <1>1, <1>3, <1>7, <1>8, ReplacedFields
  <2>5. QED
    BY <2>3, <2>4
<1> HIDE DEF now
<1>11. /\ StorageTypeOK' /\ version' >= version
       /\ v <= version' /\ v <= MaxVersions
  BY <1>2, <1>3, <1>5, StorageStep
<1>12. MayChange(r, u, C)
  <2>1. v \in (1 .. MaxVersions) \cup {0}
    BY <1>5, <1>11, ProcessingAssumption
  <2>2. QED
    BY <1>3, <2>1 DEF C, MayChange
<1>13. \A w \in C : w \in q.changed[u] \/ w <= version'
  BY <1>11 DEF C
<1>14. QED
  BY ONLY ProcessingInv, <1>3, <1>9, <1>10, <1>11, <1>12, <1>13,
     r \in Request, u \in Uuid, ChangeStep

LEMMA AddStep ==
    ASSUME ProcessingInv, NEW r \in Request, NEW u \in Uuid,
           NEW form \in Form \cup {"UUID"},
           NEW locked \in BOOLEAN, NEW readonly \in BOOLEAN,
           ProcessorAdd(r, u, form, locked, readonly)
    PROVE  ProcessingInv' /\ StoreStutters
<1> DEFINE q == request[r]
           new == ~locked /\ ~readonly
           v == IF form = "UUID" THEN 0 ELSE version + 1
           C == IF new THEN {v} ELSE {}
           now == Added(q, u, form, locked, readonly, v)
<1>1. /\ q.at = "process"
      /\ \A i \in DOMAIN q.vcons : q.vcons[i].uuid # u
      /\ ~(locked /\ readonly)
      /\ Made(v)
      /\ Local(r, now)
      /\ UNCHANGED stored
  BY DEF ProcessorAdd, Added
<1>2. /\ RequestOK(q) /\ q \in ProcessRequest /\ version \in Nat
      /\ v \in Nat /\ (form = "UUID" <=> v = 0)
  BY DEF ProcessingInv, RequestOK, TypedRequest
<1> HIDE DEF v
<1>3. RequestOK(now)
  BY <1>1, <1>2, AddedOK
<1>4. /\ now.at = q.at /\ now.saved = q.saved /\ now.commit = q.commit
      /\ now.changed = [q.changed EXCEPT ![u] = C]
  BY <1>2 DEF ProcessRequest, Added
<1> HIDE DEF now
<1>5. /\ StorageTypeOK' /\ version' >= version
      /\ v <= version' /\ v <= MaxVersions
  BY <1>1, <1>2, StorageStep
<1>6. CASE new
  <2>1. MayChange(r, u, C)
    <3>1. v \in (1 .. MaxVersions) \cup {0}
      BY <1>2, <1>5, ProcessingAssumption
    <3>2. QED
      BY <1>1, <1>6, <3>1 DEF MayChange
  <2>2. \A w \in C : w \in q.changed[u] \/ w <= version'
    BY <1>5
  <2> HIDE DEF C
  <2>3. QED
    BY <1>1, <1>3, <1>4, <1>5, <2>1, <2>2, ChangeStep
<1>7. CASE ~new
  <2>1. q.changed \in [Uuid -> SUBSET Nat] /\ q.changed[u] = {}
    <3>1. q.changed \in [Uuid -> SUBSET Nat]
      BY <1>2, RequestTypes DEF RequestOK
    <3>2. q.changed[u] # {} => \E i \in DOMAIN q.vcons : q.vcons[i].uuid = u
      BY <1>1, <1>2 DEF RequestOK, ChangedOK, Busy
    <3>3. QED
      BY <1>1, <3>1, <3>2
  <2>2. now.changed = q.changed
    BY <1>4, <1>7, <2>1
  <2>3. Shown(now) = Shown(q)
    BY <1>4, <2>2 DEF Shown, StateShown
  <2>4. QED
    BY <1>1, <1>3, <1>5, <2>3, UnseenStep
<1>8. QED
  BY <1>6, <1>7

LEMMA ReceiveStep ==
    ASSUME ProcessingInv, NEW r \in Request, NEW route \in Range(Processors),
           NEW u \in Uuid, Receive(r, route, u)
    PROVE  ProcessingInv' /\ StoreStutters
<1> DEFINE q == request[r]
           now == [Idle EXCEPT
                      !.at = "process",
                      !.route = route,
                      !.ran = Processors[Len(Processors)],
                      !.vcons = <<[uuid |-> u, forms |-> NoForms,
                                   locked |-> TRUE, update |-> FALSE,
                                   touched |-> FALSE]>>]
<1>1. q.at = "idle" /\ Local(r, now) /\ UNCHANGED <<stored, version>>
  BY DEF Receive
<1>2. RequestOK(now)
  BY ReceivedOK
<1>3. /\ now.at = "process" /\ now.changed = [w \in Uuid |-> {}]
      /\ now.saved = NoVersions
  BY DEF Idle
<1>4. q.changed = [w \in Uuid |-> {}] /\ q.saved = NoVersions
  BY <1>1 DEF ProcessingInv, RequestOK, ChangedOK, SavedOK
<1> HIDE DEF now
<1>5. Shown(now) = Shown(q)
  BY <1>1, <1>3, <1>4 DEF Shown, StateShown
<1>6. StorageTypeOK' /\ version' >= version
  BY <1>1, StorageStep
<1>7. QED
  BY <1>1, <1>2, <1>5, <1>6, UnseenStep

LEMMA ContinueStep ==
    ASSUME ProcessingInv, NEW r \in Request,
           \/ \E commit \in BOOLEAN : ProcessorReturns(r, commit)
           \/ CommitDone(r)
    PROVE  ProcessingInv' /\ StoreStutters
<1> DEFINE q == request[r]
<1>1. RequestOK(q) /\ q \in ProcessRequest /\ (q.at = "commit" => q.commit)
      /\ q.commit \in BOOLEAN
  BY DEF ProcessingInv, RequestOK, TypedRequest, SavedOK, ProcessRequest
<1>2. PICK at \in {"commit", "output"}, commit \in BOOLEAN :
          /\ Local(r, [q EXCEPT !.at = at, !.commit = commit])
          /\ UNCHANGED <<stored, version>>
          /\ \/ q.at = "process" /\ at = IF commit THEN "commit" ELSE "output"
             \/ /\ q.at = "commit" /\ at = "output" /\ commit = q.commit
                /\ Unsaved(r) = {}
  <2>1. CASE \E commit \in BOOLEAN : ProcessorReturns(r, commit)
    BY <2>1 DEF ProcessorReturns
  <2>2. CASE CommitDone(r)
    <3>1. [q EXCEPT !.at = "output"]
              = [q EXCEPT !.at = "output", !.commit = q.commit]
      BY <1>1 DEF ProcessRequest
    <3>2. QED
      BY <1>1, <2>2, <3>1 DEF CommitDone
  <2>3. QED
    BY <2>1, <2>2
<1> DEFINE now == [q EXCEPT !.at = at, !.commit = commit]
<1>3. Unsaved(r) = {} => \A i \in DOMAIN q.vcons : q.vcons[i].update => i < q.next
  BY <1>1, RequestTypes DEF Unsaved, RequestOK
<1>4. RequestOK(now)
  BY <1>1, <1>2, <1>3, ContinuedOK
<1>5. /\ now.at = at /\ now.commit = commit
      /\ now.changed = q.changed /\ now.saved = q.saved
  BY <1>1 DEF ProcessRequest
<1>6. Local(r, now) /\ UNCHANGED <<stored, version>>
  BY <1>2
<1>7. StorageTypeOK' /\ version' >= version
  BY <1>6, StorageStep
<1> HIDE DEF now
<1>8. CASE q.at = "process" /\ commit
  <2>1. Shown(q).state = "open"
    BY <1>8, ShownState
  <2>2. Shown(now) = [Shown(q) EXCEPT !.state = "saving"]
    BY <1>2, <1>5, <1>8 DEF Shown, StateShown
  <2>3. ShownRequests' = [ShownRequests EXCEPT ![r].state = "saving"]
        /\ ShownRequests[r].state = "open"
    BY <1>6, <2>1, <2>2, ShownStep
  <2>4. Bounded(now, version')
    BY <1>5, <1>6 DEF ProcessingInv, Bounded
  <2>5. ProcessingInv'
    BY <1>4, <1>6, <1>7, <2>4, LocalStep
  <2>6. QED
    BY <1>6, <2>3, <2>5, StoreGoesOn
<1>9. CASE ~(q.at = "process" /\ commit)
  <2>1. Shown(now) = Shown(q)
    BY <1>1, <1>2, <1>5, <1>9 DEF Shown, StateShown
  <2>2. QED
    BY <1>4, <1>6, <1>7, <2>1, UnseenStep
<1>10. QED
  BY <1>8, <1>9

LEMMA CommitStep ==
    ASSUME ProcessingInv, NEW r \in Request, CommitNext(r)
    PROVE  ProcessingInv' /\ StoreStutters
<1> DEFINE q == request[r]
<1>1. ProcessingInv'
  BY CommitNextOK
<1>2. PICK u \in Uuid, p \in ProcessRequest, v \in Nat \ {0} :
          /\ p.at = "commit" /\ p.commit = q.commit /\ p.changed = q.changed
          /\ p.saved = [q.saved EXCEPT ![u] = v]
          /\ Local(r, p)
          /\ v \in q.changed[u]
          /\ q.saved[u] = 0
          /\ stored' = [stored EXCEPT ![u] = v]
  BY CommitNextOK
<1>3. q.at = "commit"
  BY DEF CommitNext
<1>4. Shown(q) = [state |-> "saving", changed |-> q.changed, saved |-> q.saved]
  BY <1>3 DEF Shown, StateShown
<1>5. Shown(p) = [Shown(q) EXCEPT !.saved[u] = v]
  <2>1. Shown(p) = [state |-> "saving", changed |-> q.changed,
                    saved |-> [q.saved EXCEPT ![u] = v]]
    BY <1>2 DEF Shown, StateShown
  <2>2. QED
    BY ONLY <1>4, <2>1
<1>6. ShownRequests' = [ShownRequests EXCEPT ![r] = Shown(p)]
      /\ ShownRequests[r] = Shown(q)
  BY <1>2, ShownStep
<1>7. ShownRequests' = [ShownRequests EXCEPT ![r].saved[u] = v]
  BY ONLY <1>5, <1>6
<1>8. /\ ShownRequests[r].state = "saving"
      /\ ShownRequests[r].saved[u] = 0
      /\ v \in ShownRequests[r].changed[u] \ {0}
  BY <1>2, <1>4, <1>6
<1>9. StoreStutters
  BY <1>2, <1>7, <1>8, StoreSaves
<1>10. QED
  BY <1>1, <1>9

LEMMA OutputStep ==
    ASSUME ProcessingInv, NEW r \in Request, Output(r)
    PROVE  ProcessingInv' /\ StoreStutters
<1> DEFINE q == request[r]
           now == [q EXCEPT
                      !.at = "200",
                      !.vcons = <<>>,
                      !.next = 1,
                      !.output =
                          {[uuid    |-> entry.uuid,
                            version |-> WithForm(entry.forms, "DICT")["DICT"]] :
                               entry \in Range(q.vcons)}]
<1>1. /\ q.at = "output" /\ Local(r, now) /\ UNCHANGED <<stored, version>>
      /\ \A i \in DOMAIN q.vcons : ~Unread(q.vcons[i])
  BY DEF Output, UnreadVcons
<1>2. RequestOK(q) /\ q \in ProcessRequest
  BY DEF ProcessingInv, RequestOK, TypedRequest
<1>3. /\ RequestOK(now)
      /\ q.commit => \A u \in Uuid : q.changed[u] # {} => q.saved[u] # 0
  BY <1>1, <1>2, AnsweredOK
<1>4. /\ now.at = "200" /\ now.commit = q.commit
      /\ now.changed = q.changed /\ now.saved = q.saved
  BY <1>2 DEF ProcessRequest
<1> HIDE DEF now
<1>5. StorageTypeOK' /\ version' >= version /\ Bounded(now, version')
  BY <1>1, <1>4, StorageStep DEF ProcessingInv, Bounded
<1>6. ProcessingInv'
  BY <1>1, <1>3, <1>5, LocalStep
<1>7. Shown(q).state = IF q.commit THEN "saving" ELSE "open"
  BY <1>1, ShownState
<1>8. Shown(now) = [Shown(q) EXCEPT !.state = "succeeded"]
  BY <1>1, <1>4 DEF Shown, StateShown
<1>9. ShownRequests' = [ShownRequests EXCEPT ![r] = Shown(now)]
      /\ ShownRequests[r] = Shown(q)
  BY <1>1, ShownStep
<1>10. ShownRequests' = [ShownRequests EXCEPT ![r].state = "succeeded"]
  BY <1>8, <1>9
<1>11. \/ ShownRequests[r].state = "open"
       \/ /\ ShownRequests[r].state = "saving"
          /\ \A u \in Uuid : ShownRequests[r].changed[u] # {} =>
                                 ShownRequests[r].saved[u] # 0
  BY <1>3, <1>7, <1>9 DEF Shown
<1>12. StoreStutters
  BY <1>1, <1>10, <1>11, StoreGoesOn
<1>13. QED
  BY <1>6, <1>12

\* Somebody replaces or deletes a vCon in storage.
LEMMA StorageReplaced ==
    ASSUME ProcessingInv, NEW u \in Uuid, PostVcon(u) \/ DeleteVcon(u)
    PROVE  ProcessingInv' /\ StoreStutters
<1>1. PICK v \in 0 .. MaxVersions :
          /\ stored' = [stored EXCEPT ![u] = v]
          /\ v <= version'
  BY ProcessingAssumption DEF PostVcon, DeleteVcon, Made, ProcessingInv
<1>2. version' \in Nat /\ version' >= version /\ request' = request
  BY DEF PostVcon, DeleteVcon, Made, ProcessingInv
<1>3. version \in Nat /\ stored \in [Uuid -> 0 .. version]
  BY DEF ProcessingInv
<1>4. stored' \in [Uuid -> 0 .. version']
  BY <1>1, <1>2, <1>3, ProcessingAssumption
<1>5. ASSUME NEW s \in Request
      PROVE  RequestOK(request'[s]) /\ Bounded(request'[s], version')
  <2>1. RequestOK(request[s]) /\ Bounded(request[s], version)
        /\ request[s].changed \in [Uuid -> SUBSET Nat]
    BY RequestTypes DEF ProcessingInv, RequestOK
  <2>2. QED
    BY <1>2, <1>3, <2>1 DEF Bounded
<1>6. ProcessingInv'
  BY <1>2, <1>4, <1>5 DEF ProcessingInv
<1>7. ShownRequests' = ShownRequests
  BY <1>2 DEF ShownRequests
<1>8. Store!Replace(u, v)
  BY <1>1, <1>7, ShownIsMapped DEF Store!Replace
<1>9. v \in (1 .. MaxVersions) \cup {0}
  BY <1>1, ProcessingAssumption
<1>10. StoreStutters
  BY <1>8, <1>9 DEF StoreStutters, Store!StoreNext
<1>11. QED
  BY <1>6, <1>10

\* Every step keeps the invariant and is a step of VconStore.
LEMMA EveryStep ==
    ProcessingInv /\ [ProcessingNext]_processingVars =>
        ProcessingInv' /\ StoreStutters
<1> SUFFICES ASSUME ProcessingInv, [ProcessingNext]_processingVars
             PROVE  ProcessingInv' /\ StoreStutters
  OBVIOUS
<1>1. ASSUME NEW r \in Request, RequestStep(r)
      PROVE  ProcessingInv' /\ StoreStutters
  <2>1. ASSUME NEW route \in Range(Processors), NEW u \in Uuid,
               Receive(r, route, u)
        PROVE  ProcessingInv' /\ StoreStutters
    BY <2>1, ReceiveStep
  <2>2. ASSUME NEW i \in 1 .. MaxVcons[r], NEW form \in Form,
               ProcessorGet(r, i, form)
        PROVE  ProcessingInv' /\ StoreStutters
    BY <2>2, GetStep DEF ProcessorGet, Busy
  <2>3. ASSUME NEW i \in 1 .. MaxVcons[r], NEW form \in {"DICT", "OBJECT"},
               ProcessorChange(r, i, form)
        PROVE  ProcessingInv' /\ StoreStutters
    BY <2>3, ChangeInPlaceStep
  <2>4. ASSUME NEW u \in Uuid, NEW form \in Form \cup {"UUID"},
               ProcessorUpdate(r, u, form)
        PROVE  ProcessingInv' /\ StoreStutters
    BY <2>4, UpdateStep
  <2>5. ASSUME NEW u \in Uuid, NEW form \in Form \cup {"UUID"},
               NEW locked \in BOOLEAN, NEW readonly \in BOOLEAN,
               ProcessorAdd(r, u, form, locked, readonly)
        PROVE  ProcessingInv' /\ StoreStutters
    BY <2>5, AddStep
  <2>6. CASE Raise(r)
    BY <2>6, RefuseStep DEF Raise, Busy
  <2>7. CASE \/ \E commit \in BOOLEAN : ProcessorReturns(r, commit)
             \/ CommitDone(r)
    BY <2>7, ContinueStep
  <2>8. CASE CommitRead(r) \/ OutputRead(r)
    <3>1. PICK i \in DOMAIN request[r].vcons :
              \/ NotInStorage(r, i)
              \/ /\ stored[request[r].vcons[i].uuid] # 0
                 /\ Get(r, i, "DICT")
                 /\ UNCHANGED <<stored, version>>
      BY <2>8 DEF CommitRead, OutputRead, Unsaved, UnreadVcons
    <3>2. "DICT" \in Form /\ request[r].at \in Busy
      BY <2>8 DEF CommitRead, OutputRead, Form, Busy
    <3>3. QED
      BY <3>1, <3>2, GetStep
  <2>9. CASE CommitNext(r)
    BY <2>9, CommitStep
  <2>10. CASE Output(r)
    BY <2>10, OutputStep
  <2>11. QED
    BY <1>1, <2>1, <2>2, <2>3, <2>4, <2>5, <2>6, <2>7, <2>8, <2>9, <2>10
       DEF RequestStep
<1>2. ASSUME NEW u \in Uuid, PostVcon(u) \/ DeleteVcon(u)
      PROVE  ProcessingInv' /\ StoreStutters
  BY <1>2, StorageReplaced
<1>3. CASE UNCHANGED processingVars
  <2>1. ProcessingInv'
    BY <1>3 DEF processingVars, ProcessingInv, Bounded
  <2>2. UNCHANGED <<stored, ShownRequests>>
    BY <1>3 DEF processingVars, ShownRequests
  <2>3. QED
    BY <2>1, <2>2, StoreUnseen
<1>4. QED
  BY <1>1, <1>2, <1>3 DEF ProcessingNext

\* Every initial state is one of VconStore's, and in order.
LEMMA EveryStart ==
    ProcessingInit => ProcessingInv /\ Store!StoreInit
<1> SUFFICES ASSUME ProcessingInit
             PROVE  ProcessingInv /\ Store!StoreInit
  OBVIOUS
<1>1. \A r \in Request : request[r] = Idle
  BY DEF ProcessingInit
<1>2. RequestOK(Idle)
  BY IdleOK DEF Failed
<1>3. Bounded(Idle, 0)
  BY DEF Bounded, Idle
<1>4. ProcessingInv
  BY <1>1, <1>2, <1>3 DEF ProcessingInit, ProcessingInv, NoVersions
<1>5. ShownRequests = [r \in Request |-> [state   |-> "open",
                                          changed |-> [u \in Uuid |-> {}],
                                          saved   |-> [u \in Uuid |-> 0]]]
  <2>1. /\ Idle.at = "idle" /\ Idle.changed = [u \in Uuid |-> {}]
        /\ Idle.saved = NoVersions
    BY DEF Idle
  <2>2. Shown(Idle) = [state   |-> "open",
                       changed |-> [u \in Uuid |-> {}],
                       saved   |-> [u \in Uuid |-> 0]]
    BY <2>1 DEF Shown, StateShown, NoVersions
  <2>3. QED
    BY <1>1, <2>2 DEF ShownRequests
<1>6. Store!StoreInit
  BY <1>5, ShownIsMapped DEF Store!StoreInit, ProcessingInit, NoVersions
<1>7. QED
  BY <1>4, <1>6

LEMMA ProcessingInvariance == ProcessingSpec => []ProcessingInv
<1>1. ProcessingInit => ProcessingInv
  BY EveryStart
<1>2. ProcessingInv /\ [ProcessingNext]_processingVars => ProcessingInv'
  BY EveryStep
<1>3. QED
  BY <1>1, <1>2, PTL DEF ProcessingSpec

\* Storage and the requests' variables are of their types, and the loop of
\* commit stays within the vCons.
THEOREM ProcessingTypeCorrect == ProcessingSpec => []ProcessingTypeOK
<1>1. ProcessingInv => ProcessingTypeOK
  BY DEF ProcessingInv, ProcessingTypeOK, RequestOK, TypedRequest
<1>2. QED
  BY <1>1, ProcessingInvariance, PTL

\* A VconProcessorIO holds a vCon once: add_vcon refuses a second one.
THEOREM DistinctVconsTheorem == ProcessingSpec => []DistinctVcons
<1>1. ProcessingInv => DistinctVcons
  BY DEF ProcessingInv, DistinctVcons, RequestOK, VconsOK
<1>2. QED
  BY <1>1, ProcessingInvariance, PTL

\* The cached forms of a vCon differ only after one of them was changed in
\* place, and those of a changed one show what update_vcon or add_vcon was given
\* last, or what was made of it in place since.
THEOREM FormsAgreeTheorem == ProcessingSpec => []FormsAgree
<1>1. ProcessingInv => FormsAgree
  <2> SUFFICES ASSUME ProcessingInv, NEW r \in Request,
                      NEW i \in DOMAIN request[r].vcons
               PROVE  LET entry   == request[r].vcons[i]
                          shown   == {entry.forms[f] : f \in Form} \ {0}
                          changed == request[r].changed[entry.uuid]
                      IN  /\ ~entry.touched =>
                                 /\ \A v, w \in shown : v = w
                                 /\ \A v, w \in changed : v = w
                          /\ entry.update =>
                                 /\ changed # {}
                                 /\ shown \subseteq changed
                                 /\ Unread(entry) => changed = {0}
    BY DEF FormsAgree
  <2>1. EntryOK(request[r].vcons[i], request[r].changed[request[r].vcons[i].uuid])
    BY DEF ProcessingInv, RequestOK, VconsOK
  <2>2. QED
    BY <2>1 DEF EntryOK, Among
<1>2. QED
  BY <1>1, ProcessingInvariance, PTL

\* commit never saves a vCon that was added as readonly.
THEOREM ReadonlyTheorem == ProcessingSpec => []ReadonlyIsNeverSaved
<1>1. ProcessingInv => ReadonlyIsNeverSaved
  BY DEF ProcessingInv, ReadonlyIsNeverSaved, RequestOK, ReadonlyOK
<1>2. QED
  BY <1>1, ProcessingInvariance, PTL

\* A request that is answered saved all that was changed, if it was to commit,
\* and answers what it saved.
THEOREM AnswerTheorem == ProcessingSpec => []AnswerIsWhatWasSaved
<1>1. ProcessingInv => AnswerIsWhatWasSaved
  BY DEF ProcessingInv, AnswerIsWhatWasSaved, RequestOK, AnswerOK
<1>2. QED
  BY <1>1, ProcessingInvariance, PTL

\* Requests implement storage as VconStore describes it: they save what they
\* changed, once each and in its last version or one made of it in place, and
\* success means that all of it was saved.
THEOREM StoreImplemented == ProcessingSpec => ImplementsStore
<1>1. ProcessingInit => Store!StoreInit
  BY EveryStart
<1>2. ProcessingInv /\ [ProcessingNext]_processingVars =>
          [Store!StoreNext]_(Store!storeVars)
  BY EveryStep DEF StoreStutters
<1>3. QED
  BY <1>1, <1>2, ProcessingInvariance, PTL
     DEF ProcessingSpec, ImplementsStore, Store!StoreSpec

=============================================================================
