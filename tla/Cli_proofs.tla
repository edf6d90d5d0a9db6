----------------------------- MODULE Cli_proofs -----------------------------
(***************************************************************************)
(* Proofs about the objects of class Vcon (VconLifecycle), and about the   *)
(* vcon command, which is a use of them: every run of it, by any number of *)
(* processes and in any pipeline, is a behaviour of VconLifecycle, so that *)
(* what is proved there of objects and documents holds of what the         *)
(* processes write.                                                        *)
(***************************************************************************)
EXTENDS Cli, TLAPS

-----------------------------------------------------------------------------
(***************************************************************************)
(* Objects and documents.  LifeInv speaks of each object on its own,       *)
(* beside the documents and the signings there are.  So it is put together *)
(* from Sound, the invariant of one object, and a call is shown to leave   *)
(* its object sound.                                                       *)
(***************************************************************************)

Object == [state : States, content : Content,
           jws : Jws \cup {None}, jwe : Jwe \cup {None}]

Sound(o, cas, known) ==
    /\ o \in Object
    /\ o.state \in {"SIGNED", "UNVERIFIED", "VERIFIED"} => o.jws \in Jws
    /\ o.state = "ENCRYPTED" => o.jwe \in Jwe
    /\ o.state = "SIGNED" => o.content = o.jws.payload
    /\ o.state = "VERIFIED" =>
           /\ o.content = Migrated(o.jws.payload)
           /\ \E s \in known : s.authority \in cas
                               /\ o.content = Migrated(s.content)
    /\ Vouched(o.jws, known)
    /\ Vouched(o.jwe, known)

Known(docs, known) == \A d \in docs : d \in Document /\ Vouched(d, known)

AllSound == /\ vcon = [v \in Vcon |-> vcon[v]]
            /\ accepted \in [Vcon -> SUBSET Authority]
            /\ signings \subseteq [authority : Authority, content : Content]
            /\ \A v \in Vcon : Sound(vcon[v], accepted[v], signings)
            /\ Known(documents, signings)

\* The invariant is the soundness of every object.
LEMMA LifeInvIsAllSound == LifeInv <=> AllSound
<1>1. ASSUME LifeInv PROVE AllSound
  <2>1. vcon = [v \in Vcon |-> vcon[v]]
    BY <1>1 DEF LifeInv, LifeTypeOK
  <2>2. ASSUME NEW v \in Vcon PROVE Sound(vcon[v], accepted[v], signings)
    BY <1>1, <2>2 DEF LifeInv, LifeTypeOK, ReadableIsWhatWasSigned,
                      VerifiedWasSigned, EverySignatureIsKnown, Sound, Object
  <2>3. Known(documents, signings)
    BY <1>1 DEF LifeInv, LifeTypeOK, EverySignatureIsKnown, Known
  <2> QED  BY <1>1, <2>1, <2>2, <2>3 DEF AllSound, LifeInv, LifeTypeOK
<1>2. ASSUME AllSound PROVE LifeInv
  <2>1. LifeTypeOK
    <3>1. vcon \in [Vcon -> Object]
      BY <1>2 DEF AllSound, Sound
    <3> QED  BY <1>2, <3>1 DEF AllSound, Sound, Object, Known, LifeTypeOK
  <2>2. ReadableIsWhatWasSigned /\ VerifiedWasSigned
    BY <1>2 DEF AllSound, Sound, ReadableIsWhatWasSigned, VerifiedWasSigned
  <2>3. EverySignatureIsKnown
    BY <1>2 DEF AllSound, Sound, Known, EverySignatureIsKnown
  <2> QED  BY <2>1, <2>2, <2>3 DEF LifeInv
<1> QED  BY <1>1, <1>2

\* A document is of the type its form says.
LEMMA DocumentByForm ==
    ASSUME NEW d \in Document
    PROVE  /\ d.form = "jws" => d \in Jws
           /\ d.form = "jwe" => d \in Jwe
           /\ d.form = "vcon" => d \in Plain
BY DEF Document, Plain, Jws, Jwe, Unknown

\* Migration gives a content.
LEMMA MigratedContent ==
    ASSUME NEW c \in Content PROVE Migrated(c) \in Content
BY DEF Content, Migrated

\* Documents that were vouched for stay so when more is signed.
LEMMA VouchedGrows ==
    ASSUME NEW d, NEW known, NEW more, known \subseteq more, Vouched(d, known)
    PROVE  Vouched(d, more)
BY DEF Vouched

\* So does a sound object.
LEMMA SoundGrows ==
    ASSUME NEW o, NEW cas, NEW known, NEW more, known \subseteq more,
           Sound(o, cas, known)
    PROVE  Sound(o, cas, more)
BY VouchedGrows DEF Sound

\* A call that changes its object to a sound one, and at most adds to what is
\* signed, keeps the invariant.
LEMMA BecomeSound ==
    ASSUME AllSound, NEW v \in Vcon, NEW o, Become(v, o),
           UNCHANGED documents,
           signings \subseteq signings',
           signings' \subseteq [authority : Authority, content : Content],
           NEW cas \in SUBSET Authority,
           accepted' = [accepted EXCEPT ![v] = cas],
           Sound(o, cas, signings')
    PROVE  AllSound'
<1>1. vcon' = [w \in Vcon |-> vcon'[w]]
  BY DEF AllSound, Become
<1>2. accepted' \in [Vcon -> SUBSET Authority]
  BY DEF AllSound
<1>3. ASSUME NEW w \in Vcon PROVE Sound(vcon'[w], accepted'[w], signings')
  <2>1. CASE w = v
    BY <2>1 DEF AllSound, Become
  <2>2. CASE w # v
    <3>1. vcon'[w] = vcon[w] /\ accepted'[w] = accepted[w]
      BY <2>2 DEF AllSound, Become
    <3>2. Sound(vcon[w], accepted[w], signings)
      BY DEF AllSound
    <3> QED  BY <3>1, <3>2, SoundGrows
  <2> QED  BY <2>1, <2>2
<1>4. Known(documents', signings')
  BY VouchedGrows DEF AllSound, Known
<1> QED  BY <1>1, <1>2, <1>3, <1>4 DEF AllSound

-----------------------------------------------------------------------------

\* The calls that raise, or that only write a document, leave all objects.
LEMMA RaiseKeepsSound ==
    ASSUME AllSound, NEW exception, Raise(exception) PROVE AllSound'
BY DEF Raise, AllSound

\* An unsigned object stays sound with another content.
LEMMA SetContentSound ==
    ASSUME AllSound, NEW v \in Vcon, vcon[v].state = "UNSIGNED",
           NEW c \in Content, SetContent(v, c)
    PROVE  AllSound'
<1> DEFINE o == [vcon[v] EXCEPT !.content = c]
<1>1. Sound(vcon[v], accepted[v], signings)
  BY DEF AllSound
<1>2. /\ o \in Object /\ o.state = "UNSIGNED"
      /\ o.jws = vcon[v].jws /\ o.jwe = vcon[v].jwe
  BY <1>1 DEF Sound, Object
<1>3. Sound(o, accepted[v], signings)
  <2> HIDE DEF o
  <2> QED  BY <1>1, <1>2 DEF Sound
<1>4. Become(v, o) /\ UNCHANGED <<documents, accepted, signings>>
  BY DEF SetContent
<1> HIDE DEF o
<1>5. accepted' = [accepted EXCEPT ![v] = accepted[v]] /\ accepted[v] \in SUBSET Authority
  BY <1>4 DEF AllSound
<1> QED  BY <1>3, <1>4, <1>5, BecomeSound DEF AllSound

LEMMA SetSubjectSound ==
    ASSUME AllSound, NEW v \in Vcon, NEW s \in Subject, SetSubject(v, s)
    PROVE  AllSound'
<1>1. CASE \E exception : Raise(exception)
  BY <1>1, RaiseKeepsSound
<1>2. CASE /\ Modifiable(v)
           /\ SetContent(v, [vcon[v].content EXCEPT !.subject = s])
  <2>1. vcon[v].content \in Content
    BY DEF AllSound, Sound, Object
  <2>2. [vcon[v].content EXCEPT !.subject = s] \in Content
    BY <2>1 DEF Content
  <2> QED  BY <1>2, <2>2, SetContentSound DEF Modifiable
<1> QED  BY <1>1, <1>2 DEF SetSubject

LEMMA SetUuidSound ==
    ASSUME AllSound, NEW v \in Vcon, NEW u \in Uuid, NEW replace,
           SetUuid(v, u, replace)
    PROVE  AllSound'
<1>1. CASE \E exception : Raise(exception)
  BY <1>1, RaiseKeepsSound
<1>2. CASE /\ Modifiable(v)
           /\ SetContent(v, [vcon[v].content EXCEPT !.uuid = u])
  <2>1. vcon[v].content \in Content
    BY DEF AllSound, Sound, Object
  <2>2. [vcon[v].content EXCEPT !.uuid = u] \in Content
    BY <2>1 DEF Content
  <2> QED  BY <1>2, <2>2, SetContentSound DEF Modifiable
<1> QED  BY <1>1, <1>2 DEF SetUuid

\* Whatever loads accepts, it makes a sound object of.
LEMMA LoadedSound ==
    ASSUME NEW o, NEW cas, NEW known, Sound(o, cas, known),
           NEW doc \in Document, Vouched(doc, known), Loadable(doc)
    PROVE  Sound(LoadedFrom(o, doc), cas, known)
<1>1. o \in Object
  BY DEF Sound
<1>2. NewContent \in Content
  BY DEF NewContent, Content, Version
<1>3. CASE doc.form = "jws"
  <2> DEFINE p == [o EXCEPT !.state = "UNVERIFIED", !.content = NewContent,
                            !.jws = doc]
  <2>1. LoadedFrom(o, doc) = p
    BY <1>3 DEF LoadedFrom
  <2>2. doc \in Jws
    BY <1>3, DocumentByForm
  <2>3. /\ p \in Object /\ p.state = "UNVERIFIED"
        /\ p.jws = doc /\ p.jwe = o.jwe
    BY <1>1, <1>2, <2>2 DEF Object, States
  <2> HIDE DEF p
  <2> QED  BY <2>1, <2>2, <2>3 DEF Sound
<1>4. CASE doc.form = "jwe"
  <2> DEFINE p == [o EXCEPT !.state = "ENCRYPTED", !.content = NewContent,
                            !.jwe = doc]
  <2>1. LoadedFrom(o, doc) = p
    BY <1>4 DEF LoadedFrom
  <2>2. doc \in Jwe
    BY <1>4, DocumentByForm
  <2>3. /\ p \in Object /\ p.state = "ENCRYPTED"
        /\ p.jws = o.jws /\ p.jwe = doc
    BY <1>1, <1>2, <2>2 DEF Object, States
  <2> HIDE DEF p
  <2> QED  BY <2>1, <2>2, <2>3 DEF Sound
<1>5. CASE doc.form = "vcon"
  <2> DEFINE p == [o EXCEPT !.state = "UNSIGNED",
                            !.content = Migrated(doc.content)]
  <2>1. LoadedFrom(o, doc) = p
    BY <1>5 DEF LoadedFrom
  <2>2. Migrated(doc.content) \in Content
    BY <1>5, DocumentByForm, MigratedContent DEF Plain
  <2>3. /\ p \in Object /\ p.state = "UNSIGNED"
        /\ p.jws = o.jws /\ p.jwe = o.jwe
    BY <1>1, <2>2 DEF Object, States
  <2> HIDE DEF p
  <2> QED  BY <2>1, <2>3 DEF Sound
<1> QED  BY <1>3, <1>4, <1>5 DEF Loadable

\* A load fails and leaves the object, or fills it.
Filled(v, doc) == /\ Loadable(doc)
                  /\ Become(v, LoadedFrom(vcon[v], doc))
                  /\ UNCHANGED <<documents, accepted, signings>>

LEMMA LoadsCases ==
    ASSUME vcon \in [Vcon -> Object], NEW v \in Vcon, NEW doc, Loads(v, doc)
    PROVE  (\E exception : exception # "ok" /\ Raise(exception))
               \/ (Filled(v, doc) /\ vcon[v].state = "UNSIGNED")
<1> DEFINE outcome == LoadsOutcome(vcon[v], doc)
<1>1. CASE vcon[v].state = "UNSIGNED" /\ Loadable(doc)
  <2>1. outcome = [object |-> LoadedFrom(vcon[v], doc), reply |-> "ok"]
    BY <1>1 DEF LoadsOutcome
  <2> HIDE DEF outcome
  <2> QED  BY <1>1, <2>1 DEF Loads, Ends, Filled, Become, outcome
<1>2. CASE ~(vcon[v].state = "UNSIGNED" /\ Loadable(doc))
  <2>1. outcome.object = vcon[v] /\ outcome.reply # "ok"
    BY <1>2 DEF LoadsOutcome, LoadError
  <2> HIDE DEF outcome
  <2>2. vcon' = vcon /\ UNCHANGED <<documents, accepted, signings>>
    BY <2>1 DEF Loads, Ends, outcome
  <2>3. reply' = outcome.reply
    BY DEF Loads, Ends, outcome
  <2> QED  BY <2>1, <2>2, <2>3 DEF Raise
<1> QED  BY <1>1, <1>2

\* So it is with decrypt, in which loads is told another state: whichever way
\* loads ends, no trace of that state is left.
LEMMA DecryptCases ==
    ASSUME vcon \in [Vcon -> Object], NEW v \in Vcon, NEW k, Decrypt(v, k)
    PROVE  (\E exception : exception # "ok" /\ Raise(exception))
               \/ (Filled(v, vcon[v].jwe.plaintext)
                      /\ vcon[v].state = "ENCRYPTED")
<1> DEFINE doc == vcon[v].jwe.plaintext
           pretended == [vcon[v] EXCEPT !.state = "UNSIGNED"]
           outcome == Restored(LoadsOutcome(pretended, doc), vcon[v].state)
<1>1. CASE \E exception : exception # "ok" /\ Raise(exception)
  BY <1>1 DEF Raise
<1>2. CASE vcon[v].state = "ENCRYPTED" /\ Ends(v, outcome)
  <2>1. vcon[v] \in Object
    OBVIOUS
  <2>2. pretended.state = "UNSIGNED"
    BY <2>1 DEF Object
  <2>3. [pretended EXCEPT !.state = vcon[v].state] = vcon[v]
    BY <2>1 DEF Object
  <2>4. CASE Loadable(doc)
    <3>1. LoadedFrom(pretended, doc) = LoadedFrom(vcon[v], doc)
      BY <2>1 DEF LoadedFrom, Object
    <3> HIDE DEF pretended, doc
    <3>2. LoadsOutcome(pretended, doc) =
              [object |-> LoadedFrom(vcon[v], doc), reply |-> "ok"]
      BY <2>2, <2>4, <3>1 DEF LoadsOutcome
    <3>3. outcome.object = LoadedFrom(vcon[v], doc) /\ outcome.reply = "ok"
      BY <3>2 DEF Restored
    <3> HIDE DEF outcome
    <3> QED  BY <1>2, <2>4, <3>3 DEF Ends, Filled, Become, doc
  <2>5. CASE ~Loadable(doc)
    <3> HIDE DEF pretended, doc
    <3>1. LoadsOutcome(pretended, doc) =
              [object |-> pretended, reply |-> LoadError(doc)]
      BY <2>2, <2>5 DEF LoadsOutcome
    <3>2. LoadError(doc) # "ok"
      BY DEF LoadError
    <3>3. outcome.object = vcon[v] /\ outcome.reply # "ok"
      BY <2>3, <3>1, <3>2 DEF Restored
    <3> HIDE DEF outcome
    <3>4. vcon' = vcon /\ UNCHANGED <<documents, accepted, signings>>
      BY <1>2, <3>3 DEF Ends
    <3>5. reply' = outcome.reply
      BY <1>2 DEF Ends
    <3> QED  BY <3>3, <3>4, <3>5 DEF Raise
  <2> QED  BY <2>4, <2>5
<1> QED  BY <1>1, <1>2 DEF Decrypt

LEMMA FilledSound ==
    ASSUME AllSound, NEW v \in Vcon, NEW doc \in Document,
           Vouched(doc, signings), Filled(v, doc)
    PROVE  AllSound'
<1>1. Sound(LoadedFrom(vcon[v], doc), accepted[v], signings)
  BY LoadedSound DEF AllSound, Filled
<1>2. /\ accepted' = [accepted EXCEPT ![v] = accepted[v]]
      /\ accepted[v] \in SUBSET Authority
  BY DEF AllSound, Filled
<1> QED  BY <1>1, <1>2, BecomeSound DEF AllSound, Filled

LEMMA ObjectsOfSound == AllSound => vcon \in [Vcon -> Object]
BY DEF AllSound, Sound

LEMMA LoadsSound ==
    ASSUME AllSound, NEW v \in Vcon, NEW doc \in Document,
           Vouched(doc, signings), Loads(v, doc)
    PROVE  AllSound'
BY LoadsCases, ObjectsOfSound, RaiseKeepsSound, FilledSound

\* The form of a sound object that dumpd writes is a document, and its chains
\* are known.
LEMMA DumpedSound ==
    ASSUME NEW o, NEW cas, NEW known, Sound(o, cas, known), NEW signed
    PROVE  Dumped(o, signed) \in Document /\ Vouched(Dumped(o, signed), known)
<1> DEFINE doc == Dumped(o, signed)
<1>1. CASE doc = [form |-> "vcon", content |-> o.content]
  <2>1. doc \in Plain /\ doc.form = "vcon"
    BY <1>1 DEF Sound, Object, Plain
  <2> QED  BY <2>1 DEF Document, Vouched
<1>2. CASE doc = o.jwe /\ o.state = "ENCRYPTED"
  BY <1>2 DEF Sound, Document
<1>3. CASE o.state \in {"SIGNED", "UNVERIFIED", "VERIFIED"} /\ doc = o.jws
  BY <1>3 DEF Sound, Document
<1> QED
  <2>1. o.state \in States
    BY DEF Sound, Object
  <2> QED  BY <1>1, <1>2, <1>3, <2>1 DEF Dumped, States

LEMMA DumpdSound ==
    ASSUME AllSound, NEW v \in Vcon, NEW signed, Dumpd(v, signed)
    PROVE  AllSound'
<1>1. CASE \E exception : Raise(exception)
  BY <1>1, RaiseKeepsSound
<1>2. CASE /\ DumpError(vcon[v], signed) = "ok"
           /\ documents' = documents \cup {Dumped(vcon[v], signed)}
           /\ UNCHANGED <<vcon, accepted, signings>>
  <2>1. Sound(vcon[v], accepted[v], signings)
    BY DEF AllSound
  <2>2. Known(documents', signings')
    BY <1>2, <2>1, DumpedSound DEF AllSound, Known
  <2> QED  BY <1>2, <2>2 DEF AllSound
<1> QED  BY <1>1, <1>2 DEF Dumpd

\* Sign adds to the signings what its own signature vouches for.
LEMMA SignSound ==
    ASSUME AllSound, NEW v \in Vcon, NEW issuers \in SUBSET Authority,
           Sign(v, issuers)
    PROVE  AllSound'
<1> DEFINE content == vcon[v].content
           sig == [x5c |-> "certs", issuers |-> issuers, over |-> content]
           jws == [form |-> "jws", payload |-> content, signatures |-> <<sig>>]
           o == [vcon[v] EXCEPT !.state = "SIGNED", !.jws = jws]
           new == {Signing(a, content) : a \in issuers}
<1>1. CASE \E exception : Raise(exception)
  BY <1>1, RaiseKeepsSound
<1>2. CASE /\ Become(v, o)
           /\ signings' = signings \cup new
           /\ UNCHANGED <<documents, accepted>>
  <2>1. Sound(vcon[v], accepted[v], signings)
    BY DEF AllSound
  <2>2. content \in Content /\ vcon[v] \in Object
    BY <2>1 DEF Sound, Object
  <2>3. jws \in Jws /\ jws.payload = content /\ jws.form = "jws"
    <3>1. sig \in Signature
      BY <2>2 DEF Signature
    <3> HIDE DEF sig, content
    <3>2. <<sig>> \in Seq(Signature)
      BY <3>1
    <3> QED  BY <2>2, <3>2 DEF Jws
  <2>4. /\ o \in Object /\ o.state = "SIGNED" /\ o.content = content
        /\ o.jws = jws /\ o.jwe = vcon[v].jwe
    <3> HIDE DEF jws
    <3> QED  BY <2>2, <2>3 DEF Object, States
  <2>5. SigningsOf(jws) \subseteq signings'
    <3>1. Range(jws.signatures) = {sig}
      <4>1. jws.signatures = <<sig>>
        OBVIOUS
      <4> HIDE DEF jws, sig
      <4> QED  BY <4>1 DEF Range
    <3>2. SigningsOf(jws) = {Signing(a, sig.over) : a \in sig.issuers}
      <4> HIDE DEF jws, sig
      <4> QED  BY <3>1 DEF SigningsOf
    <3>3. sig.over = content /\ sig.issuers = issuers
      OBVIOUS
    <3> HIDE DEF jws, sig, content
    <3> QED  BY <1>2, <3>2, <3>3
  <2>6. signings' \subseteq [authority : Authority, content : Content]
    <3>1. new \subseteq [authority : Authority, content : Content]
      <4> HIDE DEF content
      <4> QED  BY <2>2 DEF Signing
    <3> HIDE DEF new
    <3> QED  BY <1>2, <3>1 DEF AllSound
  <2>7. Sound(vcon[v], accepted[v], signings')
    BY <1>2, <2>1, SoundGrows
  <2> HIDE DEF o, jws, content, new
  <2>8. Vouched(jws, signings')
    BY <2>3, <2>5 DEF Vouched
  <2>9. Sound(o, accepted[v], signings')
    BY <2>3, <2>4, <2>7, <2>8 DEF Sound
  <2>10. /\ accepted' = [accepted EXCEPT ![v] = accepted[v]]
         /\ accepted[v] \in SUBSET Authority
         /\ signings \subseteq signings'
         /\ UNCHANGED documents
    BY <1>2 DEF AllSound
  <2> QED  BY <1>2, <2>6, <2>9, <2>10, BecomeSound DEF AllSound
<1> QED  BY <1>1, <1>2 DEF Sign

\* verify only accepts a payload that an accepted authority's chain vouches
\* for, and such a signing is known.
LEMMA VerifySound ==
    ASSUME AllSound, NEW v \in Vcon, NEW cas \in SUBSET Authority,
           Verify(v, cas)
    PROVE  AllSound'
<1> DEFINE jws == vcon[v].jws
           o == [vcon[v] EXCEPT !.state = "VERIFIED",
                                !.content = Migrated(jws.payload)]
<1>1. CASE \E exception : Raise(exception)
  BY <1>1, RaiseKeepsSound
<1>2. CASE /\ vcon[v].state = "UNVERIFIED"
           /\ Verifies(jws, cas)
           /\ Become(v, o)
           /\ accepted' = [accepted EXCEPT ![v] = cas]
           /\ UNCHANGED <<documents, signings>>
  <2>1. Sound(vcon[v], accepted[v], signings)
    BY DEF AllSound
  <2>2. jws \in Jws /\ vcon[v] \in Object
    BY <1>2, <2>1 DEF Sound
  <2>3. Migrated(jws.payload) \in Content
    BY <2>2, MigratedContent DEF Jws
  <2>4. /\ o \in Object /\ o.state = "VERIFIED"
        /\ o.content = Migrated(jws.payload)
        /\ o.jws = jws /\ o.jwe = vcon[v].jwe
    BY <2>2, <2>3 DEF Object, States
  <2>5. PICK i \in DOMAIN jws.signatures : Accepts(jws, jws.signatures[i], cas)
    BY <1>2 DEF Verifies
  <2>6. PICK a \in jws.signatures[i].issuers : a \in cas
    BY <2>5 DEF Accepts
  <2>7. Signing(a, jws.payload) \in SigningsOf(jws)
    BY <2>5, <2>6 DEF Accepts, SigningsOf, Range
  <2>8. Signing(a, jws.payload) \in signings
    BY <2>1, <2>2, <2>7 DEF Sound, Vouched, Jws
  <2> HIDE DEF o
  <2>9. \E s \in signings : s.authority \in cas
                           /\ o.content = Migrated(s.content)
    BY <2>4, <2>6, <2>8 DEF Signing
  <2>10. Sound(o, cas, signings)
    BY <2>1, <2>2, <2>4, <2>9 DEF Sound
  <2> QED  BY <1>2, <2>10, BecomeSound DEF AllSound
<1> QED  BY <1>1, <1>2 DEF Verify

\* encrypt wraps the JWS the object holds.
LEMMA EncryptSound ==
    ASSUME AllSound, NEW v \in Vcon, NEW k \in KeyPair, Encrypt(v, k)
    PROVE  AllSound'
<1> DEFINE jwe == [form |-> "jwe", plaintext |-> vcon[v].jws, keyPair |-> k]
           o == [vcon[v] EXCEPT !.state = "ENCRYPTED", !.jwe = jwe]
<1>1. CASE \E exception : Raise(exception)
  BY <1>1, RaiseKeepsSound
<1>2. CASE /\ vcon[v].state \in {"SIGNED", "UNVERIFIED"}
           /\ Become(v, o)
           /\ UNCHANGED <<documents, accepted, signings>>
  <2>1. Sound(vcon[v], accepted[v], signings)
    BY DEF AllSound
  <2>2. vcon[v].jws \in Jws /\ vcon[v] \in Object
    BY <1>2, <2>1 DEF Sound
  <2>3. jwe \in Jwe /\ jwe.form = "jwe" /\ jwe.plaintext = vcon[v].jws
    BY <2>2 DEF Jwe
  <2>4. vcon[v].jws.form = "jws"
    BY <2>2 DEF Jws
  <2> HIDE DEF jwe
  <2>5. /\ o \in Object /\ o.state = "ENCRYPTED"
        /\ o.jws = vcon[v].jws /\ o.jwe = jwe
    BY <2>2, <2>3 DEF Object, States
  <2>6. Vouched(jwe, signings)
    BY <2>1, <2>3, <2>4 DEF Sound, Vouched
  <2> HIDE DEF o
  <2>7. Sound(o, accepted[v], signings)
    BY <2>1, <2>3, <2>5, <2>6 DEF Sound
  <2>8. /\ accepted' = [accepted EXCEPT ![v] = accepted[v]]
        /\ accepted[v] \in SUBSET Authority
    BY <1>2 DEF AllSound
  <2> QED  BY <1>2, <2>7, <2>8, BecomeSound DEF AllSound
<1> QED  BY <1>1, <1>2 DEF Encrypt

LEMMA DecryptSound ==
    ASSUME AllSound, NEW v \in Vcon, NEW k \in KeyPair, Decrypt(v, k)
    PROVE  AllSound'
<1>1. CASE \E exception : Raise(exception)
  BY <1>1, RaiseKeepsSound
<1>2. CASE Filled(v, vcon[v].jwe.plaintext) /\ vcon[v].state = "ENCRYPTED"
  <2> DEFINE doc == vcon[v].jwe.plaintext
  <2>1. Sound(vcon[v], accepted[v], signings)
    BY DEF AllSound
  <2>2. vcon[v].jwe \in Jwe
    BY <1>2, <2>1 DEF Sound
  <2>3. doc \in Plain \cup Jws \cup Unknown
    BY <2>2 DEF Jwe
  <2>4. Vouched(doc, signings)
    <3>1. doc.form # "jwe"
      BY <2>3 DEF Plain, Jws, Unknown
    <3> QED  BY <2>1, <2>2, <3>1 DEF Sound, Vouched, Jwe
  <2>5. doc \in Document
    BY <2>3 DEF Document
  <2> HIDE DEF doc
  <2>6. Filled(v, doc)
    BY <1>2 DEF doc
  <2> QED  BY <2>4, <2>5, <2>6, FilledSound
<1> QED  BY <1>1, <1>2, DecryptCases, ObjectsOfSound

-----------------------------------------------------------------------------

\* At the start, what is known is what the documents of others vouch for.
LEMMA InitSound == LifeInit => AllSound
<1> SUFFICES ASSUME LifeInit PROVE AllSound
  OBVIOUS
<1>1. JwsIn(Foreign) \subseteq Jws
  <2>1. ASSUME NEW d \in Foreign, d.form = "jws" PROVE d \in Jws
    BY <2>1, ForeignAssumption, DocumentByForm
  <2>2. ASSUME NEW e \in Foreign, e.form = "jwe", e.plaintext.form = "jws"
        PROVE  e.plaintext \in Jws
    <3>1. e \in Jwe
      BY <2>2, ForeignAssumption, DocumentByForm
    <3>2. e.plaintext \in Plain \cup Jws \cup Unknown
      BY <3>1 DEF Jwe
    <3> QED  BY <2>2, <3>2 DEF Plain, Unknown
  <2> QED  BY <2>1, <2>2 DEF JwsIn
<1>2. signings \subseteq [authority : Authority, content : Content]
  <2>1. ASSUME NEW d \in Jws
        PROVE  SigningsOf(d) \subseteq [authority : Authority, content : Content]
    <3>1. d.signatures \in Seq(Signature)
      BY DEF Jws
    <3>2. ASSUME NEW sig \in Range(d.signatures), NEW a \in sig.issuers
          PROVE  Signing(a, sig.over) \in [authority : Authority, content : Content]
      <4>1. sig \in Signature
        BY <3>1 DEF Range
      <4> QED  BY <4>1 DEF Signature, Signing
    <3> QED  BY <3>2 DEF SigningsOf
  <2>2. signings = UNION {SigningsOf(d) : d \in JwsIn(Foreign)}
    BY DEF LifeInit
  <2> QED  BY <1>1, <2>1, <2>2
<1>3. Known(documents, signings)
  <2> SUFFICES ASSUME NEW d \in Foreign
               PROVE  d \in Document /\ Vouched(d, signings)
    BY DEF Known, LifeInit
  <2>1. d.form = "jws" => d \in JwsIn(Foreign)
    BY DEF JwsIn
  <2>2. d.form = "jwe" /\ d.plaintext.form = "jws" =>
            d.plaintext \in JwsIn(Foreign)
    BY DEF JwsIn
  <2> QED  BY <2>1, <2>2, ForeignAssumption DEF Vouched, LifeInit
<1>4. ASSUME NEW v \in Vcon PROVE Sound(vcon[v], accepted[v], signings)
  <2>1. vcon[v] = [state |-> "UNSIGNED", content |-> NewContent,
                   jws |-> None, jwe |-> None]
    BY DEF LifeInit
  <2>2. NewContent \in Content
    BY DEF NewContent, Content, Version
  <2>3. None.form = "none"
    BY DEF None
  <2> QED  BY <2>1, <2>2, <2>3 DEF Sound, Object, States, Vouched
<1> QED  BY <1>2, <1>3, <1>4 DEF AllSound, LifeInit

LEMMA NextSound == AllSound /\ [LifeNext]_lifeVars => AllSound'
<1> SUFFICES ASSUME AllSound, [LifeNext]_lifeVars PROVE AllSound'
  OBVIOUS
<1>1. CASE UNCHANGED lifeVars
  BY <1>1 DEF lifeVars, AllSound
<1>2. ASSUME NEW v \in Vcon, NEW s \in Subject, SetSubject(v, s)
      PROVE  AllSound'
  BY <1>2, SetSubjectSound
<1>3. ASSUME NEW v \in Vcon, NEW u \in Uuid, NEW replace \in BOOLEAN,
             SetUuid(v, u, replace)
      PROVE  AllSound'
  BY <1>3, SetUuidSound
<1>4. ASSUME NEW v \in Vcon, NEW d \in documents, Loads(v, d)
      PROVE  AllSound'
  BY <1>4, LoadsSound DEF AllSound, Known
<1>5. ASSUME NEW v \in Vcon, NEW signed \in BOOLEAN, Dumpd(v, signed)
      PROVE  AllSound'
  BY <1>5, DumpdSound
<1>6. ASSUME NEW v \in Vcon, NEW issuers \in Issuers, Sign(v, issuers)
      PROVE  AllSound'
  BY <1>6, SignSound DEF Issuers
<1>7. ASSUME NEW v \in Vcon, NEW cas \in SUBSET Authority, Verify(v, cas)
      PROVE  AllSound'
  BY <1>7, VerifySound
<1>8. ASSUME NEW v \in Vcon, NEW k \in KeyPair, Encrypt(v, k)
      PROVE  AllSound'
  BY <1>8, EncryptSound
<1>9. ASSUME NEW v \in Vcon, NEW k \in KeyPair, Decrypt(v, k)
      PROVE  AllSound'
  BY <1>9, DecryptSound
<1> QED
  BY <1>1, <1>2, <1>3, <1>4, <1>5, <1>6, <1>7, <1>8, <1>9 DEF LifeNext

\* The invariant holds in every state of every run.
THEOREM LifeInvariance == LifeSpec => []LifeInv
<1>1. LifeInit => LifeInv
  BY InitSound, LifeInvIsAllSound
<1>2. LifeInv /\ [LifeNext]_lifeVars => LifeInv'
  <2>1. LifeInv => AllSound
    BY LifeInvIsAllSound
  <2>2. AllSound' => LifeInv'
    BY LifeInvIsAllSound, PTL
  <2> QED  BY <2>1, <2>2, NextSound
<1> QED  BY <1>1, <1>2, PTL DEF LifeSpec

\* Every object has the fields its state needs, whatever it was loaded from.
THEOREM LifeTypeCorrect == LifeSpec => []LifeTypeOK
<1>1. LifeInv => LifeTypeOK
  BY DEF LifeInv
<1> QED  BY <1>1, LifeInvariance, PTL

\* What can be read of a signed vCon is what its signature is over.
THEOREM SignedContentIsFrozen == LifeSpec => []ReadableIsWhatWasSigned
<1>1. LifeInv => ReadableIsWhatWasSigned
  BY DEF LifeInv
<1> QED  BY <1>1, LifeInvariance, PTL

\* A verified vCon says what somebody signed under an accepted authority,
\* however many objects and documents there are.
THEOREM VerifiedContentWasSigned == LifeSpec => []VerifiedWasSigned
<1>1. LifeInv => VerifiedWasSigned
  BY DEF LifeInv
<1> QED  BY <1>1, LifeInvariance, PTL

\* A signed or encrypted object can be changed again only after a decrypt that
\* found an unsigned vCon.
THEOREM PlaintextThaws == LifeSpec => OnlyPlaintextThaws
<1>1. ASSUME LifeTypeOK, [LifeNext]_lifeVars, NEW v \in Vcon,
             vcon[v].state # "UNSIGNED", vcon'[v].state = "UNSIGNED"
      PROVE  vcon[v].state = "ENCRYPTED" /\ vcon[v].jwe.plaintext.form = "vcon"
  <2>1. PICK w \in Vcon :
            \/ \E s \in Subject : SetSubject(w, s)
            \/ \E u \in Uuid, replace \in BOOLEAN : SetUuid(w, u, replace)
            \/ \E d \in documents : Loads(w, d)
            \/ \E signed \in BOOLEAN : Dumpd(w, signed)
            \/ \E issuers \in Issuers : Sign(w, issuers)
            \/ \E cas \in SUBSET Authority : Verify(w, cas)
            \/ \E k \in KeyPair : Encrypt(w, k) \/ Decrypt(w, k)
    BY <1>1 DEF LifeNext, lifeVars
  <2>2. vcon' # vcon
    BY <1>1
  <2>3. ASSUME NEW o, Become(w, o) PROVE w = v /\ vcon'[v] = o
    BY <1>1, <2>3 DEF Become, LifeTypeOK
  <2>4. CASE w # v \/ Modifiable(w)
    <3>1. Modifiable(w) => w # v
      BY <1>1 DEF Modifiable
    <3>2. \E o : Become(w, o)
      BY <1>1, <2>1, <2>2, LoadsCases, DecryptCases
         DEF SetSubject, SetUuid, SetContent, Filled, Dumpd, Sign,
             Verify, Encrypt, Raise, LifeTypeOK, Object
    <3> QED  BY <2>3, <2>4, <3>1, <3>2
  <2>5. CASE w = v /\ ~Modifiable(w)
    <3>1. CASE \E cas \in SUBSET Authority : Verify(v, cas)
      <4>1. Become(v, [vcon[v] EXCEPT !.state = "VERIFIED",
                                      !.content = Migrated(vcon[v].jws.payload)])
        BY <2>2, <3>1 DEF Verify, Raise
      <4>2. vcon'[v].state = "VERIFIED"
        BY <1>1, <4>1 DEF Become, LifeTypeOK
      <4> QED  BY <1>1, <4>2
    <3>2. CASE \E k \in KeyPair : Encrypt(v, k)
      <4>1. PICK jwe : Become(v, [vcon[v] EXCEPT !.state = "ENCRYPTED",
                                                 !.jwe = jwe])
        BY <2>2, <3>2 DEF Encrypt, Raise
      <4>2. vcon'[v].state = "ENCRYPTED"
        BY <1>1, <4>1 DEF Become, LifeTypeOK
      <4> QED  BY <1>1, <4>2
    <3>3. CASE \E k \in KeyPair : Decrypt(v, k)
      <4> DEFINE doc == vcon[v].jwe.plaintext
      <4>1. /\ vcon[v].state = "ENCRYPTED"
            /\ Loadable(doc)
            /\ Become(v, LoadedFrom(vcon[v], doc))
        BY <1>1, <2>2, <3>3, DecryptCases
           DEF Filled, Raise, LifeTypeOK, Object
      <4>2. vcon'[v] = LoadedFrom(vcon[v], doc)
        BY <2>5, <4>1, <2>3
      <4>3. vcon[v] \in [state : States, content : Content,
                         jws : Jws \cup {None}, jwe : Jwe \cup {None}]
        BY <1>1 DEF LifeTypeOK
      <4>4. doc.form # "vcon" => vcon'[v].state \in {"UNVERIFIED", "ENCRYPTED"}
        <5> HIDE DEF doc
        <5> QED  BY <4>1, <4>2, <4>3 DEF Loadable, LoadedFrom
      <4> QED  BY <1>1, <4>1, <4>4
    <3> QED
      <4>1. ~\E d : Loads(v, d)
        BY <1>1, <2>2, <2>5, LoadsCases
           DEF Raise, Modifiable, LifeTypeOK, Object
      <4> QED
        BY <2>1, <2>2, <2>5, <3>1, <3>2, <3>3, <4>1
           DEF SetSubject, SetUuid, Dumpd, Sign, Raise, Modifiable
  <2> QED  BY <2>4, <2>5
<1>2. LifeTypeOK /\ [LifeNext]_lifeVars =>
          [\A v \in Vcon :
              vcon[v].state # "UNSIGNED" /\ vcon'[v].state = "UNSIGNED" =>
                  /\ vcon[v].state = "ENCRYPTED"
                  /\ vcon[v].jwe.plaintext.form = "vcon"]_lifeVars
  BY <1>1
<1> QED  BY <1>2, LifeTypeCorrect, PTL DEF LifeSpec, OnlyPlaintextThaws

\* A call that raises, a failed decrypt included, has changed neither the object
\* nor the documents.
THEOREM FailedCallLeavesEverything == LifeSpec => FailedCallLeavesVcon
<1>1. ASSUME LifeTypeOK, LifeNext, reply' # "ok"
      PROVE  UNCHANGED <<vcon, documents>>
  <2>1. PICK v \in Vcon :
            \/ \E s \in Subject : SetSubject(v, s)
            \/ \E u \in Uuid, replace \in BOOLEAN : SetUuid(v, u, replace)
            \/ \E d \in documents : Loads(v, d)
            \/ \E signed \in BOOLEAN : Dumpd(v, signed)
            \/ \E issuers \in Issuers : Sign(v, issuers)
            \/ \E cas \in SUBSET Authority : Verify(v, cas)
            \/ \E k \in KeyPair : Encrypt(v, k) \/ Decrypt(v, k)
    BY <1>1 DEF LifeNext
  <2>2. \A o : ~Become(v, o)
    BY <1>1 DEF Become
  <2>3. vcon \in [Vcon -> Object]
    BY <1>1 DEF LifeTypeOK, Object
  <2>4. CASE \E d \in documents : Loads(v, d)
    BY <2>2, <2>3, <2>4, LoadsCases DEF Filled, Raise
  <2>5. CASE \E k \in KeyPair : Decrypt(v, k)
    BY <2>2, <2>3, <2>5, DecryptCases DEF Filled, Raise
  <2>6. CASE ~(\E d \in documents : Loads(v, d))
                 /\ ~(\E k \in KeyPair : Decrypt(v, k))
    <3>1. \E exception : Raise(exception)
      BY <1>1, <2>1, <2>2, <2>6
         DEF SetSubject, SetUuid, SetContent, Dumpd, Sign, Verify, Encrypt
    <3> QED  BY <3>1 DEF Raise
  <2> QED  BY <2>4, <2>5, <2>6
<1>2. LifeTypeOK /\ [LifeNext]_lifeVars =>
          [reply' # "ok" => UNCHANGED <<vcon, documents>>]_lifeVars
  BY <1>1
<1> QED  BY <1>2, LifeTypeCorrect, PTL DEF LifeSpec, FailedCallLeavesVcon

-----------------------------------------------------------------------------
(***************************************************************************)
(* The command.                                                            *)
(***************************************************************************)

\* What the calls on the objects rest on: documents that are loaded exist, and
\* the UUIDs drawn are UUIDs.
ServerAndClock == server \subseteq documents /\ clock \in 0 .. MaxClock

-----------------------------------------------------------------------------
\* Every step is a call on one object, or none

\* Loading a document there is.
LEMMA LoadsIsLife ==
    ASSUME NEW p \in Vcon, NEW d \in documents, Loads(p, d) PROVE LifeNext
BY DEF LifeNext

LEMMA LoadIsLife ==
    ASSUME ServerAndClock, NEW p \in Vcon, Load(p)
    PROVE  [LifeNext]_lifeVars
BY LoadsIsLife DEF Load, Read, NoAnswer, ServerAndClock

LEMMA DoCommandIsLife ==
    ASSUME NEW p \in Vcon, DoCommand(p) PROVE LifeNext
BY DEF DoCommand, CallOnVcon, LifeNext

\* The clock shows a time for which there is a UUID.
LEMMA GiveUuidIsLife ==
    ASSUME ServerAndClock, NEW p \in Vcon, GiveUuid(p)
    PROVE  [LifeNext]_lifeVars
<1>1. Uuid8DomainName(Host, Now) \in Uuid
  BY UuidAssumption DEF ServerAndClock, Now
<1>2. CASE SetUuid(p, Uuid8DomainName(Host, Now), FALSE)
  BY <1>1, <1>2 DEF LifeNext
<1>3. CASE UNCHANGED lifeVars
  BY <1>3
<1> QED
  BY <1>2, <1>3 DEF GiveUuid

LEMMA WriteIsLife ==
    ASSUME NEW p \in Vcon, Write(p) \/ Post(p) PROVE LifeNext
<1>1. /\ Cardinality(documents) < Cardinality(Foreign) + MaxDumps
      /\ \E signed \in BOOLEAN : Dumpd(p, signed)
  BY DEF Write, Post, Room, Signed, PostForm
<1> QED
  BY <1>1 DEF LifeNext

LEMMA CliStepIsLifeStep ==
    ASSUME ServerAndClock, [CliNext]_cliVars
    PROVE  [LifeNext]_lifeVars
<1>1. CASE UNCHANGED cliVars
  BY <1>1 DEF cliVars
<1>2. CASE Tick
  BY <1>2 DEF Tick
<1>3. ASSUME NEW p \in Vcon, Step(p) \/ Kill(p)
      PROVE  [LifeNext]_lifeVars
  <2>1. CASE \/ Start(p) \/ NoCommand(p) \/ CommandFails(p) \/ Extract(p)
             \/ Exit(p) \/ Kill(p)
    BY <2>1 DEF Start, NoCommand, CommandFails, Extract, Exit, Kill
  <2>2. CASE Load(p)
    BY <2>2, LoadIsLife
  <2>3. CASE DoCommand(p)
    BY <2>3, DoCommandIsLife
  <2>4. CASE GiveUuid(p)
    BY <2>4, GiveUuidIsLife
  <2>5. CASE Write(p) \/ Post(p)
    BY <2>5, WriteIsLife
  <2> QED
    BY <1>3, <2>1, <2>2, <2>3, <2>4, <2>5 DEF Step
<1> QED
  BY <1>1, <1>2, <1>3 DEF CliNext

-----------------------------------------------------------------------------
\* What a call leaves of the documents

\* Documents are never taken away.
LEMMA DocumentsGrow ==
    ASSUME [LifeNext]_lifeVars PROVE documents \subseteq documents'
<1>1. CASE UNCHANGED lifeVars
  BY <1>1 DEF lifeVars
<1>2. ASSUME NEW v \in Vcon,
             \/ \E s \in Subject : SetSubject(v, s)
             \/ \E u \in Uuid, replace \in BOOLEAN : SetUuid(v, u, replace)
      PROVE  documents \subseteq documents'
  BY <1>2 DEF SetSubject, SetUuid, SetContent, Raise
<1>3. ASSUME NEW v \in Vcon, NEW d, Loads(v, d)
      PROVE  documents \subseteq documents'
  BY <1>3 DEF Loads, Ends
<1>4. ASSUME NEW v \in Vcon, NEW signed, Dumpd(v, signed)
      PROVE  documents \subseteq documents'
  BY <1>4 DEF Dumpd, Raise
<1>5. ASSUME NEW v \in Vcon, NEW s, Sign(v, s) \/ Verify(v, s)
      PROVE  documents \subseteq documents'
  BY <1>5 DEF Sign, Verify, Raise
<1>6. ASSUME NEW v \in Vcon, NEW k, Encrypt(v, k) \/ Decrypt(v, k)
      PROVE  documents \subseteq documents'
  BY <1>6 DEF Encrypt, Decrypt, Ends, Raise
<1> QED
  BY <1>1, <1>2, <1>3, <1>4, <1>5, <1>6 DEF LifeNext

\* What is posted was dumped.
LEMMA DumpedIsDocument ==
    ASSUME NEW v, NEW signed, Dumpd(v, signed), reply' = "ok"
    PROVE  Dumped(vcon[v], signed) \in documents'
BY DEF Dumpd, Raise

LEMMA ServerAndClockKept ==
    ASSUME ServerAndClock, [CliNext]_cliVars PROVE ServerAndClock'
<1>1. documents \subseteq documents'
  BY CliStepIsLifeStep, DocumentsGrow
<1>2. CASE UNCHANGED <<server, clock>>
  BY <1>1, <1>2 DEF ServerAndClock
<1>3. CASE Tick
  BY <1>1, <1>3, UuidAssumption DEF Tick, ServerAndClock
<1>4. ASSUME NEW p \in Vcon, Post(p) PROVE ServerAndClock'
  <2>1. \/ server' = server
        \/ reply' = "ok" /\ server' = server \cup {Dumped(vcon[p], PostForm)}
    BY <1>4 DEF Post
  <2>2. clock' = clock
    BY <1>4 DEF Post
  <2>3. Dumpd(p, PostForm)
    BY <1>4 DEF Post
  <2> QED
    BY <1>1, <2>1, <2>2, <2>3, DumpedIsDocument DEF ServerAndClock
<1>5. ASSUME NEW p \in Vcon, Step(p) \/ Kill(p), ~Post(p)
      PROVE  UNCHANGED <<server, clock>>
  BY <1>5 DEF Step, Start, Load, NoAnswer, DoCommand, NoCommand, CommandFails,
              Extract, GiveUuid, Write, Exit, Kill
<1> QED
  BY <1>2, <1>3, <1>4, <1>5 DEF CliNext, cliVars

\* Every behaviour of the vcon command is one of class Vcon.
THEOREM CommandUsesVcon == CliSpec => LifeSpec
<1>1. CliInit => LifeInit /\ ServerAndClock
  BY UuidAssumption DEF CliInit, ServerAndClock
<1>2. CliSpec => []ServerAndClock
  BY <1>1, ServerAndClockKept, PTL DEF CliSpec
<1> QED
  BY <1>1, <1>2, CliStepIsLifeStep, PTL DEF CliSpec, LifeSpec

(***************************************************************************)
(* What the processes leave behind.  The invariant is one of each process  *)
(* on its own (Local), with the files beside it: a step of one process     *)
(* leaves what is another's alone, and more is signed as time goes on.     *)
(***************************************************************************)

Label == {"start", "load", "command", "uuid", "write", "post", "exit", "done"}

\* The types of what the processes have, and of the files.
CliTypeOK ==
    /\ args \in [Vcon -> Arguments \cup {NotRun}]
    /\ pc \in [Vcon -> Label]
    /\ status \in [Vcon -> {"running", "ok", "failed", "killed"}]
    /\ file \in [Stream -> Document \cup {Absent, Empty, Torn, Raw}]
    /\ input \in [Vcon -> Document \cup {Nothing, Empty, Torn, Raw}]
    /\ output \in [Vcon -> Document \cup {Nothing} \cup Body]
    /\ posted \in [Vcon -> Document \cup {Nothing}]
    /\ drawn \in [Vcon -> Nat]

\* How far a process is, and how it is doing.
Progress(p) ==
    /\ args[p] = NotRun => pc[p] = "done" /\ status[p] = "running"
    /\ args[p] # NotRun /\ pc[p] = "done" => status[p] # "running"
    /\ status[p] = "failed" => pc[p] \in {"exit", "done"}
    /\ status[p] \in {"ok", "killed"} => pc[p] = "done"

\* What it has not come to yet, and what it must have done.
InOrder(p) ==
    /\ pc[p] \in {"start", "load"} =>
           input[p] = Nothing /\ vcon[p].state = "UNSIGNED"
    /\ pc[p] \in {"start", "load", "command", "uuid"} => drawn[p] = NotDrawn
    /\ pc[p] \in {"start", "load", "command", "uuid", "write"} =>
           output[p] = Nothing /\ posted[p] = Nothing
    /\ pc[p] = "post" => posted[p] = Nothing
    /\ /\ args[p] # NotRun
       /\ pc[p] \in {"post", "exit", "done"}
       /\ status[p] \in {"running", "ok"}
       => output[p] # Nothing

\* The object stands for the vCon with this UUID, in whatever state.
Carries(o, id) ==
    /\ o.state \in {"UNSIGNED", "SIGNED", "VERIFIED"} => o.content.uuid = id
    /\ o.state \in {"SIGNED", "UNVERIFIED", "VERIFIED"} =>
           o.jws.payload.uuid = id
    /\ o.state = "ENCRYPTED" => /\ o.jwe.plaintext.form = "jws"
                                /\ o.jwe.plaintext.payload.uuid = id

Identified(doc) == doc.form \in {"vcon", "jws"} /\ IdOf(doc) # NoUuid

SameVcon(p) ==
    Identified(input[p]) =>
        /\ pc[p] \in {"command", "uuid", "write"} =>
               Carries(vcon[p], IdOf(input[p]))
        /\ output[p].form \in {"vcon", "jws"} =>
               IdOf(output[p]) = IdOf(input[p])

SaysSigned(p) ==
    /\ output[p].form = "vcon"
    /\ \E s \in signings : /\ s.authority \in accepted[p]
                           /\ output[p].content = Migrated(s.content)

Verifying(p) == args[p] # NotRun /\ args[p].command = "verify"

\* An object to be verified is what was read, and what is posted of it is that
\* or what was written.
SameForm(p) ==
    /\ pc[p] = "command" /\ vcon[p].state = "UNVERIFIED" =>
           vcon[p].jws = input[p]
    /\ pc[p] \in {"uuid", "write", "post"} /\ Verifying(p) =>
           vcon[p].state = "VERIFIED" /\ vcon[p].jws = input[p]
    /\ pc[p] = "post" /\ output[p] \notin Body =>
           output[p] = Dumped(vcon[p], Signed(p))
    /\ posted[p] # Nothing /\ output[p] \notin Body =>
           \/ posted[p] = output[p]
           \/ Verifying(p) /\ posted[p] = input[p]
    /\ Verifying(p) /\ output[p] # Nothing => SaysSigned(p)

DrawnInTime(p) ==
    drawn[p] # NotDrawn =>
        vcon[p].content.uuid = Uuid8DomainName(Host, drawn[p])

Local(p) == /\ Progress(p) /\ InOrder(p)
            /\ SameVcon(p) /\ SameForm(p) /\ DrawnInTime(p)

Writes(p, f) == args[p] # NotRun /\ args[p].out = f

\* A torn file is one that a process has begun to write, or was killed over;
\* and only what a process writes to changes.
TornByWriter ==
    \A f \in Stream : file[f] = Torn =>
        \E p \in Vcon : /\ Writes(p, f)
                        /\ \/ Running(p) /\ output[p] # Nothing
                           \/ status[p] = "killed"

ChangedByWriter ==
    \A f \in Path : file[f] # FileBefore[f] => \E p \in Vcon : Writes(p, f)

\* Nothing but an empty body is written as an empty output.
EmptyWasExtracted ==
    \A p \in Vcon : output[p] = Empty => args[p].command = "extract"

KeptWhenDone ==
    \A p \in Vcon :
        Succeeded(p) => \/ file[args[p].out] = output[p]
                        \/ \E q \in Vcon \ {p} : Writes(q, args[p].out)

CliInv == /\ CliTypeOK
          /\ args \in Scenario
          /\ \A p \in Vcon : Local(p)
          /\ TornByWriter
          /\ ChangedByWriter
          /\ KeptWhenDone
          /\ EmptyWasExtracted
          /\ NewOnlyFromNothing

-----------------------------------------------------------------------------
\* Documents and objects

\* What is no document is told from one by its form.
LEMMA Forms ==
    /\ \A d \in Document : d.form \in {"vcon", "jws", "jwe", "unknown"}
    /\ Absent \notin Document /\ Empty \notin Document /\ Torn \notin Document
    /\ Raw \notin Document /\ Nothing \notin Document
    /\ Absent # Empty /\ Torn # Empty /\ Torn # Absent /\ Torn # Raw
    /\ Raw # Empty /\ Raw # Nothing /\ Torn # Nothing /\ Empty # Nothing
    /\ Nothing.form = "nothing" /\ Raw.form = "raw"
    /\ Empty.form = "empty" /\ Torn.form = "torn"
<1>1. \A d \in Document : d.form \in {"vcon", "jws", "jwe", "unknown"}
  BY DEF Document, Plain, Jws, Jwe, Unknown
<1> QED
  BY <1>1 DEF Absent, Empty, Torn, Raw, Nothing

\* Loading makes the object stand for the vCon in the document.
LEMMA LoadedCarries ==
    ASSUME NEW o \in Object, NEW d \in Document, Loadable(d)
    PROVE  /\ Identified(d) => Carries(LoadedFrom(o, d), IdOf(d))
           /\ LoadedFrom(o, d).state = "UNVERIFIED" => LoadedFrom(o, d).jws = d
<1>1. CASE d.form = "jws"
  <2>1. /\ LoadedFrom(o, d).state = "UNVERIFIED"
        /\ LoadedFrom(o, d).jws = d
    BY <1>1 DEF LoadedFrom, Object
  <2> QED
    BY <1>1, <2>1 DEF Carries, IdOf
<1>2. CASE d.form = "jwe"
  <2>1. LoadedFrom(o, d).state = "ENCRYPTED"
    BY <1>2 DEF LoadedFrom, Object
  <2> QED
    BY <1>2, <2>1 DEF Identified
<1>3. CASE d.form = "vcon"
  <2>1. d.content \in Content
    BY <1>3, DocumentByForm DEF Plain
  <2>2. Migrated(d.content).uuid = d.content.uuid
    BY <2>1 DEF Migrated, Content
  <2>3. /\ LoadedFrom(o, d).state = "UNSIGNED"
        /\ LoadedFrom(o, d).content = Migrated(d.content)
    BY <1>3 DEF LoadedFrom, Object
  <2> QED
    BY <1>3, <2>2, <2>3 DEF Carries, IdOf
<1> QED
  BY <1>1, <1>2, <1>3 DEF Loadable

\* What is written of an object says the same UUID, if it says one.
LEMMA DumpedCarries ==
    ASSUME NEW o \in Object, NEW id, Carries(o, id), NEW signed \in BOOLEAN,
           Dumped(o, signed).form \in {"vcon", "jws"},
           o.state = "ENCRYPTED" => o.jwe \in Jwe,
           o.state \in {"SIGNED", "UNVERIFIED", "VERIFIED"} => o.jws \in Jws
    PROVE  IdOf(Dumped(o, signed)) = id
<1>1. CASE o.state = "UNSIGNED" \/ (o.state \in {"SIGNED", "VERIFIED"} /\ ~signed)
  <2>1. Dumped(o, signed) = [form |-> "vcon", content |-> o.content]
    BY <1>1 DEF Dumped
  <2> QED
    BY <1>1, <2>1 DEF Carries, IdOf
<1>2. CASE o.state = "ENCRYPTED"
  <2>1. Dumped(o, signed) = o.jwe /\ o.jwe.form = "jwe"
    BY <1>2 DEF Dumped, Jwe
  <2> QED
    BY <2>1
<1>3. CASE \/ o.state = "UNVERIFIED"
           \/ o.state \in {"SIGNED", "VERIFIED"} /\ signed
  <2>1. Dumped(o, signed) = o.jws /\ o.jws.form = "jws"
    BY <1>3 DEF Dumped, Jws
  <2> QED
    BY <1>3, <2>1 DEF Carries, IdOf
<1> QED
  BY <1>1, <1>2, <1>3 DEF Object, States

-----------------------------------------------------------------------------
\* Calls on the object of a process

OthersKept(p) ==
    /\ \A q \in Vcon \ {p} : vcon'[q] = vcon[q] /\ accepted'[q] = accepted[q]
    /\ signings \subseteq signings'

LEMMA LifeTypes ==
    ASSUME LifeInv, NEW p \in Vcon
    PROVE  /\ vcon \in [Vcon -> Object]
           /\ accepted \in [Vcon -> SUBSET Authority]
           /\ vcon[p] \in Object
           /\ vcon[p].state = "ENCRYPTED" => vcon[p].jwe \in Jwe
           /\ vcon[p].state \in {"SIGNED", "UNVERIFIED", "VERIFIED"} =>
                  vcon[p].jws \in Jws
BY DEF LifeInv, LifeTypeOK, Object

\* An object that becomes another is the object of one process.
LEMMA BecomeOwn ==
    ASSUME LifeInv, NEW p \in Vcon, NEW o, Become(p, o)
    PROVE  /\ vcon'[p] = o
           /\ \A q \in Vcon \ {p} : vcon'[q] = vcon[q]
BY LifeTypes DEF Become

\* A call that fails changes no object.
LEMMA FailedCallKeeps ==
    ASSUME LifeInv, NEW p \in Vcon,
           \/ CallOnVcon(p)
           \/ \E d : Loads(p, d)
           \/ \E s : Dumpd(p, s),
           reply' # "ok"
    PROVE  UNCHANGED <<vcon, documents, accepted, signings>>
<1>1. \A o : ~Become(p, o)
  BY DEF Become
<1>2. \E exception : Raise(exception)
  BY <1>1, LifeTypes, LoadsCases, DecryptCases
     DEF CallOnVcon, SetSubject, SetContent, Filled, Dumpd, Sign, Verify, Encrypt
<1> QED
  BY <1>2 DEF Raise

\* A call that succeeds has not raised.
LEMMA Exceptions ==
    /\ \A d : LoadError(d) # "ok"
    /\ \A jws : VerifyError(jws) # "ok"
BY DEF LoadError, VerifyError

LEMMA LoadsResult ==
    ASSUME LifeInv, NEW p \in Vcon, NEW d, Loads(p, d), reply' = "ok"
    PROVE  /\ Loadable(d)
           /\ vcon'[p] = LoadedFrom(vcon[p], d)
           /\ OthersKept(p)
           /\ accepted'[p] = accepted[p]
<1>1. /\ Loadable(d) /\ Become(p, LoadedFrom(vcon[p], d))
      /\ UNCHANGED <<documents, accepted, signings>>
  BY LifeTypes, LoadsCases DEF Filled, Raise
<1> QED
  BY <1>1, BecomeOwn DEF OthersKept

\* Whatever a command does to the object, it stands for the same vCon; after
\* verify it is verified.
LEMMA CommandResult ==
    ASSUME LifeInv, NEW p \in Vcon, CallOnVcon(p), reply' = "ok"
    PROVE  /\ OthersKept(p)
           /\ \A id : Carries(vcon[p], id) => Carries(vcon'[p], id)
           /\ args[p].command = "verify" =>
                  /\ vcon[p].state = "UNVERIFIED"
                  /\ vcon'[p].state = "VERIFIED"
                  /\ vcon'[p].jws = vcon[p].jws
<1> DEFINE o == vcon[p]
<1>1. o \in Object
  BY LifeTypes
<1>2. CASE args[p].command = "sign"
  <2>1. PICK issuers \in Issuers : Sign(p, issuers)
    BY <1>2 DEF CallOnVcon
  <2> DEFINE sig == [x5c |-> "certs", issuers |-> issuers, over |-> o.content]
             now == [o EXCEPT !.state = "SIGNED",
                              !.jws = [form |-> "jws", payload |-> o.content,
                                       signatures |-> <<sig>>]]
  <2>2. /\ o.state = "UNSIGNED" /\ Become(p, now)
        /\ accepted' = accepted
        /\ signings \subseteq signings'
    BY <2>1 DEF Sign, Raise
  <2>3. /\ now.state = "SIGNED" /\ now.content = o.content
        /\ now.jws.payload = o.content
    BY <1>1 DEF Object
  <2>4. vcon'[p] = now /\ OthersKept(p)
    BY <2>2, BecomeOwn DEF OthersKept
  <2> HIDE DEF now
  <2> QED
    BY <1>2, <2>2, <2>3, <2>4 DEF Carries
<1>3. CASE args[p].command = "verify"
  <2>1. PICK cas \in SUBSET Authority : Verify(p, cas)
    BY <1>3 DEF CallOnVcon
  <2> DEFINE now == [o EXCEPT !.state = "VERIFIED",
                              !.content = Migrated(o.jws.payload)]
  <2>2. /\ o.state = "UNVERIFIED" /\ Become(p, now)
        /\ accepted' = [accepted EXCEPT ![p] = cas]
        /\ UNCHANGED signings
    BY <2>1, Exceptions DEF Verify, Raise
  <2>3. /\ now.state = "VERIFIED" /\ now.jws = o.jws
        /\ now.content = Migrated(o.jws.payload)
    BY <1>1 DEF Object
  <2>4. vcon'[p] = now /\ OthersKept(p)
    BY <2>2, BecomeOwn, LifeTypes DEF OthersKept
  <2>5. Migrated(o.jws.payload).uuid = o.jws.payload.uuid
    <3>1. o.jws.payload \in Content
      BY <2>2, LifeTypes DEF Jws
    <3> QED
      BY <3>1 DEF Migrated, Content
  <2> HIDE DEF now
  <2> QED
    BY <2>2, <2>3, <2>4, <2>5 DEF Carries
<1>4. CASE args[p].command = "encrypt"
  <2>1. PICK k \in KeyPair : Encrypt(p, k)
    BY <1>4 DEF CallOnVcon
  <2> DEFINE jwe == [form |-> "jwe", plaintext |-> o.jws, keyPair |-> k]
             now == [o EXCEPT !.state = "ENCRYPTED", !.jwe = jwe]
  <2>2. /\ o.state \in {"SIGNED", "UNVERIFIED"} /\ Become(p, now)
        /\ UNCHANGED <<accepted, signings>>
    BY <2>1 DEF Encrypt, Raise
  <2>3. now.state = "ENCRYPTED" /\ now.jwe = jwe /\ o.jws.form = "jws"
    BY <1>1, <2>2, LifeTypes DEF Object, Jws
  <2>4. vcon'[p] = now /\ OthersKept(p)
    BY <2>2, BecomeOwn DEF OthersKept
  <2> HIDE DEF now
  <2> QED
    BY <1>4, <2>2, <2>3, <2>4 DEF Carries
<1>5. CASE args[p].command = "decrypt"
  <2>1. PICK k \in KeyPair : Decrypt(p, k)
    BY <1>5 DEF CallOnVcon
  <2> DEFINE doc == o.jwe.plaintext
  <2>2. /\ o.state = "ENCRYPTED" /\ Become(p, LoadedFrom(o, doc))
        /\ UNCHANGED <<accepted, signings>>
    BY <2>1, LifeTypes, DecryptCases DEF Filled, Raise
  <2>3. vcon'[p] = LoadedFrom(o, doc) /\ OthersKept(p)
    BY <2>2, BecomeOwn DEF OthersKept
  <2>4. ASSUME NEW id, Carries(o, id) PROVE Carries(LoadedFrom(o, doc), id)
    <3>1. doc.form = "jws" /\ doc.payload.uuid = id
      BY <2>2, <2>4 DEF Carries
    <3>2. /\ LoadedFrom(o, doc).state = "UNVERIFIED"
          /\ LoadedFrom(o, doc).jws = doc
      BY <1>1, <3>1 DEF LoadedFrom, Object
    <3> QED
      BY <3>1, <3>2 DEF Carries
  <2> QED
    BY <1>5, <2>3, <2>4
<1>6. CASE args[p].command = "change"
  <2>1. PICK s \in Subject : SetSubject(p, s)
    BY <1>6 DEF CallOnVcon
  <2> DEFINE c == [o.content EXCEPT !.subject = s]
             now == [o EXCEPT !.content = c]
  <2>2. /\ o.state = "UNSIGNED" /\ Become(p, now)
        /\ UNCHANGED <<accepted, signings>>
    BY <2>1 DEF SetSubject, SetContent, Modifiable, Raise
  <2>3. now.state = "UNSIGNED" /\ now.content = c /\ c.uuid = o.content.uuid
    BY <1>1, <2>2 DEF Object, Content
  <2>4. vcon'[p] = now /\ OthersKept(p)
    BY <2>2, BecomeOwn DEF OthersKept
  <2> HIDE DEF now, c
  <2> QED
    BY <1>6, <2>2, <2>3, <2>4 DEF Carries
<1> QED
  BY <1>2, <1>3, <1>4, <1>5, <1>6 DEF CallOnVcon

\* A vCon without a UUID gets the one of the time.
LEMMA SetUuidResult ==
    ASSUME LifeInv, NEW p \in Vcon, NeedsUuid(p), NEW u, SetUuid(p, u, FALSE)
    PROVE  /\ vcon'[p].state = "UNSIGNED" /\ vcon'[p].content.uuid = u
           /\ OthersKept(p)
           /\ accepted'[p] = accepted[p]
<1> DEFINE c == [vcon[p].content EXCEPT !.uuid = u]
           now == [vcon[p] EXCEPT !.content = c]
<1>1. Become(p, now) /\ UNCHANGED <<documents, accepted, signings>>
  BY DEF SetUuid, SetContent, NeedsUuid, Modifiable, Raise
<1>2. now.state = "UNSIGNED" /\ now.content.uuid = u
  BY LifeTypes DEF NeedsUuid, Object, Content
<1> QED
  BY <1>1, <1>2, BecomeOwn DEF OthersKept

-----------------------------------------------------------------------------
\* Steps of a process keep what is so of it

\* A process that a step leaves alone.
Untouched(p) ==
    /\ vcon'[p] = vcon[p] /\ accepted'[p] = accepted[p]
    /\ pc'[p] = pc[p] /\ status'[p] = status[p]
    /\ input'[p] = input[p] /\ output'[p] = output[p]
    /\ posted'[p] = posted[p] /\ drawn'[p] = drawn[p]
    /\ signings \subseteq signings'

LEMMA UntouchedLocal ==
    ASSUME NEW p \in Vcon, Local(p), UNCHANGED args, Untouched(p)
    PROVE  Local(p)'
<1>1. Progress(p)' /\ InOrder(p)'
  BY DEF Local, Untouched, Progress, InOrder
<1>2. SameVcon(p)' /\ DrawnInTime(p)'
  BY DEF Local, Untouched, SameVcon, DrawnInTime
<1>3. SameForm(p)'
  BY DEF Local, Untouched, SameForm, SaysSigned, Verifying, Signed
<1> QED
  BY <1>1, <1>2, <1>3 DEF Local

\* A process is run with arguments, and is not done, while it takes steps.
LEMMA AtRuns ==
    ASSUME CliTypeOK, NEW p \in Vcon, Local(p),
           (\E label \in Label : At(p, label) /\ label # "done")
               \/ MayStart(p) \/ pc[p] = "exit" \/ Running(p)
    PROVE  /\ args[p] # NotRun /\ args[p] \in Arguments
           /\ pc[p] # "done"
           /\ status[p] \in {"running", "failed"}
BY DEF CliTypeOK, Local, Progress, At, MayStart, Running

LEMMA GotoFail ==
    ASSUME CliTypeOK, NEW p \in Vcon
    PROVE  /\ \A label : Goto(p, label) =>
                  /\ pc'[p] = label /\ status'[p] = status[p]
                  /\ UNCHANGED <<args, status>>
                  /\ \A q \in Vcon \ {p} : pc'[q] = pc[q]
           /\ Fail(p) =>
                  /\ pc'[p] = "exit" /\ status'[p] = "failed"
                  /\ UNCHANGED args
                  /\ \A q \in Vcon \ {p} : pc'[q] = pc[q] /\ status'[q] = status[q]
BY DEF CliTypeOK, Goto, Fail

\* Whatever was read, a process that has failed before it posted anything has
\* written nothing or what it had written.
LEMMA FailLocal ==
    ASSUME CliTypeOK, NEW p \in Vcon, Local(p), args[p] # NotRun, Fail(p),
           vcon'[p] = vcon[p], accepted'[p] = accepted[p],
           signings \subseteq signings',
           drawn'[p] = drawn[p], posted[p] = Nothing, posted'[p] = Nothing,
           \/ /\ output'[p] = output[p]
              /\ input'[p] = input[p] \/ output[p] = Nothing
           \/ output'[p] = Raw /\ ~Verifying(p)
    PROVE  Local(p)'
<1>1. /\ pc'[p] = "exit" /\ status'[p] = "failed" /\ UNCHANGED args
  BY GotoFail
<1>2. Progress(p)' /\ InOrder(p)'
  BY <1>1 DEF Progress, InOrder
<1>3. SameVcon(p)'
  BY <1>1, Forms DEF Local, SameVcon
<1>4. SameForm(p)'
  BY <1>1 DEF Local, SameForm, SaysSigned, Verifying
<1>5. DrawnInTime(p)'
  BY DEF Local, DrawnInTime
<1> QED
  BY <1>2, <1>3, <1>4, <1>5 DEF Local

LEMMA StartLocal ==
    ASSUME CliTypeOK, NEW p \in Vcon, Local(p), Start(p)
    PROVE  Local(p)' /\ \A q \in Vcon \ {p} : Untouched(q)
<1>1. /\ pc[p] = "start" /\ args[p] # NotRun /\ status[p] = "running"
      /\ UNCHANGED <<vcon, accepted, signings, input, output, posted, drawn>>
      /\ Fail(p) \/ Goto(p, "load")
  BY AtRuns DEF Start, MayStart, lifeVars, historyVars, Local, Progress
<1>2. \A q \in Vcon \ {p} : Untouched(q)
  BY <1>1, GotoFail DEF Untouched
<1>3. CASE Fail(p)
  BY <1>1, <1>2, <1>3, FailLocal DEF Local, InOrder
<1>4. CASE Goto(p, "load")
  <2>1. pc'[p] = "load" /\ status'[p] = "running" /\ UNCHANGED args
    BY <1>1, <1>4, GotoFail
  <2>2. Progress(p)' /\ InOrder(p)' /\ DrawnInTime(p)'
    BY <1>1, <2>1 DEF Local, Progress, InOrder, DrawnInTime
  <2>3. SameVcon(p)' /\ SameForm(p)'
    BY <1>1, <2>1, Forms DEF Local, InOrder, SameVcon, SameForm, Identified
  <2> QED
    BY <1>2, <2>2, <2>3 DEF Local
<1> QED
  BY <1>1, <1>3, <1>4

\* The process has read something and goes on to its command.
LEMMA LoadedLocal ==
    ASSUME CliTypeOK, LifeInv, NEW p \in Vcon, Local(p), At(p, "load"),
           Goto(p, "command"),
           UNCHANGED <<output, posted, drawn>>,
           signings \subseteq signings',
           vcon'[p].state = "UNVERIFIED" => vcon'[p].jws = input'[p],
           Identified(input'[p]) => Carries(vcon'[p], IdOf(input'[p]))
    PROVE  Local(p)'
<1>1. /\ args[p] # NotRun /\ status[p] = "running"
      /\ output[p] = Nothing /\ posted[p] = Nothing /\ drawn[p] = NotDrawn
  BY AtRuns DEF At, Local, InOrder, Label
<1>2. pc'[p] = "command" /\ status'[p] = "running" /\ UNCHANGED args
  BY <1>1, GotoFail
<1>3. Progress(p)' /\ InOrder(p)' /\ DrawnInTime(p)'
  BY <1>1, <1>2 DEF Progress, InOrder, DrawnInTime
<1>4. SameVcon(p)' /\ SameForm(p)'
  BY <1>1, <1>2, Forms DEF SameVcon, SameForm
<1> QED
  BY <1>3, <1>4 DEF Local

LEMMA LoadLocal ==
    ASSUME CliTypeOK, LifeInv, ServerAndClock, NEW p \in Vcon, Local(p), Load(p)
    PROVE  Local(p)' /\ \A q \in Vcon \ {p} : Untouched(q)
<1>1. /\ At(p, "load") /\ args[p] # NotRun /\ status[p] = "running"
      /\ output[p] = Nothing /\ posted[p] = Nothing
      /\ input[p] = Nothing /\ vcon[p].state = "UNSIGNED"
      /\ UNCHANGED <<output, posted, drawn>>
      /\ args[p].in \in {"new", "get"} \cup Stream
  BY AtRuns DEF Load, At, Local, InOrder, Label, Arguments
<1>2. documents \subseteq Document
  BY DEF LifeInv, LifeTypeOK
\* A document was found: it is loaded, or cannot be.
<1>3. ASSUME NEW d \in documents, input' = [input EXCEPT ![p] = d],
             Loads(p, d), Proceed(p, "command")
      PROVE  Local(p)' /\ \A q \in Vcon \ {p} : Untouched(q)
  <2>1. input'[p] = d /\ \A q \in Vcon \ {p} : input'[q] = input[q]
    BY <1>3 DEF CliTypeOK
  <2>2. CASE reply' = "ok"
    <3>1. /\ Loadable(d) /\ vcon'[p] = LoadedFrom(vcon[p], d)
          /\ OthersKept(p)
      BY <1>3, <2>2, LoadsResult
    <3>2. Goto(p, "command")
      BY <1>3, <2>2 DEF Proceed
    <3>3. /\ Identified(d) => Carries(vcon'[p], IdOf(d))
          /\ vcon'[p].state = "UNVERIFIED" => vcon'[p].jws = d
      BY <1>2, <3>1, LoadedCarries, LifeTypes
    <3>4. Local(p)'
      BY <1>1, <2>1, <3>1, <3>2, <3>3, LoadedLocal DEF OthersKept
    <3> QED
      BY <1>1, <2>1, <3>1, <3>2, <3>4, GotoFail DEF Untouched, OthersKept
  <2>3. CASE reply' # "ok"
    <3>1. UNCHANGED <<vcon, accepted, signings>> /\ Fail(p)
      BY <1>3, <2>3, FailedCallKeeps DEF Proceed
    <3> QED
      BY <1>1, <2>1, <3>1, FailLocal, GotoFail DEF Untouched
  <2> QED
    BY <2>2, <2>3
\* It was told to make a new vCon, or has found nothing.
<1>4. ASSUME Goto(p, "command"), UNCHANGED lifeVars,
             input' = input \/ input' = [input EXCEPT ![p] = Empty]
      PROVE  Local(p)' /\ \A q \in Vcon \ {p} : Untouched(q)
  <2>1. /\ input'[p] \in {Nothing, Empty}
        /\ \A q \in Vcon \ {p} : input'[q] = input[q]
    BY <1>1, <1>4 DEF CliTypeOK
  <2>2. UNCHANGED <<vcon, accepted, signings>>
    BY <1>4 DEF lifeVars
  <2>3. ~Identified(input'[p])
    BY <2>1, Forms DEF Identified
  <2> QED
    BY <1>1, <1>4, <2>1, <2>2, <2>3, LoadedLocal, GotoFail DEF Untouched
\* What was found cannot be read, or there was no answer.
<1>5. ASSUME Fail(p), UNCHANGED lifeVars,
             input' = input \/ (\E c : input' = [input EXCEPT ![p] = c])
      PROVE  Local(p)' /\ \A q \in Vcon \ {p} : Untouched(q)
  <2>1. UNCHANGED <<vcon, accepted, signings>>
    BY <1>5 DEF lifeVars
  <2>2. \A q \in Vcon \ {p} : input'[q] = input[q]
    BY <1>5 DEF CliTypeOK
  <2> QED
    BY <1>1, <1>5, <2>1, <2>2, FailLocal, GotoFail DEF Untouched
<1>6. CASE args[p].in = "new" /\ Goto(p, "command")
           /\ UNCHANGED <<lifeVars, input>>
  BY <1>4, <1>6
<1>7. CASE \E d \in server : /\ input' = [input EXCEPT ![p] = d]
                             /\ Loads(p, d)
                             /\ Proceed(p, "command")
  BY <1>3, <1>7 DEF ServerAndClock
<1>8. CASE NoAnswer(p)
  BY <1>5, <1>8 DEF NoAnswer
<1>9. CASE Read(p, file[args[p].in])
  BY <1>3, <1>5, <1>9 DEF Read
<1>10. CASE /\ input' = [input EXCEPT ![p] = Empty]
            /\ Goto(p, "command")
            /\ UNCHANGED lifeVars
  BY <1>4, <1>10
<1> QED
  BY <1>6, <1>7, <1>8, <1>9, <1>10 DEF Load

LEMMA CommandLocal ==
    ASSUME CliTypeOK, LifeInv, NEW p \in Vcon, Local(p),
           DoCommand(p) \/ NoCommand(p) \/ CommandFails(p)
    PROVE  Local(p)' /\ \A q \in Vcon \ {p} : Untouched(q)
<1>1. /\ pc[p] = "command" /\ args[p] # NotRun /\ status[p] = "running"
      /\ output[p] = Nothing /\ posted[p] = Nothing /\ drawn[p] = NotDrawn
      /\ UNCHANGED <<input, posted, drawn>>
  BY AtRuns DEF DoCommand, NoCommand, CommandFails, At, Local, InOrder, Label,
                historyVars
\* The call succeeds, or no call is made.
<1>2. ASSUME Goto(p, "uuid"), OthersKept(p), UNCHANGED output,
             \A id : Carries(vcon[p], id) => Carries(vcon'[p], id),
             Verifying(p) =>
                 vcon'[p].state = "VERIFIED" /\ vcon'[p].jws = input[p]
      PROVE  Local(p)' /\ \A q \in Vcon \ {p} : Untouched(q)
  <2>1. pc'[p] = "uuid" /\ status'[p] = "running" /\ UNCHANGED args
    BY <1>1, <1>2, GotoFail
  <2>2. Progress(p)' /\ InOrder(p)' /\ DrawnInTime(p)'
    BY <1>1, <1>2, <2>1 DEF Progress, InOrder, DrawnInTime
  <2>3. SameVcon(p)'
    BY <1>1, <1>2, <2>1, Forms DEF Local, SameVcon
  <2>4. SameForm(p)'
    BY <1>1, <1>2, <2>1, Forms DEF SameForm, Verifying
  <2>5. \A q \in Vcon \ {p} : Untouched(q)
    BY <1>1, <1>2, GotoFail DEF OthersKept, Untouched
  <2> QED
    BY <2>2, <2>3, <2>4, <2>5 DEF Local
<1>3. CASE DoCommand(p)
  <2>1. CallOnVcon(p) /\ Proceed(p, "uuid") /\ UNCHANGED output
    BY <1>3 DEF DoCommand, historyVars
  <2>2. CASE reply' = "ok"
    <3>1. Verifying(p) =>
              vcon'[p].state = "VERIFIED" /\ vcon'[p].jws = input[p]
      BY <1>1, <2>1, <2>2, CommandResult DEF Verifying, Local, SameForm
    <3> QED
      BY <1>2, <2>1, <2>2, <3>1, CommandResult DEF Proceed
  <2>3. CASE reply' # "ok"
    <3>1. UNCHANGED <<vcon, accepted, signings>> /\ Fail(p)
      BY <2>1, <2>3, FailedCallKeeps DEF Proceed
    <3> QED
      BY <1>1, <2>1, <3>1, FailLocal, GotoFail DEF Untouched
  <2> QED
    BY <2>2, <2>3
<1>4. CASE NoCommand(p)
  <2>1. /\ UNCHANGED <<vcon, accepted, signings, output>> /\ Goto(p, "uuid")
        /\ ~Verifying(p)
    BY <1>4 DEF NoCommand, lifeVars, historyVars, Verifying
  <2> QED
    BY <1>2, <2>1 DEF OthersKept
<1>5. CASE CommandFails(p)
  <2>1. /\ UNCHANGED <<vcon, accepted, signings>> /\ Fail(p)
        /\ \/ UNCHANGED output
           \/ output' = [output EXCEPT ![p] = Raw] /\ ~Verifying(p)
    BY <1>5 DEF CommandFails, lifeVars, Verifying
  <2>2. \A q \in Vcon \ {p} : output'[q] = output[q]
    BY <2>1 DEF CliTypeOK
  <2>3. output'[p] = output[p] \/ (output'[p] = Raw /\ ~Verifying(p))
    <3>1. CASE UNCHANGED output
      BY <3>1
    <3>2. CASE output' = [output EXCEPT ![p] = Raw] /\ ~Verifying(p)
      <4>1. output'[p] = Raw
        BY <3>2 DEF CliTypeOK
      <4> QED
        BY <3>2, <4>1
    <3> QED
      BY <2>1, <3>1, <3>2
  <2> QED
    BY <1>1, <2>1, <2>2, <2>3, FailLocal, GotoFail DEF Untouched
<1> QED
  BY <1>3, <1>4, <1>5

LEMMA ExtractLocal ==
    ASSUME CliTypeOK, LifeInv, NEW p \in Vcon, Local(p), Extract(p)
    PROVE  Local(p)' /\ \A q \in Vcon \ {p} : Untouched(q)
<1>1. /\ pc[p] = "command" /\ args[p] # NotRun /\ status[p] = "running"
      /\ posted[p] = Nothing /\ drawn[p] = NotDrawn /\ ~Verifying(p)
      /\ UNCHANGED <<vcon, accepted, signings, input, posted, drawn>>
      /\ \E body \in Body : output' = [output EXCEPT ![p] = body]
      /\ Goto(p, AfterWrite(p)) /\ AfterWrite(p) \in {"post", "exit"}
  BY AtRuns DEF Extract, At, Local, InOrder, Label, lifeVars, AfterWrite, Verifying
<1>2. output'[p] \in Body /\ \A q \in Vcon \ {p} : output'[q] = output[q]
  BY <1>1 DEF CliTypeOK
<1>3. /\ pc'[p] \in {"post", "exit"} /\ status'[p] = "running"
      /\ UNCHANGED args
  BY <1>1, GotoFail
<1>4. Progress(p)' /\ InOrder(p)' /\ DrawnInTime(p)'
  BY <1>1, <1>2, <1>3, Forms DEF Body, Progress, InOrder, DrawnInTime
<1>5. SameVcon(p)' /\ SameForm(p)'
  BY <1>1, <1>2, <1>3, Forms DEF Body, SameVcon, SameForm, Verifying
<1>6. \A q \in Vcon \ {p} : Untouched(q)
  BY <1>1, <1>2, GotoFail DEF Untouched
<1> QED
  BY <1>4, <1>5, <1>6 DEF Local

LEMMA GiveUuidLocal ==
    ASSUME CliTypeOK, LifeInv, NEW p \in Vcon, Local(p), GiveUuid(p)
    PROVE  Local(p)' /\ \A q \in Vcon \ {p} : Untouched(q)
<1>1. /\ pc[p] = "uuid" /\ args[p] # NotRun /\ status[p] = "running"
      /\ output[p] = Nothing /\ posted[p] = Nothing /\ drawn[p] = NotDrawn
      /\ UNCHANGED <<input, output, posted>>
      /\ Goto(p, "write")
  BY AtRuns DEF GiveUuid, At, Local, InOrder, Label
<1>2. pc'[p] = "write" /\ status'[p] = "running" /\ UNCHANGED args
  BY <1>1, GotoFail
<1>3. Progress(p)' /\ InOrder(p)'
  BY <1>1, <1>2 DEF Progress, InOrder
<1>4. CASE NeedsUuid(p)
  <2>1. SetUuid(p, Uuid8DomainName(Host, Now), FALSE)
        /\ drawn' = [drawn EXCEPT ![p] = Now]
    BY <1>4 DEF GiveUuid
  <2>2. /\ vcon'[p].content.uuid = Uuid8DomainName(Host, Now)
        /\ OthersKept(p) /\ accepted'[p] = accepted[p]
    BY <1>4, <2>1, SetUuidResult
  <2>3. drawn'[p] = Now /\ \A q \in Vcon \ {p} : drawn'[q] = drawn[q]
    BY <2>1 DEF CliTypeOK
  <2>4. DrawnInTime(p)'
    BY <2>2, <2>3 DEF DrawnInTime
\* It was made here: what was read has a UUID, or says none.
  <2>5. SameVcon(p)'
    BY <1>1, <1>2, <1>4, Forms
       DEF Local, SameVcon, Identified, Carries, NeedsUuid
  <2>6. SameForm(p)'
    BY <1>1, <1>2, <1>4, Forms DEF Local, SameForm, NeedsUuid, Verifying
  <2>7. \A q \in Vcon \ {p} : Untouched(q)
    BY <1>1, <2>2, <2>3, GotoFail DEF Untouched, OthersKept
  <2> QED
    BY <1>3, <2>4, <2>5, <2>6, <2>7 DEF Local
<1>5. CASE ~NeedsUuid(p)
  <2>1. UNCHANGED <<vcon, accepted, signings, drawn>>
    BY <1>5 DEF GiveUuid, lifeVars
  <2>2. DrawnInTime(p)' /\ SameVcon(p)'
    BY <1>1, <1>2, <2>1, Forms DEF Local, SameVcon, DrawnInTime
  <2>3. SameForm(p)'
    BY <1>1, <1>2, <2>1, Forms DEF Local, SameForm, Verifying
  <2>4. \A q \in Vcon \ {p} : Untouched(q)
    BY <1>1, <2>1, GotoFail DEF Untouched
  <2> QED
    BY <1>3, <2>2, <2>3, <2>4 DEF Local
<1> QED
  BY <1>4, <1>5

\* The written form of a sound object is a document.
LEMMA DumpedDocument ==
    ASSUME LifeInv, NEW p \in Vcon, NEW signed
    PROVE  Dumped(vcon[p], signed) \in Document
BY DumpedSound, LifeInvIsAllSound DEF AllSound

LEMMA DumpdKeeps ==
    ASSUME NEW p \in Vcon, NEW signed, Dumpd(p, signed)
    PROVE  UNCHANGED <<vcon, accepted, signings>>
BY DEF Dumpd, Raise

LEMMA WriteLocal ==
    ASSUME CliTypeOK, LifeInv, NEW p \in Vcon, Local(p), Write(p)
    PROVE  Local(p)' /\ \A q \in Vcon \ {p} : Untouched(q)
<1> DEFINE doc == Dumped(vcon[p], Signed(p))
<1>1. /\ pc[p] = "write" /\ args[p] # NotRun /\ status[p] = "running"
      /\ posted[p] = Nothing
      /\ UNCHANGED <<input, posted, drawn>>
      /\ output' = [output EXCEPT ![p] = doc]
      /\ Goto(p, AfterWrite(p)) /\ AfterWrite(p) \in {"post", "exit"}
  BY AtRuns DEF Write, At, Local, InOrder, Label, AfterWrite
<1>2. UNCHANGED <<vcon, accepted, signings>>
  BY DumpdKeeps DEF Write
<1>3. output'[p] = doc /\ \A q \in Vcon \ {p} : output'[q] = output[q]
  BY <1>1 DEF CliTypeOK
<1>4. /\ pc'[p] \in {"post", "exit"} /\ status'[p] = "running"
      /\ UNCHANGED args
  BY <1>1, GotoFail
<1>5. doc \in Document /\ doc # Nothing
  BY DumpedDocument, Forms
<1>6. Progress(p)' /\ InOrder(p)' /\ DrawnInTime(p)'
  BY <1>1, <1>2, <1>3, <1>4, <1>5 DEF Local, Progress, InOrder, DrawnInTime
<1>7. SameVcon(p)'
  <2>1. Signed(p) \in BOOLEAN
    BY DEF Signed
  <2>2. Identified(input[p]) /\ doc.form \in {"vcon", "jws"} =>
            IdOf(doc) = IdOf(input[p])
    BY <1>1, <2>1, DumpedCarries, LifeTypes DEF Local, SameVcon
  <2> HIDE DEF doc
  <2> QED
    BY <1>1, <1>3, <1>4, <2>2 DEF SameVcon
<1>8. Verifying(p) =>
          /\ doc.form = "vcon"
          /\ \E s \in signings : /\ s.authority \in accepted[p]
                                 /\ doc.content = Migrated(s.content)
  <2> SUFFICES ASSUME Verifying(p)
               PROVE  /\ doc.form = "vcon"
                      /\ \E s \in signings : /\ s.authority \in accepted[p]
                                             /\ doc.content = Migrated(s.content)
    OBVIOUS
  <2>1. vcon[p].state = "VERIFIED" /\ ~Signed(p)
    BY <1>1 DEF Local, SameForm, Verifying, Signed
  <2>2. doc = [form |-> "vcon", content |-> vcon[p].content]
    BY <2>1 DEF Dumped
  <2>3. VerifiedWasSigned
    BY DEF LifeInv
  <2> QED
    BY <2>1, <2>2, <2>3 DEF VerifiedWasSigned
<1>9. SameForm(p)'
  <2>1. /\ Verifying(p)' <=> Verifying(p)
        /\ Signed(p)' <=> Signed(p)
    BY <1>4 DEF Verifying, Signed
  <2>2. Verifying(p) => vcon[p].state = "VERIFIED" /\ vcon[p].jws = input[p]
    BY <1>1 DEF Local, SameForm
  <2>3. output'[p] = Dumped(vcon[p], Signed(p))'
    BY <1>2, <1>3, <1>4 DEF Signed
  <2>4. Verifying(p) => SaysSigned(p)'
    <3> HIDE DEF doc
    <3> QED
      BY <1>2, <1>3, <1>8 DEF SaysSigned
  <2> QED
    BY <1>1, <1>2, <1>4, <2>1, <2>2, <2>3, <2>4 DEF SameForm
<1>10. \A q \in Vcon \ {p} : Untouched(q)
  BY <1>1, <1>2, <1>3, GotoFail DEF Untouched
<1> QED
  BY <1>6, <1>7, <1>9, <1>10 DEF Local

LEMMA PostLocal ==
    ASSUME CliTypeOK, LifeInv, NEW p \in Vcon, Local(p), Post(p)
    PROVE  Local(p)' /\ \A q \in Vcon \ {p} : Untouched(q)
<1> DEFINE doc == Dumped(vcon[p], PostForm)
<1>1. /\ pc[p] = "post" /\ args[p] # NotRun /\ status[p] = "running"
      /\ posted[p] = Nothing /\ output[p] # Nothing
      /\ UNCHANGED <<input, output, drawn>>
  BY AtRuns DEF Post, At, Local, InOrder, Label
<1>2. UNCHANGED <<vcon, accepted, signings>>
  BY DumpdKeeps DEF Post
<1>3. CASE Fail(p) /\ UNCHANGED posted
  BY <1>1, <1>2, <1>3, FailLocal, GotoFail DEF Untouched
<1>4. CASE /\ posted' = [posted EXCEPT ![p] = doc]
           /\ Goto(p, "exit") \/ Fail(p)
  <2>1. posted'[p] = doc /\ \A q \in Vcon \ {p} : posted'[q] = posted[q]
    BY <1>4 DEF CliTypeOK
  <2>2. /\ pc'[p] = "exit" /\ status'[p] \in {"running", "failed"}
        /\ UNCHANGED args
    BY <1>1, <1>4, GotoFail
  <2>3. Progress(p)' /\ InOrder(p)' /\ DrawnInTime(p)'
    BY <1>1, <1>2, <2>2 DEF Local, Progress, InOrder, DrawnInTime
  <2>4. SameVcon(p)'
    BY <1>1, <2>2 DEF Local, SameVcon
  <2>5. output[p] \notin Body =>
            doc = output[p] \/ (Verifying(p) /\ doc = input[p])
    <3>1. CASE Verifying(p)
      <4>1. vcon[p].state = "VERIFIED" /\ vcon[p].jws = input[p]
        BY <1>1, <3>1 DEF Local, SameForm
      <4> QED
        BY <3>1, <4>1 DEF Dumped, PostForm
    <3>2. CASE ~Verifying(p)
      <4>1. Dumped(vcon[p], Signed(p)) = doc
        BY <1>1, <3>2 DEF Verifying, Signed, PostForm
      <4>2. output[p] \notin Body => output[p] = Dumped(vcon[p], Signed(p))
        BY <1>1 DEF Local, SameForm
      <4> QED
        BY <4>1, <4>2
    <3> QED
      BY <3>1, <3>2
  <2>6. SameForm(p)'
    <3> HIDE DEF doc
    <3> QED
      BY <1>1, <1>2, <2>1, <2>2, <2>5
         DEF Local, SameForm, SaysSigned, Verifying
  <2>7. \A q \in Vcon \ {p} : Untouched(q)
    BY <1>1, <1>2, <1>4, <2>1, GotoFail DEF Untouched
  <2> QED
    BY <2>3, <2>4, <2>6, <2>7 DEF Local
<1> QED
  BY <1>3, <1>4 DEF Post

LEMMA EndLocal ==
    ASSUME CliTypeOK, NEW p \in Vcon, Local(p), Exit(p) \/ Kill(p)
    PROVE  Local(p)' /\ \A q \in Vcon \ {p} : Untouched(q)
<1>1. /\ args[p] # NotRun /\ pc[p] # "done"
      /\ status[p] \in {"running", "failed"}
      /\ UNCHANGED <<vcon, accepted, signings, args, input, output, posted, drawn>>
  BY AtRuns DEF Exit, Kill, lifeVars, historyVars
<1>2. /\ pc'[p] = "done"
      /\ \/ status'[p] = "killed"
         \/ /\ pc[p] = "exit"
            /\ status'[p] = IF status[p] = "running" THEN "ok" ELSE status[p]
      /\ \A q \in Vcon \ {p} : pc'[q] = pc[q] /\ status'[q] = status[q]
  BY DEF Exit, Kill, CliTypeOK
<1>3. Progress(p)' /\ InOrder(p)'
  BY <1>1, <1>2 DEF Local, Progress, InOrder
<1>4. SameVcon(p)' /\ DrawnInTime(p)'
  BY <1>1, <1>2 DEF Local, SameVcon, DrawnInTime
<1>5. SameForm(p)'
  BY <1>1, <1>2 DEF Local, SameForm, SaysSigned, Verifying
<1>6. \A q \in Vcon \ {p} : Untouched(q)
  BY <1>1, <1>2 DEF Untouched
<1> QED
  BY <1>3, <1>4, <1>5, <1>6 DEF Local

\* Whichever process takes a step, each stays as it should be.
LEMMA NextLocal ==
    ASSUME CliTypeOK, LifeInv, ServerAndClock, \A p \in Vcon : Local(p),
           CliNext \/ UNCHANGED cliVars
    PROVE  (\A p \in Vcon : Local(p)') /\ UNCHANGED args
<1>1. CASE Tick \/ UNCHANGED cliVars
  <2>1. UNCHANGED <<lifeVars, processVars, historyVars>>
    BY <1>1 DEF Tick, cliVars
  <2>2. UNCHANGED args /\ \A p \in Vcon : Untouched(p)
    BY <2>1 DEF lifeVars, processVars, historyVars, Untouched
  <2> QED
    BY <2>2, UntouchedLocal
<1>2. ASSUME NEW p \in Vcon, Step(p) \/ Kill(p)
      PROVE  (\A q \in Vcon : Local(q)') /\ UNCHANGED args
  <2>1. Local(p)' /\ \A q \in Vcon \ {p} : Untouched(q)
    BY <1>2, StartLocal, LoadLocal, CommandLocal, ExtractLocal, GiveUuidLocal,
       WriteLocal, PostLocal, EndLocal DEF Step
  <2>2. UNCHANGED args
    BY <1>2 DEF Step, Start, Load, NoAnswer, Read, DoCommand, NoCommand,
                CommandFails, Extract, GiveUuid, Write, Post, Exit, Kill,
                Proceed, Goto, Fail
  <2> QED
    BY <2>1, <2>2, UntouchedLocal
<1> QED
  BY <1>1, <1>2 DEF CliNext

-----------------------------------------------------------------------------
\* Types

LEMMA InitTypes == ASSUME CliInit PROVE CliTypeOK /\ args \in Scenario
<1>1. args \in [Vcon -> Arguments \cup {NotRun}]
  BY ScenarioAssumption DEF CliInit
<1>2. Foreign \subseteq Document
  BY ForeignAssumption
<1>3. \A f \in Path : FileBefore[f] \in Document \cup {Absent, Empty, Torn, Raw}
  BY <1>2, FilesAssumption
<1>4. file \in [Stream -> Document \cup {Absent, Empty, Torn, Raw}]
  BY <1>3 DEF CliInit, Stream
<1>5. pc \in [Vcon -> Label]
  BY DEF CliInit, Label
<1> QED
  BY <1>1, <1>4, <1>5 DEF CliInit, CliTypeOK, NotDrawn

LEMMA NextTypes ==
    ASSUME CliTypeOK, LifeInv, ServerAndClock,
           CliNext \/ UNCHANGED cliVars, UNCHANGED args
    PROVE  CliTypeOK'
<1>1. documents \subseteq Document /\ server \subseteq documents
  BY DEF LifeInv, LifeTypeOK, ServerAndClock
<1>2. ASSUME NEW p \in Vcon, \E label \in Label : Proceed(p, label) \/ Goto(p, label)
      PROVE  /\ pc' \in [Vcon -> Label]
             /\ status' \in [Vcon -> {"running", "ok", "failed", "killed"}]
  BY <1>2 DEF CliTypeOK, Proceed, Goto, Fail, Label
<1>3. ASSUME NEW p \in Vcon, Fail(p)
      PROVE  /\ pc' \in [Vcon -> Label]
             /\ status' \in [Vcon -> {"running", "ok", "failed", "killed"}]
  BY <1>3 DEF CliTypeOK, Fail, Label
<1>4. \A p \in Vcon : AfterWrite(p) \in Label
  BY DEF AfterWrite, Label
<1>5. {"load", "command", "uuid", "write", "exit"} \subseteq Label
  BY DEF Label
<1>6. ASSUME NEW p \in Vcon, Start(p) PROVE CliTypeOK'
  <2>1. file' = file \/ file' = [file EXCEPT ![args[p].out] = Empty]
    BY <1>6 DEF Start, Truncated
  <2>2. /\ UNCHANGED <<input, output, posted, drawn>>
        /\ Fail(p) \/ Goto(p, "load")
    BY <1>6 DEF Start, historyVars
  <2>3. /\ pc' \in [Vcon -> Label]
        /\ status' \in [Vcon -> {"running", "ok", "failed", "killed"}]
    BY <1>2, <1>3, <1>5, <2>2
  <2> QED
    BY <2>1, <2>2, <2>3 DEF CliTypeOK
<1>7. ASSUME NEW p \in Vcon, Load(p) PROVE CliTypeOK'
  <2>1. /\ UNCHANGED <<file, output, posted, drawn>>
        /\ Fail(p) \/ Goto(p, "command")
    BY <1>7 DEF Load, NoAnswer, Read, Proceed
  <2>2. \/ input' = input
        \/ \E d \in documents \cup {Empty, Torn, Raw} :
               input' = [input EXCEPT ![p] = d]
    BY <1>1, <1>7 DEF Load, NoAnswer, Read
  <2>3. input' \in [Vcon -> Document \cup {Nothing, Empty, Torn, Raw}]
    BY <1>1, <2>2 DEF CliTypeOK
  <2>4. /\ pc' \in [Vcon -> Label]
        /\ status' \in [Vcon -> {"running", "ok", "failed", "killed"}]
    BY <1>2, <1>3, <1>5, <2>1
  <2> QED
    BY <2>1, <2>3, <2>4 DEF CliTypeOK
<1>8. ASSUME NEW p \in Vcon,
             DoCommand(p) \/ NoCommand(p) \/ CommandFails(p) \/ Extract(p)
      PROVE  CliTypeOK'
  <2>1. /\ UNCHANGED <<file, input, posted, drawn>>
        /\ \/ output' = output
           \/ \E body \in Body : output' = [output EXCEPT ![p] = body]
        /\ \/ Fail(p) \/ Goto(p, "uuid") \/ Goto(p, AfterWrite(p))
    BY <1>8 DEF Body, DoCommand, NoCommand, CommandFails, Extract, Proceed, historyVars
  <2>2. /\ pc' \in [Vcon -> Label]
        /\ status' \in [Vcon -> {"running", "ok", "failed", "killed"}]
    BY <1>2, <1>3, <1>4, <1>5, <2>1
  <2> QED
    BY <2>1, <2>2 DEF CliTypeOK
<1>9. ASSUME NEW p \in Vcon, GiveUuid(p) PROVE CliTypeOK'
  <2>1. /\ UNCHANGED <<file, input, output, posted>>
        /\ drawn' = drawn \/ drawn' = [drawn EXCEPT ![p] = Now]
        /\ Goto(p, "write")
    BY <1>9 DEF GiveUuid
  <2>2. Now \in Nat
    BY UuidAssumption DEF ServerAndClock, Now
  <2>3. /\ pc' \in [Vcon -> Label]
        /\ status' \in [Vcon -> {"running", "ok", "failed", "killed"}]
    BY <1>2, <1>5, <2>1
  <2> QED
    BY <2>1, <2>2, <2>3 DEF CliTypeOK
<1>10. ASSUME NEW p \in Vcon, Write(p) PROVE CliTypeOK'
  <2> DEFINE doc == Dumped(vcon[p], Signed(p))
  <2>1. /\ UNCHANGED <<input, posted, drawn>>
        /\ output' = [output EXCEPT ![p] = doc]
        /\ file' = file \/ file' = [file EXCEPT ![args[p].out] = Torn]
        /\ Goto(p, AfterWrite(p))
    BY <1>10 DEF Write
  <2>2. doc \in Document
    BY DumpedDocument
  <2> HIDE DEF doc
  <2>3. /\ pc' \in [Vcon -> Label]
        /\ status' \in [Vcon -> {"running", "ok", "failed", "killed"}]
    BY <1>2, <1>4, <2>1
  <2> QED
    BY <2>1, <2>2, <2>3 DEF CliTypeOK
<1>11. ASSUME NEW p \in Vcon, Post(p) PROVE CliTypeOK'
  <2> DEFINE doc == Dumped(vcon[p], PostForm)
  <2>1. /\ UNCHANGED <<file, input, output, drawn>>
        /\ posted' = posted \/ posted' = [posted EXCEPT ![p] = doc]
        /\ Fail(p) \/ Goto(p, "exit")
    BY <1>11 DEF Post
  <2>2. doc \in Document
    BY DumpedDocument
  <2> HIDE DEF doc
  <2>3. /\ pc' \in [Vcon -> Label]
        /\ status' \in [Vcon -> {"running", "ok", "failed", "killed"}]
    BY <1>2, <1>3, <1>5, <2>1
  <2> QED
    BY <2>1, <2>2, <2>3 DEF CliTypeOK
<1>12. ASSUME NEW p \in Vcon, Exit(p) \/ Kill(p) PROVE CliTypeOK'
  <2>1. /\ UNCHANGED <<input, output, posted, drawn>>
        /\ \/ file' = file
           \/ /\ output[p] # Nothing
              /\ file' = [file EXCEPT ![args[p].out] = output[p]]
    BY <1>12 DEF Exit, Kill, Flushed, historyVars
  <2>2. output[p] \in Document \cup {Nothing} \cup Body
    BY DEF CliTypeOK
  <2>3. file' \in [Stream -> Document \cup {Absent, Empty, Torn, Raw}]
    BY <2>1, <2>2 DEF CliTypeOK, Body
  <2>4. /\ pc' \in [Vcon -> Label]
        /\ status' \in [Vcon -> {"running", "ok", "failed", "killed"}]
    BY <1>12 DEF Exit, Kill, CliTypeOK, Label
  <2> QED
    BY <2>1, <2>3, <2>4 DEF CliTypeOK
<1>13. CASE Tick \/ UNCHANGED cliVars
  BY <1>13 DEF Tick, cliVars, processVars, historyVars, CliTypeOK
<1> QED
  BY <1>6, <1>7, <1>8, <1>9, <1>10, <1>11, <1>12, <1>13 DEF CliNext, Step

-----------------------------------------------------------------------------
\* Files

\* What a step of a process does to the files: it opens and truncates its own,
\* begins to write it, or flushes it when it ends.
FileStep(p) ==
    \/ file' = file
    \/ pc[p] = "start" /\ file' = [file EXCEPT ![args[p].out] = Empty]
    \/ /\ output'[p] # Nothing /\ Running(p)'
       /\ file' = [file EXCEPT ![args[p].out] = Torn]
    \/ /\ output[p] # Nothing
       /\ file' = [file EXCEPT ![args[p].out] = output[p]]

\* What the other processes may rely on.
LEMMA StepFacts ==
    ASSUME CliTypeOK, LifeInv, NEW p \in Vcon, Local(p), Step(p) \/ Kill(p)
    PROVE  /\ args[p] # NotRun /\ args[p].out \in Stream
           /\ pc[p] # "done" /\ status[p] \in {"running", "failed"}
           /\ FileStep(p)
           /\ status[p] = "failed" => status'[p] \in {"failed", "killed"}
           /\ output[p] # Nothing => output'[p] # Nothing
           /\ status'[p] = "ok" =>
                  /\ pc[p] = "exit" /\ output'[p] = output[p]
                  /\ output[p] # Nothing
                  /\ file' = [file EXCEPT ![args[p].out] = output[p]]
           /\ \/ Running(p)' \/ status'[p] = "killed"
              \/ pc[p] = "start"
              \/ /\ pc[p] = "exit" /\ UNCHANGED output
                 /\ file' = IF output[p] = Nothing THEN file
                            ELSE [file EXCEPT ![args[p].out] = output[p]]
<1>1. ASSUME \/ At(p, "load") \/ At(p, "command") \/ At(p, "uuid")
             \/ At(p, "write") \/ At(p, "post")
      PROVE  /\ args[p] # NotRun /\ args[p].out \in Stream
             /\ status[p] = "running" /\ pc[p] # "done"
  BY <1>1, AtRuns DEF At, Arguments, Label
<1>2. AfterWrite(p) \in {"post", "exit"}
  BY DEF AfterWrite
<1>3. ASSUME Fail(p) \/ \E label \in Label \ {"start", "done"} : Goto(p, label),
             status[p] = "running"
      PROVE  Running(p)' /\ status'[p] \in {"running", "failed"}
  BY <1>3, GotoFail DEF Running
<1>4. CASE Start(p)
  <2>1. /\ pc[p] = "start"
        /\ args[p] # NotRun /\ args[p].out \in Stream
        /\ status[p] = "running" /\ UNCHANGED output
        /\ Fail(p) \/ Goto(p, "load")
    BY <1>4, AtRuns DEF Start, MayStart, Arguments, historyVars, Local, Progress
  <2>2. FileStep(p)
    BY <1>4, <2>1 DEF Start, Truncated, FileStep
  <2> QED
    BY <1>3, <2>1, <2>2 DEF Label
<1>5. CASE Load(p)
  <2>1. /\ At(p, "load") /\ UNCHANGED <<file, output>>
        /\ Fail(p) \/ Goto(p, "command")
    BY <1>5 DEF Load, NoAnswer, Read, Proceed
  <2> QED
    BY <1>1, <1>3, <2>1 DEF FileStep, Label
<1>6. CASE DoCommand(p) \/ NoCommand(p) \/ CommandFails(p) \/ Extract(p)
  <2>1. /\ At(p, "command") /\ UNCHANGED file
        /\ \/ output' = output
           \/ \E body \in Body : output' = [output EXCEPT ![p] = body]
        /\ Fail(p) \/ Goto(p, "uuid") \/ Goto(p, AfterWrite(p))
    BY <1>6 DEF Body, DoCommand, NoCommand, CommandFails, Extract, Proceed, historyVars
  <2>2. output[p] # Nothing => output'[p] # Nothing
    BY <2>1, Forms DEF CliTypeOK, Body
  <2> QED
    BY <1>1, <1>2, <1>3, <2>1, <2>2 DEF FileStep, Label
<1>7. CASE GiveUuid(p)
  <2>1. At(p, "uuid") /\ UNCHANGED <<file, output>> /\ Goto(p, "write")
    BY <1>7 DEF GiveUuid
  <2> QED
    BY <1>1, <1>3, <2>1 DEF FileStep, Label
<1>8. CASE Write(p)
  <2>1. /\ At(p, "write")
        /\ output' = [output EXCEPT ![p] = Dumped(vcon[p], Signed(p))]
        /\ file' = file \/ file' = [file EXCEPT ![args[p].out] = Torn]
        /\ Goto(p, AfterWrite(p))
    BY <1>8 DEF Write
  <2>2. output'[p] # Nothing
    BY <2>1, DumpedDocument, Forms DEF CliTypeOK
  <2>3. Running(p)' /\ status'[p] \in {"running", "failed"}
    BY <1>1, <1>2, <1>3, <2>1 DEF Label
  <2> QED
    BY <1>1, <2>1, <2>2, <2>3 DEF FileStep
<1>9. CASE Post(p)
  <2>1. /\ At(p, "post") /\ UNCHANGED <<file, output>>
        /\ Fail(p) \/ Goto(p, "exit")
    BY <1>9 DEF Post
  <2> QED
    BY <1>1, <1>3, <2>1 DEF FileStep, Label
<1>10. CASE Exit(p)
  <2>1. /\ pc[p] = "exit" /\ UNCHANGED output
        /\ args[p] # NotRun /\ args[p].out \in Stream
        /\ status[p] \in {"running", "failed"}
        /\ status'[p] = IF status[p] = "running" THEN "ok" ELSE status[p]
        /\ file' = IF output[p] = Nothing THEN file
                   ELSE [file EXCEPT ![args[p].out] = output[p]]
    BY <1>10, AtRuns DEF Exit, Flushed, Arguments, historyVars, CliTypeOK
  <2>2. status'[p] = "ok" => output[p] # Nothing
    BY <2>1 DEF Local, InOrder
  <2> QED
    BY <2>1, <2>2 DEF FileStep
<1>11. CASE Kill(p)
  BY <1>11, AtRuns DEF Kill, FileStep, Arguments, historyVars, CliTypeOK
<1> QED
  BY <1>4, <1>5, <1>6, <1>7, <1>8, <1>9, <1>10, <1>11 DEF Step

\* The other files stay as they are.
LEMMA OwnFile ==
    ASSUME CliTypeOK, NEW p \in Vcon, FileStep(p)
    PROVE  \A f \in Stream : f # args[p].out => file'[f] = file[f]
BY DEF CliTypeOK, FileStep

LEMMA FilesStep ==
    ASSUME CliTypeOK, LifeInv, NEW p \in Vcon, \A q \in Vcon : Local(q),
           Step(p) \/ Kill(p), UNCHANGED args,
           \A q \in Vcon \ {p} : Untouched(q),
           TornByWriter, ChangedByWriter, KeptWhenDone
    PROVE  TornByWriter' /\ ChangedByWriter' /\ KeptWhenDone'
<1>1. /\ args[p] # NotRun /\ args[p].out \in Stream /\ FileStep(p)
      /\ Writes(p, args[p].out)
      /\ status[p] \in {"running", "failed"}
  BY StepFacts DEF Writes
<1>2. \A f \in Stream : f # args[p].out => file'[f] = file[f]
  BY <1>1, OwnFile
<1>3. \A q \in Vcon : \A f : Writes(q, f)' <=> Writes(q, f)
  BY DEF Writes
<1>4. ChangedByWriter'
  <2> SUFFICES ASSUME NEW f \in Path, file'[f] # FileBefore[f]
               PROVE  \E q \in Vcon : Writes(q, f)
    BY <1>3 DEF ChangedByWriter
  <2>1. CASE f = args[p].out
    BY <1>1, <2>1
  <2>2. CASE f # args[p].out
    BY <1>2, <2>2 DEF ChangedByWriter, Stream
  <2> QED
    BY <2>1, <2>2
<1>5. KeptWhenDone'
  <2> SUFFICES ASSUME NEW q \in Vcon, status'[q] = "ok"
               PROVE  \/ file'[args[q].out] = output'[q]
                      \/ \E r \in Vcon \ {q} : Writes(r, args[q].out)
    BY <1>3 DEF KeptWhenDone, Succeeded
  <2>1. CASE q = p
    <3>1. /\ output'[p] = output[p]
          /\ file' = [file EXCEPT ![args[p].out] = output[p]]
      BY <2>1, StepFacts
    <3> QED
      BY <1>1, <2>1, <3>1 DEF CliTypeOK
  <2>2. CASE q # p
    <3>1. status[q] = "ok" /\ output'[q] = output[q]
      BY <2>2 DEF Untouched
    <3>2. args[q] # NotRun /\ args[q].out \in Stream
      BY <3>1 DEF Local, Progress, CliTypeOK, Arguments
    <3>3. CASE args[q].out = args[p].out
      BY <1>1, <2>2, <3>3
    <3>4. CASE args[q].out # args[p].out
      <4>1. file'[args[q].out] = file[args[q].out]
        BY <1>2, <3>2, <3>4
      <4> QED
        BY <3>1, <4>1 DEF KeptWhenDone, Succeeded
    <3> QED
      BY <3>3, <3>4
  <2> QED
    BY <2>1, <2>2
<1>6. TornByWriter'
  <2> SUFFICES ASSUME NEW f \in Stream, file'[f] = Torn
               PROVE  \E q \in Vcon :
                          /\ Writes(q, f)
                          /\ \/ Running(q)' /\ output'[q] # Nothing
                             \/ status'[q] = "killed"
    BY <1>3 DEF TornByWriter
\* It was torn before, by another process or by this one.
  <2>1. ASSUME file[f] = Torn
        PROVE  \/ \E q \in Vcon \ {p} :
                      /\ Writes(q, f)
                      /\ \/ Running(q)' /\ output'[q] # Nothing
                         \/ status'[q] = "killed"
               \/ Writes(p, f) /\ Running(p) /\ output[p] # Nothing
    <3>1. PICK q \in Vcon : /\ Writes(q, f)
                            /\ \/ Running(q) /\ output[q] # Nothing
                               \/ status[q] = "killed"
      BY <2>1 DEF TornByWriter
    <3>2. CASE q = p
      BY <1>1, <3>1, <3>2
    <3>3. CASE q # p
      <4>1. Untouched(q)
        BY <3>3
      <4>2. /\ pc'[q] = pc[q] /\ output'[q] = output[q]
            /\ status'[q] = status[q]
        BY <4>1 DEF Untouched
      <4>3. Running(q)' <=> Running(q)
        BY <4>2 DEF Running
      <4> QED
        BY <3>1, <3>3, <4>2, <4>3
    <3> QED
      BY <3>2, <3>3
  <2>2. CASE f # args[p].out
    BY <1>2, <2>1, <2>2 DEF Writes
  <2>3. CASE f = args[p].out
    <3>1. CASE (Running(p)' /\ output'[p] # Nothing) \/ status'[p] = "killed"
      BY <1>1, <2>3, <3>1
    <3>2. CASE ~(Running(p)' /\ output'[p] # Nothing) /\ status'[p] # "killed"
      <4>1. \/ pc[p] = "start"
            \/ output[p] = Nothing
            \/ /\ pc[p] = "exit" /\ UNCHANGED output
               /\ file' = IF output[p] = Nothing THEN file
                          ELSE [file EXCEPT ![args[p].out] = output[p]]
        BY <3>2, StepFacts
      <4>2. output[p] # Torn /\ Empty # Torn
        BY Forms DEF CliTypeOK, Body
      <4>3. file[f] = Torn
        BY <1>1, <2>3, <3>2, <4>1, <4>2 DEF FileStep, CliTypeOK
      <4>4. ~(Running(p) /\ output[p] # Nothing)
        <5>1. pc[p] = "start" => ~Running(p)
          BY DEF Running
        <5>2. pc[p] = "exit" => output[p] = Nothing
          <6> SUFFICES ASSUME pc[p] = "exit", output[p] # Nothing PROVE FALSE
            OBVIOUS
          <6>1. file' = [file EXCEPT ![args[p].out] = output[p]]
            BY <4>1
          <6> QED
            BY <1>1, <2>3, <4>2, <6>1 DEF CliTypeOK
        <5> QED
          BY <4>1, <5>1, <5>2
      <4> QED
        BY <2>1, <4>3, <4>4
    <3> QED
      BY <3>1, <3>2
  <2> QED
    BY <2>2, <2>3
<1> QED
  BY <1>4, <1>5, <1>6

-----------------------------------------------------------------------------
\* What is taken for a new vCon

WasNothing(p) ==
    \/ args[p].in = args[p].out
    \/ args[p].in \in Path /\ FileBefore[args[p].in] = Empty
    \/ \E q \in Vcon \ {p} :
           /\ args[q] # NotRun
           /\ args[q].out = args[p].in
           /\ args[p].in \in Pipe =>
                  \/ status[q] \in {"failed", "killed"}
                  \/ args[q].command = "extract" /\ output[q] = Empty

\* An output is written once, and only extract writes an empty one.
LEMMA OutputStep ==
    ASSUME CliTypeOK, LifeInv, NEW p \in Vcon, Local(p), Step(p) \/ Kill(p)
    PROVE  \/ output'[p] = output[p]
           \/ /\ output[p] = Nothing
              /\ output'[p] = Empty => args[p].command = "extract"
<1>1. CASE Extract(p) \/ CommandFails(p)
  <2>1. output[p] = Nothing
    BY <1>1 DEF Extract, CommandFails, At, Local, InOrder
  <2>2. CASE Extract(p)
    BY <2>1, <2>2 DEF Extract
  <2>3. CASE CommandFails(p)
    <3>1. output' = output \/ output' = [output EXCEPT ![p] = Raw]
      BY <2>3 DEF CommandFails
    <3> QED
      BY <2>1, <3>1, Forms DEF CliTypeOK
  <2> QED
    BY <1>1, <2>2, <2>3
<1>2. CASE Write(p)
  <2> DEFINE doc == Dumped(vcon[p], Signed(p))
  <2>1. output[p] = Nothing /\ output' = [output EXCEPT ![p] = doc]
    BY <1>2 DEF Write, At, Local, InOrder
  <2>2. doc # Empty
    BY DumpedDocument, Forms
  <2> HIDE DEF doc
  <2> QED
    BY <2>1, <2>2 DEF CliTypeOK
<1>3. CASE Kill(p) \/ (Step(p) /\ ~Extract(p) /\ ~CommandFails(p) /\ ~Write(p))
  <2>1. output' = output
    BY <1>3 DEF Step, Start, Load, DoCommand, NoCommand, GiveUuid, Post, Exit,
                Kill, historyVars
  <2> QED
    BY <2>1
<1> QED
  BY <1>1, <1>2, <1>3 DEF Step

\* A pipe is at its end when its writer is: had the writer succeeded, what it
\* has written would be there.
LEMMA EmptyPipe ==
    ASSUME CliInv, NEW p \in Vcon, args[p] # NotRun, args[p].in \in Pipe,
           AtEnd(p), file[args[p].in] = Empty
    PROVE  WasNothing(p)
<1> DEFINE f == args[p].in
<1>1. PICK q \in Vcon : args[q] # NotRun /\ args[q].out = f
  BY ScenarioAssumption DEF CliInv
<1>2. CASE q = p
  BY <1>1, <1>2 DEF WasNothing
<1>3. CASE q # p
  <2>1. pc[q] = "done"
    BY <1>1 DEF AtEnd
  <2>2. status[q] # "running" /\ status[q] \in {"running", "ok", "failed", "killed"}
    BY <1>1, <2>1 DEF CliInv, Local, Progress, CliTypeOK
  <2>3. status[q] = "ok" => output[q] = Empty /\ args[q].command = "extract"
    <3> SUFFICES ASSUME status[q] = "ok"
                 PROVE  output[q] = Empty /\ args[q].command = "extract"
      OBVIOUS
    <3>1. file[f] = output[q] \/ \E r \in Vcon \ {q} : Writes(r, f)
      BY <1>1 DEF CliInv, KeptWhenDone, Succeeded
    <3>2. ASSUME NEW r \in Vcon \ {q}, Writes(r, f) PROVE FALSE
      BY <1>1, <3>2, ScenarioAssumption DEF CliInv, Writes
    <3>3. output[q] = Empty
      BY <3>1, <3>2
    <3> QED
      BY <3>3 DEF CliInv, EmptyWasExtracted
  <2> QED
    BY <1>1, <1>3, <2>2, <2>3 DEF WasNothing
<1> QED
  BY <1>2, <1>3

LEMMA FoundNothing ==
    ASSUME CliInv, LifeInv, ServerAndClock, NEW p \in Vcon, Load(p),
           input'[p] = Empty
    PROVE  WasNothing(p)
<1>1. /\ args[p] # NotRun /\ input[p] = Nothing
      /\ args[p] \in Arguments
  <2>1. At(p, "load") /\ Local(p) /\ CliTypeOK
    BY DEF Load, CliInv
  <2> QED
    BY <2>1, AtRuns DEF At, Local, InOrder, Label
<1>2. documents \subseteq Document /\ server \subseteq documents
  BY DEF LifeInv, LifeTypeOK, ServerAndClock
<1>3. Empty \notin Document \cup {Nothing, Torn, Raw}
  BY Forms
<1>4. input \in [Vcon -> Document \cup {Nothing, Empty, Torn, Raw}]
  BY DEF CliInv, CliTypeOK
<1>5. /\ args[p].in \in Stream /\ AtEnd(p)
      /\ file[args[p].in] = Empty
  <2>1. input' # input
    BY <1>1, <1>3
  <2>2. \A d \in documents \cup {Torn, Raw} : input' # [input EXCEPT ![p] = d]
    BY <1>2, <1>3, <1>4
  <2> QED
    BY <1>2, <2>1, <2>2 DEF Load, NoAnswer, Read
<1>6. CASE args[p].in \in Pipe
  BY <1>1, <1>5, <1>6, EmptyPipe
<1>7. CASE args[p].in \in Path /\ args[p].in \notin Pipe
  <2>1. \/ FileBefore[args[p].in] = Empty
        \/ \E q \in Vcon : Writes(q, args[p].in)
    BY <1>5, <1>7 DEF CliInv, ChangedByWriter
  <2> QED
    BY <1>7, <2>1 DEF WasNothing, Writes
<1> QED
  BY <1>5, <1>6, <1>7 DEF Stream

LEMMA NewOnlyStep ==
    ASSUME CliInv, LifeInv, ServerAndClock, NEW p \in Vcon, Step(p) \/ Kill(p),
           UNCHANGED args, \A q \in Vcon \ {p} : Untouched(q)
    PROVE  NewOnlyFromNothing'
<1>1. CliTypeOK /\ \A q \in Vcon : Local(q)
  BY DEF CliInv
<1>2. \A q \in Vcon : WasNothing(q) => WasNothing(q)'
  <2>1. \A q \in Vcon : status[q] \in {"failed", "killed"} =>
                            status'[q] \in {"failed", "killed"}
    <3>1. status[p] \in {"running", "failed"}
          /\ (status[p] = "failed" => status'[p] \in {"failed", "killed"})
      BY <1>1, StepFacts
    <3> QED
      BY <3>1 DEF Untouched
  <2>2. \A q \in Vcon : output[q] = Empty => output'[q] = Empty
    <3>1. output[p] = Empty => output'[p] = Empty
      BY <1>1, OutputStep, Forms
    <3> QED
      BY <3>1 DEF Untouched
  <2> QED
    BY <2>1, <2>2 DEF WasNothing
<1>3. ASSUME NEW q \in Vcon, input'[q] = Empty PROVE WasNothing(q)
  <2>1. CASE input[q] = Empty
    BY <2>1 DEF CliInv, NewOnlyFromNothing, WasNothing
  <2>2. CASE input[q] # Empty
    <3>1. q = p
      BY <1>3, <2>2 DEF Untouched
    <3>2. Load(p)
      <4>1. input' # input
        BY <1>3, <2>2
      <4> QED
        BY <4>1 DEF Step, Start, DoCommand, NoCommand, CommandFails, Extract,
                    GiveUuid, Write, Post, Exit, Kill, historyVars
    <3> QED
      BY <1>3, <3>1, <3>2, FoundNothing
  <2> QED
    BY <2>1, <2>2
<1> QED
  BY <1>2, <1>3 DEF NewOnlyFromNothing, WasNothing

-----------------------------------------------------------------------------
\* UUIDs

\* A later time has no smaller UUID, and a greater one from 245 ns on.
LEMMA Uuid8Order ==
    ASSUME NEW domain, NEW t \in Nat, NEW u \in Nat
    PROVE  /\ t <= u => ~Precedes(Uuid8DomainName(domain, u),
                                  Uuid8DomainName(domain, t))
           /\ t + 245 <= u => Precedes(Uuid8DomainName(domain, t),
                                       Uuid8DomainName(domain, u))
<1> DEFINE ms(n) == n \div Millisecond
           rest(n) == n % Millisecond
           sub(n) == SubsecA(rest(n))
<1>1. ASSUME NEW n \in Nat
      PROVE  /\ ms(n) \in Nat /\ rest(n) \in Nat /\ rest(n) < Millisecond
             /\ n = Millisecond * ms(n) + rest(n)
  BY <1>1 DEF Millisecond
<1>2. ASSUME NEW n \in Nat
      PROVE  /\ sub(n) \in Nat
             /\ 15625 * sub(n) <= 64 * rest(n)
             /\ 64 * rest(n) < 15625 * sub(n) + 15625
  <2>1. rest(n) \in Nat
    BY <1>1
  <2> HIDE DEF rest
  <2> QED
    BY <2>1 DEF SubsecA
<1>3. \A n \in Nat : /\ Uuid8DomainName(domain, n).ms = ms(n)
                     /\ Uuid8DomainName(domain, n).subsec = sub(n)
  BY DEF Uuid8DomainName, Uuid8Time
<1> HIDE DEF ms, rest, sub
<1>4. ASSUME t <= u
      PROVE  /\ ms(t) <= ms(u)
             /\ ms(t) = ms(u) => sub(t) <= sub(u)
  <2>1. ms(t) <= ms(u)
    BY <1>1, <1>4 DEF Millisecond
  <2>2. ASSUME ms(t) = ms(u) PROVE sub(t) <= sub(u)
    <3>1. rest(t) <= rest(u)
      BY <1>1, <1>4, <2>2 DEF Millisecond
    <3> QED
      BY <1>1, <1>2, <3>1
  <2> QED
    BY <2>1, <2>2
<1>5. ASSUME t + 245 <= u
      PROVE  /\ ms(t) <= ms(u)
             /\ ms(t) = ms(u) => sub(t) < sub(u)
  <2>1. ms(t) <= ms(u)
    BY <1>1, <1>5 DEF Millisecond
  <2>2. ASSUME ms(t) = ms(u) PROVE sub(t) < sub(u)
    <3>1. rest(t) + 245 <= rest(u)
      BY <1>1, <1>5, <2>2 DEF Millisecond
    <3> QED
      BY <1>1, <1>2, <3>1
  <2> QED
    BY <2>1, <2>2
<1>6. /\ ms(t) \in Nat /\ ms(u) \in Nat
      /\ sub(t) \in Nat /\ sub(u) \in Nat
  BY <1>1, <1>2
<1>7. t <= u => ~Precedes(Uuid8DomainName(domain, u), Uuid8DomainName(domain, t))
  BY <1>3, <1>4, <1>6 DEF Precedes
<1>8. t + 245 <= u =>
          Precedes(Uuid8DomainName(domain, t), Uuid8DomainName(domain, u))
  BY <1>3, <1>5, <1>6 DEF Precedes
<1> QED
  BY <1>7, <1>8

LEMMA DrawnSorts ==
    ASSUME CliTypeOK, \A p \in Vcon : Local(p) PROVE UuidsSortByTime
<1> SUFFICES ASSUME NEW p \in Vcon, NEW q \in Vcon,
                    drawn[p] # NotDrawn, drawn[q] # NotDrawn
             PROVE  /\ drawn[p] <= drawn[q] =>
                           ~Precedes(vcon[q].content.uuid, vcon[p].content.uuid)
                    /\ drawn[p] + 245 <= drawn[q] =>
                           Precedes(vcon[p].content.uuid, vcon[q].content.uuid)
  BY DEF UuidsSortByTime
<1>1. drawn[p] \in Nat /\ drawn[q] \in Nat
  BY DEF CliTypeOK
<1>2. /\ vcon[p].content.uuid = Uuid8DomainName(Host, drawn[p])
      /\ vcon[q].content.uuid = Uuid8DomainName(Host, drawn[q])
  BY DEF Local, DrawnInTime
<1> QED
  BY <1>1, <1>2, Uuid8Order

-----------------------------------------------------------------------------
\* The invariant, and what follows from it

LEMMA InitCliInv == ASSUME CliInit PROVE CliInv
<1>1. CliTypeOK /\ args \in Scenario
  BY InitTypes
<1>2. /\ \A p \in Vcon : /\ vcon[p].state = "UNSIGNED"
                         /\ status[p] = "running"
                         /\ input[p] = Nothing /\ output[p] = Nothing
                         /\ posted[p] = Nothing /\ drawn[p] = NotDrawn
                         /\ pc[p] = IF args[p] = NotRun THEN "done" ELSE "start"
  BY DEF CliInit, LifeInit
<1>3. \A p \in Vcon : Local(p)
  <2> SUFFICES ASSUME NEW p \in Vcon PROVE Local(p)
    OBVIOUS
  <2>1. Progress(p) /\ InOrder(p) /\ DrawnInTime(p)
    BY <1>2 DEF Progress, InOrder, DrawnInTime
  <2>2. SameVcon(p) /\ SameForm(p)
    BY <1>2, Forms DEF SameVcon, Identified, SameForm
  <2> QED
    BY <2>1, <2>2 DEF Local
<1>4. \A f \in Stream : file[f] = IF f \in Path THEN FileBefore[f] ELSE Empty
  BY DEF CliInit
<1>5. \A f \in Path : FileBefore[f] # Torn
  BY FilesAssumption, ForeignAssumption, Forms
<1>6. TornByWriter /\ ChangedByWriter
  BY <1>4, <1>5, Forms DEF TornByWriter, ChangedByWriter, Stream
<1>7. KeptWhenDone /\ EmptyWasExtracted /\ NewOnlyFromNothing
  BY <1>2, Forms
     DEF KeptWhenDone, EmptyWasExtracted, Succeeded, NewOnlyFromNothing
<1> QED
  BY <1>1, <1>3, <1>6, <1>7 DEF CliInv

LEMMA NextCliInv ==
    ASSUME CliInv, LifeInv, ServerAndClock, [CliNext]_cliVars
    PROVE  CliInv'
<1>1. CliTypeOK /\ \A p \in Vcon : Local(p)
  BY DEF CliInv
<1>2. (\A p \in Vcon : Local(p)') /\ UNCHANGED args
  BY <1>1, NextLocal
<1>3. CliTypeOK'
  BY <1>1, <1>2, NextTypes
<1>4. CASE Tick \/ UNCHANGED cliVars
  <2>1. UNCHANGED <<processVars, file, input, output>>
    BY <1>4 DEF Tick, cliVars, historyVars
  <2>2. UNCHANGED <<pc, status>>
    BY <2>1 DEF processVars
  <2>3. TornByWriter' /\ ChangedByWriter' /\ KeptWhenDone'
    BY <1>2, <2>1, <2>2 DEF CliInv, TornByWriter, ChangedByWriter, KeptWhenDone,
                            Writes, Running, Succeeded
  <2>4. NewOnlyFromNothing'
    BY <1>2, <2>1, <2>2 DEF CliInv, NewOnlyFromNothing
  <2>5. EmptyWasExtracted'
    BY <1>2, <2>1 DEF CliInv, EmptyWasExtracted
  <2> QED
    BY <1>2, <1>3, <2>3, <2>4, <2>5 DEF CliInv
<1>5. ASSUME NEW p \in Vcon, Step(p) \/ Kill(p) PROVE CliInv'
  <2>1. \A q \in Vcon \ {p} : Untouched(q)
    BY <1>1, <1>5, StartLocal, LoadLocal, CommandLocal, ExtractLocal,
       GiveUuidLocal, WriteLocal, PostLocal, EndLocal DEF Step
  <2>2. TornByWriter' /\ ChangedByWriter' /\ KeptWhenDone'
    BY <1>1, <1>2, <1>5, <2>1, FilesStep DEF CliInv
  <2>3. NewOnlyFromNothing'
    BY <1>2, <1>5, <2>1, NewOnlyStep
  <2>4. EmptyWasExtracted'
    <3>1. output[p] = Empty \/ output'[p] # Empty \/ args[p].command = "extract"
      BY <1>1, <1>5, OutputStep
    <3> QED
      BY <1>2, <2>1, <3>1 DEF CliInv, EmptyWasExtracted, Untouched
  <2> QED
    BY <1>2, <1>3, <2>2, <2>3, <2>4 DEF CliInv
<1> QED
  BY <1>4, <1>5 DEF CliNext

\* The invariants of the objects hold in every run of the command.
LEMMA CliInvariance == CliSpec => [](CliInv /\ LifeInv)
<1>1. CliInit => LifeInit /\ ServerAndClock
  BY UuidAssumption DEF CliInit, ServerAndClock
<1>2. CliSpec => []ServerAndClock
  BY <1>1, ServerAndClockKept, PTL DEF CliSpec
<1>3. CliSpec => []LifeInv
  BY CommandUsesVcon, LifeInvariance, PTL
<1>4. CliInv /\ LifeInv /\ ServerAndClock /\ [CliNext]_cliVars => CliInv'
  BY NextCliInv
<1> QED
  BY <1>2, <1>3, <1>4, InitCliInv, PTL DEF CliSpec

\* What vcon verify has written, once it succeeded, was signed in these words
\* under an authority it was told to accept, whatever else was run meanwhile.
THEOREM VerifiedOutputIsGenuine == CliSpec => []VerifiedOutputWasSigned
<1>1. CliInv => VerifiedOutputWasSigned
  <2> SUFFICES ASSUME CliInv, NEW p \in Vcon, Succeeded(p),
                      args[p].command = "verify"
               PROVE  SaysSigned(p)
    BY DEF VerifiedOutputWasSigned, SaysSigned
  <2>1. Local(p) /\ status[p] = "ok"
    BY DEF CliInv, Succeeded
  <2>2. args[p] # NotRun /\ output[p] # Nothing
    BY <2>1 DEF Local, Progress, InOrder
  <2> QED
    BY <2>1, <2>2 DEF Local, SameForm, Verifying
<1> QED
  BY <1>1, CliInvariance, PTL

\* A process reads, writes and posts one vCon under one UUID.
THEOREM OneVconThroughAll == CliSpec => []OneVconPerProcess
<1>1. CliInv => OneVconPerProcess
  <2> SUFFICES ASSUME CliInv, NEW p \in Vcon
               PROVE  /\ /\ input[p].form \in {"vcon", "jws"}
                         /\ output[p].form \in {"vcon", "jws"}
                         /\ IdOf(input[p]) # NoUuid
                         => IdOf(output[p]) = IdOf(input[p])
                      /\ posted[p] # Nothing /\ output[p] \notin Body =>
                             \/ posted[p] = output[p]
                             \/ /\ args[p].command = "verify"
                                /\ posted[p] = input[p]
    BY DEF OneVconPerProcess
  <2>1. SameVcon(p) /\ SameForm(p)
    BY DEF CliInv, Local
  <2> QED
    BY <2>1 DEF SameVcon, SameForm, Identified, Verifying
<1> QED
  BY <1>1, CliInvariance, PTL

\* Nothing is taken for a new vCon by an accident of the order in which the
\* processes of a pipeline run: an empty input is what a process that succeeded
\* meant to write only where it extracted an empty body.
THEOREM NewVconsAreMeant == CliSpec => []NewOnlyFromNothing
<1>1. CliInv => NewOnlyFromNothing
  BY DEF CliInv
<1> QED
  BY <1>1, CliInvariance, PTL

\* What a process has written stays whole, however other processes fail.
THEOREM WrittenFilesAreWhole == CliSpec => []FilesAreWhole
<1>1. CliInv => FilesAreWhole
  BY DEF CliInv, KeptWhenDone, TornByWriter, Writes, FilesAreWhole
<1> QED
  BY <1>1, CliInvariance, PTL

\* UUIDs of one host sort by the time they were drawn at, for any clock.
THEOREM UuidOrderIsTimeOrder == CliSpec => []UuidsSortByTime
<1>1. CliInv => UuidsSortByTime
  BY DrawnSorts DEF CliInv
<1> QED
  BY <1>1, CliInvariance, PTL
=============================================================================
