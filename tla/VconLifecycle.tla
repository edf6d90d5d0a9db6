--------------------------- MODULE VconLifecycle ---------------------------
(***************************************************************************)
(* The signing and encryption life of class Vcon (vcon/__init__.py): Vcon  *)
(* objects of several programs, and the JSON documents they exchange.      *)
(*                                                                         *)
(* A call on an object is one action: Python code without an await, on an  *)
(* object that one program owns.  A call that raises is the same action    *)
(* with another value of reply.                                            *)
(*                                                                         *)
(* The data is cut down to what the calls tell apart.  A vCon is its uuid, *)
(* its subject (for everything a setter can change), its version string,   *)
(* and whether migrate_0_0_1_vcon keeps, rewrites or rejects its analysis. *)
(* Cryptography is ideal: a signature names the content it was computed    *)
(* over and the authorities its certificate chain leads to, a JWE names    *)
(* the key pair that opens it.                                             *)
(***************************************************************************)
EXTENDS Sequences, Functions, FiniteSets

CONSTANTS Vcon,          \* Vcon objects
          Uuid, NoUuid,  \* values of the uuid parameter, and its absence
          Subject,       \* values of the subject parameter
          NoSubject,     \* a vCon without one
          Authority,     \* certificate authorities
          KeyPair,       \* key pairs to encrypt for
          Foreign,       \* documents other implementations have sent
          MaxDumps       \* bound: documents our own objects may add

Version == {"0.0.1", "other"}

Content == [uuid     : Uuid \cup {NoUuid},
            subject  : Subject \cup {NoSubject},
            version  : Version,
            analysis : {"current", "old", "untyped"}]

\* x5c: the signature's header has no chain, one der_to_certs cannot parse, or
\* certificates.  issuers: the authorities that vouch for them (none for a
\* broken or too short chain).
Signature == [x5c     : {"none", "malformed", "certs"},
              issuers : SUBSET Authority,
              over    : Content]

Plain   == [form : {"vcon"}, content : Content]
Jws     == [form : {"jws"}, payload : Content, signatures : Seq(Signature)]
Unknown == [form : {"unknown"}]
Jwe     == [form : {"jwe"}, plaintext : Plain \cup Jws \cup Unknown,
            keyPair : KeyPair]

Document == Plain \cup Jws \cup Jwe \cup Unknown

None == [form |-> "none"]

ASSUME ForeignAssumption == Foreign \subseteq Document

VARIABLES vcon,          \* the fields _state, _vcon_dict, _jws_dict, _jwe_dict
          documents,     \* the documents there are
          reply,         \* "ok", or the exception the last call raised
          accepted,      \* history: the CAs a Vcon was last verified against
          signings       \* history: what was signed under which authority

lifeVars == <<vcon, documents, reply, accepted, signings>>

Signing(a, c) == [authority |-> a, content |-> c]

\* What the chains of a document vouch for: its signatures are genuine, though
\* the payload they are attached to may have changed since.
SigningsOf(doc) ==
    UNION { {Signing(a, sig.over) : a \in sig.issuers} :
            sig \in Range(doc.signatures) }

JwsIn(docs) == {d \in docs : d.form = "jws"}
                   \cup {d.plaintext : d \in {e \in docs : e.form = "jwe"
                                                /\ e.plaintext.form = "jws"}}

NewContent == [uuid |-> NoUuid, subject |-> NoSubject,
               version |-> "0.0.1", analysis |-> "current"]

LifeInit ==
    /\ vcon = [v \in Vcon |-> [state |-> "UNSIGNED", content |-> NewContent,
                               jws |-> None, jwe |-> None]]
    /\ documents = Foreign
    /\ reply = "ok"
    /\ accepted = [v \in Vcon |-> {}]
    /\ signings = UNION {SigningsOf(d) : d \in JwsIn(Foreign)}

-----------------------------------------------------------------------------

Raise(exception) ==
    /\ reply' = exception
    /\ UNCHANGED <<vcon, documents, accepted, signings>>

\* The call succeeds and leaves the object as given.
Become(v, object) ==
    /\ vcon' = [vcon EXCEPT ![v] = object]
    /\ reply' = "ok"

\* Operators named Faulty... are plausible mistakes in the definition they
\* precede.  No specification uses them: they show that the properties below
\* would notice.

\* A vCon may be changed while it is only signed.
FaultyModifiable(v) == vcon[v].state \in {"UNSIGNED", "SIGNED"}

\* _attempting_modify
Modifiable(v) == vcon[v].state = "UNSIGNED"

SetContent(v, content) ==
    /\ Become(v, [vcon[v] EXCEPT !.content = content])
    /\ UNCHANGED <<documents, accepted, signings>>

SetSubject(v, subject) ==
    \/ /\ ~Modifiable(v)
       /\ Raise("InvalidVconState")
    \/ /\ Modifiable(v)
       /\ SetContent(v, [vcon[v].content EXCEPT !.subject = subject])

\* replace is the argument that allows an object to change its identity.
SetUuid(v, uuid, replace) ==
    \/ /\ ~Modifiable(v)
       /\ Raise("InvalidVconState")
    \/ /\ Modifiable(v)
       /\ vcon[v].content.uuid # NoUuid
       /\ ~replace
       /\ Raise("AttributeError")
    \/ /\ Modifiable(v)
       /\ vcon[v].content.uuid = NoUuid \/ replace
       /\ SetContent(v, [vcon[v].content EXCEPT !.uuid = uuid])

\* migrate_0_0_1_vcon brings old transcripts up to date, and raises for an
\* analysis without a type.
Migratable(content) == content.analysis # "untyped"
Migrated(content) == [content EXCEPT !.analysis = "current"]

Loadable(doc) ==
    \/ doc.form \in {"jws", "jwe"}
    \/ /\ doc.form = "vcon"
       /\ doc.content.version = "0.0.1"
       /\ Migratable(doc.content)

LoadError(doc) ==
    IF doc.form # "vcon" THEN "InvalidVconJson"
    ELSE IF doc.content.version # "0.0.1" THEN "UnsupportedVconVersion"
    ELSE "MigrationError"

\* What loads makes of an object it takes for unsigned.  The content of a
\* signed or encrypted vCon is {} until verify fills it in.
LoadedFrom(object, doc) ==
    CASE doc.form = "jws" ->
           [object EXCEPT !.state = "UNVERIFIED", !.content = NewContent,
                          !.jws = doc]
      [] doc.form = "jwe" ->
           [object EXCEPT !.state = "ENCRYPTED", !.content = NewContent,
                          !.jwe = doc]
      [] OTHER ->
           [object EXCEPT !.state = "UNSIGNED",
                          !.content = Migrated(doc.content)]

\* loads leaves an object it refuses to fill as it is.
LoadsOutcome(object, doc) ==
    CASE object.state # "UNSIGNED" ->
           [object |-> object, reply |-> "InvalidVconState"]
      [] object.state = "UNSIGNED" /\ ~Loadable(doc) ->
           [object |-> object, reply |-> LoadError(doc)]
      [] OTHER ->
           [object |-> LoadedFrom(object, doc), reply |-> "ok"]

Ends(v, outcome) ==
    /\ vcon' = [vcon EXCEPT ![v] = outcome.object]
    /\ reply' = outcome.reply
    /\ UNCHANGED <<documents, accepted, signings>>

\* Whatever is in the object is overwritten.
FaultyLoadsOverAnything(v, doc) ==
    /\ Loadable(doc)
    /\ Become(v, LoadedFrom(vcon[v], doc))
    /\ UNCHANGED <<documents, accepted, signings>>

Loads(v, doc) == Ends(v, LoadsOutcome(vcon[v], doc))

-----------------------------------------------------------------------------

\* signed is the argument that asks for the signed form of a vCon that has one.
DumpError(object, signed) ==
    CASE object.state = "UNSIGNED" /\ object.content.uuid = NoUuid ->
           "InvalidVconState"
      [] object.state = "ENCRYPTED" /\ ~signed -> "AttributeError"
      [] OTHER -> "ok"

Dumped(object, signed) ==
    CASE object.state = "UNSIGNED"
             \/ (object.state \in {"SIGNED", "VERIFIED"} /\ ~signed) ->
           [form |-> "vcon", content |-> object.content]
      [] object.state = "ENCRYPTED" -> object.jwe
      [] OTHER -> object.jws

Dumpd(v, signed) ==
    \/ /\ DumpError(vcon[v], signed) # "ok"
       /\ Raise(DumpError(vcon[v], signed))
    \/ /\ DumpError(vcon[v], signed) = "ok"
       /\ documents' = documents \cup {Dumped(vcon[v], signed)}
       /\ reply' = "ok"
       /\ UNCHANGED <<vcon, accepted, signings>>

\* issuers: the authority the given chain leads to, or none.
Sign(v, issuers) ==
    \/ /\ vcon[v].state # "UNSIGNED" \/ vcon[v].content.uuid = NoUuid
       /\ Raise("InvalidVconState")
    \/ /\ vcon[v].state = "UNSIGNED"
       /\ vcon[v].content.uuid # NoUuid
       /\ LET content == vcon[v].content
              sig == [x5c |-> "certs", issuers |-> issuers, over |-> content]
          IN /\ Become(v, [vcon[v] EXCEPT
                             !.state = "SIGNED",
                             !.jws = [form |-> "jws", payload |-> content,
                                      signatures |-> <<sig>>]])
             /\ signings' = signings \cup {Signing(a, content) : a \in issuers}
       /\ UNCHANGED <<documents, accepted>>

\* The chain is good: so is the signature.
FaultyAccepts(jws, sig, cas) ==
    /\ sig.x5c = "certs"
    /\ sig.issuers \cap cas # {}
    /\ Migratable(jws.payload)

\* One round of verify's loops: the chain is good now, an accepted authority
\* vouches for it, the signature is over the payload, the payload migrates.
Accepts(jws, sig, cas) ==
    /\ sig.x5c = "certs"
    /\ sig.issuers \cap cas # {}
    /\ sig.over = jws.payload
    /\ Migratable(jws.payload)

\* The loop returns at the first signature it accepts; every exception but the
\* one of der_to_certs, which is called outside of the try, moves it on.
Verifies(jws, cas) ==
    \E i \in DOMAIN jws.signatures :
        /\ Accepts(jws, jws.signatures[i], cas)
        /\ \A k \in 1 .. i - 1 : jws.signatures[k].x5c # "malformed"

VerifyError(jws) ==
    IF jws.signatures = <<>> THEN "InvalidVconState"
    ELSE IF \E sig \in Range(jws.signatures) : sig.x5c = "malformed"
    THEN "ValueError"
    ELSE IF \A sig \in Range(jws.signatures) : sig.x5c = "none"
    THEN "InvalidVconSignature" ELSE "LastException"

\* cas: the accepted authorities whose certificates are in date.
Verify(v, cas) ==
    \/ /\ vcon[v].state # "UNVERIFIED"
       /\ Raise("InvalidVconState")
    \/ /\ vcon[v].state = "UNVERIFIED"
       /\ ~Verifies(vcon[v].jws, cas)
       /\ Raise(VerifyError(vcon[v].jws))
    \/ /\ vcon[v].state = "UNVERIFIED"
       /\ Verifies(vcon[v].jws, cas)
       /\ Become(v, [vcon[v] EXCEPT !.state = "VERIFIED",
                                    !.content = Migrated(vcon[v].jws.payload)])
       /\ accepted' = [accepted EXCEPT ![v] = cas]
       /\ UNCHANGED <<documents, signings>>

Encrypt(v, keyPair) ==
    \/ /\ vcon[v].state \notin {"SIGNED", "UNVERIFIED"}
       /\ Raise("InvalidVconState")
    \/ /\ vcon[v].state \in {"SIGNED", "UNVERIFIED"}
       /\ Become(v, [vcon[v] EXCEPT
                       !.state = "ENCRYPTED",
                       !.jwe = [form |-> "jwe", plaintext |-> vcon[v].jws,
                                keyPair |-> keyPair]])
       /\ UNCHANGED <<documents, accepted, signings>>

\* The state is not restored.
FaultyRestored(outcome, state) == outcome

\* decrypt's except clause, around its call of loads.
Restored(outcome, state) ==
    IF outcome.reply = "ok" THEN outcome
    ELSE [outcome EXCEPT !.object.state = state]

\* loads is told that the object is UNSIGNED.
Decrypt(v, keyPair) ==
    \/ /\ vcon[v].state # "ENCRYPTED"
       /\ Raise("InvalidVconState")
    \/ /\ vcon[v].state = "ENCRYPTED"
       /\ vcon[v].jwe.keyPair # keyPair
       /\ Raise("JWEError")
    \/ /\ vcon[v].state = "ENCRYPTED"
       /\ vcon[v].jwe.keyPair = keyPair
       /\ LET pretended == [vcon[v] EXCEPT !.state = "UNSIGNED"]
              outcome == LoadsOutcome(pretended, vcon[v].jwe.plaintext)
          IN Ends(v, Restored(outcome, vcon[v].state))

Issuers == {{a} : a \in Authority} \cup {{}}

LifeNext ==
    \E v \in Vcon :
        \/ \E s \in Subject : SetSubject(v, s)
        \/ \E u \in Uuid, replace \in BOOLEAN : SetUuid(v, u, replace)
        \/ \E d \in documents : Loads(v, d)
        \/ /\ Cardinality(documents) < Cardinality(Foreign) + MaxDumps
           /\ \E signed \in BOOLEAN : Dumpd(v, signed)
        \/ \E issuers \in Issuers : Sign(v, issuers)
        \/ \E cas \in SUBSET Authority : Verify(v, cas)
        \/ \E k \in KeyPair : Encrypt(v, k) \/ Decrypt(v, k)

LifeSpec == LifeInit /\ [][LifeNext]_lifeVars

-----------------------------------------------------------------------------

States == {"UNSIGNED", "SIGNED", "UNVERIFIED", "VERIFIED", "ENCRYPTED"}

\* The types of the fields, by state: an object in a signed state has a JWS,
\* an encrypted one a JWE.  UNKNOWN and DECRYPTED, which dumpd and the
\* attributes provide for, are never reached.
LifeTypeOK ==
    /\ vcon \in [Vcon -> [state : States, content : Content,
                          jws : Jws \cup {None}, jwe : Jwe \cup {None}]]
    /\ \A v \in Vcon :
         /\ vcon[v].state \in {"SIGNED", "UNVERIFIED", "VERIFIED"}
                => vcon[v].jws \in Jws
         /\ vcon[v].state = "ENCRYPTED" => vcon[v].jwe \in Jwe
    /\ documents \subseteq Document
    /\ accepted \in [Vcon -> SUBSET Authority]
    /\ signings \subseteq [authority : Authority, content : Content]

\* The two forms dumpd can give of a signed vCon say the same: what can be
\* read is what was signed, up to migration of what was signed elsewhere.
ReadableIsWhatWasSigned ==
    \A v \in Vcon :
        /\ vcon[v].state = "SIGNED" =>
               vcon[v].content = vcon[v].jws.payload
        /\ vcon[v].state = "VERIFIED" =>
               vcon[v].content = Migrated(vcon[v].jws.payload)

\* The content of a verified vCon was once signed, in these words, under one
\* of the authorities it was verified against: through whichever objects,
\* documents, encryptions and decryptions it went since.
VerifiedWasSigned ==
    \A v \in Vcon : vcon[v].state = "VERIFIED" =>
        \E s \in signings : /\ s.authority \in accepted[v]
                            /\ vcon[v].content = Migrated(s.content)

\* What makes VerifiedWasSigned inductive: no call makes up a signature, so
\* every chain in a document, an object or a ciphertext vouches for a signing.
Vouched(doc, known) ==
    /\ doc.form = "jws" => SigningsOf(doc) \subseteq known
    /\ doc.form = "jwe" /\ doc.plaintext.form = "jws" =>
           SigningsOf(doc.plaintext) \subseteq known

EverySignatureIsKnown ==
    /\ \A d \in documents : Vouched(d, signings)
    /\ \A v \in Vcon : /\ Vouched(vcon[v].jws, signings)
                      /\ Vouched(vcon[v].jwe, signings)

LifeInv == /\ LifeTypeOK
           /\ ReadableIsWhatWasSigned
           /\ VerifiedWasSigned
           /\ EverySignatureIsKnown

\* A call that raises leaves the object as it was.  A decrypt whose plaintext
\* cannot be loaded has had the object's state at UNSIGNED: left like that, the
\* object would take changes, be signed and be saved with the content that is
\* left in it.
FailedCallLeavesVcon ==
    [][reply' # "ok" => UNCHANGED <<vcon, documents>>]_lifeVars

\* Once signed, or loaded as signed or encrypted, an object can be changed
\* again only when it was decrypted and the plaintext is an unsigned vCon.
OnlyPlaintextThaws ==
    [][\A v \in Vcon :
           vcon[v].state # "UNSIGNED" /\ vcon'[v].state = "UNSIGNED" =>
               /\ vcon[v].state = "ENCRYPTED"
               /\ vcon[v].jwe.plaintext.form = "vcon"]_lifeVars
=============================================================================
