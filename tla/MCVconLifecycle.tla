-------------------------- MODULE MCVconLifecycle --------------------------
(* Model values, bounds, symmetry and the documents of others for VconLifecycle. *)
EXTENDS VconLifecycle, TLC

CONSTANTS v1, v2, u1, none, s1, a1, a2, k1, k2

Theirs(version, analysis) ==
    [uuid |-> u1, subject |-> none, version |-> version, analysis |-> analysis]

Sig(x5c, issuers, over) == [x5c |-> x5c, issuers |-> issuers, over |-> over]

PlainOf(content) == [form |-> "vcon", content |-> content]

JwsOf(payload, signatures) ==
    [form |-> "jws", payload |-> payload, signatures |-> signatures]

JweOf(plaintext) == [form |-> "jwe", plaintext |-> plaintext, keyPair |-> k1]

Old == Theirs("0.0.1", "old")
Untyped == Theirs("0.0.1", "untyped")
Renamed == [Old EXCEPT !.subject = s1]
Newer == Theirs("other", "current")

\* A good signature after others, signatures over other words and over words
\* that cannot be migrated, a malformed chain, no chain at all, another version.
MCForeign ==
    {[form |-> "unknown"],
     PlainOf(Newer),
     JwsOf(Old, <<Sig("certs", {}, Old), Sig("certs", {a2}, Renamed),
                  Sig("certs", {a1}, Old)>>),
     JwsOf(Untyped, <<Sig("certs", {a1}, Old), Sig("certs", {a1}, Untyped),
                      Sig("malformed", {}, Untyped)>>),
     JweOf(PlainOf(Old)),
     JweOf(PlainOf(Untyped)),
     JweOf(JwsOf(Old, <<Sig("none", {}, Old)>>))}

Symmetry == Permutations({v1, v2})
=============================================================================
