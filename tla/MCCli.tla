-------------------------------- MODULE MCCli --------------------------------
(* Model values, bounds and the command lines for Cli. *)
EXTENDS Cli, TLC

CONSTANTS p1, p2, p3, none, s1, a1, k1, theirs, a, b, c, d, e, f, pipe1, pipe2, host

MCUuid == {Uuid8DomainName(host, Began + i * Grain) : i \in 0 .. MaxClock}
              \cup {theirs}

Theirs(subject, analysis) == [uuid |-> theirs, subject |-> subject,
                              version |-> "0.0.1", analysis |-> analysis]

Unsigned == [form |-> "vcon", content |-> Theirs(none, "old")]

SignedOver(content) ==
    [form |-> "jws", payload |-> Theirs(none, "old"),
     signatures |-> <<[x5c |-> "certs", issuers |-> {a1}, over |-> content]>>]

Good == SignedOver(Theirs(none, "old"))
Forged == SignedOver(Theirs(s1, "old"))

Newer == [form |-> "vcon",
          content |-> [Theirs(none, "current") EXCEPT !.version = "other"]]

Anonymous == [form |-> "vcon",
              content |-> [Theirs(none, "current") EXCEPT !.uuid = none]]

MCForeign == {Unsigned, Good, Forged, Newer, Anonymous}

MCFileBefore == (a :> Unsigned) @@ (b :> Good) @@ (c :> Forged)
                    @@ (d :> Absent) @@ (e :> Newer)
                    @@ (f :> Anonymous)

Run(in, command, out) ==
    [in |-> in, command |-> command, out |-> out, post |-> FALSE]
RunAndPost(in, command, out) ==
    [in |-> in, command |-> command, out |-> out, post |-> TRUE]

Shell(x, y, z) == (p1 :> x) @@ (p2 :> y) @@ (p3 :> z)

MCScenario ==
    {\* vcon -n add ... | vcon sign ... | vcon -o a verify ...
     Shell(Run("new", "change", pipe1), Run(pipe1, "sign", pipe2),
           Run(pipe2, "verify", a)),
     \* vcon -i a -p sign ... | vcon -o b -p verify ...; vcon -i e
     Shell(RunAndPost(a, "sign", pipe1), RunAndPost(pipe1, "verify", b),
           Run(e, "none", pipe2)),
     \* vcon -i b verify ... | vcon -o b sign ...; vcon -i c verify ... -o a
     Shell(Run(b, "verify", pipe1), Run(pipe1, "sign", b),
           Run(c, "verify", a)),
     \* vcon -i a -o a -p add ...; vcon -i a -o b -p; vcon -g ...
     Shell(RunAndPost(a, "change", a), RunAndPost(a, "none", b),
           Run("get", "none", pipe2)),
     \* vcon -i b encrypt ... | vcon -o d -p decrypt ...; vcon -i d -o d -p
     Shell(Run(b, "encrypt", pipe1), RunAndPost(pipe1, "decrypt", d),
           RunAndPost(d, "none", d)),
     \* vcon -i a -p extract dialog 0 | vcon -o d; vcon -i f -p extract dialog 0
     Shell(RunAndPost(a, "extract", pipe1), Run(pipe1, "none", d),
           RunAndPost(f, "extract", c)),
     \* vcon -n -o c & vcon -n -o d & vcon -n -o a
     Shell(Run("new", "none", c), Run("new", "none", d), Run("new", "none", a))}
=============================================================================
