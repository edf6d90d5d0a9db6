----------------------------- MODULE VconStore -----------------------------
(***************************************************************************)
(* What vCon storage and the requests that process vCons promise.          *)
(*                                                                         *)
(* Storage holds at most one version of each vCon, 0 when it has none.     *)
(* Anybody may replace or delete a vCon at any time.  A request collects   *)
(* changes, and storage sees them when the request saves, vCon by vCon:    *)
(* each changed vCon once, in the version it was last changed to or one    *)
(* that was made of it behind the back of the request.  A vCon may be      *)
(* changed to that in storage, which is read later and saved later still.  *)
(* Success after saving means that everything was saved.  Nothing is       *)
(* promised of a failed request, which may have saved some of its changes, *)
(* and nothing isolates requests from each other.                          *)
(***************************************************************************)
EXTENDS Naturals

CONSTANTS Uuid, Request, Version

VARIABLES stored,    \* the version of each vCon in storage
          requests   \* what is known of each request

storeVars == <<stored, requests>>

StoreInit ==
    /\ stored = [u \in Uuid |-> 0]
    /\ requests = [r \in Request |->
                      [state   |-> "open",
                       changed |-> [u \in Uuid |-> {}],
                       saved   |-> [u \in Uuid |-> 0]]]

Replace(u, version) ==
    /\ stored' = [stored EXCEPT ![u] = version]
    /\ UNCHANGED requests

\* Version 0 is what storage holds when it is read.
Change(r, u, version) ==
    /\ requests[r].state = "open"
    /\ requests' = [requests EXCEPT ![r].changed[u] = {version}]
    /\ UNCHANGED stored

ChangeInPlace(r, u, version) ==
    /\ requests[r].state = "open"
    /\ requests[r].changed[u] # {}
    /\ requests' = [requests EXCEPT ![r].changed[u] = @ \cup {version}]
    /\ UNCHANGED stored

Read(r, u) ==
    /\ requests[r].state \in {"open", "saving"}
    /\ requests[r].changed[u] = {0}
    /\ stored[u] # 0
    /\ requests' = [requests EXCEPT ![r].changed[u] = {stored[u]}]
    /\ UNCHANGED stored

StartSaving(r) ==
    /\ requests[r].state = "open"
    /\ requests' = [requests EXCEPT ![r].state = "saving"]
    /\ UNCHANGED stored

Save(r, u) ==
    /\ requests[r].state = "saving"
    /\ requests[r].saved[u] = 0
    /\ \E version \in requests[r].changed[u] \ {0} :
           /\ stored' = [stored EXCEPT ![u] = version]
           /\ requests' = [requests EXCEPT ![r].saved[u] = version]

Succeed(r) ==
    /\ \/ requests[r].state = "open"
       \/ /\ requests[r].state = "saving"
          /\ \A u \in Uuid :
                 requests[r].changed[u] # {} => requests[r].saved[u] # 0
    /\ requests' = [requests EXCEPT ![r].state = "succeeded"]
    /\ UNCHANGED stored

Fail(r) ==
    /\ requests[r].state \in {"open", "saving"}
    /\ requests' = [requests EXCEPT ![r] = [state   |-> "failed",
                                           changed |-> [u \in Uuid |-> {}],
                                           saved   |-> [u \in Uuid |-> 0]]]
    /\ UNCHANGED stored

StoreNext ==
    \/ \E u \in Uuid, version \in Version \cup {0} : Replace(u, version)
    \/ \E r \in Request :
           \/ \E u \in Uuid, version \in Version \cup {0} : Change(r, u, version)
           \/ \E u \in Uuid, version \in Version : ChangeInPlace(r, u, version)
           \/ \E u \in Uuid : Read(r, u) \/ Save(r, u)
           \/ StartSaving(r)
           \/ Succeed(r)
           \/ Fail(r)

StoreSpec == StoreInit /\ [][StoreNext]_storeVars
=============================================================================
