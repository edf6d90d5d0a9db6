-------------------------------- MODULE Uuid8 --------------------------------
(***************************************************************************)
(* The UUIDs of vCons: Vcon.uuid8_domain_name and uuid8_time               *)
(* (vcon/__init__.py).  A UUID says when it was drawn, in milliseconds and *)
(* in the upper 12 bits of 20 that stand for the rest, and for which       *)
(* domain name; the version and variant bits are constant.                 *)
(***************************************************************************)
EXTENDS Naturals

Millisecond == 1000000

FaultySubsecA(ns) == ns \div 4096

\* The upper 12 of the 20 bits of _subsec_encode(ns) = ns * 2^20 \div 10^6.
\* Cancelled, 2^20 \div 2^8 and 10^6 are 64 and 15625.
SubsecA(ns) == (ns * 64) \div 15625

\* uuid8_time means to keep the last time and to count on from it.  It assigns
\* the time to a local variable, _LAST_V8_TIMESTAMP stays None, and the UUID
\* depends on the clock alone.
Uuid8Time(node, nanoseconds) ==
    [ms |-> nanoseconds \div Millisecond,
     subsec |-> SubsecA(nanoseconds % Millisecond),
     node |-> node]

\* node is the upper half of the SHA-1 of the domain name, which is taken to
\* differ for different names.
Uuid8DomainName(domain, nanoseconds) == Uuid8Time(domain, nanoseconds)
=============================================================================
