-------------------------- MODULE ManagementOrigins -------------------------
(***************************************************************************)
(* The origins management is reached at (platform/adminauth/transport.go), *)
(* and what the handlers and the command admin-origin do to the list that  *)
(* state.json keeps of them.                                               *)
(*                                                                         *)
(* An origin is what url.Parse finds in its spelling: the scheme, the host *)
(* in lower case, the number of its port, and what marks the spelling:     *)
(* letters in upper case, zeros before the port, spaces around it, or      *)
(* anything extra, such as a user, a path, a query or a fragment.  Two     *)
(* strings are equal when these records are.                               *)
(***************************************************************************)
EXTENDS Integers, Sequences

CONSTANTS
    Hosts,
    PublicHosts,            \* the ones validPublicHostname accepts
    NoPort, Refused,
    MaximumPublicOrigins

Spellings == [scheme : {"http", "https", "other"}, host : Hosts, port : Nat \cup {NoPort},
              marks : SUBSET {"upper", "zeros", "spaces", "extra"}]

ASSUME OriginAssumption ==
    /\ PublicHosts \subseteq Hosts /\ NoPort \notin Nat
    /\ MaximumPublicOrigins \in Nat
    /\ Refused \notin Spellings /\ Refused \notin Seq(Spellings)

\* strings.TrimSpace.
TrimSpace(v) == [scheme |-> v.scheme, host |-> v.host, port |-> v.port,
                 marks |-> v.marks \ {"spaces"}]

DefaultPort(scheme) == IF scheme = "https" THEN 443 ELSE 80

Ports == 1..65535
ValidPort(port) == port = NoPort \/ port \in Ports

\* url.Parse, the checks and the port of canonicalOrigin.
Usual(v) ==
    /\ v.scheme \in {"http", "https"} /\ v.marks \cap {"spaces", "extra"} = {}
    /\ ValidPort(v.port)

Origin(scheme, host, port) == [scheme |-> scheme, host |-> host, port |-> port, marks |-> {}]

\* The port as it is printed: the default one is left out.
PortOf(scheme, port) == IF port = DefaultPort(scheme) THEN NoPort ELSE port

\* canonicalOrigin: lower case, no default port and no leading zeros.
CanonicalOrigin(v) ==
    IF Usual(v) THEN Origin(v.scheme, v.host, PortOf(v.scheme, v.port)) ELSE Refused

\* NormalizePublicOrigin: the whole of an HTTPS origin.
NormalizePublicOrigin(v) ==
    IF Usual(TrimSpace(v)) /\ v.scheme = "https" /\ v.host \in PublicHosts
    THEN CanonicalOrigin(TrimSpace(v)) ELSE Refused

\* NormalizePublicOrigins: no origin twice, in any spelling.
NormalizePublicOrigins(list) ==
    LET normal == [i \in DOMAIN list |-> NormalizePublicOrigin(list[i])]
    IN  IF \/ Len(list) > MaximumPublicOrigins
           \/ \E i \in DOMAIN list : normal[i] = Refused
           \/ \E i, j \in DOMAIN list : i # j /\ normal[i] = normal[j]
        THEN Refused ELSE normal

\* ValidatePublicOrigins: behind a proxy there is no other way in.
ValidatePublicOrigins(behindProxy, list) ==
    IF behindProxy /\ list = << >> THEN Refused ELSE NormalizePublicOrigins(list)

\* RequestOrigin: the values of the Origin header.
RequestOrigin(values) ==
    IF Len(values) = 1 THEN CanonicalOrigin(TrimSpace(values[1])) ELSE Refused

\* SameOrigin: behind a proxy the list decides, else the address of the request.
SameOriginAs(behindProxy, list, values, address) ==
    LET origin == RequestOrigin(values)
    IN  /\ origin # Refused
        /\ IF behindProxy THEN \E i \in DOMAIN list : list[i] = origin
           ELSE CanonicalOrigin(address) = origin

\* SetupOriginAllowed: the list is the one to be set up.
SetupOriginAllowed(behindProxy, list, values, address) ==
    SameOriginAs(behindProxy, list, values, address)

-----------------------------------------------------------------------------
(* Changes of the list, as it is stored.                                   *)

\* addAdminOrigin stores the list with the new origin at its end; admin-origin
\* add stores what ValidatePublicOrigins makes of it.
AddOrigin(behindProxy, list, v, offline) ==
    LET origin == NormalizePublicOrigin(v)
        candidate == Append(list, origin)
        validated == ValidatePublicOrigins(behindProxy, candidate)
    IN  IF \/ origin = Refused \/ \E i \in DOMAIN list : list[i] = origin
           \/ Len(list) >= MaximumPublicOrigins \/ validated = Refused
        THEN Refused ELSE IF offline THEN validated ELSE candidate

Without(list, k) == [i \in 1..(Len(list) - 1) |-> IF i < k THEN list[i] ELSE list[i + 1]]

\* deleteAdminOrigin of the k-th origin, whose id the client gave; admin-origin
\* remove has no request.
DeleteOrigin(behindProxy, list, k, values) ==
    IF \/ behindProxy /\ Len(list) = 1
       \/ RequestOrigin(values) = list[k]
    THEN Refused ELSE ValidatePublicOrigins(behindProxy, Without(list, k))

\* New of the application, and admin-origin, refuse a stored list that is not
\* in its canonical form.
BootAccepts(behindProxy, list) ==
    ValidatePublicOrigins(behindProxy, list) = list
OfflineAccepts(list) == NormalizePublicOrigins(list) = list
=============================================================================
