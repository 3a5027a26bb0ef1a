----------------------------- MODULE MCAdminAuth -----------------------------
(***************************************************************************)
(* Instances of AdminAuth for TLC.  The management origins have no state;  *)
(* they are evaluated on all lists of a few spellings.                     *)
(***************************************************************************)
EXTENDS AdminAuth, ManagementOrigins, TLC

Symmetry == Permutations(Calls) \cup Permutations(Tokens)

SomeSpellings ==
    [scheme : {"http", "https"}, host : Hosts, port : {NoPort, 443, 8443},
     marks : {{}, {"upper", "zeros", "spaces"}}]
    \cup [scheme : {"https"}, host : PublicHosts, port : {NoPort, 70000}, marks : {{}, {"extra"}}]

SomeLists == UNION {[1..n -> SomeSpellings] : n \in 0..2}

\* A list that was accepted is accepted again and unchanged: by the next start
\* and by admin-origin.  What is added or removed leaves such a list.
ASSUME \A list \in SomeLists, proxy \in BOOLEAN :
    LET stored == ValidatePublicOrigins(proxy, list)
    IN  stored # Refused =>
           /\ BootAccepts(proxy, stored) /\ OfflineAccepts(stored)
           /\ \A v \in SomeSpellings :
                 LET added == AddOrigin(proxy, stored, v, FALSE)
                 IN  /\ added = AddOrigin(proxy, stored, v, TRUE)
                     /\ added = Refused \/ BootAccepts(proxy, added)
           /\ \A k \in DOMAIN stored :
                 LET rest == DeleteOrigin(proxy, stored, k, << >>)
                 IN  rest = Refused \/ BootAccepts(proxy, rest)

\* The page an origin was set up for is let in, however its address is spelled.
ASSUME \A v, w \in SomeSpellings :
    LET list == ValidatePublicOrigins(TRUE, <<v>>)
    IN  /\ list # Refused => SetupOriginAllowed(TRUE, list, <<v>>, w)
        /\ list # Refused /\ SameOriginAs(TRUE, list, <<w>>, v) => w.host = v.host /\ w.scheme = "https"
        /\ ~SameOriginAs(TRUE, << >>, <<w>>, v) /\ ~SameOriginAs(FALSE, << >>, <<v, w>>, v)
==============================================================================
