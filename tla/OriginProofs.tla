---------------------------- MODULE OriginProofs ----------------------------
(***************************************************************************)
(* Proofs about ManagementOrigins: whatever the management interface or    *)
(* the command admin-origin stores is a list the next start accepts, and   *)
(* an allowed origin is recognised in all its spellings and in no others.  *)
(***************************************************************************)
EXTENDS ManagementOrigins, TLAPS

\* The origin a browser names: the default port is no port.
EffectivePort(v) == IF v.port = NoPort THEN DefaultPort(v.scheme) ELSE v.port

\* What is printed for a port is a port, and is printed again.
LEMMA PortIsNormal ==
    ASSUME NEW scheme, NEW port \in Nat \cup {NoPort}, ValidPort(port)
    PROVE  /\ ValidPort(PortOf(scheme, port))
           /\ PortOf(scheme, PortOf(scheme, port)) = PortOf(scheme, port)
           /\ PortOf(scheme, port) \in Nat \cup {NoPort}
<1>0. \A S, x : x \in S \/ x = NoPort => x \in S \cup {NoPort}
  OBVIOUS
<1>1. CASE port = DefaultPort(scheme)
  <2>1. PortOf(scheme, port) = NoPort
    BY <1>1, Zenon DEF PortOf
  <2>2. PortOf(scheme, NoPort) = NoPort
    BY Zenon DEF PortOf
  <2>3. ValidPort(NoPort)
    BY Zenon DEF ValidPort
  <2>4. NoPort \in Nat \cup {NoPort}
    BY <1>0, Zenon
  <2> QED
    BY <2>1, <2>2, <2>3, <2>4, Zenon
<1>2. CASE port # DefaultPort(scheme)
  <2>1. PortOf(scheme, port) = port
    BY <1>2, Zenon DEF PortOf
  <2> QED
    BY <2>1, Zenon
<1> QED
  BY <1>1, <1>2, Zenon

\* An HTTPS origin with the port as it is printed is its own normal form.
LEMMA OriginIsNormal ==
    ASSUME NEW host \in PublicHosts, NEW port \in Nat \cup {NoPort}, ValidPort(port),
           PortOf("https", port) = port
    PROVE  /\ Origin("https", host, port) \in Spellings
           /\ NormalizePublicOrigin(Origin("https", host, port)) = Origin("https", host, port)
<1> DEFINE o == Origin("https", host, port)
<1>2. host \in Hosts
  BY OriginAssumption
<1>3. o.scheme = "https" /\ o.host = host /\ o.port = port /\ o.marks = {}
  BY DEF Origin
<1>4. o \in Spellings
  BY <1>2 DEF Origin, Spellings
<1>5. TrimSpace(o) = o
  <2>1. {} \ {"spaces"} = {}
    OBVIOUS
  <2> QED
    BY <1>3, <2>1, Zenon DEF TrimSpace, Origin
<1>6. Usual(o)
  <2>1. {} \cap {"spaces", "extra"} = {}
    OBVIOUS
  <2> QED
    BY <1>3, <2>1, Zenon DEF Usual
<1>7. CanonicalOrigin(o) = o
  BY <1>3, <1>6, Zenon DEF CanonicalOrigin
<1>8. NormalizePublicOrigin(o) = o
  BY <1>3, <1>5, <1>6, <1>7, Zenon DEF NormalizePublicOrigin
<1> QED
  BY <1>4, <1>8, Zenon

\* What NormalizePublicOrigin makes of an origin it accepts.
LEMMA NormalForm ==
    ASSUME NEW v \in Spellings, NormalizePublicOrigin(v) # Refused
    PROVE  /\ v.scheme = "https" /\ v.host \in PublicHosts /\ ValidPort(v.port)
           /\ NormalizePublicOrigin(v) = Origin("https", v.host, PortOf("https", v.port))
<1>1. Usual(TrimSpace(v)) /\ v.scheme = "https" /\ v.host \in PublicHosts
  BY Zenon DEF NormalizePublicOrigin
<1>2. TrimSpace(v).scheme = v.scheme /\ TrimSpace(v).host = v.host /\ TrimSpace(v).port = v.port
  BY DEF TrimSpace
<1>3. NormalizePublicOrigin(v) = CanonicalOrigin(TrimSpace(v))
  BY <1>1, Zenon DEF NormalizePublicOrigin
<1>4. ValidPort(v.port)
  BY <1>1, <1>2, Zenon DEF Usual
<1> QED
  BY <1>1, <1>2, <1>3, <1>4, Zenon DEF CanonicalOrigin

\* A normalized origin is an origin, and normalizing it again changes nothing.
LEMMA NormalizeIdempotent ==
    ASSUME NEW v \in Spellings, NormalizePublicOrigin(v) # Refused
    PROVE  /\ NormalizePublicOrigin(v) \in Spellings
           /\ NormalizePublicOrigin(NormalizePublicOrigin(v)) = NormalizePublicOrigin(v)
<1>1. /\ v.host \in PublicHosts /\ ValidPort(v.port)
      /\ NormalizePublicOrigin(v) = Origin("https", v.host, PortOf("https", v.port))
  BY NormalForm, Zenon
<1>2. /\ ValidPort(PortOf("https", v.port)) /\ PortOf("https", v.port) \in Nat \cup {NoPort}
      /\ PortOf("https", PortOf("https", v.port)) = PortOf("https", v.port)
  <2>1. v.port \in Nat \cup {NoPort}
    BY DEF Spellings
  <2> QED
    BY <1>1, <2>1, PortIsNormal, Zenon
<1>3. /\ Origin("https", v.host, PortOf("https", v.port)) \in Spellings
      /\ NormalizePublicOrigin(Origin("https", v.host, PortOf("https", v.port)))
            = Origin("https", v.host, PortOf("https", v.port))
  BY <1>1, <1>2, OriginIsNormal, Zenon
<1> QED
  BY <1>1, <1>3, Zenon

\* What a list must be like to be stored.
Canonical(list) ==
    /\ list \in Seq(Spellings) /\ Len(list) <= MaximumPublicOrigins
    /\ \A i \in DOMAIN list : NormalizePublicOrigin(list[i]) = list[i]
    /\ \A i, j \in DOMAIN list : i # j => list[i] # list[j]

\* A canonical list is accepted, and left as it is.
LEMMA CanonicalIsAccepted ==
    ASSUME NEW list, Canonical(list)
    PROVE  NormalizePublicOrigins(list) = list
<1>1. [i \in DOMAIN list |-> NormalizePublicOrigin(list[i])] = list
  BY DEF Canonical
<1>2. \A i \in DOMAIN list : list[i] \in Spellings
  BY DEF Canonical
<1> QED
  BY <1>1, <1>2, OriginAssumption DEF Canonical, NormalizePublicOrigins

\* A list that was accepted has become canonical.
LEMMA AcceptedIsCanonical ==
    ASSUME NEW list \in Seq(Spellings), NormalizePublicOrigins(list) # Refused
    PROVE  Canonical(NormalizePublicOrigins(list))
<1> DEFINE normal == [i \in DOMAIN list |-> NormalizePublicOrigin(list[i])]
<1>1. /\ NormalizePublicOrigins(list) = normal
      /\ Len(list) <= MaximumPublicOrigins
      /\ \A i \in DOMAIN list : normal[i] # Refused
      /\ \A i, j \in DOMAIN list : i # j => normal[i] # normal[j]
  BY OriginAssumption DEF NormalizePublicOrigins
<1>2. \A i \in DOMAIN list : list[i] \in Spellings
  OBVIOUS
<1>3. \A i \in DOMAIN list : normal[i] \in Spellings /\ NormalizePublicOrigin(normal[i]) = normal[i]
  BY <1>1, <1>2, NormalizeIdempotent
<1>4. normal \in Seq(Spellings) /\ Len(normal) = Len(list) /\ DOMAIN normal = DOMAIN list
  BY <1>3
<1> QED
  BY <1>1, <1>3, <1>4, OriginAssumption DEF Canonical

\* Behind a proxy the list must not be empty.
Bootable(behindProxy, list) == Canonical(list) /\ (behindProxy => list # << >>)

\* For a list of origins, the server starts with it exactly if it is bootable.
LEMMA BootableIsAccepted ==
    ASSUME NEW behindProxy \in BOOLEAN, NEW list \in Seq(Spellings)
    PROVE  BootAccepts(behindProxy, list) <=> Bootable(behindProxy, list)
<1>1. list # Refused
  BY OriginAssumption
<1>2. ASSUME Bootable(behindProxy, list) PROVE BootAccepts(behindProxy, list)
  BY <1>2, CanonicalIsAccepted DEF Bootable, BootAccepts, ValidatePublicOrigins
<1>3. ASSUME BootAccepts(behindProxy, list) PROVE Bootable(behindProxy, list)
  <2>1. ~(behindProxy /\ list = << >>) /\ NormalizePublicOrigins(list) = list
    BY <1>1, <1>3 DEF BootAccepts, ValidatePublicOrigins
  <2> QED
    BY <1>1, <2>1, AcceptedIsCanonical DEF Bootable
<1> QED
  BY <1>2, <1>3

\* setup: the list it stores lets the server start again.
THEOREM SetupLeavesBootable ==
    ASSUME NEW behindProxy \in BOOLEAN, NEW list \in Seq(Spellings),
           ValidatePublicOrigins(behindProxy, list) # Refused
    PROVE  BootAccepts(behindProxy, ValidatePublicOrigins(behindProxy, list))
<1> DEFINE stored == ValidatePublicOrigins(behindProxy, list)
<1>1. stored = NormalizePublicOrigins(list) /\ (behindProxy => list # << >>)
  BY DEF ValidatePublicOrigins
<1>2. Canonical(stored)
  BY <1>1, AcceptedIsCanonical
<1>3. stored = [i \in DOMAIN list |-> NormalizePublicOrigin(list[i])]
  BY <1>1, OriginAssumption DEF NormalizePublicOrigins
<1>4. behindProxy => stored # << >>
  BY <1>1, <1>3
<1> QED
  BY <1>2, <1>4, BootableIsAccepted DEF Bootable, Canonical

\* addAdminOrigin and admin-origin add: although the handler stores a list it
\* has not normalized and the command one it has, both store the same, and the
\* server starts with it.
THEOREM AddLeavesBootable ==
    ASSUME NEW behindProxy \in BOOLEAN, NEW list \in Seq(Spellings), NEW v \in Spellings,
           NEW offline \in BOOLEAN,
           BootAccepts(behindProxy, list), AddOrigin(behindProxy, list, v, offline) # Refused
    PROVE  /\ BootAccepts(behindProxy, AddOrigin(behindProxy, list, v, offline))
           /\ AddOrigin(behindProxy, list, v, offline) = Append(list, NormalizePublicOrigin(v))
<1> DEFINE o == NormalizePublicOrigin(v)
           new == Append(list, o)
<1>1. Canonical(list)
  BY BootableIsAccepted DEF Bootable
<1>2. /\ o # Refused /\ Len(list) < MaximumPublicOrigins
      /\ \A i \in DOMAIN list : list[i] # o
      /\ AddOrigin(behindProxy, list, v, offline) =
            IF offline THEN ValidatePublicOrigins(behindProxy, new) ELSE new
  BY OriginAssumption DEF AddOrigin
<1>3. o \in Spellings /\ NormalizePublicOrigin(o) = o
  BY <1>2, NormalizeIdempotent
<1>4. /\ new \in Seq(Spellings) /\ Len(new) = Len(list) + 1 /\ DOMAIN new = 1..(Len(list) + 1)
      /\ new[Len(list) + 1] = o /\ \A i \in DOMAIN list : new[i] = list[i]
  BY <1>3
<1>5. Canonical(new)
  <2>1. Len(new) <= MaximumPublicOrigins
    BY <1>2, <1>4, OriginAssumption
  <2>2. \A i \in DOMAIN new : NormalizePublicOrigin(new[i]) = new[i]
    BY <1>1, <1>3, <1>4 DEF Canonical
  <2>3. \A i, j \in DOMAIN new : i # j => new[i] # new[j]
    BY <1>1, <1>2, <1>4 DEF Canonical
  <2> QED
    BY <1>4, <2>1, <2>2, <2>3 DEF Canonical
<1>6. BootAccepts(behindProxy, new)
  <2>1. new # << >>
    BY <1>4
  <2> QED
    BY <1>4, <1>5, <2>1, BootableIsAccepted DEF Bootable
<1> QED
  BY <1>2, <1>6 DEF BootAccepts

\* deleteAdminOrigin and admin-origin remove: the server starts with what is
\* left, one origin less.
THEOREM DeleteLeavesBootable ==
    ASSUME NEW behindProxy \in BOOLEAN, NEW list \in Seq(Spellings), NEW k \in DOMAIN list,
           NEW values, BootAccepts(behindProxy, list),
           DeleteOrigin(behindProxy, list, k, values) # Refused
    PROVE  /\ BootAccepts(behindProxy, DeleteOrigin(behindProxy, list, k, values))
           /\ DeleteOrigin(behindProxy, list, k, values) = Without(list, k)
<1> DEFINE rest == Without(list, k)
<1>1. Canonical(list)
  BY BootableIsAccepted DEF Bootable
<1>2. /\ DeleteOrigin(behindProxy, list, k, values) = ValidatePublicOrigins(behindProxy, rest)
      /\ behindProxy => Len(list) # 1
  BY DEF DeleteOrigin
<1>3. Len(list) \in Nat /\ k \in 1..Len(list)
  OBVIOUS
<1>4. \A i \in 1..(Len(list) - 1) :
         /\ rest[i] = IF i < k THEN list[i] ELSE list[i + 1]
         /\ i \in DOMAIN list /\ i + 1 \in DOMAIN list
  BY <1>3 DEF Without
<1>5. rest \in Seq(Spellings) /\ Len(rest) = Len(list) - 1 /\ DOMAIN rest = 1..(Len(list) - 1)
  BY <1>3, <1>4 DEF Without
<1>6. Canonical(rest)
  <2>1. \A i \in DOMAIN rest : NormalizePublicOrigin(rest[i]) = rest[i]
    BY <1>1, <1>4, <1>5 DEF Canonical
  <2>2. \A i, j \in DOMAIN rest : i # j => rest[i] # rest[j]
    <3>1. SUFFICES ASSUME NEW i \in DOMAIN rest, NEW j \in DOMAIN rest, i # j
                   PROVE  rest[i] # rest[j]
      OBVIOUS
    <3> DEFINE a == IF i < k THEN i ELSE i + 1
               b == IF j < k THEN j ELSE j + 1
    <3>2. a # b /\ a \in DOMAIN list /\ b \in DOMAIN list
      BY <1>3, <1>5, <3>1
    <3>3. rest[i] = list[a] /\ rest[j] = list[b]
      BY <1>4, <1>5
    <3> QED
      BY <1>1, <3>2, <3>3 DEF Canonical
  <2>3. Len(rest) <= MaximumPublicOrigins
    BY <1>1, <1>3, <1>5, OriginAssumption DEF Canonical
  <2> QED
    BY <1>5, <2>1, <2>2, <2>3 DEF Canonical
<1>7. behindProxy => rest # << >>
  <2>1. ASSUME behindProxy PROVE Len(rest) # 0
    BY <1>2, <1>3, <1>5, <2>1
  <2> QED
    BY <2>1
<1>8. BootAccepts(behindProxy, rest)
  BY <1>5, <1>6, <1>7, BootableIsAccepted DEF Bootable
<1> QED
  BY <1>2, <1>8 DEF BootAccepts

\* SameOrigin behind a proxy: with v as the only allowed origin, a page is let
\* in exactly if its scheme, its host and its port are those of v.
THEOREM AllowlistMatchesOrigin ==
    ASSUME NEW v \in Spellings, NEW w \in Spellings, NEW address,
           ValidatePublicOrigins(TRUE, <<v>>) # Refused, Usual(TrimSpace(w))
    PROVE  SameOriginAs(TRUE, ValidatePublicOrigins(TRUE, <<v>>), <<w>>, address)
              <=> /\ w.scheme = "https" /\ w.host = v.host
                  /\ EffectivePort(w) = EffectivePort(v)
<1> DEFINE o == NormalizePublicOrigin(v)
           p == CanonicalOrigin(TrimSpace(w))
           op == PortOf("https", v.port)
           wp == PortOf(w.scheme, w.port)
<1>1. ValidatePublicOrigins(TRUE, <<v>>) = <<o>> /\ o # Refused
  <2>1. <<v>> # << >> /\ DOMAIN <<v>> = {1} /\ <<v>>[1] = v /\ DOMAIN <<o>> = {1} /\ <<o>>[1] = o
    OBVIOUS
  <2>2. NormalizePublicOrigins(<<v>>) # Refused
    BY <2>1, Zenon DEF ValidatePublicOrigins
  <2>3. ValidatePublicOrigins(TRUE, <<v>>) = [i \in {1} |-> NormalizePublicOrigin(<<v>>[i])]
    BY <2>1, <2>2, Zenon DEF ValidatePublicOrigins, NormalizePublicOrigins
  <2>4. o # Refused
    BY <2>1, <2>2, Zenon DEF NormalizePublicOrigins
  <2>5. [i \in {1} |-> NormalizePublicOrigin(<<v>>[i])] = <<o>>
    <3> HIDE DEF o
    <3>1. [i \in {1} |-> o] = <<o>>
      OBVIOUS
    <3>2. \A i \in {1} : NormalizePublicOrigin(<<v>>[i]) = o
      BY <2>1, Zenon DEF o
    <3> QED
      BY <3>1, <3>2, Zenon
  <2> QED
    BY <2>3, <2>4, <2>5, Zenon
<1>2. v.scheme = "https" /\ ValidPort(v.port) /\ o = Origin("https", v.host, op)
  BY <1>1, NormalForm, Zenon
<1>3. ValidPort(w.port) /\ w.scheme \in {"http", "https"} /\ p = Origin(w.scheme, w.host, wp)
  <2>1. TrimSpace(w).scheme = w.scheme /\ TrimSpace(w).host = w.host /\ TrimSpace(w).port = w.port
    BY DEF TrimSpace
  <2> QED
    BY <2>1, Zenon DEF CanonicalOrigin, Usual
<1>4. p # Refused
  <2>1. w.host \in Hosts /\ w.port \in Nat \cup {NoPort}
    BY DEF Spellings
  <2>2. wp \in Nat \cup {NoPort}
    BY <1>3, <2>1, PortIsNormal, Zenon
  <2> HIDE DEF wp
  <2>3. Origin(w.scheme, w.host, wp) \in Spellings
    BY <1>3, <2>1, <2>2 DEF Origin, Spellings
  <2> QED
    BY <1>3, <2>3, OriginAssumption, Zenon
<1>5. SameOriginAs(TRUE, <<o>>, <<w>>, address) <=> o = p
  <2>1. Len(<<w>>) = 1 /\ <<w>>[1] = w /\ DOMAIN <<o>> = {1} /\ <<o>>[1] = o
    OBVIOUS
  <2>2. RequestOrigin(<<w>>) = p
    BY <2>1, Zenon DEF RequestOrigin
  <2> QED
    BY <1>4, <2>1, <2>2, Zenon DEF SameOriginAs
<1>6. o = p <=> w.scheme = "https" /\ w.host = v.host /\ wp = op
  <2> HIDE DEF o, p, wp, op
  <2>1. o.scheme = "https" /\ o.host = v.host /\ o.port = op
    BY <1>2 DEF Origin
  <2>2. p.scheme = w.scheme /\ p.host = w.host /\ p.port = wp
    BY <1>3 DEF Origin
  <2> QED
    BY <1>2, <1>3, <2>1, <2>2, Zenon
<1>7. ASSUME w.scheme = "https" PROVE wp = op <=> EffectivePort(w) = EffectivePort(v)
  <2>1. ASSUME NEW port, NEW other, NEW usual, usual # NoPort
        PROVE  (IF port = usual THEN NoPort ELSE port) = (IF other = usual THEN NoPort ELSE other)
                 <=> (IF port = NoPort THEN usual ELSE port) = (IF other = NoPort THEN usual ELSE other)
    BY <2>1, Zenon
  <2>2. DefaultPort("https") # NoPort
    BY OriginAssumption DEF DefaultPort
  <2> DEFINE usual == DefaultPort("https")
  <2>3. /\ wp = IF w.port = usual THEN NoPort ELSE w.port
        /\ op = IF v.port = usual THEN NoPort ELSE v.port
    BY <1>7, Zenon DEF PortOf
  <2>4. /\ EffectivePort(w) = IF w.port = NoPort THEN usual ELSE w.port
        /\ EffectivePort(v) = IF v.port = NoPort THEN usual ELSE v.port
    BY <1>2, <1>7, Zenon DEF EffectivePort
  <2> HIDE DEF usual, wp, op
  <2>5. usual # NoPort
    BY <2>2, Zenon DEF usual
  <2> QED
    BY <2>1, <2>3, <2>4, <2>5, Zenon
<1> QED
  BY <1>1, <1>5, <1>6, <1>7, Zenon
=============================================================================
