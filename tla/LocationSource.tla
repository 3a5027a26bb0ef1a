--------------------------- MODULE LocationSource ---------------------------
(***************************************************************************)
(* Where a device is (internal/platform/location): the position in its own *)
(* headers, else the one a trusted Cloudflare proxy reports, else the one  *)
(* of its address in the GeoIP database.                                   *)
(*                                                                         *)
(* A request is a record of what its headers hold.  A header value is      *)
(* Absent, Malformed (it does not parse, or appears twice where one value  *)
(* is required), or what it parses to.  A coordinate is a sign and a       *)
(* magnitude in thousandths of a degree, because float64 has a negative    *)
(* zero.  An address stands for its unmapped form, and a set of addresses  *)
(* for the prefixes that contain them.                                     *)
(***************************************************************************)
EXTENDS Integers

CONSTANTS
    Addresses,
    Public,         \* the addresses isPublic accepts
    TrustedNets,    \* MT_TRUSTED_CLIENT_IP_NETS
    Absent, Malformed

Coordinates == [neg : BOOLEAN, mag : Nat]

ASSUME LocationAssumption ==
    /\ Public \subseteq Addresses /\ TrustedNets \subseteq Addresses
    /\ Absent # Malformed /\ {Absent, Malformed} \cap (Addresses \cup Coordinates) = {}

\* The process configuration: MT_GEOIP_DB, MT_CLOUDFLARE_LOCATION_HEADERS and
\* MT_TRUSTED_CLIENT_IP_HEADER.  Load refuses the last two without networks.
Configuration == {c \in [geoip : BOOLEAN, cloudflare : BOOLEAN, header : BOOLEAN] :
                     c.cloudflare \/ c.header => TrustedNets # {}}

\* Results of a lookup: an error, or a point.
Failed(e) == [error |-> e]
Found(p) == [error |-> "none", point |-> p]
NotPresent == Failed("absent")

-----------------------------------------------------------------------------
(* Points.                                                                 *)

\* math.Round(c * 100) / 100: half away from zero; the sign survives.
Round(c) == [c EXCEPT !.mag = 10 * ((@ + 5) \div 10)]

\* "if point.Latitude == 0 { point.Latitude = 0 }".
WithoutNegativeZero(c) == IF c.mag = 0 THEN [c EXCEPT !.neg = FALSE] ELSE c

\* coordinateString: FormatFloat prints the sign of a negative zero.  The hash
\* locationKey makes of it is taken to be injective.
CoordinateString(latitude, longitude) == <<latitude, longitude>>

\* parseCoordinate, and the range check of Normalize.
InRange(c, degrees) == c \in Coordinates /\ c.mag <= 1000 * degrees

\* normalizeMetadata accepts the text.
MetadataOK(m) == m # Malformed

\* Normalize.
Normalize(p) ==
    IF ~InRange(p.latitude, 90) \/ ~InRange(p.longitude, 180) \/ ~MetadataOK(p.metadata)
    THEN Failed("invalid")
    ELSE LET latitude == WithoutNegativeZero(Round(p.latitude))
             longitude == WithoutNegativeZero(Round(p.longitude))
         IN  Found([p EXCEPT !.latitude = latitude, !.longitude = longitude,
                             !.key = CoordinateString(latitude, longitude)])

Point(latitude, longitude, metadata, source) ==
    [latitude |-> latitude, longitude |-> longitude, metadata |-> metadata,
     source |-> source, key |-> Absent]

\* Coordinates that do not parse, a range or a text that is refused: ErrInvalid.
Parsed(h, source) ==
    Normalize(Point(h.latitude, h.longitude, h.metadata, source))

-----------------------------------------------------------------------------
(* The three sources.                                                      *)

\* FromRequest: the device's own headers, all of them or none.
FromRequest(q) ==
    LET required == {"latitude", "longitude", "provider"}
        missing == {f \in required : q.device[f] = Absent}
    IN  CASE missing = required -> NotPresent
          [] missing \notin {{}, required} -> Failed("partial")
          [] missing = {} /\ q.device.provider = Malformed -> Failed("invalid")
          [] OTHER -> Parsed(q.device, "device")

\* Mutant: a peer outside the networks is believed as well.
TrustsEverybody(peer) == TRUE

\* trusts, of Cloudflare and of IPExtractor: the direct peer is a known proxy.
Trusts(peer) == peer \in TrustedNets

\* Cloudflare.FromRequest: a malformed pair of a trusted peer is an error.
CloudflareFromRequest(q) ==
    LET pair == {q.cloudflare.latitude, q.cloudflare.longitude}
    IN  CASE ~Trusts(q.peer) \/ pair = {Absent} -> NotPresent
          [] Trusts(q.peer) /\ Absent \in pair /\ pair # {Absent} -> Failed("invalid")
          [] OTHER -> Parsed(q.cloudflare, "cloudflare")

\* IPExtractor.FromRequest: the address to look up, or Malformed.  RemoteAddr
\* may itself be unusable.
ClientIP(c, q) ==
    IF c.header /\ Trusts(q.peer)
    THEN IF q.forwarded \in Addresses THEN q.forwarded ELSE Malformed
    ELSE q.peer

-----------------------------------------------------------------------------
(* The choice.                                                             *)

\* NewRuntimeManager passes its *geoip.Store as an interface: without a
\* database it holds a nil pointer and is not nil itself.
Resolver(c) == CASE c.geoip -> "store"
                 [] ~c.geoip /\ c.cloudflare -> "nil store"
                 [] OTHER -> "none"

Lookup(ip) == [error |-> "lookup", ip |-> ip]

\* EffectivePoint behind the device's headers, up to the call of Resolve.
Inferred(c, q) ==
    LET visitor == IF c.cloudflare THEN CloudflareFromRequest(q) ELSE NotPresent
    IN  CASE Resolver(c) = "none" /\ ~c.cloudflare -> Failed("required")
          [] c.cloudflare /\ visitor.error \notin {"none", "absent"} -> Failed("unavailable")
          [] c.cloudflare /\ visitor.error = "none" -> visitor
          [] OTHER -> IF Resolver(c) = "none" \/ ClientIP(c, q) = Malformed
                      THEN Failed("unavailable") ELSE Lookup(ClientIP(c, q))

\* EffectivePoint: a point, an error, or the address to resolve.
EffectivePoint(c, q) ==
    IF FromRequest(q) = NotPresent THEN Inferred(c, q) ELSE FromRequest(q)

\* Resolve, with a database record: one without a position or a name is none.
PointOf(record) ==
    IF record = Absent \/ (record.latitude.mag = 0 /\ record.longitude.mag = 0) \/ ~record.named
    THEN Failed("unavailable")
    ELSE LET once == Normalize(Point(record.latitude, record.longitude, record.metadata, "ip"))
         IN  IF once.error # "none" \/ Normalize(once.point).error # "none"
             THEN Failed("unavailable") ELSE Normalize(once.point)

\* The status the weather and the location handler give to an error.
StatusOf(endpoint, error) ==
    CASE error = "none" -> "ok"
      [] error \in {"partial", "invalid"} -> "invalid_location"
      [] error = "required" /\ endpoint = "weather" -> "location_required"
      [] error = "panic" -> "internal_error"
      [] OTHER -> "location_unavailable"
=============================================================================
