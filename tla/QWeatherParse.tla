--------------------------- MODULE QWeatherParse ----------------------------
(***************************************************************************)
(* What becomes of the bodies QWeather answers with: the parsers and the   *)
(* order of the alerts (providers/qweather/parse.go), and the place names  *)
(* of a lookup (geo.go) laid over a point (platform/location/localize.go). *)
(*                                                                         *)
(* A field of a body is its value, Blank (missing, or spaces only) or      *)
(* Invalid (it does not parse, or is no text to display).  The fields of a *)
(* forecast are told apart only by the rule they are subject to, so that   *)
(* an item is given by the set of values under each rule.  Times and ids   *)
(* of alerts are numbers, ordered as the code orders them.                 *)
(***************************************************************************)
EXTENDS Integers, Sequences, FiniteSets

CONSTANTS
    Blank, Invalid,
    MaximumAlerts       \* maximumAlerts

ASSUME ParseAssumption ==
    /\ Blank # Invalid /\ {Blank, Invalid} \cap Nat = {}
    /\ MaximumAlerts \in Nat \ {0}

Rejected == [ok |-> FALSE]
Accepted(data, truncated) == [ok |-> TRUE, data |-> data, truncated |-> truncated]

Prefix(s, n) == IF Len(s) > n THEN SubSeq(s, 1, n) ELSE s

-----------------------------------------------------------------------------
(* Current weather and forecasts.                                          *)

\* requiredNumber and parseTime; optionalNumber and parseClock; the texts.
Complete(item) ==
    /\ item.required \cap {Blank, Invalid} = {}
    /\ Invalid \notin item.optional
    /\ Blank \notin item.texts

ParseCurrent(body) ==
    IF body.updated \in {Blank, Invalid} \/ ~Complete(body.now) THEN Rejected
    ELSE Accepted(body.now, FALSE)

\* Only the items that are kept are read.
ParseForecast(body, limit) ==
    LET kept == Prefix(body.items, limit)
    IN  IF \/ body.updated \in {Blank, Invalid} \/ body.items = << >>
           \/ \E i \in DOMAIN kept : ~Complete(kept[i])
        THEN Rejected ELSE Accepted(kept, FALSE)

ParseHourly(body) == ParseForecast(body, 24)
ParseDaily(body) == ParseForecast(body, 7)

-----------------------------------------------------------------------------
(* Alerts.                                                                 *)

Severities == {"minor", "moderate", "severe", "extreme"}

\* The colours of the Chinese warning system.
ColourSeverity == [blue |-> "minor", yellow |-> "moderate", orange |-> "severe",
                   red |-> "extreme"]

NormalizeSeverity(value, level) ==
    CASE value \in Severities -> value
      [] value \notin Severities /\ level \in DOMAIN ColourSeverity -> ColourSeverity[level]
      [] OTHER -> "unknown"

NormalizeStatus(value) == IF value \in {"active", "cancelled"} THEN value ELSE "unknown"

StatusPriority(s) == CASE s = "active" -> 2 [] s = "unknown" -> 1 [] OTHER -> 0

SeverityPriority(s) ==
    CASE s = "extreme" -> 4 [] s = "severe" -> 3 [] s = "moderate" -> 2 [] s = "minor" -> 1
      [] OTHER -> 0

\* An alert without identity or with a time that does not parse.
MalformedAlert(w) ==
    \/ Blank \in w.identity \/ w.published \in {Blank, Invalid}
    \/ Invalid \in {w.starts, w.ends}

\* ContentTruncated: boundedText cut one of the texts.
Alert(w) == [id |-> w.id, issued |-> w.published,
             severity |-> NormalizeSeverity(w.severity, w.level),
             status |-> NormalizeStatus(w.status), contentTruncated |-> w.long]

Alerts == [id : Nat, issued : Nat, severity : Severities \cup {"unknown"},
           status : {"active", "cancelled", "unknown"}, contentTruncated : BOOLEAN]

\* The comparison given to sort.SliceStable.
Before(a, b) ==
    LET sa == StatusPriority(a.status)
        sb == StatusPriority(b.status)
        va == SeverityPriority(a.severity)
        vb == SeverityPriority(b.severity)
    IN  \/ sa > sb
        \/ sa = sb /\ va > vb
        \/ sa = sb /\ va = vb /\ a.issued > b.issued
        \/ sa = sb /\ va = vb /\ a.issued = b.issued /\ a.id < b.id

\* In the sorted slice item j stands before item i.
Precedes(items, j, i) ==
    Before(items[j], items[i]) \/ (~Before(items[i], items[j]) /\ j < i)

Position(items, i) == 1 + Cardinality({j \in DOMAIN items : Precedes(items, j, i)})

\* sort.SliceStable.
SortedAlerts(items) ==
    [k \in DOMAIN items |-> items[CHOOSE i \in DOMAIN items : Position(items, i) = k]]

ParseAlerts(body) ==
    LET items == [i \in DOMAIN body.warning |-> Alert(body.warning[i])]
    IN  IF body.updated \in {Blank, Invalid} \/ \E i \in DOMAIN items : MalformedAlert(body.warning[i])
        THEN Rejected
        ELSE Accepted(Prefix(SortedAlerts(items), MaximumAlerts), Len(items) > MaximumAlerts)

-----------------------------------------------------------------------------
(* Place names.                                                            *)

Names == {"city", "district", "region", "timezone"}

Usable(name) == name \notin {Blank, Invalid}

\* Localize, for the first place found: names that cannot be shown are dropped;
\* a place without a second administrative area gives its own name.
Localize(place) ==
    LET city == IF place.adm2 = Blank THEN place.name ELSE place.adm2
        names == [city |-> city, district |-> place.name, region |-> place.adm1,
                  timezone |-> place.tz]
    IN  IF \A n \in Names : ~Usable(names[n]) THEN Rejected
        ELSE Accepted([n \in Names |-> IF Usable(names[n]) THEN names[n] ELSE Blank], FALSE)

\* ApplyLocalized: the point, and whether a name has changed.
ApplyLocalized(point, metadata) ==
    LET changed == {n \in Names : Usable(metadata[n]) /\ metadata[n] # point[n]}
    IN  [point |-> [f \in DOMAIN point |-> IF f \in changed THEN metadata[f] ELSE point[f]],
         changed |-> changed # {}]
=============================================================================
