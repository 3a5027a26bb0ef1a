-------------------------- MODULE MCQWeatherClient --------------------------
(***************************************************************************)
(* Instances of QWeatherClient for TLC: a second is 4 units of an 8 bit    *)
(* duration, so that the longest representable delay is 31 seconds.  The   *)
(* parsers have no state; they are evaluated on all small bodies.          *)
(***************************************************************************)
EXTENDS QWeatherClient, QWeatherParse, TLC

\* None usable, longer than the cap, beyond the range of a duration, a date.
SomeHeaders == {[form |-> "none", n |-> 0], [form |-> "seconds", n |-> 20],
                [form |-> "seconds", n |-> 40], [form |-> "date", n |-> 1]}

RequestSymmetry == Permutations(Requests)

Warning(status, severity, level, published, id) ==
    [identity |-> {id}, id |-> id, published |-> published, starts |-> Blank, ends |-> Blank,
     severity |-> severity, level |-> level, status |-> status, long |-> FALSE]

Warnings == {Warning(status, "minor", "red", n, n) : status \in {"active", "other"}, n \in 1..2}
            \cup {Warning("active", Blank, level, 1, id) : level \in {"red", Blank}, id \in 1..3}
            \cup {Warning("cancelled", "extreme", Blank, 3, 3), Warning("active", "minor", Blank, Invalid, 4)}

Bodies == UNION {[1..n -> Warnings] : n \in 0..3}
Parsed(warning) == ParseAlerts([updated |-> 1, warning |-> warning])
Good(warning) == \A i \in DOMAIN warning : ~MalformedAlert(warning[i])

\* A body is accepted as a whole or not at all, the alerts come in order, none
\* is invented, the best ones are kept, and the order of the body does not
\* matter.
ASSUME \A body \in Bodies :
    LET answer == Parsed(body)
        all == {Alert(body[i]) : i \in DOMAIN body}
    IN  /\ answer.ok = Good(body)
        /\ answer.ok =>
              LET kept == {answer.data[i] : i \in DOMAIN answer.data}
              IN  /\ kept \subseteq all
                  /\ answer.truncated = (Len(body) > MaximumAlerts)
                  /\ Len(answer.data) = IF answer.truncated THEN MaximumAlerts ELSE Len(body)
                  /\ \A i, j \in DOMAIN answer.data : i < j => ~Before(answer.data[j], answer.data[i])
                  /\ \A a \in all \ kept, b \in kept : ~Before(a, b)
                  /\ \A p \in Permutations(DOMAIN body) :
                        Parsed([i \in DOMAIN body |-> body[p[i]]]) = answer

\* Only the items that are kept have to be complete; an empty forecast, and
\* one without its time, are refused.
Whole == [required |-> {1}, optional |-> {1, Blank}, texts |-> {1}]
Items == {Whole, [Whole EXCEPT !.required = {1, Blank}], [Whole EXCEPT !.optional = {Invalid}]}

ASSUME \A items \in UNION {[1..n -> Items] : n \in 0..3}, updated \in {1, Invalid} :
    LET answer == ParseForecast([updated |-> updated, items |-> items], 2)
    IN  /\ answer.ok <=> /\ updated = 1 /\ items # << >>
                         /\ \A i \in DOMAIN items : i <= 2 => items[i] = Whole
        /\ answer.ok => Len(answer.data) <= 2 /\ Len(answer.data) >= 1

\* A name of the lookup reaches the device, or the answer says that none did.
ASSUME \A adm1, adm2, name \in {1, 2, Blank, Invalid} :
    LET found == Localize([adm1 |-> adm1, adm2 |-> adm2, name |-> name, tz |-> Blank])
        point == [n \in Names |-> 1]
    IN  /\ found.ok <=> {adm1, adm2, name} \cap {1, 2} # {}
        /\ found.ok => LET out == ApplyLocalized(point, found.data)
                       IN  out.changed <=> 2 \in {out.point[n] : n \in Names}
=============================================================================
