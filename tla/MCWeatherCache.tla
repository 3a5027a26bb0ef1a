--------------------------- MODULE MCWeatherCache ---------------------------
(***************************************************************************)
(* A small instance of WeatherCache for TLC.  A value is fresh for one     *)
(* time unit and stale for one more; one error carries its own cooldown,   *)
(* the others fall back to the exponential backoff.                        *)
(*                                                                         *)
(* Calls are interchangeable, and so are locations.  Because the liveness  *)
(* properties rule out a symmetry set, the calls are numbers that start in *)
(* their order, the first of them with location first: every behaviour is  *)
(* one of these with its calls and locations renamed.                      *)
(***************************************************************************)
EXTENDS WeatherCache

CONSTANTS blocked, first

MCFreshFor == [k \in Kinds |-> 1]
MCStaleFor == [k \in Kinds |-> 2]
MCErrorDelay == [e \in Errors |-> IF e = blocked THEN 2 ELSE 0]

InOrder ==
    /\ \A c, d \in Calls : c < d /\ call[d].pc # "idle" => call[c].pc # "idle"
    /\ call[1].pc # "idle" => call[1].key.location = first

MCNext == Next /\ InOrder'
MCSpec == Init /\ [][MCNext]_vars /\ Fairness
=============================================================================
