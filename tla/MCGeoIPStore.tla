---------------------------- MODULE MCGeoIPStore ----------------------------
(***************************************************************************)
(* Instances of GeoIPStore for TLC.  The proxy has a public address, as    *)
(* Cloudflare's have.                                                      *)
(***************************************************************************)
EXTENDS GeoIPStore, TLC

CONSTANTS proxy, home, lan

At(n) == [neg |-> FALSE, mag |-> n]
Device(latitude, provider) ==
    [latitude |-> latitude, longitude |-> At(7000), provider |-> provider, metadata |-> Absent]
NoDevice == [latitude |-> Absent, longitude |-> Absent, provider |-> Absent, metadata |-> Absent]
Visitor(latitude, longitude, metadata) ==
    [latitude |-> latitude, longitude |-> longitude, metadata |-> metadata]

Visitors == {Visitor(Absent, Absent, Absent), Visitor(Malformed, Absent, Absent),
             Visitor(At(50000), At(8000), Absent)}
Inference ==
    [endpoint : {"weather"}, device : {NoDevice}, peer : {proxy},
     forwarded : {Malformed, home, lan}, cloudflare : Visitors]
    \cup [endpoint : {"weather"}, device : {NoDevice}, peer : {home},
          forwarded : {lan}, cloudflare : Visitors]
Others ==
    [endpoint : {"location"}, device : {NoDevice, Device(At(50000), "gps"), Device(Absent, "gps"),
                                        Device(At(90001), "gps")},
     peer : {Malformed}, forwarded : {Absent}, cloudflare : {Visitor(At(1), At(1), Malformed)}]
AllInputs == Inference \cup Others

\* The first file has no name for home, later ones have one; proxies have no
\* record.
CityOf(id, ip) ==
    IF ip # home THEN Absent
    ELSE [latitude |-> At(50000), longitude |-> At(8000), metadata |-> Absent, named |-> id # 1]

\* With a database, with and without the proxies' headers; no inference.
Deployments == {[geoip |-> TRUE, cloudflare |-> TRUE, header |-> TRUE],
                [geoip |-> TRUE, cloudflare |-> FALSE, header |-> FALSE],
                [geoip |-> FALSE, cloudflare |-> FALSE, header |-> FALSE]}

\* Cloudflare's headers as the only source.
CloudflareOnly == {[geoip |-> FALSE, cloudflare |-> TRUE, header |-> FALSE],
                   [geoip |-> FALSE, cloudflare |-> TRUE, header |-> TRUE]}
=============================================================================
