---------------------------- MODULE MCHotReload ----------------------------
(* Small instances of HotReload for TLC. *)
EXTENDS HotReload

City == "geoip2-city.mmdb"

(* One recognised database and a file of another name. *)
MCPaths == {City, "other.mmdb"}
MCKeyOf == [p \in MCPaths |-> p]
MCOrder == [p \in MCPaths |-> 0]
MCKnown == {City}

(* The recognised database alone. *)
OneKeyOf == [p \in MCKnown |-> p]
OneOrder == [p \in MCKnown |-> 0]

(* The same edition under two spellings, which share their key. *)
Spellings == {City, "GeoIP2-City.mmdb"}
SpellingKeyOf == [p \in Spellings |-> City]
SpellingOrder == [p \in Spellings |-> IF p = City THEN 1 ELSE 0]

=============================================================================
