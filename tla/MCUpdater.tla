------------------------------ MODULE MCUpdater ------------------------------
(* Small instances of Updater for TLC. *)
EXTENDS Updater, TLC

CONSTANTS u1, u2, city, asn

OneMaxMind == city :> "maxmind"
OneDBIP == city :> "dbip"
OneIP2Location == city :> "ip2location"
TwoVendors == city :> "maxmind" @@ asn :> "dbip"

SameTimeout == [u \in Updaters |-> 2]
ShorterTimeout == u1 :> 3 @@ u2 :> 1

(* Sound for safety properties: updaters with the same timeout are alike. *)
SameUpdaters == Permutations({u1, u2})

==============================================================================
