------------------------------ MODULE Taxonomy ------------------------------
(***************************************************************************)
(* Package internal/db, and what package internal/update requests for an   *)
(* edition: from the lower-case name of a file to its edition, from that   *)
(* to its vendor and to the vendor's name for it.                          *)
(***************************************************************************)
EXTENDS TLC

UnknownType == "unknown"

(* The editions by their file names, without ".mmdb" (Filename.Key). *)
Types ==
  "geoip2-anonymous-ip" :> "GeoIP2-Anonymous-IP"
  @@ "geoip2-city" :> "GeoIP2-City"
  @@ "geoip2-connection-type" :> "GeoIP2-Connection-Type"
  @@ "geoip2-country" :> "GeoIP2-Country"
  @@ "geoip2-domain" :> "GeoIP2-Domain"
  @@ "geoip2-enterprise" :> "GeoIP2-Enterprise"
  @@ "geoip2-isp" :> "GeoIP2-ISP"
  @@ "geolite2-asn" :> "GeoLite2-ASN"
  @@ "geolite2-city" :> "GeoLite2-City"
  @@ "geolite2-country" :> "GeoLite2-Country"
  @@ "dbip-city-lite" :> "DBIP-City-Lite"
  @@ "dbip-country-lite" :> "DBIP-Country-Lite"
  @@ "dbip-asn-lite" :> "DBIP-ASN-Lite"
  @@ "ip2location-country" :> "IP2Location-Country"
  @@ "ip2location-city" :> "IP2Location-City"
  @@ "ip2location-asn" :> "IP2Location-ASN"
  @@ "ip2proxy-px10" :> "IP2Proxy-PX10"
  @@ "ip2proxy-px10-lite" :> "IP2Proxy-PX10-LITE"

ToType(filename) == IF filename \in DOMAIN Types THEN Types[filename] ELSE UnknownType

IsKnown(filename) == ToType(filename) # UnknownType

IsGeoIP2OrGeoLite2(t) ==
  t \in {"GeoIP2-Anonymous-IP", "GeoIP2-City", "GeoIP2-Connection-Type", "GeoIP2-Country",
         "GeoIP2-Domain", "GeoIP2-Enterprise", "GeoIP2-ISP",
         "GeoLite2-ASN", "GeoLite2-City", "GeoLite2-Country"}

IsDBIP(t) == t \in {"DBIP-City-Lite", "DBIP-Country-Lite", "DBIP-ASN-Lite"}

(* Mutant of IsIP2Location: only the LITE editions. *)
IsIP2LocationLite(t) ==
  t \in {"IP2Location-Country", "IP2Location-City", "IP2Location-ASN"}

IsIP2Location(t) ==
  t \in {"IP2Location-Country", "IP2Location-City", "IP2Location-ASN",
         "IP2Proxy-PX10", "IP2Proxy-PX10-LITE"}

-----------------------------------------------------------------------------
(* The switch of updateAll. *)
Vendor(t) ==
  IF IsGeoIP2OrGeoLite2(t) THEN "maxmind"
  ELSE IF IsDBIP(t) THEN "dbip"
  ELSE IF IsIP2Location(t) THEN "ip2location"
  ELSE "none"

dbipURL ==
  "DBIP-City-Lite" :> "dbip-city-lite"
  @@ "DBIP-Country-Lite" :> "dbip-country-lite"
  @@ "DBIP-ASN-Lite" :> "dbip-asn-lite"

ip2locationFileCode ==
  "IP2Location-Country" :> "DB1LITEMMDB"
  @@ "IP2Location-City" :> "DB11LITEMMDB"
  @@ "IP2Location-ASN" :> "DBASNLITEMMDB"
  @@ "IP2Proxy-PX10" :> "PX10MMDB"
  @@ "IP2Proxy-PX10-LITE" :> "PX10LITEMMDB"

(* What is asked for; without a name there is no request, only an error. *)
Products(t) ==
  CASE Vendor(t) = "maxmind" -> {t}
    [] Vendor(t) = "dbip" -> {dbipURL[s] : s \in {t} \cap DOMAIN dbipURL}
    [] Vendor(t) = "ip2location" ->
         {ip2locationFileCode[s] : s \in {t} \cap DOMAIN ip2locationFileCode}
    [] Vendor(t) = "none" -> {}

=============================================================================
