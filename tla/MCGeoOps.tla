------------------------------ MODULE MCGeoOps ------------------------------
(* A small instance of GeoOps for TLC. *)
EXTENDS GeoOps

CONSTANT damaged

(* One database, spelled in either way. *)
File == "edition.mmdb"
Spellings == {File, "Edition.mmdb"}
MCKeyOf == [p \in Spellings |-> File]
MCOrder == [p \in Spellings |-> IF p = File THEN 1 ELSE 0]

MCContents == 1 .. LastVersion \cup {Foreign, damaged}
MCValid == 1 .. LastVersion \cup {Foreign}

(* The products by the file names under which README.md lists them. *)
MaxMindProducts ==
  "GeoIP2-Anonymous-IP" :> "geoip2-anonymous-ip"
  @@ "GeoIP2-City" :> "geoip2-city"
  @@ "GeoIP2-Connection-Type" :> "geoip2-connection-type"
  @@ "GeoIP2-Country" :> "geoip2-country"
  @@ "GeoIP2-Domain" :> "geoip2-domain"
  @@ "GeoIP2-Enterprise" :> "geoip2-enterprise"
  @@ "GeoIP2-ISP" :> "geoip2-isp"
  @@ "GeoLite2-ASN" :> "geolite2-asn"
  @@ "GeoLite2-City" :> "geolite2-city"
  @@ "GeoLite2-Country" :> "geolite2-country"

DBIPProducts ==
  [slug \in {"dbip-city-lite", "dbip-country-lite", "dbip-asn-lite"} |-> slug]

IP2LocationProducts ==
  "DB1LITEMMDB" :> "ip2location-country"
  @@ "DB11LITEMMDB" :> "ip2location-city"
  @@ "DBASNLITEMMDB" :> "ip2location-asn"
  @@ "PX10MMDB" :> "ip2proxy-px10"
  @@ "PX10LITEMMDB" :> "ip2proxy-px10-lite"

MCSells == MaxMindProducts @@ DBIPProducts @@ IP2LocationProducts

FilesOf(products, vendor) == [f \in {products[c] : c \in DOMAIN products} |-> vendor]

MCDocumented ==
  FilesOf(MaxMindProducts, "maxmind") @@ FilesOf(DBIPProducts, "dbip")
  @@ FilesOf(IP2LocationProducts, "ip2location")

=============================================================================
