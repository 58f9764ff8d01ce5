-------------------------------- MODULE Regions --------------------------------
(* Where the program sends a credential's requests (kiro/region.rs,             *)
(* kiro/model/credentials.rs, kiro/models.rs).  A place is what decides: the    *)
(* credential's own API region and region, the region its profile names, and    *)
(* the API region and the region of the configuration.                          *)
EXTENDS Naturals

Blank == ""                 \* what is not set, or is empty

\* One region is known to have no data plane; "east" is DEFAULT_Q_TRANSPORT_REGION.
is_known_bad_q_transport_region(r) == r = "bad"
normalize_q_transport_region(r) ==
    IF r = Blank \/ is_known_bad_q_transport_region(r) THEN "east" ELSE r

FirstSaid(regions) ==
    LET said == {i \in DOMAIN regions : regions[i] # Blank}
    IN  IF said = {} THEN Blank ELSE regions[CHOOSE i \in said : \A j \in said : i <= j]

configured_api_region(p) == FirstSaid(<<p.api, p.configured>>)

effective_api_region(p) ==
    normalize_q_transport_region(FirstSaid(<<configured_api_region(p), p.default>>))

effective_kiro_api_region(p) ==
    IF p.profile = Blank THEN effective_api_region(p)
    ELSE IF is_known_bad_q_transport_region(p.profile)
      THEN normalize_q_transport_region(configured_api_region(p))
    ELSE p.profile

profile_lookup_region(p) ==
    IF p.profile # Blank THEN effective_kiro_api_region(p)
    ELSE normalize_q_transport_region(FirstSaid(<<configured_api_region(p), p.region, p.default>>))

=============================================================================
