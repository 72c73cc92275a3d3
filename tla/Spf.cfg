\* Records of up to three terms beside one of at most one, circles, and every network;
\* two lookups, one error or change of DNS in the zones of the circles.
CONSTANTS
  d1 = d1
  d2 = d2
  Junk = Junk
  None = None
  ByteBits = 3
  Ip4Bytes = 1
  Ip6Bytes = 2
  Checked <- SomeAddress
  Domains = {d1, d2}
  Terms <- SomeTerms
  Zones <- SomeZones
  MaxLookups = 2
  Unsteady <- CircleZones
  MaxFaults = 1
SPECIFICATION FairSpec
INVARIANTS TypeOK RecursionBounded LimitIsFatal MatchesReference
PROPERTIES Terminates
