--------------------------- MODULE MCRegionLookup ---------------------------
(***************************************************************************)
(* RegionLookup on the event loop's thread and one of the pool, with one   *)
(* public address of each version, one of them spelt in two ways.          *)
(***************************************************************************)
EXTENDS RegionLookup

SomeTexts == {"8.8.8.8", " 8.8.8.8", "2001::1", "0.0.0.0", "junk"}
SomeAddress ==
  [x \in SomeTexts |-> IF x = " 8.8.8.8" THEN "8.8.8.8" ELSE x]
SomeVersion ==
  [a \in SomeTexts \ {" 8.8.8.8", "junk"} |-> IF a = "2001::1" THEN 6 ELSE 4]
SomeRegion ==
  [a \in SomeTexts \ {" 8.8.8.8", "junk"} |-> IF a = "2001::1" THEN "b" ELSE "a"]

\* Each candidate once decides: first header, second header, peer, nobody.
SomeRequests ==
  {[headers |-> <<<<" 8.8.8.8", "2001::1">>, <<"0.0.0.0">>>>, client |-> "0.0.0.0"],
   [headers |-> <<<<"junk", "8.8.8.8">>, <<"2001::1">>>>, client |-> "0.0.0.0"],
   [headers |-> <<<<>>, <<"junk">>>>, client |-> "2001::1"],
   [headers |-> <<>>, client |-> "junk"]}
=============================================================================
