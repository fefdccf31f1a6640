---------------------------- MODULE MCDiscovery -----------------------------
(***************************************************************************)
(* Model checking of Discovery: a power meter with a D record, which moves *)
(* and is renamed, and at times does not say that it measures power; and a *)
(* plug without one, whose ID is its address, when it has an address.      *)
(***************************************************************************)
EXTENDS Discovery

CONSTANTS Meter, Plug, D, OnOff, Electrical, n1, n2, a1, a2, a3, a6

Advert(v, n, i, c, v4, v6) ==
  [service |-> v, name |-> n, id |-> i, clusters |-> c, v4 |-> v4, v6 |-> v6]

MCAdverts ==
  {Advert(Meter, n1, D, Electrical, a1, NoAddress),
   Advert(Meter, n2, D, Electrical, a2, NoAddress),
   Advert(Meter, n2, D, OnOff, a2, NoAddress),
   Advert(Plug, n1, NoID, Electrical, a3, a6),
   Advert(Plug, n1, NoID, Electrical, NoAddress, a6),
   Advert(Plug, n1, NoID, Electrical, NoAddress, NoAddress)}
=============================================================================
