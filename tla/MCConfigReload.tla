--------------------------- MODULE MCConfigReload ---------------------------
(***************************************************************************)
(* Model checking of ConfigReload: files and environments in which every   *)
(* rule of Load decides something.  Intervals of 1 to 2 (poll) and 1 to 3  *)
(* (discovery) are valid, 1 and 2 the defaults.                            *)
(***************************************************************************)
EXTENDS ConfigReload

CONSTANTS u1, u2, Malformed

File(p, d, w) == [poll |-> p, discovery |-> d, webhook |-> w]

\* Intervals left out, at their limits, below the one and above the other; a
\* URL, another, none, and a string that is none.
MCContents == {File(0, 0, u1), File(1, 1, NoURL), File(2, 3, u2), File(-1, 3, u1),
               File(2, 4, u2), File(1, 2, Malformed)}

\* Nothing set; a longer poll interval, which some files' discovery interval is
\* not up to, a word, which is ignored, and a URL.
MCEnvironments == {File(Unset, Unset, Unset), File(2, Unparsable, u2)}
=============================================================================
