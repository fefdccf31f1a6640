---------------------------- MODULE MCLocalCache ----------------------------
(***************************************************************************)
(* Model checking of LocalCache by itself.                                 *)
(***************************************************************************)
EXTENDS LocalCache

CONSTANT MaxTorn   \* bound of this model: bytes of torn files

\* Write and WriteFails take the clock forward for ever; here they stop at
\* MaxClock, and torn files are no longer left once they take MaxTorn bytes.
MCNext == Next /\ clock' <= MaxClock /\ tornBytes' <= MaxTorn

MCSpec == Init /\ [][MCNext]_cacheVars
=============================================================================
