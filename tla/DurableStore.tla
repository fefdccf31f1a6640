---------------------------- MODULE DurableStore ----------------------------
(***************************************************************************)
(* What storage/cache.go promises of a CachingStorage, without InfluxDB,   *)
(* cache files, breaker or replay: a reading whose write was acknowledged  *)
(* is kept, in the one place or the other, until it is given up, which     *)
(* happens only once it is too old; and a write that returned an error     *)
(* kept nothing, unless the disk is at fault.                              *)
(***************************************************************************)
CONSTANTS
  Readings,
  Faulty     \* TRUE if a write to the disk may fail with its file complete

VARIABLES
  acked,     \* readings whose WriteReading returned nil
  refused,   \* readings whose WriteReading returned an error
  durable,   \* readings kept somewhere
  expired,   \* readings given up because they were too old
  tooOld     \* input: the readings that are, which the clock decides

vars == <<acked, refused, durable, expired>>

TypeOK ==
  /\ acked \subseteq Readings
  /\ refused \subseteq Readings
  /\ durable \subseteq Readings
  /\ expired \subseteq Readings

Init == acked = {} /\ refused = {} /\ durable = {} /\ expired = {}

\* A reading is kept and its writer told so, in one step.
Accept(r) ==
  /\ r \notin acked \cup refused
  /\ durable' = durable \cup {r}
  /\ acked' = acked \cup {r}
  /\ UNCHANGED <<refused, expired>>

\* What may be kept of readings that are turned down: nothing, or the one whose
\* write to the disk failed.
Remnants(rs) == {{}} \cup IF Faulty THEN {{r} : r \in rs} ELSE {}

\* A reading, and the rest of its batch, is turned down.
Refuse(rs, kept) ==
  /\ rs \cap (acked \cup durable) = {}
  /\ refused' = refused \cup rs
  /\ durable' = durable \cup kept
  /\ UNCHANGED <<acked, expired>>

\* Readings that are too old are given up.
Expire(rs) ==
  /\ rs \subseteq tooOld
  /\ durable' = durable \ rs
  /\ expired' = expired \cup rs
  /\ UNCHANGED <<acked, refused>>

Next ==
  \/ \E r \in Readings : Accept(r)
  \/ \E rs \in SUBSET Readings : \E kept \in Remnants(rs) : Refuse(rs, kept)
  \/ \E rs \in SUBSET durable : Expire(rs)

Spec == Init /\ [][Next]_vars

\* Nothing acknowledged is lost before its age is up.
Promise == acked \subseteq durable \cup expired
=============================================================================
