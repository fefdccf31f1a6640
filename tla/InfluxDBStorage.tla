-------------------------- MODULE InfluxDBStorage ---------------------------
(***************************************************************************)
(* storage/influxdb.go: readings go through gobreaker to the asynchronous  *)
(* write API of the InfluxDB client, which keeps points and sends them on  *)
(* its own; its errors come on a channel that one goroutine logs.  Close   *)
(* ends that goroutine and the retry goroutine, flushes and closes.        *)
(*                                                                         *)
(* The function given to gobreaker returns nil whatever becomes of the     *)
(* point, so the breaker counts successes only and lets every call in: it  *)
(* needs no state here.  Nothing but the retry goroutine itself puts items *)
(* on the retry queue, so it is always empty and that goroutine only waits *)
(* to be told to end.                                                      *)
(***************************************************************************)
EXTENDS Naturals, Sequences, FiniteSets, SequencesExt

CONSTANTS
  Writers,   \* goroutines that call WriteReading and WriteBatch
  Closers,   \* goroutines that call Close
  MaxBatch,  \* bound: readings in a batch
  MaxCalls   \* bound: batches written

ASSUME InfluxAssumption ==
  IsFiniteSet(Writers) /\ MaxBatch \in Nat /\ MaxCalls \in Nat

VARIABLES
  done,        \* s.ctx is cancelled
  closed,      \* s.closed
  closings,    \* times close(s.retryQueue) was executed
  handler,     \* handleWriteErrors: select, done
  retrier,     \* processRetries: select, done
  closer,      \* [Closers -> idle, cancel, queue, wait, flush, returned, other]
  owed,        \* points the client held when the effective Close was called
  calls,       \* batches begun
  batch,       \* [Writers -> the batch of its call]
  next,        \* [Writers -> index of the reading it is at]
  at,          \* [Writers -> idle, check, put]
  answer,      \* [Writers -> none, nil, error, nilslice]
  callerDone,  \* [Writers -> its context is cancelled]
  handed,      \* [Writers -> points of its call that the client took]
  pending,     \* points in the client
  gone,        \* points that left the client
  lossy,       \* some of them were given up
  errors,      \* an error waits on writeAPI.Errors()
  up           \* InfluxDB takes writes

closeVars == <<done, closed, closings, handler, retrier, closer, owed>>
callVars  == <<calls, batch, next, at, answer, callerDone, handed>>
client    == <<pending, gone, lossy, errors>>
vars == <<closeVars, callVars, client, up>>

\* A reading passes the validation of WriteReading, or it does not.
Readings == {"valid", "invalid"}

\* NewInfluxDBStorage returns a storage only if InfluxDB is healthy.
Init ==
  /\ done = FALSE /\ closed = FALSE /\ closings = 0
  /\ handler = "select" /\ retrier = "select"
  /\ closer = [c \in Closers |-> "idle"]
  /\ owed = 0 /\ calls = 0
  /\ batch = [w \in Writers |-> << >>]
  /\ next = [w \in Writers |-> 1]
  /\ at = [w \in Writers |-> "idle"]
  /\ answer = [w \in Writers |-> "none"]
  /\ callerDone = [w \in Writers |-> FALSE]
  /\ handed = [w \in Writers |-> 0]
  /\ pending = 0 /\ gone = 0 /\ lossy = FALSE /\ errors = FALSE
  /\ up = TRUE

\* What a call's steps, and those of Close, leave alone.
ByCall  == UNCHANGED <<closeVars, up>>
ByClose == UNCHANGED <<callVars, handler, retrier, up>>
-----------------------------------------------------------------------------
\* A call begins with a batch, and goes to a place with an answer.
Begins(w, b, place, a) ==
  /\ at[w] = "idle"
  /\ calls < MaxCalls
  /\ calls' = calls + 1
  /\ batch' = [batch EXCEPT ![w] = b]
  /\ at' = [at EXCEPT ![w] = place]
  /\ next' = [next EXCEPT ![w] = 1]
  /\ answer' = [answer EXCEPT ![w] = a]
  /\ handed' = [handed EXCEPT ![w] = 0]
  /\ callerDone' = [callerDone EXCEPT ![w] = FALSE]
  /\ ByCall /\ UNCHANGED client

\* WriteBatch is called; WriteReading is the batch of one.
WriteBatch(w) ==
  \E b \in BoundedSeq(Readings, MaxBatch) : Begins(w, b, "check", "none")

\* WriteBatch is called with a nil slice, which is an error, though an empty batch
\* is none.
RefusesNilSlice(w) == Begins(w, << >>, "idle", "nilslice")

\* The call returns with an answer.
Answers(w, a) ==
  /\ at' = [at EXCEPT ![w] = "idle"]
  /\ answer' = [answer EXCEPT ![w] = a]
  /\ ByCall /\ UNCHANGED <<calls, batch, next, callerDone, handed, client>>

\* Every reading of the batch was taken.
BatchEnds(w) ==
  /\ at[w] = "check"
  /\ next[w] > Len(batch[w])
  /\ Answers(w, "nil")

\* The reading at hand is refused: the caller's context is done or it is invalid.
Refused(w) ==
  /\ at[w] = "check"
  /\ next[w] <= Len(batch[w])
  /\ callerDone[w] \/ batch[w][next[w]] = "invalid"

\* Mutant: a reading that was refused is skipped and the batch goes on.
RefusesGoesOn(w) ==
  /\ Refused(w)
  /\ next' = [next EXCEPT ![w] = @ + 1]
  /\ ByCall /\ UNCHANGED <<calls, batch, at, answer, callerDone, handed, client>>

\* WriteReading returns an error and WriteBatch with it.
Refuses(w) ==
  /\ Refused(w)
  /\ Answers(w, "error")

\* The context and the reading are in order.
Passes(w) ==
  /\ at[w] = "check"
  /\ next[w] <= Len(batch[w])
  /\ ~Refused(w)
  /\ at' = [at EXCEPT ![w] = "put"]
  /\ ByCall /\ UNCHANGED <<calls, batch, next, answer, callerDone, handed, client>>

\* circuitBreaker.Execute: the client takes the point, nil comes back, and the
\* batch goes on with the next reading.
WritePoint(w) ==
  /\ at[w] = "put"
  /\ pending' = pending + 1
  /\ handed' = [handed EXCEPT ![w] = @ + 1]
  /\ next' = [next EXCEPT ![w] = @ + 1]
  /\ at' = [at EXCEPT ![w] = "check"]
  /\ ByCall /\ UNCHANGED <<calls, batch, answer, callerDone, gone, lossy, errors>>

CallerCancels(w) ==
  /\ at[w] # "idle"
  /\ ~callerDone[w]
  /\ callerDone' = [callerDone EXCEPT ![w] = TRUE]
  /\ ByCall /\ UNCHANGED <<calls, batch, next, at, answer, handed, client>>

Calls(w) ==
  WriteBatch(w) \/ RefusesNilSlice(w) \/ BatchEnds(w) \/ Refuses(w) \/ Passes(w) \/ WritePoint(w)
    \/ CallerCancels(w)
-----------------------------------------------------------------------------
\* What the client does with all its points, by itself or when flushed: they
\* are stored or, after its own retries, given up with an error.
Delivers ==
  /\ pending' = 0
  /\ gone' = gone + pending
  /\ lossy' = (lossy \/ (~up /\ pending > 0))
  /\ errors' = (errors \/ (~up /\ pending > 0))

ClientSends ==
  /\ pending > 0
  /\ Delivers
  /\ UNCHANGED <<closeVars, callVars, up>>

Outage == up' = ~up /\ UNCHANGED <<closeVars, callVars, client>>

\* handleWriteErrors logs an error, ...
HandlesError ==
  /\ handler = "select"
  /\ errors
  /\ errors' = FALSE
  /\ UNCHANGED <<closeVars, callVars, pending, gone, lossy, up>>

\* ... or sees that the context is done.
HandlerEnds ==
  /\ handler = "select"
  /\ done
  /\ handler' = "done"
  /\ UNCHANGED <<done, closed, closings, retrier, closer, owed, callVars, client,
                 up>>

\* processRetries sees the context done or the empty queue closed.
RetrierEnds ==
  /\ retrier = "select"
  /\ done \/ closings > 0
  /\ retrier' = "done"
  /\ UNCHANGED <<done, closed, closings, handler, closer, owed, callVars, client,
                 up>>
-----------------------------------------------------------------------------
Steps(c, from, to) ==
  /\ closer[c] = from
  /\ closer' = [closer EXCEPT ![c] = to]

\* Mutant: Close does not look whether the storage is closed.
CloseUnchecked(c) ==
  /\ Steps(c, "idle", "cancel")
  /\ closed' = TRUE
  /\ owed' = gone + pending
  /\ ByClose /\ UNCHANGED <<done, closings, client>>

\* Close: under the mutex, the first call closes and any other returns at once.
Close(c) ==
  /\ IF closed
     THEN Steps(c, "idle", "other") /\ UNCHANGED <<closed, owed>>
     ELSE /\ Steps(c, "idle", "cancel")
          /\ closed' = TRUE
          /\ owed' = gone + pending
  /\ ByClose /\ UNCHANGED <<done, closings, client>>

\* Mutant: the context is not cancelled, the closed queue being thought enough.
CancelsNothing(c) ==
  Steps(c, "cancel", "queue") /\ ByClose
    /\ UNCHANGED <<done, closed, closings, owed, client>>

CancelsContext(c) ==
  /\ Steps(c, "cancel", "queue")
  /\ done' = TRUE
  /\ ByClose /\ UNCHANGED <<closed, closings, owed, client>>

ClosesQueue(c) ==
  /\ Steps(c, "queue", "wait")
  /\ closings' = closings + 1
  /\ ByClose /\ UNCHANGED <<done, closed, owed, client>>

\* errorWg.Wait.
HandlersEnded(c) ==
  /\ handler = "done" /\ retrier = "done"
  /\ Steps(c, "wait", "flush")
  /\ ByClose /\ UNCHANGED <<done, closed, closings, owed, client>>

\* Mutant: the client is closed without a flush.
ClosesUnflushed(c) ==
  Steps(c, "flush", "returned") /\ ByClose
    /\ UNCHANGED <<done, closed, closings, owed, client>>

\* writeAPI.Flush and client.Close.
FlushesAndCloses(c) ==
  /\ Steps(c, "flush", "returned")
  /\ Delivers
  /\ ByClose /\ UNCHANGED <<done, closed, closings, owed>>

Closes(c) ==
  Close(c) \/ CancelsContext(c) \/ ClosesQueue(c) \/ HandlersEnded(c)
    \/ FlushesAndCloses(c)

Next ==
  \/ \E w \in Writers : Calls(w)
  \/ \E c \in Closers : Closes(c)
  \/ ClientSends \/ Outage \/ HandlesError \/ HandlerEnds \/ RetrierEnds

Spec == Init /\ [][Next]_vars

\* The storage's goroutines and a Close that was called run; the select of
\* handleWriteErrors does not pass over a done context for ever.
FairSpec ==
  /\ Spec
  /\ \A c \in Closers : WF_vars(closer[c] # "idle" /\ Closes(c))
  /\ SF_vars(HandlerEnds)
  /\ WF_vars(RetrierEnds)
-----------------------------------------------------------------------------
Points == MaxCalls * MaxBatch

TypeOK ==
  /\ done \in BOOLEAN /\ closed \in BOOLEAN /\ up \in BOOLEAN
  /\ closings \in 0..1
  /\ handler \in {"select", "done"} /\ retrier \in {"select", "done"}
  /\ closer \in [Closers -> {"idle", "cancel", "queue", "wait", "flush",
                             "returned", "other"}]
  /\ owed \in 0..Points /\ calls \in 0..MaxCalls
  /\ batch \in [Writers -> BoundedSeq(Readings, MaxBatch)]
  /\ next \in [Writers -> 1..(MaxBatch + 1)]
  /\ at \in [Writers -> {"idle", "check", "put"}]
  /\ answer \in [Writers -> {"none", "nil", "error", "nilslice"}]
  /\ callerDone \in [Writers -> BOOLEAN]
  /\ handed \in [Writers -> 0..MaxBatch]
  /\ pending \in 0..Points /\ gone \in 0..Points
  /\ lossy \in BOOLEAN /\ errors \in BOOLEAN

\* WriteBatch hands over the readings up to the first one it refuses and no
\* more, and answers nil only if that is all of them; a nil slice is an error with
\* nothing handed over.
BatchStopsAtRefused ==
  \A w \in Writers :
    /\ answer[w] = "nil" => handed[w] = Len(batch[w])
    /\ answer[w] = "error" =>
         /\ handed[w] < Len(batch[w])
         /\ callerDone[w] \/ batch[w][handed[w] + 1] = "invalid"
    /\ answer[w] = "nilslice" => handed[w] = 0

\* When Close returns to the call that did the closing, the client has let go
\* of every point it held when that call began, with writers still at work.
CloseDelivers ==
  \A c \in Closers : closer[c] = "returned" => gone >= owed

\* Close returns, however many call it at once and whatever the client's errors.
CloseReturns ==
  \A c \in Closers : closer[c] # "idle" ~> closer[c] \in {"returned", "other"}
-----------------------------------------------------------------------------
\* README.md:22 says that data is cached locally when InfluxDB is unavailable.
\* CachingStorage caches what WriteReading refuses, so a reading that was
\* acknowledged must not be given up by the client.
OutageRefused == ~lossy
=============================================================================
