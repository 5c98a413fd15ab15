------------------------------ MODULE McpServer ------------------------------
(***************************************************************************)
(* The tool calls of one MCP server process: furl_ctx/ccr/mcp_server.py.     *)
(*                                                                         *)
(* A call runs on a worker thread, against the CCR store, the file cache of   *)
(* furl_read, the session's counters and the statistics file, with no lock    *)
(* from one access to the next.  The store has a durable tier, a file that    *)
(* outlives the process and that others use too, and a volatile one in        *)
(* memory.  A write that does not reach the file falls open to memory, and a   *)
(* backend that has met an error other than a lock uses memory alone.         *)
(***************************************************************************)
EXTENDS SharedStats, Sequences, FiniteSets

CONSTANTS
  Contents,   \* an original, and its hash
  Owned,      \* the contents whose purge takes these nested ones with it
  Path,       \* the file that furl_read reads
  Requests,   \* the calls that the host makes
  MaxCalls, MaxFaults  \* bounds on calls, and on everything that goes wrong

\* What a worker knows of the call it is in.
CompressCall ==
  [op : {"compress"}, step : {"run", "check", "book", "sum", "log", "answer"},
   runs : Seq(Contents), filtered : BOOLEAN, durably : SUBSET Contents,
   lost : BOOLEAN, total : Nat]
ReadCall ==
  [op : {"read"}, step : {"open", "alive", "hit", "forget", "store", "seed"},
   fresh : BOOLEAN, read : Contents \cup {NIL}]
RetrieveCall ==
  [op : {"retrieve"}, step : {"get", "log", "status"}, hash : Contents, matches : BOOLEAN]
PurgeCall ==
  [op : {"purge"}, step : {"delete", "verify"}, hash : Contents,
   expected : SUBSET Contents, survivors : SUBSET Contents, stuck : SUBSET Contents]
PurgeAllCall == [op : {"purge all"}, step : {"clear"}]
StatsCall == [op : {"stats"}, step : {"read", "truncate", "write"}]

Starts(c) ==
  \/ c \in CompressCall /\ c.step = "run" /\ c.runs # <<>> /\ c.durably = {} /\ c.total = 0
  \/ c \in ReadCall /\ c.step = "open"
  \/ c \in RetrieveCall /\ c.step = "get"
  \/ c \in PurgeCall /\ c.step = "delete"
  \/ c \in PurgeAllCall
  \/ c \in StatsCall /\ c.step = "read"

ASSUME ServerAssumption ==
  /\ NIL \notin Workers \cup Contents
  /\ \A request \in Requests : Starts(request)
  /\ Owned \in [Contents -> SUBSET Contents]
  /\ Path \in Contents
  /\ {MaxCalls, MaxFaults} \subseteq Nat

VARIABLES
  durable,   \* the contents in the store's file
  volatile,  \* the contents in this process' memory
  degraded,  \* SqliteBackend._degraded
  disk,      \* the content of the file that furl_read reads
  cached,    \* _file_cache of that file: the hash its last durable read stored
  call,      \* each worker's call
  saved,     \* SessionStats.total_tokens_saved, a token for each compression
  real,      \* history: the tokens this session's compressions saved
  claims,    \* history: the hashes advertised as durably stored
  gone,      \* history: the contents that have left the file
  answers,   \* history: each worker's last answer
  calls, faults

store == <<durable, volatile, degraded, gone>>
session == <<cached, saved, real>>
bounds == <<calls, faults>>
vars == <<statsFile, store, session, disk, call, claims, answers, bounds>>

Idle == [op |-> "idle"]
None == [answer |-> "none"]

Init ==
  /\ StatsInit
  /\ durable = {} /\ volatile = {} /\ degraded = FALSE /\ gone = {}
  /\ disk = Path /\ cached = NIL
  /\ call = [w \in Workers |-> Idle]
  /\ saved = 0 /\ real = 0 /\ claims = {}
  /\ answers = [w \in Workers |-> None]
  /\ calls = 0 /\ faults = 0

-----------------------------------------------------------------------------
(* The store, as the handlers use it.  CompressionStore and SqliteBackend     *)
(* model it from the inside.                                                *)

Visible == volatile \cup IF degraded THEN {} ELSE durable

\* A write is durable, falls open to memory, or is dropped with the binding it
\* collides with.
Lands(c) ==
  /\ ~degraded /\ durable' = durable \cup {c} /\ gone' = gone \ {c}
  /\ volatile' = volatile \ {c} /\ UNCHANGED <<degraded, faults>>
FallsOpen(c) ==
  /\ volatile' = volatile \cup {c}
  /\ IF degraded THEN UNCHANGED faults ELSE faults < MaxFaults /\ faults' = faults + 1
  /\ UNCHANGED <<durable, degraded, gone>>
Drops(c) ==
  /\ faults < MaxFaults /\ faults' = faults + 1
  /\ volatile' = volatile \ {c} /\ UNCHANGED degraded
  /\ IF degraded THEN UNCHANGED <<durable, gone>>
     ELSE durable' = durable \ {c} /\ gone' = gone \cup ({c} \cap durable)

\* A delete reaches the file unless the backend is degraded; the file's lock can
\* keep some of them from it.
Deletes(S, failed) ==
  /\ volatile' = volatile \ S
  /\ durable' = IF degraded THEN durable ELSE durable \ (S \ failed)
  /\ gone' = gone \cup (durable \ durable')
  /\ UNCHANGED degraded
  /\ IF failed = {} THEN UNCHANGED faults
     ELSE faults < MaxFaults /\ faults' = faults + 1

-----------------------------------------------------------------------------
(* The calls.                                                              *)

At(w, op, step) == call[w].op = op /\ call[w].step = step
Goes(w, c) == call' = [call EXCEPT ![w] = c]
To(w, step) == Goes(w, [call[w] EXCEPT !.step = step])
Answers(w, a) ==
  /\ call' = [call EXCEPT ![w] = Idle]
  /\ answers' = [answers EXCEPT ![w] = a]

Begin(w, request) ==
  /\ call[w] = Idle /\ calls < MaxCalls /\ calls' = calls + 1
  /\ Goes(w, request)
  /\ UNCHANGED <<statsFile, store, session, disk, claims, answers, faults>>

(* furl_compress: the runs of a filtered call one after the other.           *)
Run(w) == Head(call[w].runs)

\* compress() has failed open: nothing is stored, nothing is booked.
CompressError_Booked(w) ==
  /\ At(w, "compress", "run") /\ faults < MaxFaults /\ faults' = faults + 1
  /\ saved' = saved + 1
  /\ Answers(w, [answer |-> "error"])
  /\ UNCHANGED <<statsFile, store, cached, real, disk, claims, calls>>
CompressError(w) ==
  /\ At(w, "compress", "run") /\ faults < MaxFaults /\ faults' = faults + 1
  /\ Answers(w, [answer |-> "error"])
  /\ UNCHANGED <<statsFile, store, session, disk, claims, calls>>

\* require_durable: only a write that reached the file has a hash to show at once.
CompressStore_Unrequired(w) ==
  /\ At(w, "compress", "run")
  /\ LET c == call[w]
     IN  \/ (Lands(Run(w)) \/ FallsOpen(Run(w)))
            /\ Goes(w, [c EXCEPT !.step = "book", !.durably = @ \cup {Run(w)}])
         \/ Drops(Run(w)) /\ To(w, "check")
  /\ UNCHANGED <<statsFile, session, disk, claims, answers, calls>>
CompressStore(w) ==
  /\ At(w, "compress", "run")
  /\ LET c == call[w]
     IN  \/ Lands(Run(w)) /\ Goes(w, [c EXCEPT !.step = "book", !.durably = @ \cup {Run(w)}])
         \/ (FallsOpen(Run(w)) \/ Drops(Run(w))) /\ To(w, "check")
  /\ UNCHANGED <<statsFile, session, disk, claims, answers, calls>>

\* The read-back that tells a volatile copy from none.
CompressCheck(w) ==
  /\ At(w, "compress", "check")
  /\ Goes(w, [call[w] EXCEPT !.step = "book", !.lost = @ \/ Run(w) \notin Visible])
  /\ UNCHANGED <<statsFile, store, session, disk, claims, answers, bounds>>

\* record_compression: `+=' reads the total before it calls max(), where another
\* thread may run, and writes it after.
CompressBook(w) ==
  /\ At(w, "compress", "book")
  /\ Goes(w, [call[w] EXCEPT !.step = "sum", !.total = saved])
  /\ UNCHANGED <<statsFile, store, session, disk, claims, answers, bounds>>

CompressSum(w) ==
  /\ At(w, "compress", "sum")
  /\ saved' = call[w].total + 1 /\ real' = real + 1
  /\ To(w, "log")
  /\ UNCHANGED <<statsFile, store, cached, disk, claims, answers, bounds>>

CompressLog(w) ==
  /\ At(w, "compress", "log") /\ AppendEvent
  /\ Goes(w, [call[w] EXCEPT !.runs = Tail(@),
                !.step = IF Len(call[w].runs) > 1 THEN "run" ELSE "answer"])
  /\ UNCHANGED <<store, session, disk, claims, answers, bounds>>

\* A single run that lost its binding answers with the original.  A filtered call
\* joins the hashes of its vetoed runs, and None is not a string.
CompressAnswer(w) ==
  /\ At(w, "compress", "answer")
  /\ IF call[w].filtered /\ call[w].lost
     THEN Answers(w, [answer |-> "raised"]) /\ UNCHANGED claims
     ELSE /\ Answers(w, [answer |-> "compressed"])
          /\ claims' = claims \cup call[w].durably
  /\ UNCHANGED <<statsFile, store, session, disk, bounds>>

(* furl_retrieve, with or without a query.                                  *)
Retrieve(w) ==
  /\ At(w, "retrieve", "get")
  /\ IF call[w].hash \in Visible /\ call[w].matches THEN To(w, "log") ELSE To(w, "status")
  /\ UNCHANGED <<statsFile, store, session, disk, claims, answers, bounds>>

RetrieveLog(w) ==
  /\ At(w, "retrieve", "log") /\ AppendEvent
  /\ Answers(w, [answer |-> "retrieved"])
  /\ UNCHANGED <<store, session, disk, claims, bounds>>

\* exists() after a query without results, get_entry_status() after a miss.
RetrieveStatus(w) ==
  /\ At(w, "retrieve", "status")
  /\ Answers(w, [answer |-> IF call[w].hash \in Visible THEN "available" ELSE "miss"])
  /\ UNCHANGED <<statsFile, store, session, disk, claims, bounds>>

(* furl_read.                                                              *)
ReadFile(w) ==
  /\ At(w, "read", "open")
  /\ Goes(w, [call[w] EXCEPT !.read = disk,
                !.step = IF ~call[w].fresh /\ cached = disk THEN "alive" ELSE "store"])
  /\ UNCHANGED <<statsFile, store, session, disk, claims, answers, bounds>>

\* Is the copy that the cache names still there?
ReadAlive(w) ==
  /\ At(w, "read", "alive")
  /\ To(w, IF call[w].read \in Visible THEN "hit" ELSE "forget")
  /\ UNCHANGED <<statsFile, store, session, disk, claims, answers, bounds>>

\* record_cache_hit: a hit is not a compression.
ReadHit_Compresses(w) ==
  /\ At(w, "read", "hit") /\ AppendEvent
  /\ saved' = saved + 1
  /\ Answers(w, [answer |-> "unchanged"])
  /\ UNCHANGED <<store, cached, real, disk, claims, bounds>>
ReadHit(w) ==
  /\ At(w, "read", "hit") /\ AppendEvent
  /\ Answers(w, [answer |-> "unchanged"])
  /\ UNCHANGED <<store, session, disk, claims, bounds>>

\* del self._file_cache[str_path]: another thread may have deleted it.
ReadForget(w) ==
  /\ At(w, "read", "forget")
  /\ IF cached = NIL THEN Answers(w, [answer |-> "raised"])
     ELSE To(w, "store") /\ UNCHANGED answers
  /\ cached' = NIL
  /\ UNCHANGED <<statsFile, store, saved, real, disk, claims, bounds>>

\* Only a durable copy may be named by a later `unchanged'.
ReadStore_SeedsAlways(w) ==
  /\ At(w, "read", "store")
  /\ (Lands(call[w].read) \/ FallsOpen(call[w].read) \/ Drops(call[w].read)) /\ To(w, "seed")
  /\ UNCHANGED <<statsFile, session, disk, claims, answers, calls>>
ReadStore(w) ==
  /\ At(w, "read", "store")
  /\ \/ Lands(call[w].read) /\ To(w, "seed") /\ UNCHANGED answers
     \/ (FallsOpen(call[w].read) \/ Drops(call[w].read)) /\ Answers(w, [answer |-> "content"])
  /\ UNCHANGED <<statsFile, session, disk, claims, calls>>

ReadSeed(w) ==
  /\ At(w, "read", "seed")
  /\ cached' = call[w].read
  /\ Answers(w, [answer |-> "content"])
  /\ UNCHANGED <<statsFile, store, saved, real, disk, claims, bounds>>

(* furl_purge, of one hash and of all.                                      *)

Nested(h) == IF h \in Visible THEN Owned[h] \cap Visible ELSE {}

\* The cascade deletes the entry and what it alone owns.  To be verified are the
\* hash it was called with, in any case, and the nested ones whose delete has
\* reported a copy gone.
PurgeDelete_DeletedVerified(w) ==
  /\ At(w, "purge", "delete")
  /\ LET all == {call[w].hash} \cup Nested(call[w].hash)
     IN  \E failed \in SUBSET (all \cap durable) :
           /\ Deletes(all, failed)
           /\ Goes(w, [call[w] EXCEPT !.step = "verify", !.stuck = failed,
                         !.expected = all \ (failed \ volatile)])
  /\ UNCHANGED <<statsFile, session, disk, claims, answers, calls>>
PurgeDelete(w) ==
  /\ At(w, "purge", "delete")
  /\ LET nested == Nested(call[w].hash)
         all == {call[w].hash} \cup nested
     IN  \E failed \in SUBSET (all \cap durable) :
           /\ Deletes(all, failed)
           /\ Goes(w, [call[w] EXCEPT !.step = "verify", !.stuck = failed,
                         !.expected = {call[w].hash} \cup (nested \ (failed \ volatile))])
  /\ UNCHANGED <<statsFile, session, disk, claims, answers, calls>>

\* exists_any_tier, a hash at a time.
PurgeVerify(w) ==
  /\ At(w, "purge", "verify")
  /\ \E h \in call[w].expected :
       Goes(w, [call[w] EXCEPT !.expected = @ \ {h},
                  !.survivors = IF h \in Visible THEN @ \cup {h} ELSE @,
                  !.stuck = IF h \in durable \cup volatile THEN @ ELSE @ \ {h}])
  /\ UNCHANGED <<statsFile, store, session, disk, claims, answers, bounds>>

PurgeAnswer(w) ==
  /\ At(w, "purge", "verify") /\ call[w].expected = {}
  /\ Answers(w, [answer |-> IF call[w].survivors = {} THEN "purged" ELSE "not purged",
                 of |-> {call[w].hash}, stuck |-> call[w].stuck])
  /\ UNCHANGED <<statsFile, store, session, disk, claims, bounds>>

\* clear() reports what is left of what it could see.
PurgeAll(w) ==
  /\ At(w, "purge all", "clear")
  /\ \E failed \in {{}, durable} :
       /\ Deletes(Contents, failed)
       /\ Answers(w, [answer |-> IF failed = {} \/ degraded THEN "purged" ELSE "not purged",
                      of |-> Contents, stuck |-> IF degraded THEN durable ELSE failed])
  /\ UNCHANGED <<statsFile, session, disk, claims, calls>>

(* furl_stats.                                                             *)
StatsAnswer(w) == Answers(w, [answer |-> "stats"])
StatsRead(w) ==
  /\ At(w, "stats", "read")
  /\ \/ NothingToPrune /\ StatsAnswer(w)
     \/ ReadEvents(w) /\ To(w, "truncate") /\ UNCHANGED answers
  /\ UNCHANGED <<store, session, disk, claims, bounds>>
StatsTruncate(w) ==
  /\ At(w, "stats", "truncate") /\ Truncate(w) /\ To(w, "write")
  /\ UNCHANGED <<store, session, disk, claims, answers, bounds>>
StatsWrite(w) ==
  /\ At(w, "stats", "write") /\ WriteBack(w) /\ StatsAnswer(w)
  /\ UNCHANGED <<store, session, disk, claims, bounds>>

-----------------------------------------------------------------------------
(* What happens around the calls.                                          *)

Fault == faults < MaxFaults /\ faults' = faults + 1

\* Entries expire, are evicted, or are purged by another process.
Loses(c) ==
  /\ Fault /\ c \in durable
  /\ durable' = durable \ {c} /\ gone' = gone \cup {c}
  /\ volatile' \in {volatile, volatile \ {c}}
  /\ UNCHANGED <<statsFile, degraded, session, disk, call, claims, answers, calls>>

\* Another process appends to the statistics.
OtherAppends ==
  /\ Fault /\ AppendEvent
  /\ UNCHANGED <<store, session, disk, call, claims, answers, calls>>

TimePasses ==
  /\ Fault /\ WindowPasses
  /\ UNCHANGED <<store, session, disk, call, claims, answers, calls>>

EditFile(c) ==
  /\ Fault /\ c # disk /\ disk' = c
  /\ UNCHANGED <<statsFile, store, session, call, claims, answers, calls>>

\* An error of the database that is not a lock.
Degrade ==
  /\ Fault /\ ~degraded /\ degraded' = TRUE
  /\ UNCHANGED <<statsFile, durable, volatile, gone, session, disk, call, claims, answers, calls>>

\* The server dies, at any point of any call, and is started again.
Restart ==
  /\ Fault
  /\ volatile' = {} /\ degraded' = FALSE /\ cached' = NIL
  /\ saved' = 0 /\ real' = 0
  /\ call' = [w \in Workers |-> Idle]
  /\ answers' = [w \in Workers |-> None]
  /\ StatsCrash
  /\ UNCHANGED <<durable, gone, disk, claims, calls>>

Step(w) ==
  \/ CompressError(w) \/ CompressStore(w) \/ CompressCheck(w) \/ CompressBook(w)
  \/ CompressSum(w) \/ CompressLog(w) \/ CompressAnswer(w)
  \/ Retrieve(w) \/ RetrieveLog(w) \/ RetrieveStatus(w)
  \/ ReadFile(w) \/ ReadAlive(w) \/ ReadHit(w) \/ ReadForget(w) \/ ReadStore(w) \/ ReadSeed(w)
  \/ PurgeDelete(w) \/ PurgeVerify(w) \/ PurgeAnswer(w) \/ PurgeAll(w)
  \/ StatsRead(w) \/ StatsTruncate(w) \/ StatsWrite(w)

Next ==
  \/ \E w \in Workers : Step(w) \/ \E request \in Requests : Begin(w, request)
  \/ \E c \in Contents : Loses(c) \/ EditFile(c)
  \/ OtherAppends \/ TimePasses \/ Degrade \/ Restart

Spec == Init /\ [][Next]_vars

-----------------------------------------------------------------------------
\* What the server says it has stored for good, and what the file cache would
\* name to a later read, is in the file unless it has been taken out of it since:
\* no restart and no degraded backend makes a hash that was advertised miss.
ClaimsDurable ==
  claims \cup ({cached} \ {NIL}) \subseteq durable \cup gone

\* A purge that reports success has seen the hash it was called with, or all of
\* them, absent after its deletes, whatever the file's lock kept from being
\* deleted; a backend that no longer looks at the file is the exception.
PurgeVerified ==
  \A w \in Workers :
    answers[w].answer = "purged" /\ ~degraded => answers[w].stuck \cap answers[w].of = {}

\* The session never shows savings that no compression made: a failed call and
\* a cache hit save nothing, and concurrent calls can only lose a booking.
SavingsAreReal ==
  /\ saved <= real
  /\ \A w \in Workers : call[w].op = "compress" => call[w].total <= real

-----------------------------------------------------------------------------
\* _purge_one's docstring: the read-back covers the full set that the cascade
\* decided to delete, the nested hashes included.
CascadeVerified ==
  \A w \in Workers :
    answers[w].answer = "purged" /\ ~degraded => answers[w].stuck = {}
=============================================================================
