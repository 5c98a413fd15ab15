----------------------------- MODULE SharedStats -----------------------------
(***************************************************************************)
(* The statistics file that the server processes of a project share:        *)
(* furl_ctx/ccr/mcp_server.py, _append_shared_event and _read_shared_events. *)
(*                                                                         *)
(* Events are numbered as they are appended.  A reader prunes the events     *)
(* that have left the window: it takes the lock, reads, truncates the file   *)
(* and writes back what it keeps, in steps that a crash can separate.        *)
(***************************************************************************)
EXTENDS Naturals

CONSTANTS
  Workers,  \* the threads that run tool calls
  NIL       \* the lock is free

VARIABLES
  file,     \* the events in the file
  next,     \* the number of the next event
  horizon,  \* the events up to this one have left the window
  flock,    \* the worker that holds the file's lock
  kept,     \* keep_lines of that worker
  torn      \* history: the events that a crash in a rewrite has destroyed

statsFile == <<file, next, horizon, flock, kept, torn>>

StatsInit ==
  /\ file = {} /\ next = 1 /\ horizon = 0
  /\ flock = NIL /\ kept = {} /\ torn = {}

Young(events) == {e \in events : e > horizon}

\* _append_shared_event flushes before it lets go of the lock.
AppendEvent_Unlocked ==
  /\ file' = file \cup {next} /\ next' = next + 1
  /\ UNCHANGED <<horizon, flock, kept, torn>>
AppendEvent ==
  /\ flock = NIL
  /\ file' = file \cup {next} /\ next' = next + 1
  /\ UNCHANGED <<horizon, flock, kept, torn>>

\* _read_shared_events: one lock from the read to the rewrite, and no rewrite
\* when nothing is old.
NothingToPrune == flock = NIL /\ Young(file) = file /\ UNCHANGED statsFile

ReadEvents(w) ==
  /\ flock = NIL /\ Young(file) # file
  /\ flock' = w /\ kept' = Young(file)
  /\ UNCHANGED <<file, next, horizon, torn>>

Truncate(w) ==
  /\ flock = w
  /\ file' = {} /\ UNCHANGED <<next, horizon, flock, kept, torn>>

WriteBack(w) ==
  /\ flock = w
  /\ file' = kept /\ kept' = {} /\ flock' = NIL
  /\ UNCHANGED <<next, horizon, torn>>

\* SESSION_WINDOW_SECONDS go by.
WindowPasses ==
  /\ horizon < next - 1 /\ horizon' = next - 1
  /\ UNCHANGED <<file, next, flock, kept, torn>>

\* The process dies with the workers that hold its locks.
StatsCrash ==
  /\ flock' = NIL /\ kept' = {}
  /\ torn' = torn \cup (kept \ file)
  /\ UNCHANGED <<file, next, horizon>>

\* An event of the window is in the file, or in the hands of the reader that is
\* writing it back; one crash between truncate and flush is the way to lose any.
EventsKept ==
  \A e \in 1..(next - 1) : e > horizon => e \in file \cup kept \cup torn
=============================================================================
