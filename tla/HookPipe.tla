------------------------------- MODULE HookPipe -----------------------------
(* Shell commands of one project, run at the same time, each through the two *)
(* hooks: the first may rewrite the command so that a shell captures what it *)
(* prints and pipes it through a filter; the second may replace the result.  *)
(* Each hook and each filter is a process of its own; they meet in the       *)
(* project's durable store, which a purge may empty at any time.  A command  *)
(* can be interrupted, a filter can fail to start, to read its input, or die *)
(* at any point.  Left out: every tally but the one the first-run note needs.*)
EXTENDS Naturals, Sequences, SequencesExt, HookGuard

CONSTANTS
  Commands,      \* the commands run
  OutputLines,   \* how many lines a command prints
  Scenes,        \* settings a command may find
  MaxClears      \* how often the store is emptied

VARIABLES
  command,    \* per command: how far it is and what the model sees of it
  project     \* the project's durable store

pipeVars == <<command, project>>

ASSUME PipeAssumption == OutputLines \in Nat \ {0}

(* What the model is shown is a sequence of pieces: how the text looks, and  *)
(* how many of its lines it stands for.                                      *)
Piece(form, n) == [form |-> form, lines |-> n]
Texts == {"binary", "marked", "small", "large"}

New == [phase |-> "idle", text |-> "small", printed |-> 0, shown |-> <<>>, out |-> "raw", masked |-> FALSE,
        fault |-> "none", born |-> 0, first |-> 0]

PipeInit ==
  /\ command = [c \in Commands |-> New]
  /\ project = [invocations |-> 0, originals |-> {}, epoch |-> 0, notes |-> {}]

Is(c, phases) == command[c].phase \in phases
Becomes(c, r) == command' = [command EXCEPT ![c] = r]
Reaches(c, phase) == Becomes(c, [command[c] EXCEPT !.phase = phase])

Shown(r, form, n) == IF n = 0 THEN r.shown ELSE Append(r.shown, Piece(form, n))
Showing(c, form, phase) ==
  Becomes(c, [command[c] EXCEPT !.phase = phase, !.shown = Shown(command[c], form, command[c].printed)])

(* The first hook: a command it may not rewrite, and one whose shell gets no *)
(* file to capture into, prints straight to the result.                      *)
PreTool(c) ==
  /\ Is(c, {"idle"})
  /\ \E scene \in Scenes, text \in Texts, disabled, file \in BOOLEAN :
       LET wrapped == ~disabled /\ Rewrites(scene)
       IN Becomes(c, [New EXCEPT !.phase = IF wrapped /\ file THEN "captured" ELSE "live", !.text = text,
                                 !.masked = wrapped /\ Governed(scene), !.born = project.epoch])
  /\ UNCHANGED project

Prints(c) ==
  /\ Is(c, {"live", "captured"}) /\ command[c].printed < OutputLines
  /\ Becomes(c, [command[c] EXCEPT !.printed = @ + 1,
                   !.shown = IF Is(c, {"live"}) THEN <<Piece("raw", command[c].printed + 1)>> ELSE @])
  /\ UNCHANGED project

Ends(c) ==
  /\ Is(c, {"live", "captured"}) /\ command[c].printed = OutputLines
  /\ Reaches(c, IF Is(c, {"live"}) THEN "post" ELSE "filter")
  /\ UNCHANGED project

(* While it captures, the shell answers a signal by showing what it has; once*)
(* the traps are cleared the signal ends it as it is.                        *)
Flush_Untrapped(r) == [r EXCEPT !.phase = "killed"]
Flush(r) == [r EXCEPT !.phase = "killed", !.shown = Shown(r, "raw", r.printed)]
Signal(c) ==
  /\ Is(c, {"live", "captured", "filter", "decide", "ready", "wrote", "cat"})
  /\ Becomes(c, CASE Is(c, {"captured"}) -> Flush(command[c])
                  [] Is(c, {"live"}) -> [command[c] EXCEPT !.phase = "killed"]
                  [] OTHER -> [command[c] EXCEPT !.phase = "killed", !.fault = "late signal"])
  /\ UNCHANGED project

(* The filter: an interpreter that cannot start or a filter that dies makes  *)
(* the shell show the captured file; one that cannot read its input leaves   *)
(* with success and nothing shown.                                           *)
FilterStarts(c) ==
  /\ Is(c, {"filter"})
  /\ \/ Reaches(c, "cat")
     \/ Reaches(c, IF command[c].text = "binary" THEN "ready" ELSE "decide")
     \/ Becomes(c, [command[c] EXCEPT !.phase = "post", !.fault = "unread"])
  /\ UNCHANGED project

(* A text is compressed only with its original in the file.                  *)
Compresses(c, text) == text = "large"
Kept_Volatile(c) == UNCHANGED project
Kept(c) == project' = [project EXCEPT !.originals = @ \union {c}]
Decides(c) ==
  /\ Is(c, {"decide"})
  /\ \/ Reaches(c, "ready") /\ UNCHANGED project
     \/ /\ Compresses(c, command[c].text)
        /\ Becomes(c, [command[c] EXCEPT !.phase = "ready", !.out = "compressed"])
        /\ Kept(c)

Writes(c) == Is(c, {"ready"}) /\ Showing(c, command[c].out, "wrote") /\ UNCHANGED project

Exits(c) == Is(c, {"wrote"}) /\ Reaches(c, "post") /\ UNCHANGED project

Dies(c) ==
  /\ Is(c, {"decide", "ready", "wrote"})
  /\ Becomes(c, [command[c] EXCEPT !.phase = "cat", !.fault = IF Is(c, {"wrote"}) THEN "died after writing" ELSE @])
  /\ UNCHANGED project

Cat(c) == Is(c, {"cat"}) /\ Showing(c, "raw", "post") /\ UNCHANGED project

(* The second hook counts itself in the file, in one transaction that also   *)
(* reads the count back; a write that does not land counts only in memory.   *)
Increment_Volatile(landed) ==
  [file |-> IF landed THEN [project EXCEPT !.invocations = @ + 1] ELSE project,
   value |-> IF landed THEN project.invocations + 1 ELSE 1]

Increment(landed) ==
  [file |-> IF landed THEN [project EXCEPT !.invocations = @ + 1] ELSE project,
   value |-> IF landed THEN project.invocations + 1 ELSE 0]

Invoked(c) ==
  /\ Is(c, {"post"})
  /\ \E landed \in BOOLEAN :
       LET counted == Increment(landed)
       IN /\ project' = counted.file
          /\ Becomes(c, [command[c] EXCEPT !.phase = IF counted.value = 1 THEN "note" ELSE "hook",
                                           !.first = project.epoch])

Note(c) ==
  /\ Is(c, {"note"})
  /\ project' = [project EXCEPT !.notes = @ \union {<<command[c].first, c>>}]
  /\ Reaches(c, "hook")

(* Nothing to read, a text that already has a marker, a small one and one    *)
(* that does not shrink are left; a replacement may still be refused by a    *)
(* host whose version is not known.                                          *)
Marked_Never(c) == FALSE
Marked(c) == command[c].text = "marked" \/ \E p \in ToSet(command[c].shown) : p.form = "compressed"
HookDecides(c) ==
  /\ Is(c, {"hook"})
  /\ \/ Reaches(c, "done") /\ UNCHANGED project
     \/ /\ Compresses(c, command[c].text) /\ ~Marked(c) /\ command[c].shown # <<>>
        /\ Kept(c)
        /\ \E honored \in BOOLEAN :
             Becomes(c, [command[c] EXCEPT !.phase = "done",
               !.shown = IF honored THEN <<Piece(IF @[1].form = "raw" THEN "compressed" ELSE "twice", command[c].printed)>> ELSE @])

(* A full purge takes the originals and the counters with it.                *)
EmptyStore ==
  /\ project.epoch < MaxClears
  /\ project' = [project EXCEPT !.invocations = 0, !.originals = {}, !.epoch = @ + 1]
  /\ UNCHANGED command

CommandStep(c) ==
  PreTool(c) \/ Prints(c) \/ Ends(c) \/ Signal(c) \/ FilterStarts(c) \/ Decides(c) \/ Writes(c) \/ Exits(c) \/ Dies(c)
    \/ Cat(c) \/ Invoked(c) \/ Note(c) \/ HookDecides(c)

PipeNext == (\E c \in Commands : CommandStep(c)) \/ EmptyStore

PipeSpec == PipeInit /\ [][PipeNext]_pipeVars

-----------------------------------------------------------------------------
(* A command that ran to its end is shown whole and once, as it printed it or*)
(* with its original in the durable store unless a purge came between; one   *)
(* that was killed while it captured is shown as far as it got.  Excepted are*)
(* a filter that could not read, one that died between its write and its     *)
(* exit, and a signal after the traps are cleared.                           *)
Delivered(c) ==
  LET r == command[c]
  IN r.fault = "none" =>
       /\ r.phase = "done" =>
            /\ Len(r.shown) = 1 /\ r.shown[1].lines = OutputLines
            /\ r.shown[1].form \in {"raw", "compressed"}
            /\ r.shown[1].form = "compressed" => c \in project.originals \/ r.born < project.epoch
       /\ r.phase = "killed" => r.shown = IF r.printed = 0 THEN <<>> ELSE <<Piece("raw", r.printed)>>

(* Between two purges one command at most is told that it is the first.      *)
NotedOnce == \A m, n \in project.notes : m[1] = n[1] => m = n

(* Every command's output reaches the model, no rule of the host is masked,  *)
(* and the first-run note is not repeated.                                   *)
HooksHold ==
  /\ \A c \in Commands : Delivered(c) /\ ~command[c].masked
  /\ NotedOnce
=============================================================================
