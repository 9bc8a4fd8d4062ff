----------------------------- MODULE SessionLog -----------------------------
(***************************************************************************)
(* A conversation kept in a JSONL session file (session.rs) by the File    *)
(* Messages module that owns it (modular-agent-llm/src/message.rs), with   *)
(* summarize_model set: the module loads the file when it starts, appends  *)
(* each finalized message, emits a window of the history, and folds what   *)
(* fell out of the window into a rolling summary, which it appends as a    *)
(* marker before it removes the entries the summary covers.                *)
(*                                                                         *)
(* The process may crash and the module be stopped between any two file    *)
(* operations, a crash may tear the line that is being written, and a      *)
(* write may fail half way (a full disk).  The file has one owner, so the  *)
(* steps of load and of remove_entries, of which only the last one changes *)
(* the file, are one action each; an operation on the file that is in      *)
(* progress when its caller is dropped ends before the next one begins.    *)
(*                                                                         *)
(* Entries are numbered as they are made.  The owner appends each one at   *)
(* once and removal keeps the order, so a log always is in the order of    *)
(* its numbers, and it is modelled as the set of its entries.  Their text, *)
(* the token estimates and the budgets are abstracted: the history may be  *)
(* cut wherever some budget would cut it.                                  *)
(***************************************************************************)
EXTENDS Integers, FiniteSets

CONSTANTS
    MaxEntries,    \* bound on the entries that are ever made
    Roles          \* the roles of the messages that arrive

ASSUME SessionAssumption ==
    /\ MaxEntries \in Nat
    /\ Roles \subseteq {"system", "user", "assistant", "tool"}

Ids == 1 .. MaxEntries
NoEntry == 0

\* The summary that opens a context has no entry of its own.
Summary == 0

\* What follows the last newline of the file: nothing, or a fragment that a
\* crash or a failed write left, which may end inside a character.
NoTail == [by |-> "nobody", split |-> FALSE]
Tails == [by : {"crash", "error"}, split : BOOLEAN]

VARIABLES
    role,       \* entry -> a message's role, "marker", or "none" before it is made
    firstKept,  \* marker -> the first message of the window it was made for
    covers,     \* marker -> the messages its summary tells of
    nextEntry,  \* the entry to be made next
    header,     \* the first line of the file: absent, torn or whole
    lines,      \* the entries in the file
    fused,      \* whose fragments have become part of a line that does not parse
    tail,       \* what follows the last line
    pc,         \* where the module is
    cache,      \* SessionState.entries
    entry,      \* the entry that is being appended, or will be kept first
    removal,    \* the entries that are being removed
    window,     \* the messages of the last window that was emitted
    acked       \* history: the messages whose append returned Ok

content == <<role, firstKept, covers, nextEntry>>
file == <<header, lines, fused, tail>>
vars == <<content, file, pc, cache, entry, removal, window, acked>>

TypeOK ==
    /\ role \in [Ids -> Roles \cup {"marker", "none"}]
    /\ firstKept \in [Ids -> Ids \cup {NoEntry}]
    /\ covers \in [Ids -> SUBSET Ids]
    /\ nextEntry \in 1 .. MaxEntries + 1
    /\ header \in {"absent", "torn", "whole"}
    /\ lines \in SUBSET Ids
    /\ fused \in SUBSET {"crash", "error"}
    /\ tail \in Tails \cup {NoTail}
    /\ pc \in {"stopped", "heading", "idle", "appending", "emitting",
               "summarizing", "marking", "removing"}
    /\ cache \in SUBSET Ids
    /\ entry \in Ids \cup {NoEntry}
    /\ removal \in SUBSET Ids
    /\ window \in SUBSET (Ids \cup {Summary})
    /\ acked \in SUBSET Ids
    /\ pc = "appending" => entry \in Ids /\ role[entry] \in Roles
    /\ pc \in {"summarizing", "marking"} => entry \in Ids
    /\ pc = "marking" => role[entry] = "marker"

Init ==
    /\ role = [e \in Ids |-> "none"]
    /\ firstKept = [e \in Ids |-> NoEntry]
    /\ covers = [e \in Ids |-> {}]
    /\ nextEntry = 1
    /\ header = "absent" /\ lines = {} /\ fused = {} /\ tail = NoTail
    /\ pc = "stopped" /\ cache = {}
    /\ entry = NoEntry /\ removal = {}
    /\ window = {} /\ acked = {}

-----------------------------------------------------------------------------
(* The context and the window.                                              *)

IsMessage(e) == role[e] \in Roles

Markers(log) == {e \in log : role[e] = "marker"}

\* The last marker of a log: none or one.
Latest(log) == {m \in Markers(log) : \A n \in Markers(log) : n <= m}

\* Mutant: a marker hides nothing.
ShowsAll(log, e) == TRUE

\* The last marker hides what comes before the message it keeps first; when
\* that one is gone, all that comes before the marker.
Shows(log, e) ==
    \A m \in Latest(log) : IF firstKept[m] \in log THEN e >= firstKept[m] ELSE e > m

\* build_context: the messages that follow the summary, if there is one.
Context(log) == {e \in log : IsMessage(e) /\ Shows(log, e)}

Heads(log) == {e \in Context(log) : role[e] = "user"}

\* A window is emitted when the context ends with a user message or a tool
\* result and has a user message to begin with; the summary is one.
Answerable(log) ==
    /\ Heads(log) # {} \/ Markers(log) # {}
    /\ \A e \in Context(log) :
           (\A d \in Context(log) : d <= e) => role[e] \in {"user", "tool"}

\* The last system message of the context, which is emitted in any case.
PinnedSystem(log) ==
    {s \in Context(log) : role[s] = "system"
         /\ \A t \in Context(log) : role[t] = "system" => t <= s}

\* The messages a window may begin with: a user message, as the budgets allow;
\* when only the summary is one, whatever follows it.
Cuts(log) ==
    IF Heads(log) # {} THEN Heads(log)
    ELSE IF Context(log) = {} THEN {NoEntry}
    ELSE {e \in Context(log) : \A d \in Context(log) : e <= d}

\* What is emitted for a cut.
WindowFrom(log, cut) ==
    {e \in Context(log) : e >= cut /\ role[e] # "system"}
    \cup PinnedSystem(log)
    \cup (IF Markers(log) = {} THEN {} ELSE {Summary})

\* Mutant: no marker stays.
PrunableMarkers(log, cut) ==
    {e \in log : IsMessage(e) => e < cut /\ e \notin PinnedSystem(log)}

\* prunable_entry_ids: the messages before the cut, but the pinned one, and
\* all markers but the last.
Prunable(log, cut) ==
    {e \in log : IF IsMessage(e) THEN e < cut /\ e \notin PinnedSystem(log)
                                 ELSE e \notin Latest(log)}

\* The messages among these that no summary covers yet.
NewlyEvicted(ids) == {e \in ids : IsMessage(e) /\ Shows(cache, e)}

-----------------------------------------------------------------------------
(* The file.                                                                *)

\* Opened in append mode: what is written follows whatever the file ends with,
\* and a fragment and an entry in one line do not parse.
WriteLine(e) ==
    /\ IF tail = NoTail THEN lines' = lines \cup {e} /\ fused' = fused
                        ELSE lines' = lines /\ fused' = fused \cup {tail.by}
    /\ tail' = NoTail

\* The write stops in the middle of the line, maybe inside a character.
Tear(by) ==
    \E split \in BOOLEAN : tail' = [by |-> by, split |-> split \/ tail.split]

\* What load and remove_entries accept: text, all lines of which parse.
Parses == header = "whole" /\ ~tail.split /\ fused = {}

-----------------------------------------------------------------------------
(* start(): resolve_session with a configured id.                           *)

\* Mutant: the fragment is discarded and stays in the file.
LoadOnly ==
    /\ pc = "stopped" /\ Parses
    /\ cache' = lines
    /\ pc' = "idle"
    /\ UNCHANGED <<content, file, entry, removal, window, acked>>

\* load discards a fragment after the last newline and cuts it off the file.
Load ==
    /\ pc = "stopped" /\ Parses
    /\ tail' = NoTail
    /\ cache' = lines
    /\ pc' = "idle"
    /\ UNCHANGED <<content, header, lines, fused, entry, removal, window, acked>>

\* A file that cannot be loaded exists, so it cannot be created either, and
\* start() fails.  A line that does not parse is found after the fragment was
\* cut off; text that is not UTF-8 is not looked at.
LoadFails ==
    /\ pc = "stopped" /\ header # "absent" /\ ~Parses
    /\ tail' = IF tail.split THEN tail ELSE NoTail
    /\ UNCHANGED <<content, header, lines, fused, pc, cache, entry, removal, window, acked>>

\* An id the store does not know is created as an empty session: the file,
\* then its header.
CreateFile ==
    /\ pc = "stopped" /\ header = "absent"
    /\ header' = "torn"
    /\ pc' = "heading"
    /\ UNCHANGED <<content, lines, fused, tail, cache, entry, removal, window, acked>>

WriteHeader ==
    /\ pc = "heading"
    /\ header' = "whole"
    /\ cache' = {}
    /\ pc' = "idle"
    /\ UNCHANGED <<content, lines, fused, tail, entry, removal, window, acked>>

HeaderFails ==
    /\ pc = "heading"
    /\ pc' = "stopped"
    /\ UNCHANGED <<content, file, cache, entry, removal, window, acked>>

-----------------------------------------------------------------------------
(* process(): one message of a batch.                                       *)

Receive(r) ==
    /\ pc = "idle" /\ nextEntry \in Ids
    /\ role' = [role EXCEPT ![nextEntry] = r]
    /\ entry' = nextEntry
    /\ nextEntry' = nextEntry + 1
    /\ window' = {}
    /\ pc' = "appending"
    /\ UNCHANGED <<firstKept, covers, file, cache, removal, acked>>

\* A user message or a tool result that ends the batch calls for a window.
Appended ==
    /\ pc = "appending"
    /\ WriteLine(entry)
    /\ cache' = cache \cup {entry}
    /\ acked' = acked \cup {entry}
    /\ entry' = NoEntry
    /\ \/ pc' = "idle"
       \/ role[entry] \in {"user", "tool"} /\ pc' = "emitting"
    /\ UNCHANGED <<content, header, removal, window>>

\* Opening fails and nothing is written, or the write fails on its way; the
\* error ends process() and the module goes on.
AppendFails ==
    /\ pc \in {"appending", "marking"}
    /\ Tear("error") \/ tail' = tail
    /\ entry' = NoEntry /\ removal' = {}
    /\ pc' = "idle"
    /\ UNCHANGED <<content, header, lines, fused, cache, window, acked>>

\* A unit input emits the window and prunes nothing.
Ask ==
    /\ pc = "idle" /\ Answerable(cache)
    /\ \E cut \in Cuts(cache) : window' = WindowFrom(cache, cut)
    /\ UNCHANGED <<content, file, pc, cache, entry, removal, acked>>

-----------------------------------------------------------------------------
(* emit_window and summarize_and_prune.                                     *)

NothingToAnswer ==
    /\ pc = "emitting" /\ ~Answerable(cache)
    /\ pc' = "idle"
    /\ UNCHANGED <<content, file, cache, entry, removal, window, acked>>

\* The window is emitted; without a limit, or when all of the log is in it,
\* that is all.  What no summary covers yet is summarized before it is removed.
Emit(cut) ==
    LET ids == Prunable(cache, cut)
    IN /\ pc = "emitting" /\ Answerable(cache) /\ cut \in Cuts(cache)
       /\ window' = WindowFrom(cache, cut)
       /\ \/ /\ ids = {} \/ \A h \in Heads(cache) : cut <= h
             /\ pc' = "idle"
             /\ UNCHANGED <<entry, removal>>
          \/ /\ ids # {} /\ NewlyEvicted(ids) = {}
             /\ removal' = ids
             /\ pc' = "removing"
             /\ UNCHANGED entry
          \/ /\ NewlyEvicted(ids) # {}
             /\ removal' = ids
             /\ entry' = cut
             /\ pc' = "summarizing"
       /\ UNCHANGED <<content, file, cache, acked>>

\* Without an answer of the model nothing is pruned.
SummaryFails ==
    /\ pc = "summarizing"
    /\ removal' = {} /\ entry' = NoEntry
    /\ pc' = "idle"
    /\ UNCHANGED <<content, file, cache, window, acked>>

\* The new summary merges the previous one with what was newly evicted.  The
\* previous marker goes with the entries.
Summarize ==
    /\ pc = "summarizing" /\ nextEntry \in Ids
    /\ role' = [role EXCEPT ![nextEntry] = "marker"]
    /\ firstKept' = [firstKept EXCEPT ![nextEntry] = entry]
    /\ covers' = [covers EXCEPT ![nextEntry] =
                      NewlyEvicted(removal) \cup UNION {covers[m] : m \in Latest(cache)}]
    /\ removal' = removal \cup Latest(cache)
    /\ entry' = nextEntry
    /\ nextEntry' = nextEntry + 1
    /\ pc' = "marking"
    /\ UNCHANGED <<file, cache, window, acked>>

\* The marker is appended before anything is removed.
Marked ==
    /\ pc = "marking"
    /\ WriteLine(entry)
    /\ cache' = cache \cup {entry}
    /\ entry' = NoEntry
    /\ pc' = "removing"
    /\ UNCHANGED <<content, header, removal, window, acked>>

\* remove_entries writes the lines it keeps to a copy, without a fragment, and
\* puts the copy in the place of the file; with prune_file off it is not
\* called.
RemoveEntries ==
    /\ pc = "removing"
    /\ \/ Parses /\ lines' = lines \ removal /\ tail' = NoTail
       \/ UNCHANGED <<lines, tail>>
    /\ cache' = cache \ removal
    /\ removal' = {}
    /\ pc' = "idle"
    /\ UNCHANGED <<content, header, fused, entry, window, acked>>

RemoveFails ==
    /\ pc = "removing"
    /\ removal' = {}
    /\ pc' = "idle"
    /\ UNCHANGED <<content, file, cache, entry, window, acked>>

-----------------------------------------------------------------------------
(* Stops and crashes.                                                       *)

\* What the module has in hand is forgotten: start() loads the entries anew.
Ended ==
    /\ pc' = "stopped"
    /\ cache' = {} /\ entry' = NoEntry /\ removal' = {} /\ window' = {}

\* stop() drops whatever process() or start() was waiting for, and so does a
\* crash between two writes.  The operation in progress may have been done.
Stop ==
    /\ pc # "stopped"
    /\ \/ UNCHANGED <<lines, fused, tail>>
       \/ pc \in {"appending", "marking"} /\ WriteLine(entry)
       \/ pc = "removing" /\ Parses /\ lines' = lines \ removal /\ tail' = NoTail /\ fused' = fused
    /\ Ended
    /\ UNCHANGED <<content, header, acked>>

\* A crash may tear the line that is being written.
Crash ==
    /\ pc \in {"appending", "marking"}
    /\ Tear("crash")
    /\ Ended
    /\ UNCHANGED <<content, header, lines, fused, acked>>

Next ==
    \/ Load \/ LoadFails \/ CreateFile \/ WriteHeader \/ HeaderFails
    \/ \E r \in Roles : Receive(r)
    \/ Appended \/ AppendFails \/ Ask
    \/ NothingToAnswer \/ \E cut \in Ids \cup {NoEntry} : Emit(cut)
    \/ SummaryFails \/ Summarize \/ Marked
    \/ RemoveEntries \/ RemoveFails
    \/ Stop \/ Crash

Spec == Init /\ [][Next]_vars

-----------------------------------------------------------------------------
(* Properties.                                                              *)

\* No entry is ever written behind the fragment a crash left: every start
\* repairs the file before the first append (session.rs:286-293).
CrashTailsAreCut == "crash" \notin fused

\* As long as no fragment has become part of a line, the lines of the file have
\* every message whose append returned: it is shown in the context they make or
\* told of by the summary that opens it, at whatever step the module was stopped
\* or crashed; a system message may be superseded (message.rs:756-869).
NothingForgotten ==
    fused = {} =>
        \A e \in acked :
            \/ role[e] = "system"
            \/ e \in Context(lines)
            \/ \E m \in Latest(lines) : e \in covers[m]

\* A message the summary tells of is not emitted beside it, nor summarized
\* again (message.rs:770-798).
SummarizedOnce ==
    \A m \in Latest(cache) : covers[m] \cap Context(cache) = {}

\* A stored message is shown or told of by the summary, and not both, whenever
\* a crash comes, and no entry is ever glued to what the crash left.  That the
\* file can be loaded after every crash is not said, and not so: a line torn inside
\* a character makes load fail (LoadFails), though the doc says that such a line
\* "is discarded and truncated from the file" (session.rs:283-287).
ToldOnce == NothingForgotten /\ SummarizedOnce /\ CrashTailsAreCut

\* The system message is emitted with every window (message.rs:1272-1276).
SystemStays ==
    \A s \in acked : role[s] = "system" /\ window # {} =>
        \E l \in window \cap Ids : role[l] = "system" /\ l >= s

-----------------------------------------------------------------------------
(* What the file promises of the messages, but the system's: Recall.        *)

\* load refuses the file, now and ever after.
Lost == fused # {} \/ tail.split

Spoken(msgs) == {e \in msgs : role[e] # "system"}

Transcript == INSTANCE Recall WITH
    shown <- IF Lost THEN {} ELSE Spoken(Context(lines)),
    told  <- IF Lost THEN {} ELSE Spoken(UNION {covers[m] : m \in Latest(lines)}),
    lost  <- Lost

\* At every step, also of a stop, a crash or a failing write, the conversation
\* a restart would go on with is the one before the step with the message that
\* was appended, or with its beginning folded into the summary: a message goes
\* only into the summary that is written with it, the summary never forgets
\* one, and none comes back; that holds until the file cannot be loaded any
\* more (session.rs:417-471, message.rs:756-869).
KeepsTranscript == Transcript!Spec
=============================================================================
