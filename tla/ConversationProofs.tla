------------------------- MODULE ConversationProofs -------------------------
(***************************************************************************)
(* Theorems about what a conversation goes through: SessionLog, for any    *)
(* number of entries and any roles, and Requests, for any tables, configs, *)
(* histories and replies of the providers.                                 *)
(*                                                                         *)
(*   SessionTypeCorrect       the type invariant of the session            *)
(*   CrashTailsAreCutHolds    no entry is glued to what a crash left       *)
(*   LogInvHolds              the inductive invariant of the two logs      *)
(*   NothingForgottenHolds    a stored message is shown or summarized      *)
(*   SummarizedOnceHolds      and not both                                 *)
(*   ToldOnceHolds            these three together                         *)
(*   KeepsTranscriptHolds     the file implements Recall                   *)
(*   LimitsFitHolds           a request to Claude keeps within its limits  *)
(*   RetriesFitHolds          what may pass is retried, and nothing else   *)
(***************************************************************************)
EXTENDS SessionLog, Requests, WellFoundedInduction, TLAPS

-----------------------------------------------------------------------------
(* The session log.                                                         *)

\* A marker is not a message, nor is an entry not made yet.
LEMMA MarkerIsNoRole == "marker" \notin Roles /\ "none" \notin Roles
  BY SessionAssumption

\* Every variable keeps its type, and the entry in the hands of the module is
\* what the step it is at needs.
THEOREM SessionTypeCorrect == Spec => []TypeOK
<1> USE SessionAssumption DEF Ids, NoEntry, Summary
<1>1. Init => TypeOK
  BY DEF Init, TypeOK
<1>2. TypeOK /\ [Next]_vars => TypeOK'
  <2> SUFFICES ASSUME TypeOK, [Next]_vars
               PROVE  TypeOK'
    OBVIOUS
  <2> USE DEF TypeOK, content, file
  <2>a. ASSUME NEW by \in {"crash", "error"}, Tear(by) PROVE tail' \in Tails
    <3>1. \A t \in Tails : t.split \in BOOLEAN
      BY DEF Tails
    <3>2. NoTail.split \in BOOLEAN
      BY DEF NoTail
    <3>3. tail.split \in BOOLEAN
      BY <3>1, <3>2
    <3>. QED
      BY <2>a, <3>3 DEF Tear, Tails
  <2>b. ASSUME NEW e \in Ids, WriteLine(e)
        PROVE  lines' \in SUBSET Ids /\ fused' \in SUBSET {"crash", "error"} /\ tail' = NoTail
    <3>1. tail # NoTail => tail.by \in {"crash", "error"}
      BY DEF Tails
    <3>. QED
      BY <2>b, <3>1 DEF WriteLine
  <2>1. CASE Load
    BY <2>1 DEF Load
  <2>2. CASE LoadFails
    BY <2>2 DEF LoadFails
  <2>3. CASE CreateFile
    BY <2>3 DEF CreateFile
  <2>4. CASE WriteHeader
    BY <2>4 DEF WriteHeader
  <2>5. CASE HeaderFails
    BY <2>5 DEF HeaderFails
  <2>6. ASSUME NEW r \in Roles, Receive(r) PROVE TypeOK'
    BY <2>6 DEF Receive
  <2>7. CASE Appended
    BY <2>7, <2>b DEF Appended
  <2>8. CASE AppendFails
    BY <2>8, <2>a DEF AppendFails
  <2>9. CASE Ask
    <3>1. window' \in SUBSET (Ids \cup {Summary})
      BY <2>9 DEF Ask, WindowFrom, Context, PinnedSystem
    <3>. QED
      BY <2>9, <3>1 DEF Ask
  <2>10. CASE NothingToAnswer
    BY <2>10 DEF NothingToAnswer
  <2>11. ASSUME NEW cut \in Ids \cup {NoEntry}, Emit(cut) PROVE TypeOK'
    <3>1. window' \in SUBSET (Ids \cup {Summary})
      BY <2>11 DEF Emit, WindowFrom, Context, PinnedSystem
    <3>2. Prunable(cache, cut) \in SUBSET Ids
      BY DEF Prunable
    <3>3. pc' = "summarizing" => cut \in Ids
      <4> SUFFICES ASSUME pc' = "summarizing" PROVE cut \in Ids
        OBVIOUS
      <4>1. PICK e \in NewlyEvicted(Prunable(cache, cut)) : TRUE
        BY <2>11 DEF Emit
      <4>2. e \in Ids /\ e < cut
        BY <4>1, <3>2 DEF NewlyEvicted, Prunable
      <4>. QED
        BY <4>2
    <3>. QED
      BY <2>11, <3>1, <3>2, <3>3 DEF Emit
  <2>12. CASE SummaryFails
    BY <2>12 DEF SummaryFails
  <2>13. CASE Summarize
    <3>1. UNION {covers[m] : m \in Latest(cache)} \in SUBSET Ids
      <4>1. \A m \in Latest(cache) : m \in Ids /\ covers[m] \in SUBSET Ids
        BY DEF Latest, Markers
      <4>. HIDE DEF TypeOK
      <4>2. ASSUME NEW e \in UNION {covers[m] : m \in Latest(cache)} PROVE e \in Ids
        <5>1. PICK m \in Latest(cache) : e \in covers[m]
          OBVIOUS
        <5>. QED
          BY <4>1, <5>1
      <4>. QED
        BY <4>2
    <3>2. NewlyEvicted(removal) \in SUBSET Ids /\ Latest(cache) \in SUBSET Ids
      BY DEF NewlyEvicted, Latest, Markers
    <3>3. covers' \in [Ids -> SUBSET Ids] /\ removal' \in SUBSET Ids
      BY <2>13, <3>1, <3>2 DEF Summarize
    <3>. QED
      BY <2>13, <3>3 DEF Summarize
  <2>14. CASE Marked
    BY <2>14, <2>b DEF Marked
  <2>15. CASE RemoveEntries
    BY <2>15 DEF RemoveEntries
  <2>16. CASE RemoveFails
    BY <2>16 DEF RemoveFails
  <2>17. CASE Stop
    BY <2>17, <2>b DEF Stop, Ended
  <2>18. CASE Crash
    BY <2>18, <2>a DEF Crash, Ended
  <2>19. CASE UNCHANGED vars
    BY <2>19 DEF vars
  <2>. QED
    <3>. HIDE DEF TypeOK
    <3>. QED
      BY <2>1, <2>2, <2>3, <2>4, <2>5, <2>6, <2>7, <2>8, <2>9, <2>10, <2>11, <2>12,
         <2>13, <2>14, <2>15, <2>16, <2>17, <2>18, <2>19 DEF Next
<1>. QED
  BY <1>1, <1>2, PTL DEF Spec

-----------------------------------------------------------------------------

Running == pc \notin {"stopped", "heading"}

\* A module that runs has cut off what a crash left.
TailInv ==
    /\ header = "absent" => pc = "stopped"
    /\ header # "whole" => tail = NoTail
    /\ pc = "heading" => tail = NoTail
    /\ Running => header = "whole" /\ tail.by # "crash"
    /\ CrashTailsAreCut

\* The tail of the file is never that of a crash while the module runs.
LEMMA TailInvHolds == Spec => []TailInv
<1> USE DEF TailInv, CrashTailsAreCut, Running
<1>1. Init => TailInv
  BY DEF Init
<1>2. TypeOK /\ TailInv /\ [Next]_vars => TailInv'
  <2> SUFFICES ASSUME TypeOK, TailInv, [Next]_vars
               PROVE  TailInv'
    OBVIOUS
  <2> USE DEF content, file
  <2>a. NoTail.by # "crash"
    BY DEF NoTail
  <2>b. ASSUME NEW e, WriteLine(e), Running PROVE tail' = NoTail /\ "crash" \notin fused'
    BY <2>b DEF WriteLine
  <2>1. CASE Load \/ LoadFails \/ CreateFile \/ WriteHeader \/ HeaderFails
    BY <2>1, <2>a DEF Load, LoadFails, CreateFile, WriteHeader, HeaderFails, Parses
  <2>2. ASSUME NEW r \in Roles, Receive(r) PROVE TailInv'
    BY <2>2 DEF Receive
  <2>3. CASE Appended \/ Marked
    BY <2>3, <2>a, <2>b DEF Appended, Marked
  <2>4. CASE AppendFails
    BY <2>4 DEF AppendFails, Tear
  <2>5. CASE Ask \/ NothingToAnswer \/ SummaryFails \/ RemoveFails
    BY <2>5 DEF Ask, NothingToAnswer, SummaryFails, RemoveFails
  <2>6. ASSUME NEW cut, Emit(cut) PROVE TailInv'
    BY <2>6 DEF Emit
  <2>7. CASE Summarize
    BY <2>7 DEF Summarize
  <2>8. CASE RemoveEntries
    BY <2>8, <2>a DEF RemoveEntries
  <2>9. CASE Stop
    BY <2>9, <2>b DEF Stop, Ended
  <2>10. CASE Crash
    BY <2>10 DEF Crash, Ended
  <2>11. CASE UNCHANGED vars
    BY <2>11 DEF vars
  <2>. QED
    <3>. HIDE DEF TailInv
    <3>. QED
      BY <2>1, <2>2, <2>3, <2>4, <2>5, <2>6, <2>7, <2>8, <2>9, <2>10, <2>11 DEF Next
<1>. QED
  BY <1>1, <1>2, SessionTypeCorrect, PTL DEF Spec

\* No entry is glued to the fragment a crash left.
THEOREM CrashTailsAreCutHolds == Spec => []CrashTailsAreCut
<1>1. TailInv => CrashTailsAreCut
  BY DEF TailInv
<1>. QED
  BY <1>1, TailInvHolds, PTL

-----------------------------------------------------------------------------
(* Logs.                                                                    *)

\* Entries are made in order; the one that is being appended is the last.
Made ==
    /\ \A e \in Ids : e >= nextEntry => role[e] = "none"
    /\ \A e \in lines \cup cache \cup acked : e < nextEntry
    /\ \A e \in acked : role[e] \in Roles
    /\ pc \in {"appending", "marking"} =>
           entry = nextEntry - 1 /\ \A e \in lines \cup cache \cup acked : e < entry

\* Without a header nothing was stored.
Fresh ==
    /\ header # "whole" => ~Running /\ lines = {} /\ acked = {}
    /\ pc = "heading" => header # "whole"

\* A marker comes after the message it keeps first, and its summary tells of
\* what came before that one.
Ordered ==
    \A m \in Ids : role[m] = "marker" =>
        /\ firstKept[m] \in Ids /\ firstKept[m] < m /\ role[firstKept[m]] \in Roles
        /\ \A e \in covers[m] : e < firstKept[m]

\* Where there are markers, one is the last.
HasLatest == \A log \in {cache, lines} : Markers(log) # {} => Latest(log) # {}

\* While the module runs and the file parses, the file has what the cache has
\* and the same last marker.
InSync == Running /\ fused = {} => cache \subseteq lines /\ Latest(lines) = Latest(cache)

\* What a log shows and what its summary tells is all there is.
Remembers(log, msgs) ==
    \A e \in msgs :
        role[e] = "system" \/ e \in Context(log) \/ \E m \in Latest(log) : e \in covers[m]

\* A summary is asked for what the cut leaves out.
Summarizing ==
    pc = "summarizing" =>
        entry \in Context(cache) /\ removal = Prunable(cache, entry)

\* The marker that is being appended tells of all it will hide.
Marking ==
    pc = "marking" =>
        /\ firstKept[entry] \in cache
        /\ \A e \in acked : \/ role[e] = "system"
                            \/ e \in cache /\ e >= firstKept[entry]
                            \/ e \in covers[entry]
        /\ \A e \in removal : IsMessage(e) => e < firstKept[entry]
        /\ removal \subseteq cache

\* What is removed is not shown, and is not the last marker.
Removing ==
    pc = "removing" => removal \cap (Context(cache) \cup Latest(cache)) = {}

LogInv ==
    /\ Made
    /\ Fresh
    /\ Ordered
    /\ HasLatest
    /\ InSync
    /\ Running => Remembers(cache, acked)
    /\ fused = {} => Remembers(lines, acked)
    /\ Summarizing
    /\ Marking
    /\ Removing

\* A message at the end of a log is shown and hides nothing.
LEMMA MessageAppended ==
    ASSUME TypeOK, Ordered, NEW log \in SUBSET Ids, NEW x \in Ids, IsMessage(x),
           \A e \in log : e < x
    PROVE  /\ Markers(log \cup {x}) = Markers(log)
           /\ Latest(log \cup {x}) = Latest(log)
           /\ Context(log \cup {x}) = Context(log) \cup {x}
<1>1. Markers(log \cup {x}) = Markers(log)
  BY MarkerIsNoRole DEF Markers, IsMessage
<1>2. Latest(log \cup {x}) = Latest(log)
  BY <1>1 DEF Latest
<1>3. \A m \in Latest(log) : m \in Ids /\ firstKept[m] \in Ids /\ firstKept[m] < m /\ m < x
  BY DEF Latest, Markers, Ordered
<1>4. \A m \in Latest(log) : firstKept[m] \in log \cup {x} <=> firstKept[m] \in log
  BY <1>3 DEF Ids
<1>5. \A e \in Ids : Shows(log \cup {x}, e) <=> Shows(log, e)
  BY <1>2, <1>4 DEF Shows
<1>6. Shows(log, x)
  BY <1>3 DEF Shows, Latest, Markers, Ids
<1>. QED
  BY <1>1, <1>2, <1>5, <1>6 DEF Context

\* A marker at the end of a log is the last one.
LEMMA MarkerAppended ==
    ASSUME NEW log \in SUBSET Ids, NEW x \in Ids, role[x] = "marker", \A e \in log : e < x
    PROVE  Latest(log \cup {x}) = {x}
<1>1. x \in Markers(log \cup {x}) /\ \A m \in Markers(log \cup {x}) : m \in Ids /\ m <= x
  BY DEF Markers, Ids
<1>2. x \in Latest(log \cup {x})
  BY <1>1 DEF Latest
<1>3. \A m \in Latest(log \cup {x}) : m = x
  BY <1>1 DEF Latest, Ids
<1>. QED
  BY <1>2, <1>3

\* There is one last marker at most.
LEMMA LatestIsOne ==
    ASSUME NEW log \in SUBSET Ids, NEW m \in Latest(log), NEW n \in Latest(log)
    PROVE  m = n
BY DEF Latest, Markers, Ids

\* What is not the last marker can go.
LEMMA LatestStays ==
    ASSUME NEW log \in SUBSET Ids, NEW gone, gone \cap Latest(log) = {},
           Markers(log) # {} => Latest(log) # {}
    PROVE  /\ Latest(log \ gone) = Latest(log)
           /\ Markers(log \ gone) # {} => Latest(log \ gone) # {}
<1>1. Latest(log) \subseteq Latest(log \ gone)
  BY DEF Latest, Markers
<1>2. ASSUME NEW m \in Latest(log \ gone) PROVE m \in Latest(log)
  <2>1. Markers(log) # {}
    BY <1>2 DEF Latest, Markers
  <2>2. PICK n \in Latest(log) : TRUE
    BY <2>1
  <2>3. m \in Ids /\ n \in Ids /\ m <= n /\ n <= m
    BY <1>1, <1>2, <2>2 DEF Latest, Markers
  <2>. QED
    BY <2>2, <2>3 DEF Ids
<1>3. Markers(log \ gone) \subseteq Markers(log)
  BY DEF Markers
<1>. QED
  BY <1>1, <1>2, <1>3

\* A message at its place in a log with the same last marker is shown there
\* too: a log that lost the message its marker keeps first shows no more.
LEMMA ContextGrows ==
    ASSUME TypeOK, Ordered, NEW small \in SUBSET Ids, NEW log \in SUBSET Ids,
           small \subseteq log, Latest(log) = Latest(small)
    PROVE  Context(small) \subseteq Context(log)
<1>1. \A m \in Latest(log) : m \in Ids /\ firstKept[m] \in Ids /\ firstKept[m] < m
  BY DEF Latest, Markers, Ordered
<1>2. ASSUME NEW e \in Ids, Shows(small, e) PROVE Shows(log, e)
  BY <1>1, <1>2 DEF Shows, Ids
<1>. QED
  BY <1>2 DEF Context

\* Removing what is neither shown nor the last marker leaves the context as it
\* is, because the message the marker keeps first is shown.
LEMMA ContextStays ==
    ASSUME TypeOK, Ordered, NEW log \in SUBSET Ids, NEW gone,
           gone \cap (Context(log) \cup Latest(log)) = {},
           Markers(log) # {} => Latest(log) # {}
    PROVE  Context(log) \subseteq Context(log \ gone)
<1>1. Latest(log \ gone) = Latest(log)
  BY LatestStays
<1>2. ASSUME NEW m \in Latest(log), firstKept[m] \in log
      PROVE  firstKept[m] \in log \ gone
  <2>1. firstKept[m] \in Ids /\ IsMessage(firstKept[m])
    BY <1>2 DEF Latest, Markers, Ordered, IsMessage
  <2>2. Shows(log, firstKept[m])
    BY <1>2, <2>1, LatestIsOne DEF Shows, Ids
  <2>. QED
    BY <1>2, <2>1, <2>2 DEF Context
<1>3. \A e \in log : Shows(log, e) => Shows(log \ gone, e)
  BY <1>1, <1>2 DEF Shows
<1>. QED
  BY <1>3 DEF Context

\* What one log remembers, a log with the same last marker that shows as much
\* remembers too.
LEMMA RemembersMore ==
    ASSUME NEW one, NEW other, NEW msgs, Remembers(one, msgs),
           Context(one) \subseteq Context(other), Latest(one) = Latest(other)
    PROVE  Remembers(other, msgs)
BY DEF Remembers

\* What a removal leaves of the two logs.
LEMMA RemovalRemembers ==
    ASSUME TypeOK, LogInv, pc = "removing"
    PROVE  /\ Remembers(cache \ removal, acked)
           /\ Latest(cache \ removal) = Latest(cache)
           /\ Markers(cache \ removal) # {} => Latest(cache \ removal) # {}
           /\ fused = {} =>
                /\ Latest(lines \ removal) = Latest(lines)
                /\ Markers(lines \ removal) # {} => Latest(lines \ removal) # {}
                /\ Remembers(lines \ removal, acked)
<1>1. /\ cache \in SUBSET Ids /\ lines \in SUBSET Ids
      /\ removal \cap (Context(cache) \cup Latest(cache)) = {}
      /\ Running /\ Remembers(cache, acked) /\ Ordered
      /\ Markers(cache) # {} => Latest(cache) # {}
      /\ Markers(lines) # {} => Latest(lines) # {}
  BY DEF TypeOK, LogInv, Removing, Running, HasLatest
<1>2. Latest(cache \ removal) = Latest(cache)
      /\ (Markers(cache \ removal) # {} => Latest(cache \ removal) # {})
  BY <1>1, LatestStays
<1>3. Remembers(cache \ removal, acked)
  BY <1>1, <1>2, ContextStays, RemembersMore
<1>4. ASSUME fused = {}
      PROVE  /\ Latest(lines \ removal) = Latest(lines)
             /\ Markers(lines \ removal) # {} => Latest(lines \ removal) # {}
             /\ Remembers(lines \ removal, acked)
  <2>1. cache \subseteq lines /\ Latest(lines) = Latest(cache)
    BY <1>1, <1>4 DEF LogInv, InSync
  <2>2. Latest(lines \ removal) = Latest(lines)
        /\ (Markers(lines \ removal) # {} => Latest(lines \ removal) # {})
    BY <1>1, <2>1, LatestStays
  <2>3. Context(cache \ removal) \subseteq Context(lines \ removal)
    BY <1>1, <1>2, <2>1, <2>2, ContextGrows
  <2>. QED
    BY <1>2, <1>3, <2>1, <2>2, <2>3, RemembersMore
<1>. QED
  BY <1>2, <1>3, <1>4


\* What an entry that is appended makes of the two logs.
LEMMA MessageWritten ==
    ASSUME TypeOK, LogInv, pc = "appending",
           NEW log \in SUBSET Ids, log \subseteq lines \cup cache,
           Markers(log) # {} => Latest(log) # {}
    PROVE  /\ Latest(log \cup {entry}) = Latest(log)
           /\ Markers(log \cup {entry}) # {} => Latest(log \cup {entry}) # {}
           /\ Remembers(log, acked) =>
                /\ Remembers(log \cup {entry}, acked)
                /\ Remembers(log \cup {entry}, acked \cup {entry})
<1>1. entry \in Ids /\ IsMessage(entry) /\ \A e \in log : e < entry
  BY DEF TypeOK, LogInv, Made, IsMessage
<1>2. /\ Markers(log \cup {entry}) = Markers(log)
      /\ Latest(log \cup {entry}) = Latest(log)
      /\ Context(log \cup {entry}) = Context(log) \cup {entry}
  BY <1>1, MessageAppended DEF LogInv
<1>. QED
  BY <1>2 DEF Remembers

\* With the marker that compaction writes, everything acknowledged is remembered,
\* and what is to be removed is not in the context any more.
LEMMA MarkerWritten ==
    ASSUME TypeOK, LogInv, pc = "marking"
    PROVE  /\ Latest(cache \cup {entry}) = {entry}
           /\ Latest(lines \cup {entry}) = {entry}
           /\ Remembers(cache \cup {entry}, acked)
           /\ fused = {} => Remembers(lines \cup {entry}, acked)
           /\ removal \cap (Context(cache \cup {entry}) \cup {entry}) = {}
<1>1. /\ entry \in Ids /\ role[entry] = "marker"
      /\ cache \in SUBSET Ids /\ lines \in SUBSET Ids /\ acked \in SUBSET Ids
      /\ firstKept[entry] \in Ids /\ firstKept[entry] < entry
      /\ \A e \in lines \cup cache \cup acked : e < entry
      /\ \A e \in acked : IsMessage(e)
  BY DEF TypeOK, LogInv, Made, Ordered, IsMessage
<1>2. /\ firstKept[entry] \in cache /\ removal \subseteq cache
      /\ \A e \in removal : IsMessage(e) => e < firstKept[entry]
      /\ \A e \in acked : \/ role[e] = "system"
                          \/ e \in cache /\ e >= firstKept[entry]
                          \/ e \in covers[entry]
  BY DEF LogInv, Marking
<1>3. fused = {} => cache \subseteq lines
  BY DEF LogInv, InSync, Running
<1>4. Latest(cache \cup {entry}) = {entry} /\ Latest(lines \cup {entry}) = {entry}
  BY <1>1, MarkerAppended
<1>5. ASSUME NEW log, cache \subseteq log, Latest(log \cup {entry}) = {entry}
      PROVE  /\ \A e \in log \cup {entry} :
                    Shows(log \cup {entry}, e) <=> e >= firstKept[entry]
             /\ Remembers(log \cup {entry}, acked)
  <2>1. \A e \in log \cup {entry} : Shows(log \cup {entry}, e) <=> e >= firstKept[entry]
    BY <1>2, <1>5 DEF Shows
  <2>. QED
    BY <1>1, <1>2, <1>5, <2>1 DEF Remembers, Context
<1>6. ASSUME NEW e \in removal PROVE e \notin Context(cache \cup {entry}) /\ e # entry
  <2>1. e \in cache /\ e \in Ids /\ e < entry
    BY <1>1, <1>2
  <2>2. IsMessage(e) => ~ (e >= firstKept[entry])
    BY <1>1, <1>2, <2>1 DEF Ids
  <2>. QED
    BY <1>1, <1>4, <1>5, <2>1, <2>2 DEF Context, Ids
<1>. QED
  BY <1>3, <1>4, <1>5, <1>6

\* Entries keep what they are: what the operators say of the next state they
\* say of it with this one's contents.
LEMMA SameContent ==
    ASSUME \A e \in lines' \cup cache' \cup acked' :
               role'[e] = role[e] /\ firstKept'[e] = firstKept[e] /\ covers'[e] = covers[e]
    PROVE  /\ Markers(cache)' = Markers(cache') /\ Markers(lines)' = Markers(lines')
           /\ Latest(cache)' = Latest(cache') /\ Latest(lines)' = Latest(lines')
           /\ Context(cache)' = Context(cache') /\ Context(lines)' = Context(lines')
           /\ Remembers(cache, acked)' <=> Remembers(cache', acked')
           /\ Remembers(lines, acked)' <=> Remembers(lines', acked')
<1>1. Markers(cache)' = Markers(cache') /\ Markers(lines)' = Markers(lines')
  BY DEF Markers
<1>2. Latest(cache)' = Latest(cache') /\ Latest(lines)' = Latest(lines')
  BY <1>1 DEF Latest
<1>3. Latest(cache') \subseteq cache' /\ Latest(lines') \subseteq lines'
  BY DEF Latest, Markers
<1>4. /\ \A e \in cache' : Shows(cache, e)' <=> Shows(cache', e)
      /\ \A e \in lines' : Shows(lines, e)' <=> Shows(lines', e)
  BY <1>2, <1>3 DEF Shows
<1>5. Context(cache)' = Context(cache') /\ Context(lines)' = Context(lines')
  BY <1>4 DEF Context, IsMessage
<1>6. Remembers(cache, acked)' <=> Remembers(cache', acked')
  BY <1>2, <1>3, <1>5 DEF Remembers
<1>7. Remembers(lines, acked)' <=> Remembers(lines', acked')
  BY <1>2, <1>3, <1>5 DEF Remembers
<1>. QED
  BY <1>1, <1>2, <1>5, <1>6, <1>7

\* A step that leaves the logs as they are, and does not begin to change them.
LEMMA QuietStep ==
    ASSUME LogInv, UNCHANGED <<content, lines, fused, cache, acked>>,
           pc' \notin {"appending", "marking", "summarizing", "removing"},
           pc' \notin {"stopped", "heading"} => Running /\ header' = "whole",
           pc' = "heading" => header' # "whole",
           header' # "whole" => header # "whole"
    PROVE  LogInv'
<1> USE DEF content
<1>1. /\ Latest(cache)' = Latest(cache') /\ Latest(lines)' = Latest(lines')
      /\ Markers(cache)' = Markers(cache') /\ Markers(lines)' = Markers(lines')
      /\ Remembers(cache, acked)' <=> Remembers(cache', acked')
      /\ Remembers(lines, acked)' <=> Remembers(lines', acked')
  BY SameContent
<1>2. Made' /\ Fresh' /\ Ordered'
  BY DEF LogInv, Made, Fresh, Ordered, Running
<1>3. HasLatest' /\ InSync'
  BY <1>1 DEF LogInv, HasLatest, InSync, Running
<1>4. (Running => Remembers(cache, acked))' /\ (fused = {} => Remembers(lines, acked))'
  BY <1>1 DEF LogInv, Running
<1>5. Summarizing' /\ Marking' /\ Removing'
  BY DEF Summarizing, Marking, Removing
<1>. QED
  BY <1>2, <1>3, <1>4, <1>5 DEF LogInv

\* Stopped or crashed, with the operation in progress done or not.
LEMMA EndedStep ==
    ASSUME TypeOK, LogInv, Ended, UNCHANGED <<content, header, acked>>,
           \/ lines' = lines /\ (fused' = {} => fused = {})
           \/ pc \in {"appending", "marking"} /\ WriteLine(entry)
           \/ pc = "removing" /\ fused = {} /\ lines' = lines \ removal
    PROVE  LogInv'
<1> USE DEF content, Ended
<1>1. /\ Latest(cache)' = Latest(cache') /\ Latest(lines)' = Latest(lines')
      /\ Markers(cache)' = Markers(cache') /\ Markers(lines)' = Markers(lines')
      /\ Remembers(lines, acked)' <=> Remembers(lines', acked')
  BY SameContent
<1>2. /\ lines \in SUBSET Ids /\ cache \in SUBSET Ids
      /\ Markers(lines) # {} => Latest(lines) # {}
      /\ fused = {} => Remembers(lines, acked)
  BY DEF TypeOK, LogInv, HasLatest
<1>3. \/ lines' = lines /\ (fused' = {} => fused = {})
      \/ pc = "appending" /\ lines' = lines \cup {entry} /\ fused' = fused
      \/ pc = "marking" /\ lines' = lines \cup {entry} /\ fused' = fused
      \/ pc = "removing" /\ fused = {} /\ lines' = lines \ removal
  BY DEF WriteLine
<1>4. /\ Markers(lines') # {} => Latest(lines') # {}
      /\ fused' = {} => Remembers(lines', acked)
  <2>1. CASE lines' = lines /\ (fused' = {} => fused = {})
    BY <1>2, <2>1
  <2>2. CASE pc = "appending" /\ lines' = lines \cup {entry} /\ fused' = fused
    BY <1>2, <2>2, MessageWritten
  <2>3. CASE pc = "marking" /\ lines' = lines \cup {entry} /\ fused' = fused
    BY <2>3, MarkerWritten
  <2>4. CASE pc = "removing" /\ fused = {} /\ lines' = lines \ removal
    BY <2>4, RemovalRemembers
  <2>. QED
    BY <1>3, <2>1, <2>2, <2>3, <2>4
<1>5. Made'
  <2>1. pc \in {"appending", "marking"} => entry \in Ids /\ entry < nextEntry
    BY DEF TypeOK, LogInv, Made, Ids
  <2>2. \A e \in lines' : e < nextEntry
    BY <1>3, <2>1 DEF LogInv, Made
  <2>. QED
    BY <2>2 DEF LogInv, Made
<1>6. Fresh' /\ Ordered'
  BY <1>3 DEF LogInv, Fresh, Ordered, Running
<1>7. HasLatest' /\ InSync' /\ ~Running'
  BY <1>1, <1>4 DEF HasLatest, InSync, Running, Markers
<1>8. (fused = {} => Remembers(lines, acked))'
  BY <1>1, <1>4
<1>9. Summarizing' /\ Marking' /\ Removing'
  BY DEF Summarizing, Marking, Removing
<1>. QED
  BY <1>5, <1>6, <1>7, <1>8, <1>9 DEF LogInv

\* The marker that is made tells of what is evicted and of what the previous
\* summary told of.
LEMMA SummarizeStep ==
    ASSUME TypeOK, LogInv, Summarize
    PROVE  LogInv'
<1>0. /\ pc = "summarizing" /\ pc' = "marking" /\ nextEntry \in Ids
      /\ role' = [role EXCEPT ![nextEntry] = "marker"]
      /\ firstKept' = [firstKept EXCEPT ![nextEntry] = entry]
      /\ covers' = [covers EXCEPT ![nextEntry] =
                       NewlyEvicted(removal) \cup UNION {covers[m] : m \in Latest(cache)}]
      /\ removal' = removal \cup Latest(cache)
      /\ entry' = nextEntry /\ nextEntry' = nextEntry + 1
      /\ UNCHANGED <<header, lines, fused, cache, acked>>
  BY DEF Summarize, file
<1>1. /\ Made /\ Fresh /\ Ordered /\ HasLatest /\ InSync /\ Running
      /\ Remembers(cache, acked) /\ (fused = {} => Remembers(lines, acked))
      /\ entry \in Context(cache) /\ removal = Prunable(cache, entry)
      /\ lines \in SUBSET Ids /\ cache \in SUBSET Ids /\ acked \in SUBSET Ids
  BY <1>0 DEF LogInv, Summarizing, Running, TypeOK
<1>2. /\ \A e \in lines \cup cache \cup acked : e \in Ids /\ e < nextEntry
      /\ entry \in cache /\ entry \in Ids /\ entry < nextEntry /\ role[entry] \in Roles
  BY <1>1 DEF Made, Context, IsMessage
<1>3. /\ \A e \in Ids : e # nextEntry =>
             role'[e] = role[e] /\ firstKept'[e] = firstKept[e] /\ covers'[e] = covers[e]
      /\ role'[nextEntry] = "marker" /\ firstKept'[nextEntry] = entry
      /\ covers'[nextEntry] = NewlyEvicted(removal) \cup UNION {covers[m] : m \in Latest(cache)}
  BY <1>0 DEF TypeOK
<1>4. \A e \in lines \cup cache \cup acked :
          role'[e] = role[e] /\ firstKept'[e] = firstKept[e] /\ covers'[e] = covers[e]
  BY <1>2, <1>3 DEF Ids
<1>5. /\ Latest(cache)' = Latest(cache) /\ Latest(lines)' = Latest(lines)
      /\ Markers(cache)' = Markers(cache) /\ Markers(lines)' = Markers(lines)
      /\ Remembers(cache, acked)' <=> Remembers(cache, acked)
      /\ Remembers(lines, acked)' <=> Remembers(lines, acked)
  BY <1>0, <1>4, SameContent
<1>6. Made'
  BY <1>0, <1>1, <1>2, <1>3, <1>4 DEF Made, Ids
<1>7. Fresh' /\ HasLatest' /\ InSync' /\ Summarizing' /\ Removing'
  BY <1>0, <1>1, <1>5 DEF Fresh, HasLatest, InSync, Running, Summarizing, Removing
<1>8. \A m \in Latest(cache) :
          /\ m \in Ids /\ m \in cache /\ firstKept[m] \in Ids /\ firstKept[m] < m
          /\ \A e \in covers[m] : e \in Ids /\ e < firstKept[m]
          /\ firstKept[m] <= entry
  <2> SUFFICES ASSUME NEW m \in Latest(cache)
               PROVE  /\ m \in Ids /\ m \in cache /\ firstKept[m] \in Ids /\ firstKept[m] < m
                      /\ \A e \in covers[m] : e \in Ids /\ e < firstKept[m]
                      /\ firstKept[m] <= entry
    OBVIOUS
  <2>1. /\ m \in Ids /\ m \in cache /\ firstKept[m] \in Ids /\ firstKept[m] < m
        /\ \A e \in covers[m] : e \in Ids /\ e < firstKept[m]
    BY <1>1 DEF Latest, Markers, Ordered, TypeOK
  <2>2. IF firstKept[m] \in cache THEN entry >= firstKept[m] ELSE entry > m
    BY <1>1 DEF Context, Shows
  <2>. QED
    BY <1>2, <2>1, <2>2 DEF Ids
<1>9. \A e \in NewlyEvicted(removal) : e \in Ids /\ e < entry
  BY <1>1 DEF NewlyEvicted, Prunable
<1>10. \A e \in covers'[nextEntry] : e \in Ids /\ e < entry
  <2> SUFFICES ASSUME NEW m \in Latest(cache), NEW e \in covers[m] PROVE e \in Ids /\ e < entry
    BY <1>3, <1>9
  <2>. QED
    BY <1>2, <1>8 DEF Ids
<1>11. Ordered'
  <2> SUFFICES ASSUME NEW m \in Ids, role'[m] = "marker"
               PROVE  /\ firstKept'[m] \in Ids /\ firstKept'[m] < m
                      /\ role'[firstKept'[m]] \in Roles
                      /\ \A e \in covers'[m] : e < firstKept'[m]
    BY DEF Ordered
  <2>1. CASE m = nextEntry
    BY <1>2, <1>3, <1>10, <2>1 DEF Ids
  <2>2. CASE m # nextEntry
    <3>1. role[m] = "marker" /\ firstKept'[m] = firstKept[m] /\ covers'[m] = covers[m]
      BY <1>3, <2>2
    <3>2. /\ firstKept[m] \in Ids /\ firstKept[m] < m /\ role[firstKept[m]] \in Roles
          /\ \A e \in covers[m] : e < firstKept[m]
      BY <1>1, <3>1 DEF Ordered
    <3>3. firstKept[m] # nextEntry
      BY <1>0, <1>1, <3>2, MarkerIsNoRole DEF Made, Ids
    <3>. QED
      BY <1>3, <3>1, <3>2, <3>3
  <2>. QED
    BY <2>1, <2>2
<1>12. Marking'
  <2>1. \A e \in acked : \/ role[e] = "system"
                         \/ e \in cache /\ e >= entry
                         \/ e \in covers'[nextEntry]
    <3> SUFFICES ASSUME NEW e \in acked, role[e] # "system"
                 PROVE  (e \in cache /\ e >= entry) \/ e \in covers'[nextEntry]
      OBVIOUS
    <3>1. CASE e \in Context(cache)
      <4>1. e \in cache /\ IsMessage(e) /\ Shows(cache, e) /\ e \notin PinnedSystem(cache)
        BY <3>1 DEF Context, PinnedSystem
      <4>2. ~ (e >= entry) => e \in NewlyEvicted(removal)
        BY <1>1, <1>2, <4>1 DEF NewlyEvicted, Prunable, Ids
      <4>. QED
        BY <1>3, <4>1, <4>2
    <3>2. CASE \E m \in Latest(cache) : e \in covers[m]
      BY <1>3, <3>2
    <3>. QED
      BY <1>1, <3>1, <3>2 DEF Remembers
  <2>2. \A e \in removal' : e \in cache /\ (role[e] \in Roles => e < entry)
    BY <1>0, <1>1, MarkerIsNoRole DEF Prunable, IsMessage, Latest, Markers
  <2>3. cache' = cache /\ acked' = acked /\ entry' = nextEntry /\ firstKept'[entry'] = entry
    BY <1>0, <1>3
  <2>4. /\ firstKept'[entry'] \in cache'
        /\ \A e \in removal' : IsMessage(e)' => e < firstKept'[entry']
        /\ removal' \subseteq cache'
    BY <1>2, <1>4, <2>2, <2>3 DEF IsMessage
  <2>5. \A e \in acked' : \/ role'[e] = "system"
                          \/ e \in cache' /\ e >= firstKept'[entry']
                          \/ e \in covers'[entry']
    BY <1>4, <2>1, <2>3
  <2>. QED
    BY <2>4, <2>5 DEF Marking
<1>. QED
  BY <1>0, <1>1, <1>5, <1>6, <1>7, <1>11, <1>12 DEF LogInv

\* The marker is appended: from here on the log shows what follows the message
\* it keeps first.
LEMMA MarkedStep ==
    ASSUME TypeOK, LogInv, Marked
    PROVE  LogInv'
<1> USE DEF content
<1>0. /\ pc = "marking" /\ Running /\ pc' = "removing"
      /\ UNCHANGED content /\ header' = header /\ removal' = removal /\ acked' = acked
      /\ cache' = cache \cup {entry}
      /\ \/ lines' = lines /\ fused' # {}
         \/ lines' = lines \cup {entry} /\ fused' = fused
  BY DEF Marked, WriteLine, Running
<1>1. /\ Made /\ Fresh /\ Ordered /\ HasLatest /\ InSync
      /\ entry \in Ids /\ role[entry] = "marker" /\ entry < nextEntry
  BY <1>0 DEF LogInv, Made, TypeOK, Ids
<1>2. /\ Latest(cache)' = Latest(cache') /\ Latest(lines)' = Latest(lines')
      /\ Markers(cache)' = Markers(cache') /\ Markers(lines)' = Markers(lines')
      /\ Context(cache)' = Context(cache')
      /\ Remembers(cache, acked)' <=> Remembers(cache', acked')
      /\ Remembers(lines, acked)' <=> Remembers(lines', acked')
  BY <1>0, SameContent
<1>3. /\ Latest(cache') = {entry} /\ Remembers(cache', acked')
      /\ removal' \cap (Context(cache') \cup Latest(cache')) = {}
  BY <1>0, MarkerWritten
<1>4. fused' = {} => Latest(lines') = {entry} /\ Remembers(lines', acked')
  BY <1>0, MarkerWritten
<1>5. Latest(lines') = {entry} \/ lines' = lines
  BY <1>0, MarkerWritten
<1>6. Made' /\ Fresh' /\ Ordered'
  BY <1>0, <1>1 DEF Made, Fresh, Ordered, Running
<1>7. HasLatest' /\ InSync'
  BY <1>0, <1>1, <1>2, <1>3, <1>4, <1>5 DEF HasLatest, InSync
<1>8. Summarizing' /\ Marking' /\ Removing'
  BY <1>0, <1>2, <1>3 DEF Summarizing, Marking, Removing
<1>. QED
  BY <1>2, <1>3, <1>4, <1>6, <1>7, <1>8 DEF LogInv

\* The entries are removed from both logs, or from the cache only.
LEMMA RemoveStep ==
    ASSUME TypeOK, LogInv, RemoveEntries
    PROVE  LogInv'
<1> USE DEF content
<1>0. /\ pc = "removing" /\ Running /\ pc' = "idle"
      /\ UNCHANGED content /\ header' = header /\ acked' = acked /\ fused' = fused
      /\ cache' = cache \ removal
      /\ \/ lines' = lines
         \/ fused = {} /\ lines' = lines \ removal
  BY DEF RemoveEntries, Parses, Running
<1>1. /\ Made /\ Fresh /\ Ordered /\ HasLatest /\ InSync
      /\ fused = {} => Remembers(lines, acked)
  BY DEF LogInv
<1>2. /\ Latest(cache)' = Latest(cache') /\ Latest(lines)' = Latest(lines')
      /\ Markers(cache)' = Markers(cache') /\ Markers(lines)' = Markers(lines')
      /\ Remembers(cache, acked)' <=> Remembers(cache', acked')
      /\ Remembers(lines, acked)' <=> Remembers(lines', acked')
  BY <1>0, SameContent
<1>3. /\ Remembers(cache', acked') /\ Latest(cache') = Latest(cache)
      /\ Markers(cache') # {} => Latest(cache') # {}
  BY <1>0, RemovalRemembers
<1>4. /\ fused = {} => Remembers(lines', acked') /\ Latest(lines') = Latest(lines)
      /\ Markers(lines') # {} => Latest(lines') # {}
  BY <1>0, <1>1, RemovalRemembers DEF HasLatest
<1>5. Made' /\ Fresh' /\ Ordered'
  BY <1>0, <1>1 DEF Made, Fresh, Ordered, Running
<1>6. HasLatest' /\ InSync'
  BY <1>0, <1>1, <1>2, <1>3, <1>4 DEF HasLatest, InSync
<1>7. Summarizing' /\ Marking' /\ Removing'
  BY <1>0 DEF Summarizing, Marking, Removing
<1>. QED
  BY <1>0, <1>2, <1>3, <1>4, <1>5, <1>6, <1>7 DEF LogInv

\* At whatever step the module is, what each log shows and what the summary of
\* its last marker tells is all that was stored.
THEOREM LogInvHolds == Spec => []LogInv
<1>1. Init => LogInv
  BY SessionAssumption
     DEF Init, LogInv, Made, Fresh, Ordered, HasLatest, InSync, Remembers, Summarizing,
         Marking, Removing, Running, Markers, Latest, Ids
<1>2. TypeOK /\ TypeOK' /\ LogInv /\ [Next]_vars => LogInv'
  <2> SUFFICES ASSUME TypeOK, TypeOK', LogInv, [Next]_vars
               PROVE  LogInv'
    OBVIOUS
  <2> USE DEF content, file
  <2>a. /\ Made /\ Fresh /\ Ordered /\ HasLatest /\ InSync
        /\ Running => Remembers(cache, acked)
        /\ fused = {} => Remembers(lines, acked)
        /\ lines \in SUBSET Ids /\ cache \in SUBSET Ids /\ acked \in SUBSET Ids
    BY DEF LogInv, TypeOK
  <2>1. CASE Load
    <3>0. /\ UNCHANGED content /\ UNCHANGED <<lines, fused, acked>>
          /\ header' = "whole" /\ pc' = "idle" /\ cache' = lines /\ fused = {}
      BY <2>1 DEF Load, Parses
    <3>1. /\ Latest(cache)' = Latest(cache') /\ Latest(lines)' = Latest(lines')
          /\ Markers(cache)' = Markers(cache') /\ Markers(lines)' = Markers(lines')
          /\ Remembers(cache, acked)' <=> Remembers(cache', acked')
          /\ Remembers(lines, acked)' <=> Remembers(lines', acked')
      BY <3>0, SameContent
    <3>2. Made' /\ Fresh' /\ Ordered'
      BY <2>a, <3>0 DEF Made, Fresh, Ordered
    <3>3. HasLatest' /\ InSync'
      BY <2>a, <3>0, <3>1 DEF HasLatest, InSync
    <3>4. Summarizing' /\ Marking' /\ Removing'
      BY <3>0 DEF Summarizing, Marking, Removing
    <3>. QED
      BY <2>a, <3>0, <3>1, <3>2, <3>3, <3>4 DEF LogInv
  <2>2. CASE LoadFails
    BY <2>2, QuietStep DEF LoadFails
  <2>3. CASE CreateFile
    BY <2>3, QuietStep DEF CreateFile
  <2>4. CASE WriteHeader
    <3>0. /\ UNCHANGED content /\ UNCHANGED <<lines, fused, acked>>
          /\ header' = "whole" /\ pc' = "idle" /\ cache' = {} /\ lines' = {} /\ acked' = {}
      BY <2>4, <2>a DEF WriteHeader, Fresh
    <3>1. Made' /\ Fresh' /\ Ordered'
      BY <2>a, <3>0 DEF Made, Fresh, Ordered
    <3>2. HasLatest' /\ InSync' /\ Remembers(cache, acked)' /\ Remembers(lines, acked)'
      BY <3>0 DEF HasLatest, InSync, Remembers, Markers, Latest
    <3>3. Summarizing' /\ Marking' /\ Removing'
      BY <3>0 DEF Summarizing, Marking, Removing
    <3>. QED
      BY <3>1, <3>2, <3>3 DEF LogInv
  <2>5. CASE HeaderFails
    BY <2>5, <2>a, QuietStep DEF HeaderFails, Fresh
  <2>6. ASSUME NEW r \in Roles, Receive(r) PROVE LogInv'
    <3>0. /\ nextEntry \in Ids /\ role' = [role EXCEPT ![nextEntry] = r]
          /\ UNCHANGED <<firstKept, covers, header, lines, fused, cache, acked>>
          /\ entry' = nextEntry /\ nextEntry' = nextEntry + 1 /\ pc' = "appending" /\ Running
      BY <2>6 DEF Receive, Running
    <3>1. \A e \in Ids : e # nextEntry => role'[e] = role[e]
      BY <3>0 DEF TypeOK
    <3>2. \A e \in lines \cup cache \cup acked : e \in Ids /\ e < nextEntry
      BY <2>a DEF Made
    <3>3. \A e \in lines \cup cache \cup acked : role'[e] = role[e]
      BY <3>0, <3>1, <3>2 DEF Ids
    <3>4. /\ Latest(cache)' = Latest(cache) /\ Latest(lines)' = Latest(lines)
          /\ Markers(cache)' = Markers(cache) /\ Markers(lines)' = Markers(lines)
          /\ Remembers(cache, acked)' <=> Remembers(cache, acked)
          /\ Remembers(lines, acked)' <=> Remembers(lines, acked)
      BY <3>0, <3>3, SameContent
    <3>5. Made'
      BY <2>a, <3>0, <3>1, <3>2, <3>3 DEF Made, Ids
    <3>6. Ordered'
      <4>1. \A m \in Ids : role'[m] = "marker" => m # nextEntry /\ role[m] = "marker" /\ m < nextEntry
        BY <2>a, <3>0, <3>1, MarkerIsNoRole DEF Made, TypeOK, Ids
      <4>. QED
        BY <2>a, <3>0, <3>1, <4>1 DEF Ordered, Ids
    <3>7. Fresh' /\ HasLatest' /\ InSync'
      BY <2>a, <3>0, <3>4 DEF Fresh, HasLatest, InSync, Running
    <3>8. Summarizing' /\ Marking' /\ Removing'
      BY <3>0 DEF Summarizing, Marking, Removing
    <3>. QED
      BY <2>a, <3>0, <3>4, <3>5, <3>6, <3>7, <3>8 DEF LogInv
  <2>7. CASE Appended
    <3>0. /\ pc = "appending" /\ Running /\ pc' \in {"idle", "emitting"}
          /\ UNCHANGED content /\ header' = header
          /\ cache' = cache \cup {entry} /\ acked' = acked \cup {entry}
          /\ \/ lines' = lines /\ fused' # {}
             \/ lines' = lines \cup {entry} /\ fused' = fused
      BY <2>7 DEF Appended, WriteLine, Running
    <3>1. /\ Latest(cache)' = Latest(cache') /\ Latest(lines)' = Latest(lines')
          /\ Markers(cache)' = Markers(cache') /\ Markers(lines)' = Markers(lines')
          /\ Remembers(cache, acked)' <=> Remembers(cache', acked')
          /\ Remembers(lines, acked)' <=> Remembers(lines', acked')
      BY <3>0, SameContent
    <3>2. /\ Latest(cache \cup {entry}) = Latest(cache)
          /\ Markers(cache \cup {entry}) # {} => Latest(cache \cup {entry}) # {}
          /\ Remembers(cache \cup {entry}, acked \cup {entry})
      BY <2>a, <3>0, MessageWritten DEF HasLatest
    <3>3. /\ Latest(lines \cup {entry}) = Latest(lines)
          /\ Markers(lines \cup {entry}) # {} => Latest(lines \cup {entry}) # {}
          /\ fused = {} => Remembers(lines \cup {entry}, acked \cup {entry})
      BY <2>a, <3>0, MessageWritten DEF HasLatest
    <3>4. entry \in Ids /\ entry < nextEntry /\ role[entry] \in Roles
      BY <2>a, <3>0 DEF Made, TypeOK, Ids
    <3>5. Made' /\ Fresh' /\ Ordered'
      BY <2>a, <3>0, <3>4 DEF Made, Fresh, Ordered, Running
    <3>6. HasLatest' /\ InSync'
      BY <2>a, <3>0, <3>1, <3>2, <3>3 DEF HasLatest, InSync
    <3>7. Remembers(cache, acked)' /\ (fused = {} => Remembers(lines, acked))'
      BY <3>0, <3>1, <3>2, <3>3
    <3>8. Summarizing' /\ Marking' /\ Removing'
      BY <3>0 DEF Summarizing, Marking, Removing
    <3>. QED
      BY <3>5, <3>6, <3>7, <3>8 DEF LogInv
  <2>8. CASE AppendFails
    BY <2>8, <2>a, QuietStep DEF AppendFails, Fresh, Running
  <2>9. CASE Ask
    BY <2>9, <2>a, QuietStep DEF Ask, Fresh, Running
  <2>10. CASE NothingToAnswer
    BY <2>10, <2>a, QuietStep DEF NothingToAnswer, Fresh, Running
  <2>11. ASSUME NEW cut \in Ids \cup {NoEntry}, Emit(cut) PROVE LogInv'
    <3> DEFINE ids == Prunable(cache, cut)
    <3>0. /\ UNCHANGED <<content, file, cache, acked>> /\ Running /\ cut \in Cuts(cache)
          /\ \/ pc' = "idle"
             \/ pc' = "removing" /\ removal' = ids /\ NewlyEvicted(ids) = {}
             \/ pc' = "summarizing" /\ removal' = ids /\ entry' = cut /\ NewlyEvicted(ids) # {}
      BY <2>11 DEF Emit, Running
    <3>1. CASE pc' = "idle"
      BY <2>a, <3>0, <3>1, QuietStep DEF Fresh, Running
    <3>2. CASE pc' # "idle"
      <4>1. /\ Latest(cache)' = Latest(cache) /\ Latest(lines)' = Latest(lines)
            /\ Markers(cache)' = Markers(cache) /\ Markers(lines)' = Markers(lines)
            /\ Context(cache)' = Context(cache)
            /\ Remembers(cache, acked)' <=> Remembers(cache, acked)
            /\ Remembers(lines, acked)' <=> Remembers(lines, acked)
        BY <3>0, SameContent
      <4>2. Made' /\ Fresh' /\ Ordered' /\ Marking'
        BY <2>a, <3>0, <3>2 DEF Made, Fresh, Ordered, Marking, Running
      <4>3. HasLatest' /\ InSync'
        BY <2>a, <3>0, <4>1 DEF HasLatest, InSync
      <4>4. Removing'
        <5> SUFFICES ASSUME pc' = "removing", NEW e \in ids
                     PROVE  e \notin Context(cache) /\ e \notin Latest(cache)
          BY <3>0, <4>1 DEF Removing
        <5>1. e \notin NewlyEvicted(ids)
          BY <3>0
        <5>. QED
          BY <5>1, MarkerIsNoRole DEF NewlyEvicted, Prunable, Context, Latest, Markers, IsMessage
      <4>5. Summarizing'
        <5> SUFFICES ASSUME pc' = "summarizing"
                     PROVE  cut \in Context(cache) /\ Prunable(cache, cut) = Prunable(cache, entry)'
          BY <3>0, <4>1 DEF Summarizing
        <5>1. Context(cache) # {}
          BY <3>0 DEF NewlyEvicted, Prunable, Context
        <5>2. cut \in Context(cache)
          BY <3>0, <5>1 DEF Cuts, Heads
        <5>3. PinnedSystem(cache)' = PinnedSystem(cache)
          BY <3>0, <4>1 DEF PinnedSystem
        <5>4. Prunable(cache, cut) = Prunable(cache, entry)'
          BY <3>0, <4>1, <5>3 DEF Prunable, IsMessage
        <5>. QED
          BY <5>2, <5>4
      <4>. QED
        BY <2>a, <3>0, <4>1, <4>2, <4>3, <4>4, <4>5 DEF LogInv
    <3>. QED
      BY <3>1, <3>2
  <2>12. CASE SummaryFails
    BY <2>12, <2>a, QuietStep DEF SummaryFails, Fresh, Running
  <2>13. CASE Summarize
    BY <2>13, SummarizeStep
  <2>14. CASE Marked
    BY <2>14, MarkedStep
  <2>15. CASE RemoveEntries
    BY <2>15, RemoveStep
  <2>16. CASE RemoveFails
    BY <2>16, <2>a, QuietStep DEF RemoveFails, Fresh, Running
  <2>17. CASE Stop
    BY <2>17, EndedStep DEF Stop, Parses
  <2>18. CASE Crash
    BY <2>18, EndedStep DEF Crash
  <2>19. CASE UNCHANGED vars
    <3>0. UNCHANGED <<content, file, pc, cache, entry, removal, acked>>
      BY <2>19 DEF vars
    <3>1. /\ Latest(cache)' = Latest(cache) /\ Latest(lines)' = Latest(lines)
          /\ Markers(cache)' = Markers(cache) /\ Markers(lines)' = Markers(lines)
          /\ Context(cache)' = Context(cache)
          /\ Remembers(cache, acked)' <=> Remembers(cache, acked)
          /\ Remembers(lines, acked)' <=> Remembers(lines, acked)
      BY <3>0, SameContent
    <3>2. Made' /\ Fresh' /\ Ordered' /\ HasLatest' /\ InSync' /\ Removing'
      BY <2>a, <3>0, <3>1 DEF LogInv, Made, Fresh, Ordered, HasLatest, InSync, Running, Removing
    <3>3. Summarizing'
      BY <3>0, <3>1 DEF LogInv, Summarizing, Prunable, PinnedSystem, IsMessage
    <3>4. Marking'
      BY <3>0 DEF LogInv, Marking, IsMessage
    <3>. QED
      BY <2>a, <3>0, <3>1, <3>2, <3>3, <3>4 DEF LogInv, Running
  <2>. QED
    BY <2>1, <2>2, <2>3, <2>4, <2>5, <2>6, <2>7, <2>8, <2>9, <2>10, <2>11, <2>12,
       <2>13, <2>14, <2>15, <2>16, <2>17, <2>18, <2>19 DEF Next
<1>. QED
  BY <1>1, <1>2, SessionTypeCorrect, PTL DEF Spec

\* Whatever append() returned Ok for is in the lines of the file, shown or
\* summarized, as long as no fragment has become part of a line.
THEOREM NothingForgottenHolds == Spec => []NothingForgotten
<1>1. LogInv => NothingForgotten
  BY DEF LogInv, Remembers, NothingForgotten
<1>. QED
  BY <1>1, LogInvHolds, PTL

\* What the last summary tells of is not in the context.
THEOREM SummarizedOnceHolds == Spec => []SummarizedOnce
<1>1. TypeOK /\ LogInv => SummarizedOnce
  <2> SUFFICES ASSUME TypeOK, LogInv, NEW m \in Latest(cache), NEW e \in covers[m],
                      e \in Context(cache)
               PROVE  FALSE
    BY DEF SummarizedOnce
  <2>1. /\ m \in Ids /\ e \in Ids /\ firstKept[m] \in Ids
        /\ firstKept[m] < m /\ e < firstKept[m]
    BY DEF LogInv, Ordered, Latest, Markers, TypeOK, Context
  <2>2. IF firstKept[m] \in cache THEN e >= firstKept[m] ELSE e > m
    BY DEF Context, Shows
  <2>. QED
    BY <2>1, <2>2 DEF Ids
<1>. QED
  BY <1>1, LogInvHolds, SessionTypeCorrect, PTL

\* A stored message is shown or summarized, and not both, and no entry is glued
\* to what a crash left.  Nothing is said of whether load accepts what the crash
\* left: it refuses a line torn inside a character.
THEOREM ToldOnceHolds == Spec => []ToldOnce
<1>1. NothingForgotten /\ SummarizedOnce /\ CrashTailsAreCut => ToldOnce
  BY DEF ToldOnce
<1>. QED
  BY <1>1, NothingForgottenHolds, SummarizedOnceHolds, CrashTailsAreCutHolds, PTL

-----------------------------------------------------------------------------
(* The file keeps the transcript: Recall.                                   *)

\* What the summary of the last marker tells of.
Tells(log) == UNION {covers[m] : m \in Latest(log)}

\* The message the last marker keeps first is never removed.
KeptFirst ==
    /\ Running => \A m \in Latest(cache) : firstKept[m] \in cache
    /\ fused = {} => \A m \in Latest(lines) : firstKept[m] \in lines

\* What the file has beyond the cache is hidden by the last marker.
SameContext == Running /\ fused = {} => Context(lines) = Context(cache)

\* The marker that is being appended tells of what the last one told of and of
\* the messages it will hide, and of nothing else.
Telling ==
    pc = "marking" =>
        /\ firstKept[entry] \in Context(cache)
        /\ Spoken(covers[entry]) =
               Spoken(Tells(cache) \cup {e \in Context(cache) : e < firstKept[entry]})

RecallInv == KeptFirst /\ SameContext /\ Telling

\* Only the entry that is being made gets contents.
Settled ==
    /\ \A e \in lines' \cup cache' \cup acked' : e \in Ids /\ e < nextEntry
    /\ \A e \in Ids : e < nextEntry =>
           role'[e] = role[e] /\ firstKept'[e] = firstKept[e] /\ covers'[e] = covers[e]

\* What a step does to the file.
Writes ==
    /\ ~Lost' => ~Lost
    /\ fused' = {} => fused = {}
    /\ \/ lines' = lines
       \/ pc \in {"appending", "marking"} /\ lines' = lines \cup {entry}
       \/ pc = "removing" /\ lines' = lines \ removal

\* What a step of a module that goes on running does to the cache.
Caches ==
    ~(pc' \in {"stopped", "heading"}) =>
        \/ Running /\ cache' = cache /\ lines' = lines
        \/ cache' = lines /\ lines' = lines /\ fused = {}
        \/ cache' = {} /\ lines' = {}
        \/ /\ pc \in {"appending", "marking"} /\ cache' = cache \cup {entry}
           /\ lines' = lines \cup {entry} \/ fused' # {}
        \/ /\ pc = "removing" /\ cache' = cache \ removal
           /\ lines' \in {lines, lines \ removal}

\* Every step treats the file and the cache in one of these ways.
LEMMA StepsAre ==
    ASSUME TypeOK, LogInv, [Next]_vars
    PROVE  Settled /\ Writes /\ Caches
<1> USE DEF content, file
<1>0. /\ \A e \in lines \cup cache \cup acked : e \in Ids /\ e < nextEntry
      /\ nextEntry \in Nat /\ nextEntry >= 1
      /\ pc \in {"appending", "marking"} => entry \in Ids /\ entry < nextEntry
      /\ header # "whole" => lines = {} /\ acked = {} /\ ~Running
      /\ pc = "heading" => header # "whole"
  BY DEF TypeOK, LogInv, Made, Fresh, Ids
<1>a. ASSUME UNCHANGED content, lines' \cup cache' \cup acked' \subseteq lines \cup cache \cup acked
      PROVE  Settled
  BY <1>0, <1>a DEF Settled
<1>b. ASSUME UNCHANGED content, pc \in {"appending", "marking"},
             lines' \cup cache' \cup acked' \subseteq lines \cup cache \cup acked \cup {entry}
      PROVE  Settled
  BY <1>0, <1>b DEF Settled
<1>c. ASSUME NEW e, WriteLine(e)
      PROVE  /\ lines' = lines \/ lines' = lines \cup {e}
             /\ lines' = lines \cup {e} \/ fused' # {}
             /\ ~Lost' => ~Lost
             /\ fused' = {} => fused = {}
  BY <1>c DEF WriteLine, Lost, NoTail
<1>d. ASSUME NEW by, Tear(by), tail.split PROVE tail'.split
  <2>1. PICK split \in BOOLEAN : tail' = [by |-> by, split |-> split \/ tail.split]
    BY <1>d DEF Tear
  <2>2. tail'.split = (split \/ tail.split)
    BY <2>1
  <2>. QED
    BY <1>d, <2>2, Zenon
<1>1. CASE Load
  BY <1>1, <1>a DEF Load, Parses, Writes, Caches, Lost
<1>2. CASE LoadFails
  BY <1>2, <1>a DEF LoadFails, Writes, Caches, Lost
<1>3. CASE CreateFile
  BY <1>3, <1>a DEF CreateFile, Writes, Caches, Lost
<1>4. CASE WriteHeader
  BY <1>0, <1>4, <1>a DEF WriteHeader, Writes, Caches, Lost
<1>5. CASE HeaderFails
  BY <1>5, <1>a DEF HeaderFails, Writes, Caches, Lost
<1>6. ASSUME NEW r \in Roles, Receive(r) PROVE Settled /\ Writes /\ Caches
  <2>1. Settled
    BY <1>0, <1>6 DEF Receive, Settled, TypeOK
  <2>. QED
    BY <1>6, <2>1 DEF Receive, Writes, Caches, Lost, Running
<1>7. CASE Appended
  BY <1>7, <1>b, <1>c DEF Appended, Writes, Caches
<1>8. CASE AppendFails
  <2>1. ~Lost' => ~Lost
    BY <1>8, <1>d DEF AppendFails, Lost
  <2>. QED
    BY <1>8, <1>a, <2>1 DEF AppendFails, Writes, Caches, Running
<1>9. CASE Ask
  BY <1>9, <1>a DEF Ask, Writes, Caches, Lost, Running
<1>10. CASE NothingToAnswer
  BY <1>10, <1>a DEF NothingToAnswer, Writes, Caches, Lost, Running
<1>11. ASSUME NEW cut, Emit(cut) PROVE Settled /\ Writes /\ Caches
  BY <1>11, <1>a DEF Emit, Writes, Caches, Lost, Running
<1>12. CASE SummaryFails
  BY <1>12, <1>a DEF SummaryFails, Writes, Caches, Lost, Running
<1>13. CASE Summarize
  <2>1. Settled
    BY <1>0, <1>13 DEF Summarize, Settled, TypeOK
  <2>. QED
    BY <1>13, <2>1 DEF Summarize, Writes, Caches, Lost, Running
<1>14. CASE Marked
  BY <1>14, <1>b, <1>c DEF Marked, Writes, Caches
<1>15. CASE RemoveEntries
  <2>1. Settled
    BY <1>15, <1>a DEF RemoveEntries
  <2>. QED
    BY <1>15, <2>1 DEF RemoveEntries, Parses, Writes, Caches, Lost, NoTail
<1>16. CASE RemoveFails
  BY <1>16, <1>a DEF RemoveFails, Writes, Caches, Lost, Running
<1>17. CASE Stop
  <2>0. /\ UNCHANGED content /\ acked' = acked /\ cache' = {} /\ pc' = "stopped"
        /\ \/ UNCHANGED <<lines, fused, tail>>
           \/ pc \in {"appending", "marking"} /\ WriteLine(entry)
           \/ pc = "removing" /\ lines' = lines \ removal /\ fused' = fused
              /\ Parses /\ tail' = NoTail
    BY <1>17 DEF Stop, Ended
  <2>1. CASE UNCHANGED <<lines, fused, tail>>
    BY <1>a, <2>0, <2>1 DEF Writes, Caches, Lost
  <2>2. CASE pc \in {"appending", "marking"} /\ WriteLine(entry)
    BY <1>b, <1>c, <2>0, <2>2 DEF Writes, Caches
  <2>3. CASE pc = "removing" /\ lines' = lines \ removal /\ fused' = fused /\ Parses /\ tail' = NoTail
    BY <1>a, <2>0, <2>3 DEF Writes, Caches, Lost, Parses
  <2>. QED
    BY <2>0, <2>1, <2>2, <2>3
<1>18. CASE Crash
  <2>1. ~Lost' => ~Lost
    BY <1>18, <1>d DEF Crash, Lost
  <2>. QED
    BY <1>18, <1>a, <2>1 DEF Crash, Ended, Writes, Caches
<1>19. CASE UNCHANGED vars
  BY <1>19, <1>a DEF vars, Writes, Caches, Lost, Running
<1>. QED
  BY <1>1, <1>2, <1>3, <1>4, <1>5, <1>6, <1>7, <1>8, <1>9, <1>10, <1>11, <1>12,
     <1>13, <1>14, <1>15, <1>16, <1>17, <1>18, <1>19 DEF Next

\* What the operators say of the next state they say of it with this one's
\* contents.
LEMMA SameWords ==
    ASSUME TypeOK, LogInv, Settled
    PROVE  /\ Latest(lines)' = Latest(lines') /\ Latest(cache)' = Latest(cache')
           /\ Context(lines)' = Context(lines') /\ Context(cache)' = Context(cache')
           /\ Spoken(Context(lines))' = Spoken(Context(lines'))
           /\ Spoken(Tells(lines))' = Spoken(Tells(lines'))
           /\ \A m \in Latest(lines') \cup Latest(cache') : firstKept'[m] = firstKept[m]
<1>1. \A e \in lines' \cup cache' \cup acked' :
          /\ e \in Ids /\ e < nextEntry
          /\ role'[e] = role[e] /\ firstKept'[e] = firstKept[e] /\ covers'[e] = covers[e]
  BY DEF Settled
<1>2. /\ Latest(lines)' = Latest(lines') /\ Latest(cache)' = Latest(cache')
      /\ Context(lines)' = Context(lines') /\ Context(cache)' = Context(cache')
  BY <1>1, SameContent
<1>3. Context(lines') \subseteq lines'
  BY DEF Context
<1>4. Latest(lines') \subseteq lines' /\ Latest(cache') \subseteq cache'
  BY DEF Latest, Markers
<1>5. Spoken(Context(lines))' = Spoken(Context(lines'))
  BY <1>1, <1>2, <1>3 DEF Spoken
<1>6. ASSUME NEW m \in Latest(lines'), NEW e \in covers[m] PROVE role'[e] = role[e]
  <2>1. /\ m \in Ids /\ m < nextEntry /\ e \in Ids /\ firstKept[m] \in Ids
        /\ firstKept[m] < m /\ e < firstKept[m]
    BY <1>1, <1>4, <1>6 DEF LogInv, Ordered, TypeOK, Latest, Markers
  <2>2. e < nextEntry
    BY <2>1 DEF Ids, TypeOK
  <2>. QED
    BY <2>1, <2>2 DEF Settled
<1>7. Tells(lines)' = Tells(lines')
  BY <1>1, <1>2, <1>4 DEF Tells
<1>8. Spoken(Tells(lines))' = Spoken(Tells(lines'))
  BY <1>6, <1>7 DEF Spoken, Tells
<1>. QED
  BY <1>1, <1>2, <1>4, <1>5, <1>8

\* Removing what is neither shown nor the last marker hides nothing and brings
\* nothing back, if the message the marker keeps first is there.
LEMMA RemovalKeeps ==
    ASSUME TypeOK, Ordered, NEW log \in SUBSET Ids, NEW gone,
           gone \cap (Context(log) \cup Latest(log)) = {},
           Markers(log) # {} => Latest(log) # {},
           \A m \in Latest(log) : firstKept[m] \in log
    PROVE  /\ Latest(log \ gone) = Latest(log)
           /\ Context(log \ gone) = Context(log)
           /\ \A m \in Latest(log) : firstKept[m] \in log \ gone
<1>1. Latest(log \ gone) = Latest(log)
  BY LatestStays
<1>2. Context(log) \subseteq Context(log \ gone)
  BY ContextStays
<1>3. ASSUME NEW m \in Latest(log) PROVE firstKept[m] \in log \ gone
  <2>1. firstKept[m] \in Ids /\ IsMessage(firstKept[m]) /\ firstKept[m] \in log
    BY <1>3 DEF Latest, Markers, Ordered, IsMessage
  <2>2. Shows(log, firstKept[m])
    BY <1>3, <2>1, LatestIsOne DEF Shows, Ids
  <2>. QED
    BY <2>1, <2>2 DEF Context
<1>4. \A e : Shows(log \ gone, e) => Shows(log, e)
  BY <1>1, <1>3 DEF Shows
<1>5. Context(log \ gone) \subseteq Context(log)
  BY <1>4 DEF Context
<1>. QED
  BY <1>1, <1>2, <1>3, <1>5

\* The marker that is appended to a log folds what comes before the message it
\* keeps first.
LEMMA MarkerFolds ==
    ASSUME TypeOK, LogInv, RecallInv, pc = "marking", NEW log \in SUBSET Ids,
           \A e \in log : e < entry,
           Context(log) = Context(cache), Latest(log) = Latest(cache)
    PROVE  LET kept == firstKept[entry]
           IN  /\ Latest(log \cup {entry}) = {entry}
               /\ kept \in log
               /\ Context(log \cup {entry}) = {e \in Context(log) : e >= kept}
               /\ Spoken(Tells(log \cup {entry})) =
                      Spoken(Tells(log)) \cup {e \in Spoken(Context(log)) : e < kept}
<1> DEFINE kept == firstKept[entry]
<1>1. /\ entry \in Ids /\ role[entry] = "marker" /\ ~IsMessage(entry)
      /\ kept \in Context(log) /\ kept \in Ids
      /\ Spoken(covers[entry]) = Spoken(Tells(log) \cup {e \in Context(log) : e < kept})
  BY MarkerIsNoRole DEF TypeOK, RecallInv, Telling, Context, IsMessage, Tells
<1>2. Latest(log \cup {entry}) = {entry}
  BY <1>1, MarkerAppended
<1>3. kept \in log /\ Shows(log, kept)
  BY <1>1 DEF Context
<1>4. \A e \in log : Shows(log \cup {entry}, e) <=> e >= kept
  BY <1>2, <1>3 DEF Shows
<1>5. ASSUME NEW e \in log, e >= kept PROVE Shows(log, e)
  <2> SUFFICES ASSUME NEW m \in Latest(log)
               PROVE  IF firstKept[m] \in log THEN e >= firstKept[m] ELSE e > m
    BY DEF Shows
  <2>1. IF firstKept[m] \in log THEN kept >= firstKept[m] ELSE kept > m
    BY <1>3 DEF Shows
  <2>2. m \in Ids /\ e \in Ids /\ (firstKept[m] \in log => firstKept[m] \in Ids)
    BY DEF Latest, Markers
  <2>3. CASE firstKept[m] \in log
    BY <1>1, <1>5, <2>1, <2>2, <2>3 DEF Ids
  <2>4. CASE firstKept[m] \notin log
    BY <1>1, <1>5, <2>1, <2>2, <2>4 DEF Ids
  <2>. QED
    BY <2>3, <2>4
<1>6. Context(log \cup {entry}) = {e \in Context(log) : e >= kept}
  <2>1. ASSUME NEW e \in Context(log \cup {entry}) PROVE e \in Context(log) /\ e >= kept
    BY <1>1, <1>4, <1>5, <2>1 DEF Context
  <2>2. ASSUME NEW e \in Context(log), e >= kept PROVE e \in Context(log \cup {entry})
    BY <1>4, <2>2 DEF Context
  <2>. QED
    BY <2>1, <2>2
<1>7. Tells(log \cup {entry}) = covers[entry]
  BY <1>2 DEF Tells
<1>8. Spoken(Tells(log \cup {entry})) =
          Spoken(Tells(log)) \cup {e \in Spoken(Context(log)) : e < kept}
  BY <1>1, <1>7 DEF Spoken
<1>. QED
  BY <1>2, <1>3, <1>6, <1>8

\* A marker is made that tells of the last summary and of what will be hidden.
LEMMA SummaryTells ==
    ASSUME TypeOK, LogInv, Summarize
    PROVE  Telling'
<1>0. /\ pc = "summarizing" /\ nextEntry \in Ids /\ entry' = nextEntry
      /\ role' = [role EXCEPT ![nextEntry] = "marker"]
      /\ firstKept' = [firstKept EXCEPT ![nextEntry] = entry]
      /\ covers' = [covers EXCEPT ![nextEntry] = NewlyEvicted(removal) \cup Tells(cache)]
      /\ cache' = cache
  BY DEF Summarize, Tells
<1>1. entry \in Context(cache) /\ removal = Prunable(cache, entry)
  BY <1>0 DEF LogInv, Summarizing
<1>2. Settled
  BY StepsAre DEF Next
<1>3. /\ Latest(cache)' = Latest(cache) /\ Context(cache)' = Context(cache)
      /\ firstKept'[entry'] = entry
      /\ covers'[entry'] = NewlyEvicted(removal) \cup Tells(cache)
  BY <1>0, <1>2, SameWords DEF TypeOK
<1>4. \A e \in Context(cache) : e \in cache /\ e \in Ids /\ IsMessage(e) /\ Shows(cache, e)
  BY DEF Context, TypeOK
<1>5. Spoken(NewlyEvicted(removal)) = Spoken({e \in Context(cache) : e < entry})
  <2>1. ASSUME NEW e \in Spoken(NewlyEvicted(removal)) PROVE e \in Context(cache) /\ e < entry
    BY <1>1, <2>1 DEF Spoken, NewlyEvicted, Prunable, Context
  <2>2. ASSUME NEW e \in Context(cache), e < entry, role[e] # "system"
        PROVE  e \in NewlyEvicted(removal)
    BY <1>1, <1>4, <2>2 DEF NewlyEvicted, Prunable, PinnedSystem
  <2>. QED
    BY <2>1, <2>2 DEF Spoken
<1>6. \A m \in Latest(cache) : \A e \in covers[m] : e # nextEntry
  BY <1>0 DEF LogInv, Made, Ordered, Latest, Markers, TypeOK, Ids
<1>7. Tells(cache)' = Tells(cache)
  <2>1. \A m \in Latest(cache) : m \in Ids /\ m < nextEntry
    BY DEF LogInv, Made, Latest, Markers, TypeOK
  <2>2. \A m \in Latest(cache) : covers'[m] = covers[m]
    BY <1>2, <2>1 DEF Settled
  <2>. QED
    BY <1>3, <2>2 DEF Tells
<1>8. \A e \in covers'[entry'] \cup Tells(cache) \cup Context(cache) : role'[e] = role[e]
  <2>1. \A e \in Context(cache) : role'[e] = role[e]
    BY <1>2, <1>4 DEF LogInv, Made, Settled
  <2>2. ASSUME NEW m \in Latest(cache), NEW e \in covers[m] PROVE role'[e] = role[e]
    <3>1. m \in Ids /\ e \in Ids
      BY <2>2 DEF Latest, Markers, TypeOK
    <3>. QED
      BY <1>0, <1>6, <2>2, <3>1 DEF TypeOK
  <2>3. \A e \in NewlyEvicted(removal) : e \in Context(cache)
    BY <1>1 DEF NewlyEvicted, Prunable, Context
  <2>. QED
    BY <1>3, <2>1, <2>2, <2>3 DEF Tells
<1>9. Spoken(covers'[entry']) =
          Spoken(Tells(cache) \cup {e \in Context(cache) : e < entry})
  BY <1>3, <1>5 DEF Spoken
<1>10. Spoken(covers[entry])' = Spoken(covers'[entry'])
  BY <1>8 DEF Spoken
<1>11. Spoken(Tells(cache) \cup {e \in Context(cache) : e < firstKept[entry]})' =
           Spoken(Tells(cache) \cup {e \in Context(cache) : e < entry})
  BY <1>3, <1>7, <1>8 DEF Spoken
<1>. QED
  BY <1>1, <1>3, <1>9, <1>10, <1>11 DEF Telling

\* What a file that is still good holds while entries join or leave it.
LEMMA FileStep ==
    ASSUME TypeOK, LogInv, RecallInv, Writes, fused' = {}
    PROVE  \/ lines' = lines
           \/ /\ pc = "appending" /\ lines' = lines \cup {entry}
              /\ Latest(lines') = Latest(lines)
              /\ Context(lines') = Context(lines) \cup {entry}
           \/ /\ pc = "marking" /\ lines' = lines \cup {entry}
              /\ Latest(lines') = {entry} /\ firstKept[entry] \in lines
              /\ Context(lines') = {e \in Context(lines) : e >= firstKept[entry]}
              /\ Spoken(Tells(lines')) =
                     Spoken(Tells(lines))
                     \cup {e \in Spoken(Context(lines)) : e < firstKept[entry]}
           \/ /\ pc = "removing" /\ lines' = lines \ removal
              /\ Latest(lines') = Latest(lines) /\ Context(lines') = Context(lines)
              /\ \A m \in Latest(lines) : firstKept[m] \in lines'
<1>1. /\ fused = {} /\ lines \in SUBSET Ids /\ Ordered
      /\ Markers(lines) # {} => Latest(lines) # {}
      /\ \A m \in Latest(lines) : firstKept[m] \in lines
  BY DEF Writes, TypeOK, LogInv, HasLatest, RecallInv, KeptFirst
<1>2. Running => Latest(lines) = Latest(cache) /\ Context(lines) = Context(cache)
  BY <1>1 DEF LogInv, InSync, RecallInv, SameContext
<1>3. pc \in {"appending", "marking"} => entry \in Ids /\ \A e \in lines : e < entry
  BY DEF TypeOK, LogInv, Made
<1>4. CASE pc = "appending" /\ lines' = lines \cup {entry}
  <2>1. IsMessage(entry)
    BY <1>4 DEF TypeOK, IsMessage
  <2>. QED
    BY <1>1, <1>3, <1>4, <2>1, MessageAppended
<1>5. CASE pc = "marking" /\ lines' = lines \cup {entry}
  <2>1. Latest(lines) = Latest(cache) /\ Context(lines) = Context(cache)
    BY <1>2, <1>5 DEF Running
  <2>. QED
    BY <1>1, <1>3, <1>5, <2>1, MarkerFolds
<1>6. CASE pc = "removing" /\ lines' = lines \ removal
  <2>1. removal \cap (Context(lines) \cup Latest(lines)) = {}
    BY <1>2, <1>6 DEF LogInv, Removing, Running
  <2>. QED
    BY <1>1, <1>6, <2>1, RemovalKeeps
<1>. QED
  BY <1>4, <1>5, <1>6 DEF Writes

\* A step keeps what the refinement rests on.
LEMMA RecallInvStays ==
    ASSUME TypeOK, LogInv, RecallInv, [Next]_vars
    PROVE  RecallInv'
<1>1. Settled /\ Writes /\ Caches
  BY StepsAre
<1>2. /\ Latest(lines)' = Latest(lines') /\ Latest(cache)' = Latest(cache')
      /\ Context(lines)' = Context(lines') /\ Context(cache)' = Context(cache')
      /\ \A m \in Latest(lines') \cup Latest(cache') : firstKept'[m] = firstKept[m]
  BY <1>1, SameWords
<1>3. /\ Running => \A m \in Latest(cache) : firstKept[m] \in cache
      /\ fused = {} => \A m \in Latest(lines) : firstKept[m] \in lines
      /\ Running /\ fused = {} => Context(lines) = Context(cache) /\ Latest(lines) = Latest(cache)
      /\ cache \in SUBSET Ids /\ Ordered
      /\ Markers(cache) # {} => Latest(cache) # {}
  BY DEF RecallInv, KeptFirst, SameContext, LogInv, InSync, HasLatest, TypeOK
<1>4. fused' = {} => \A m \in Latest(lines') : firstKept[m] \in lines'
  <2> SUFFICES ASSUME fused' = {}, NEW m \in Latest(lines') PROVE firstKept[m] \in lines'
    OBVIOUS
  <2>1. fused = {}
    BY <1>1 DEF Writes
  <2>. QED
    BY <1>1, <1>3, <2>1, FileStep
<1>5. ASSUME Running'
      PROVE  /\ \A m \in Latest(cache') : firstKept[m] \in cache'
             /\ fused' = {} => Context(lines') = Context(cache')
  <2>0. fused' = {} => fused = {}
    BY <1>1 DEF Writes
  <2>1. CASE Running /\ cache' = cache /\ lines' = lines
    BY <1>3, <2>0, <2>1
  <2>2. CASE cache' = lines /\ lines' = lines /\ fused = {}
    BY <1>3, <2>2
  <2>3. CASE cache' = {} /\ lines' = {}
    BY <2>3 DEF Latest, Markers
  <2>4. CASE /\ pc = "appending" /\ cache' = cache \cup {entry}
             /\ lines' = lines \cup {entry} \/ fused' # {}
    <3>1. /\ entry \in Ids /\ IsMessage(entry) /\ \A e \in cache : e < entry
          /\ entry \notin lines
      BY <2>4 DEF TypeOK, LogInv, Made, IsMessage, Ids
    <3>2. Latest(cache') = Latest(cache) /\ Context(cache') = Context(cache) \cup {entry}
      BY <1>3, <2>4, <3>1, MessageAppended
    <3>3. Running
      BY <2>4 DEF Running
    <3>4. fused' = {} => Context(lines') = Context(lines) \cup {entry}
      BY <1>1, <2>4, <3>1, FileStep
    <3>. QED
      BY <1>3, <2>0, <2>4, <3>2, <3>3, <3>4
  <2>5. CASE /\ pc = "marking" /\ cache' = cache \cup {entry}
             /\ lines' = lines \cup {entry} \/ fused' # {}
    <3>1. entry \in Ids /\ (\A e \in cache : e < entry) /\ entry \notin lines
      BY <2>5 DEF TypeOK, LogInv, Made, Ids
    <3>2. /\ Latest(cache') = {entry} /\ firstKept[entry] \in cache
          /\ Context(cache') = {e \in Context(cache) : e >= firstKept[entry]}
      BY <1>3, <2>5, <3>1, MarkerFolds
    <3>3. Running
      BY <2>5 DEF Running
    <3>4. fused' = {} => Context(lines') = {e \in Context(lines) : e >= firstKept[entry]}
      BY <1>1, <2>5, <3>1, FileStep
    <3>. QED
      BY <1>3, <2>0, <2>5, <3>2, <3>3, <3>4
  <2>6. CASE /\ pc = "removing" /\ cache' = cache \ removal
             /\ lines' \in {lines, lines \ removal}
    <3>1. Running /\ removal \cap (Context(cache) \cup Latest(cache)) = {}
      BY <2>6 DEF LogInv, Removing, Running
    <3>2. /\ Latest(cache') = Latest(cache) /\ Context(cache') = Context(cache)
          /\ \A m \in Latest(cache) : firstKept[m] \in cache'
      BY <1>3, <2>6, <3>1, RemovalKeeps
    <3>3. fused' = {} => Context(lines') = Context(lines)
      BY <1>1, <2>6, FileStep
    <3>. QED
      BY <1>3, <2>0, <3>1, <3>2, <3>3
  <2>. QED
    BY <1>1, <1>5, <2>1, <2>2, <2>3, <2>4, <2>5, <2>6 DEF Caches, Running
<1>6. KeptFirst' /\ SameContext'
  BY <1>2, <1>4, <1>5 DEF KeptFirst, SameContext
<1>7. Telling'
  <2>1. CASE pc' # "marking"
    BY <2>1 DEF Telling
  <2>2. CASE Summarize
    BY <2>2, SummaryTells
  <2>3. CASE pc' = "marking" /\ ~Summarize
    <3>1. UNCHANGED vars
      BY <2>3 DEF Next, Load, LoadFails, CreateFile, WriteHeader, HeaderFails, Receive, Appended,
                  AppendFails, Ask, NothingToAnswer, Emit, SummaryFails, Marked, RemoveEntries,
                  RemoveFails, Stop, Crash, Ended
    <3>2. UNCHANGED content /\ cache' = cache /\ entry' = entry /\ pc' = pc
      BY <3>1 DEF vars, content
    <3>3. Latest(cache)' = Latest(cache) /\ Context(cache)' = Context(cache)
      BY <1>2, <3>2
    <3>4. Tells(cache)' = Tells(cache)
      BY <3>2, <3>3 DEF Tells, content
    <3>. QED
      BY <3>2, <3>3, <3>4 DEF RecallInv, Telling, Spoken, content
  <2>. QED
    BY <2>1, <2>2, <2>3
<1>. QED
  BY <1>6, <1>7 DEF RecallInv

\* The transcript starts empty and grows and folds with the file, or the file
\* is lost.
LEMMA TranscriptStep ==
    ASSUME TypeOK, LogInv, RecallInv, [Next]_vars
    PROVE  [Transcript!Next]_Transcript!vars
<1> DEFINE shown == IF Lost THEN {} ELSE Spoken(Context(lines))
           told  == IF Lost THEN {} ELSE Spoken(Tells(lines))
<1>0. told = IF Lost THEN {} ELSE Spoken(UNION {covers[m] : m \in Latest(lines)})
  BY DEF Tells
<1>a. ASSUME shown' = shown, told' = told, Lost' = Lost PROVE UNCHANGED Transcript!vars
  BY <1>a DEF Transcript!vars, Tells
<1>b. ASSUME NEW e \in Ids, ~Lost, Lost' = Lost, shown' = shown \cup {e}, told' = told,
             \A d \in shown \cup told : d < e
      PROVE  Transcript!Next
  <2>1. Transcript!Say(e)
    BY <1>b DEF Transcript!Say, Tells
  <2>. QED
    BY <2>1 DEF Transcript!Next
<1>c. ASSUME NEW kept \in Ids, ~Lost, Lost' = Lost, shown' = {e \in shown : e >= kept},
             told' = told \cup {e \in shown : e < kept}
      PROVE  Transcript!Next
  <2>1. Transcript!Fold(kept)
    BY <1>c DEF Transcript!Fold, Tells
  <2>. QED
    BY <2>1 DEF Transcript!Next
<1>d. ASSUME Lost' PROVE Transcript!Next
  <2>1. Transcript!Lose
    BY <1>d DEF Transcript!Lose
  <2>. QED
    BY <2>1 DEF Transcript!Next
<1>1. Settled /\ Writes
  BY StepsAre
<1>2. SUFFICES ASSUME ~Lost' PROVE [Transcript!Next]_Transcript!vars
  BY <1>d
<1>3. /\ ~Lost /\ Lost' = Lost /\ fused = {} /\ fused' = {}
      /\ shown = Spoken(Context(lines)) /\ told = Spoken(Tells(lines))
  BY <1>1, <1>2 DEF Writes, Lost
<1>4. shown' = Spoken(Context(lines')) /\ told' = Spoken(Tells(lines'))
  <2>1. shown' = Spoken(Context(lines))' /\ told' = Spoken(Tells(lines))'
    BY <1>2
  <2>. QED
    BY <1>1, <2>1, SameWords
<1> HIDE DEF shown, told
<1>5. CASE lines' = lines
  BY <1>3, <1>4, <1>5, <1>a
<1>6. CASE /\ pc = "appending" /\ lines' = lines \cup {entry}
           /\ Latest(lines') = Latest(lines)
           /\ Context(lines') = Context(lines) \cup {entry}
  <2>1. entry \in Ids /\ \A e \in lines : e < entry
    BY <1>6 DEF TypeOK, LogInv, Made
  <2>2. told' = told
    BY <1>3, <1>4, <1>6 DEF Tells
  <2>3. CASE role[entry] = "system"
    <3>1. shown' = shown
      BY <1>3, <1>4, <1>6, <2>3 DEF Spoken
    <3>. QED
      BY <1>3, <1>a, <2>2, <3>1
  <2>4. CASE role[entry] # "system"
    <3>1. shown' = shown \cup {entry}
      BY <1>3, <1>4, <1>6, <2>4 DEF Spoken
    <3>2. \A d \in shown : d < entry
      BY <1>3, <2>1 DEF Spoken, Context
    <3>3. ASSUME NEW d \in told PROVE d < entry
      <4>1. PICK m \in Latest(lines) : d \in covers[m]
        BY <1>3 DEF Spoken, Tells
      <4>2. /\ m \in Ids /\ m \in lines /\ d \in Ids /\ firstKept[m] \in Ids
            /\ firstKept[m] < m /\ d < firstKept[m]
        BY <4>1 DEF TypeOK, LogInv, Ordered, Latest, Markers
      <4>. QED
        BY <2>1, <4>2 DEF Ids
    <3>. QED
      BY <1>3, <1>b, <2>1, <2>2, <3>1, <3>2, <3>3
  <2>. QED
    BY <2>3, <2>4
<1>7. CASE /\ pc = "marking" /\ lines' = lines \cup {entry}
           /\ Latest(lines') = {entry} /\ firstKept[entry] \in lines
           /\ Context(lines') = {e \in Context(lines) : e >= firstKept[entry]}
           /\ Spoken(Tells(lines')) =
                  Spoken(Tells(lines))
                  \cup {e \in Spoken(Context(lines)) : e < firstKept[entry]}
  <2>1. firstKept[entry] \in Ids
    BY <1>7 DEF TypeOK
  <2>2. shown' = {e \in shown : e >= firstKept[entry]}
    BY <1>3, <1>4, <1>7 DEF Spoken
  <2>3. told' = told \cup {e \in shown : e < firstKept[entry]}
    BY <1>3, <1>4, <1>7
  <2>. QED
    BY <1>3, <1>c, <2>1, <2>2, <2>3
<1>8. CASE /\ pc = "removing" /\ lines' = lines \ removal
           /\ Latest(lines') = Latest(lines) /\ Context(lines') = Context(lines)
  <2>1. shown' = shown /\ told' = told
    BY <1>3, <1>4, <1>8 DEF Tells
  <2>. QED
    BY <1>3, <1>a, <2>1
<1>. QED
  BY <1>1, <1>3, <1>5, <1>6, <1>7, <1>8, FileStep

\* The invariant holds from the start and through every step.
LEMMA RecallInvHolds == Spec => []RecallInv
<1>1. Init => RecallInv
  BY DEF Init, RecallInv, KeptFirst, SameContext, Telling, Running, Latest, Markers
<1>2. TypeOK /\ LogInv /\ RecallInv /\ [Next]_vars => RecallInv'
  BY RecallInvStays
<1>. QED
  BY <1>1, <1>2, SessionTypeCorrect, LogInvHolds, PTL DEF Spec

\* The session file implements Recall: whatever stops, tears or fails, the
\* conversation it holds only grows at its end and is folded at its beginning,
\* until it cannot be loaded any more.
THEOREM KeepsTranscriptHolds == Spec => KeepsTranscript
<1>1. Init => Transcript!Init
  BY DEF Init, Transcript!Init, Lost, NoTail, Spoken, Context, Latest, Markers
<1>2. TypeOK /\ LogInv /\ RecallInv /\ [Next]_vars => [Transcript!Next]_Transcript!vars
  BY TranscriptStep
<1>. QED
  BY <1>1, <1>2, SessionTypeCorrect, LogInvHolds, RecallInvHolds, PTL
     DEF Spec, KeepsTranscript, Transcript!Spec

-----------------------------------------------------------------------------
(* Numbers, overlays and options.                                           *)

\* A set of natural numbers has a least one.
LEMMA LeastOf ==
    ASSUME NEW T \in SUBSET Nat, T # {}
    PROVE  \E x \in T : \A y \in T : x <= y
<1> DEFINE Less == {ss \in Nat \X Nat : ss[1] < ss[2]}
<1>1. IsWellFoundedOn(Less, Nat)
  BY NatLessThanWellFounded DEF OpToRel
<1>2. \E x \in T : \A y \in T : ~ (<<y, x>> \in Less)
  <2>. HIDE DEF Less
  <2>. QED
    BY <1>1, WFMin
<1>3. \A x, y \in T : ~ (<<y, x>> \in Less) => x <= y
  OBVIOUS
<1>. QED
  BY <1>2, <1>3

\* Min is the least of a set of natural numbers.
LEMMA MinIsLeast ==
    ASSUME NEW T \in SUBSET Nat, T # {}
    PROVE  Min(T) \in T /\ \A y \in T : Min(T) <= y
  BY LeastOf DEF Min

\* Max of zero and a number.
LEMMA MaxOfZero ==
    ASSUME NEW r \in Int
    PROVE  Max({0, r}) = IF r > 0 THEN r ELSE 0
<1>1. \E x \in {0, r} : \A y \in {0, r} : x >= y
  OBVIOUS
<1>. QED
  BY <1>1 DEF Max

\* What is laid over another function wins.
LEMMA Overlay ==
    ASSUME NEW f, NEW g
    PROVE  /\ DOMAIN Over(f, g) = DOMAIN f \cup DOMAIN g
           /\ \A k \in DOMAIN f : Over(f, g)[k] = f[k]
           /\ \A k \in DOMAIN g : k \notin DOMAIN f => Over(f, g)[k] = g[k]
  BY DEF Over

\* An option is what it was made of.
LEMMA SomeOf == \A x, d : Some(x) # None /\ Some(x)[1] = x /\ OrElse(Some(x), d) = x /\ OrElse(None, d) = d
  BY DEF Some, None, OrElse

\* The optional fields that there are are fields.
LEMMA GivenIs == \A options : DOMAIN Given(options) \subseteq DOMAIN options
  BY DEF Given

\* A sequence and its prefixes.
LEMMA PrefixOf ==
    ASSUME NEW S, NEW s \in Seq(S)
    PROVE  /\ Len(s) \in Nat /\ DOMAIN s = 1 .. Len(s) /\ \A i \in 1 .. Len(s) : s[i] \in S
           /\ \A n \in 1 .. Len(s) : /\ SubSeq(s, 1, n) \in Seq(S) /\ Len(SubSeq(s, 1, n)) = n
                                     /\ \A i \in 1 .. n : SubSeq(s, 1, n)[i] = s[i]
  OBVIOUS

-----------------------------------------------------------------------------
(* Retries.                                                                 *)

\* A reply has a status.
LEMMA ReplyHas == \A r \in AnyReply : r.status \in Nat
  BY DEF AnyReply

\* An error that says no more than too fast, or too busy.
Transient(provider, status, phrases, busy) ==
    \/ status = 429 /\ phrases \cap Exhausted = {}
    \/ status \in busy /\ (OverflowPhrase[provider] \notin phrases \/ phrases \cap Throttling # {})

\* What is worth another try is transient.
LEMMA RetryableSays ==
    ASSUME NEW provider, NEW status \in Nat, NEW phrases,
           IsRetryable(HttpError(provider, status, phrases))
    PROVE  Transient(provider, status, phrases, 500 .. 599)
  BY SMTT(30) DEF Transient, IsRetryable, HttpError, IsOverflow

\* What says no more than too fast or unavailable is worth another try.
LEMMA SaysRetryable ==
    ASSUME NEW provider, NEW status \in Nat, NEW phrases,
           Transient(provider, status, phrases, {503})
    PROVE  IsRetryable(HttpError(provider, status, phrases))
  BY SMTT(30) DEF Transient, IsRetryable, HttpError, IsOverflow

\* An answer that came well is none.
LEMMA FineIsFinal ==
    ASSUME NEW provider, NEW phrases
    PROVE  ~IsRetryable(HttpError(provider, 200, phrases))
  BY SMTT(30) DEF IsRetryable, HttpError, IsOverflow

-----------------------------------------------------------------------------
(* The limits of a request.                                                 *)

\* What the limits of a request are derived from: an entry, and a level of
\* thinking with the parameter it has.
Limited(listed) == listed.max_tokens # None => listed.max_tokens[1] \in Nat
Levelled(level) == level # None => level[1][1] \in 0 .. 3

\* What the merge of options and configs makes of the limits: a max_tokens
\* within the limit where options set none, and no thinking but theirs.
Bounded(req, s, limit) ==
    /\ "max_tokens" \in DOMAIN req /\ req["max_tokens"] \in Nat
    /\ "max_tokens" \notin DOMAIN s.options /\ limit # None => req["max_tokens"] <= limit[1]
    /\ "thinking" \notin DOMAIN s.options => "thinking" \notin DOMAIN req

\* A request whose limits Claude takes.
Fits(req, s, limit) ==
    /\ "max_tokens" \in DOMAIN req
    /\ Thinks(req) /\ "thinking" \notin DOMAIN s.options =>
         /\ req["thinking"][1] = "enabled" => /\ req["thinking"][2] >= MinBudget
                                              /\ req["thinking"][2] < req["max_tokens"]
         /\ {"temperature", "top_p"} \cap DOMAIN req = {}
    /\ "max_tokens" \notin DOMAIN s.options /\ limit # None => req["max_tokens"] <= limit[1]

\* A number of tokens that is configured is kept within a limit that is known.
LEMMA Clamped ==
    ASSUME NEW n \in Int, NEW limit, limit # None => limit[1] \in Nat,
           ClampMaxTokens(n, limit) # None
    PROVE  /\ ClampMaxTokens(n, limit)[1] \in Nat
           /\ limit # None => ClampMaxTokens(n, limit)[1] <= limit[1]
<1>1. n > 0 /\ ClampMaxTokens(n, limit) = Some(IF limit = None THEN n ELSE Min({n, limit[1]}))
  BY DEF ClampMaxTokens
<1>2. ASSUME limit # None
      PROVE  Min({n, limit[1]}) \in Nat /\ Min({n, limit[1]}) <= limit[1]
  <2>1. {n, limit[1]} \in SUBSET Nat /\ {n, limit[1]} # {}
    BY <1>1, <1>2
  <2>. QED
    BY <2>1, MinIsLeast
<1>. QED
  BY <1>1, <1>2, SomeOf

\* Options and configs are merged into a request.
LEMMA MergedIsBounded ==
    ASSUME NEW s \in Setups, NEW base, NEW limit, limit # None => limit[1] \in Nat,
           "max_tokens" \in DOMAIN base, base["max_tokens"] \in Nat,
           limit # None => base["max_tokens"] <= limit[1],
           "thinking" \notin DOMAIN base
    PROVE  Bounded(FirstClass(MergeOptions(base, s), "max_tokens", s, limit), s, limit)
<1> DEFINE merged == MergeOptions(base, s)
           clamped == ClampMaxTokens(s.max_tokens, limit)
           given == Given([temperature |-> s.temperature, top_p |-> s.top_p])
           inner == Over(given, merged)
           field == Entry("max_tokens", clamped)
<1>1. /\ s.max_tokens \in Int /\ "max_tokens" \notin s.nulls
      /\ "max_tokens" \in DOMAIN s.options => s.options["max_tokens"] \in Nat
  BY RequestsAssumption DEF Configured
<1>2. /\ "max_tokens" \in DOMAIN merged /\ merged["max_tokens"] \in Nat
      /\ "max_tokens" \notin DOMAIN s.options /\ limit # None => merged["max_tokens"] <= limit[1]
      /\ "thinking" \notin DOMAIN s.options => "thinking" \notin DOMAIN merged
  <2> DEFINE o == s.options
  <2>1. /\ DOMAIN merged = DOMAIN Over(o, base) \ s.nulls
        /\ \A k \in DOMAIN merged : merged[k] = Over(o, base)[k]
    BY DEF MergeOptions, Without
  <2>2. /\ DOMAIN Over(o, base) = DOMAIN o \cup DOMAIN base
        /\ \A k \in DOMAIN o : Over(o, base)[k] = o[k]
        /\ \A k \in DOMAIN base : k \notin DOMAIN o => Over(o, base)[k] = base[k]
    BY Overlay
  <2>. HIDE DEF merged
  <2>. QED
    BY <1>1, <2>1, <2>2
<1>3. DOMAIN given \subseteq {"temperature", "top_p"}
  BY GivenIs
<1>. HIDE DEF merged, given, clamped
<1>4. /\ "max_tokens" \in DOMAIN inner /\ inner["max_tokens"] = merged["max_tokens"]
      /\ "thinking" \notin DOMAIN merged => "thinking" \notin DOMAIN inner
  <2>1. /\ DOMAIN inner = DOMAIN given \cup DOMAIN merged
        /\ \A k \in DOMAIN merged : k \notin DOMAIN given => inner[k] = merged[k]
    BY Overlay
  <2>. HIDE DEF inner
  <2>. QED
    BY <1>2, <1>3, <2>1
<1>5. /\ clamped = None => DOMAIN field = {}
      /\ clamped # None => DOMAIN field = {"max_tokens"} /\ field["max_tokens"] = clamped[1]
  BY DEF Entry
<1>6. clamped # None => clamped[1] \in Nat /\ (limit # None => clamped[1] <= limit[1])
  BY <1>1, Clamped DEF clamped
<1>7. FirstClass(merged, "max_tokens", s, limit) = Over(field, inner)
  BY DEF FirstClass, clamped, given
<1>. HIDE DEF inner, field
<1>8. /\ "max_tokens" \in DOMAIN Over(field, inner)
      /\ "thinking" \in DOMAIN Over(field, inner) => "thinking" \in DOMAIN inner
      /\ clamped = None => Over(field, inner)["max_tokens"] = inner["max_tokens"]
      /\ clamped # None => Over(field, inner)["max_tokens"] = clamped[1]
  <2> DEFINE all == Over(field, inner)
  <2>1. /\ DOMAIN all = DOMAIN field \cup DOMAIN inner
        /\ \A k \in DOMAIN field : all[k] = field[k]
        /\ \A k \in DOMAIN inner : k \notin DOMAIN field => all[k] = inner[k]
    BY Overlay
  <2>. HIDE DEF all
  <2>2. /\ "max_tokens" \in DOMAIN all
        /\ "thinking" \in DOMAIN all => "thinking" \in DOMAIN inner
        /\ clamped = None => all["max_tokens"] = inner["max_tokens"]
        /\ clamped # None => all["max_tokens"] = clamped[1]
    BY <1>4, <1>5, <2>1
  <2>. QED
    BY <2>2 DEF all
<1>9. Bounded(Over(field, inner), s, limit)
  BY <1>2, <1>4, <1>6, <1>8 DEF Bounded
<1>. QED
  BY <1>7, <1>9 DEF merged

\* Thinking is added within the limits.
LEMMA ThinkingFits ==
    ASSUME NEW req, NEW s, NEW limit, NEW level, limit # None => limit[1] \in Nat,
           Bounded(req, s, limit), Levelled(level)
    PROVE  Fits(ApplyClaudeThinking(req, level, limit), s, limit)
<1>2. Fits(req, s, limit)
  BY DEF Bounded, Fits, Thinks
<1> DEFINE cost   == BudgetOf[level[1][1]]
           raised == req["max_tokens"] + cost
           max    == IF limit = None THEN raised ELSE Min({raised, limit[1]})
           budget == IF cost < max THEN cost ELSE max \div 2
           adaptive == [thinking |-> <<"adaptive">>, output_config |-> level[1][2][1]]
           enabled  == [thinking |-> <<"enabled", budget>>, max_tokens |-> max]
           think  == IF level[1][2] # None THEN adaptive ELSE enabled
           bare   == {"temperature", "top_p"}
<1>3. CASE level = None \/ (level[1][2] = None /\ budget < MinBudget)
  BY <1>2, <1>3 DEF ApplyClaudeThinking
<1>4. CASE level # None /\ level[1][2] # None
  <2>1. ApplyClaudeThinking(req, level, limit) = Without(Over(adaptive, req), bare)
    BY <1>4 DEF ApplyClaudeThinking
  <2> DEFINE all == Over(adaptive, req)
             res == Without(all, bare)
  <2>2. /\ DOMAIN adaptive = {"thinking", "output_config"}
        /\ adaptive["thinking"] = <<"adaptive">>
    OBVIOUS
  <2>. HIDE DEF adaptive
  <2>3. /\ DOMAIN all = DOMAIN adaptive \cup DOMAIN req
        /\ \A k \in DOMAIN adaptive : all[k] = adaptive[k]
        /\ \A k \in DOMAIN req : k \notin DOMAIN adaptive => all[k] = req[k]
    BY Overlay
  <2>. HIDE DEF all
  <2>4. DOMAIN res = DOMAIN all \ bare /\ \A k \in DOMAIN res : res[k] = all[k]
    BY DEF Without
  <2>. HIDE DEF res
  <2>5. /\ "max_tokens" \in DOMAIN res /\ res["max_tokens"] = req["max_tokens"]
        /\ "thinking" \in DOMAIN res /\ res["thinking"][1] = "adaptive"
        /\ bare \cap DOMAIN res = {}
    BY <2>2, <2>3, <2>4 DEF Bounded
  <2>6. Fits(res, s, limit)
    BY <2>5 DEF Fits, Bounded
  <2>. QED
    BY <2>1, <2>6 DEF res, all
<1>5. CASE level # None /\ level[1][2] = None /\ ~(budget < MinBudget)
  <2>1. ApplyClaudeThinking(req, level, limit) = Without(Over(enabled, req), bare)
    BY <1>5 DEF ApplyClaudeThinking
  <2> DEFINE all == Over(enabled, req)
             res == Without(all, bare)
  <2>2. cost \in Nat /\ cost >= MinBudget /\ raised \in Nat
    BY <1>5 DEF Levelled, Bounded, BudgetOf, MinBudget
  <2>3. max \in Nat /\ (limit # None => max <= limit[1])
    <3>1. {raised, limit[1]} # {} /\ (limit # None => {raised, limit[1]} \in SUBSET Nat)
      BY <2>2
    <3>. HIDE DEF raised
    <3>. QED
      BY <2>2, <3>1, MinIsLeast
  <2>. HIDE DEF max, cost
  <2>4. budget >= MinBudget /\ budget < max
    BY <1>5, <2>2, <2>3 DEF MinBudget
  <2>5. /\ DOMAIN enabled = {"thinking", "max_tokens"}
        /\ enabled["thinking"] = <<"enabled", budget>> /\ enabled["max_tokens"] = max
    OBVIOUS
  <2>. HIDE DEF enabled, budget
  <2>6. /\ DOMAIN all = DOMAIN enabled \cup DOMAIN req
        /\ \A k \in DOMAIN enabled : all[k] = enabled[k]
    BY Overlay
  <2>. HIDE DEF all
  <2>7. DOMAIN res = DOMAIN all \ bare /\ \A k \in DOMAIN res : res[k] = all[k]
    BY DEF Without
  <2>. HIDE DEF res
  <2>8. /\ "max_tokens" \in DOMAIN res /\ res["max_tokens"] = max
        /\ "thinking" \in DOMAIN res /\ res["thinking"] = <<"enabled", budget>>
        /\ bare \cap DOMAIN res = {}
    BY <2>5, <2>6, <2>7
  <2>9. Fits(res, s, limit)
    BY <2>3, <2>4, <2>8 DEF Fits
  <2>. QED
    BY <2>1, <2>9 DEF res, all
<1>. QED
  BY <1>3, <1>4, <1>5

\* The marks of the cache leave the limits alone, and so does what is done to
\* the messages.
LEMMA LimitsStay ==
    ASSUME NEW req, NEW kept, NEW retention, NEW s, NEW limit, Fits(req, s, limit)
    PROVE  Fits(CacheControl([req EXCEPT !["messages"] = kept], retention), s, limit)
<1> DEFINE put == [req EXCEPT !["messages"] = kept]
           res == CacheControl(put, retention)
<1>1. DOMAIN put = DOMAIN req /\ \A k \in {"max_tokens", "thinking"} : k \in DOMAIN req => put[k] = req[k]
  OBVIOUS
<1>. HIDE DEF put
<1>2. DOMAIN res = DOMAIN put /\ \A k \in {"max_tokens", "thinking"} : k \in DOMAIN put => res[k] = put[k]
  BY DEF CacheControl
<1>. HIDE DEF res
<1>3. Fits(res, s, limit)
  BY <1>1, <1>2 DEF Fits, Thinks
<1>. QED
  BY <1>3 DEF res, put

\* A request to Claude is within its limits.
LEMMA ClaudeRequestFits ==
    ASSUME NEW model, NEW s \in Setups, NEW h, NEW listed, NEW level, Limited(listed), Levelled(level)
    PROVE  Fits(ClaudeRequest(model, s, h, listed, level), s, listed.max_tokens)
<1> DEFINE limit == listed.max_tokens
           registry == OrElse(limit, DefaultMaxTokens)
           most  == IF s.stream THEN registry ELSE Min({registry, DefaultMaxTokens})
           plain == [model |-> model.name, messages |-> ClaudeMessages(h), max_tokens |-> most]
           given == Given([system |-> MapOption(Text, ClaudeSystem(h)), tools |-> ToolsOf(s),
                           stream |-> IF s.stream THEN Some(TRUE) ELSE None])
           base  == Over(given, plain)
           set   == FirstClass(MergeOptions(base, s), "max_tokens", s, limit)
           req   == ApplyClaudeThinking(set, level, limit)
           kept  == IF Thinks(req) THEN req["messages"]
                    ELSE [i \in DOMAIN req["messages"] |-> StripThinking(req["messages"][i])]
<1>1. ClaudeRequest(model, s, h, listed, level) = CacheControl([req EXCEPT !["messages"] = kept], s.retention)
  BY DEF ClaudeRequest
<1>2. most \in Nat /\ (limit # None => most <= limit[1])
  <2>1. registry \in Nat /\ (limit # None => registry = limit[1]) /\ DefaultMaxTokens \in Nat
    BY DEF Limited, OrElse, DefaultMaxTokens
  <2>. HIDE DEF registry, limit
  <2>2. {registry, DefaultMaxTokens} \in SUBSET Nat /\ {registry, DefaultMaxTokens} # {}
    BY <2>1
  <2>3. Min({registry, DefaultMaxTokens}) \in Nat /\ Min({registry, DefaultMaxTokens}) <= registry
    BY <2>2, MinIsLeast
  <2>. QED
    BY <2>1, <2>3
<1>. HIDE DEF most
<1>3. /\ "max_tokens" \in DOMAIN base /\ base["max_tokens"] = most
      /\ "thinking" \notin DOMAIN base
  <2>1. DOMAIN given \subseteq {"system", "tools", "stream"}
    BY GivenIs
  <2>2. DOMAIN plain = {"model", "messages", "max_tokens"} /\ plain["max_tokens"] = most
    OBVIOUS
  <2>. HIDE DEF given, plain
  <2>3. /\ DOMAIN base = DOMAIN given \cup DOMAIN plain
        /\ \A k \in DOMAIN plain : k \notin DOMAIN given => base[k] = plain[k]
    BY Overlay
  <2>. HIDE DEF base
  <2>. QED
    BY <2>1, <2>2, <2>3
<1>. HIDE DEF base
<1>4. limit # None => limit[1] \in Nat
  BY DEF Limited
<1>. HIDE DEF limit
<1>5. Bounded(set, s, limit)
  BY <1>2, <1>3, <1>4, MergedIsBounded
<1>. HIDE DEF set
<1>6. Fits(req, s, limit)
  BY <1>4, <1>5, ThinkingFits
<1>. HIDE DEF req
<1>7. Fits(CacheControl([req EXCEPT !["messages"] = kept], s.retention), s, limit)
  <2>. HIDE DEF kept
  <2>. QED
    BY <1>6, LimitsStay
<1>. QED
  BY <1>1, <1>7 DEF limit

\* The levels of thinking there are, each with a parameter or without.
AnyLevels == (0 .. 3) \X ({None} \cup {Some(l) : l \in 0 .. 3})

\* An entry a request can be derived from.
Usable(listed) ==
    /\ Limited(listed)
    /\ listed.levels # None => listed.levels[1] \subseteq AnyLevels

\* What is listed of a model is one of the entries, if there is one.
LEMMA MatchIsUsable ==
    ASSUME NEW name, Len(name) \in Nat, NEW t, Listing(t)
    PROVE  Usable(Match(name, t))
<1> DEFINE prefixes == {p \in DOMAIN t : IsPrefix(p, name)}
<1>1. CASE prefixes = {}
  BY <1>1 DEF Match, Usable, Limited, Unlisted, EntryFields
<1>2. CASE prefixes # {}
  <2> DEFINE rest == {Len(name) - Len(p) : p \in prefixes}
  <2>1. \A p \in prefixes : Len(p) \in Nat /\ Len(p) <= Len(name)
    BY DEF Listing, IsPrefix
  <2>2. rest \in SUBSET Nat /\ rest # {}
    BY <1>2, <2>1
  <2>3. PICK least \in rest : \A y \in rest : least <= y
    <3>. HIDE DEF rest
    <3>. QED
      BY <2>2, LeastOf
  <2>4. PICK p \in prefixes : least = Len(name) - Len(p)
    BY <2>3
  <2>5. \A q \in prefixes : Len(q) <= Len(p)
    <3>. TAKE q \in prefixes
    <3>1. Len(name) - Len(q) \in rest
      OBVIOUS
    <3>. HIDE DEF rest, prefixes
    <3>2. Len(name) - Len(p) <= Len(name) - Len(q)
      BY <2>3, <2>4, <3>1
    <3>. QED
      BY <2>1, <3>2
  <2> DEFINE longest == CHOOSE p_1 \in prefixes : \A q \in prefixes : Len(q) <= Len(p_1)
  <2>6. longest \in prefixes
    <3>. HIDE DEF prefixes
    <3>. QED
      BY <2>4, <2>5
  <2>7. Match(name, t) = t[longest]
    BY <1>2 DEF Match
  <2>8. Usable(t[longest])
    <3>. HIDE DEF longest
    <3>. QED
      BY <2>6 DEF Listing, Usable, Limited, AnyLevels
  <2>. QED
    BY <2>7, <2>8
<1>. QED
  BY <1>1, <1>2

\* One entry written over another is usable when both are.
LEMMA OverwriteIsUsable ==
    ASSUME NEW a, NEW b, Usable(a), Usable(b)
    PROVE  Usable(Overwrite(a, b))
<1> DEFINE o == Overwrite(a, b)
<1>1. /\ o.max_tokens = IF b.max_tokens # None THEN b.max_tokens ELSE a.max_tokens
      /\ o.levels = IF b.levels # None THEN b.levels ELSE a.levels
  BY DEF Overwrite, EntryFields
<1>. HIDE DEF o
<1>2. Usable(o)
  BY <1>1 DEF Usable, Limited
<1>. QED
  BY <1>2 DEF o

\* The built-in table lists what can be used.
LEMMA BuiltinsList == Listing(Builtins["Claude"])
<1> DEFINE t == Builtins["Claude"]
<1>1. t = [p \in {<<"sonnet">>, <<"sonnet", "4-5">>} |->
             IF p = <<"sonnet">> THEN Known(1000, 64, AdaptiveLevels) ELSE Known(200, 64, BudgetLevels)]
  BY DEF Builtins
<1>2. \A p \in DOMAIN t : Len(p) \in Nat
  <2>1. Len(<<"sonnet">>) \in Nat /\ Len(<<"sonnet", "4-5">>) \in Nat
    OBVIOUS
  <2>. QED
    BY <1>1, <2>1
<1>3. AdaptiveLevels \subseteq AnyLevels /\ BudgetLevels \subseteq AnyLevels
  BY DEF AdaptiveLevels, BudgetLevels, AnyLevels
<1>4. ASSUME NEW n \in Nat, NEW m \in Nat, NEW levels, levels \subseteq AnyLevels
      PROVE  Usable(Known(n, m, levels))
  BY <1>4, SomeOf DEF Known, Usable, Limited
<1>5. \A p \in DOMAIN t : Usable(t[p])
  BY <1>1, <1>3, <1>4
<1>. QED
  BY <1>2, <1>5 DEF Listing, Usable, Limited, AnyLevels

\* What is known about a model of Claude.
LEMMA ResolvedIsUsable ==
    ASSUME NEW model, model.provider = "Claude", Len(model.name) \in Nat, Listing(table)
    PROVE  Usable(Resolve(model))
<1>1. Probed(model) = Unlisted
  BY DEF Probed
<1>2. Usable(Unlisted)
  BY DEF Usable, Limited, Unlisted, EntryFields
<1>3. Usable(Match(model.name, Builtins[model.provider])) /\ Usable(Match(model.name, table))
  BY BuiltinsList, MatchIsUsable
<1>. QED
  BY <1>1, <1>2, <1>3, OverwriteIsUsable DEF Resolve

\* The nearest level is one of the levels there are.
LEMMA ClampedIsLevelled ==
    ASSUME NEW wanted, wanted # None => wanted[1] \in 0 .. 3, NEW levels, levels \subseteq AnyLevels
    PROVE  Levelled(ClampLevel(wanted, levels))
<1> DEFINE Far(l) == IF l[1] > wanted[1] THEN l[1] - wanted[1] ELSE wanted[1] - l[1]
           Before(l, k) == Far(l) < Far(k) \/ (Far(l) = Far(k) /\ l[1] <= k[1])
           Rank(l) == 8 * Far(l) + l[1]
           nearest == CHOOSE l \in levels : \A k \in levels : Before(l, k)
<1>1. CASE wanted = None \/ levels = {}
  BY <1>1 DEF ClampLevel, Levelled
<1>2. CASE wanted # None /\ levels # {}
  <2>1. \A l \in levels : l[1] \in 0 .. 3
    BY DEF AnyLevels
  <2>2. \A l \in levels : Far(l) \in 0 .. 3
    BY <1>2, <2>1
  <2> DEFINE ranks == {Rank(l) : l \in levels}
  <2>3. ranks \in SUBSET Nat /\ ranks # {}
    <3>. HIDE DEF Far
    <3>. QED
      BY <1>2, <2>1, <2>2
  <2>4. PICK least \in ranks : \A y \in ranks : least <= y
    <3>. HIDE DEF ranks
    <3>. QED
      BY <2>3, LeastOf
  <2>5. PICK l \in levels : least = Rank(l)
    BY <2>4
  <2>6. \A k \in levels : Before(l, k)
    <3>. TAKE k \in levels
    <3>1. Rank(l) <= Rank(k)
      <4>1. Rank(k) \in ranks
        OBVIOUS
      <4>. HIDE DEF ranks, Rank
      <4>. QED
        BY <2>4, <2>5, <4>1
    <3>. HIDE DEF Far
    <3>. QED
      BY <2>1, <2>2, <3>1
  <2>7. nearest \in levels
    <3>. HIDE DEF Before
    <3>. QED
      BY <2>6
  <2>8. ClampLevel(wanted, levels) = Some(nearest)
    BY <1>2 DEF ClampLevel
  <2>. HIDE DEF nearest
  <2>. QED
    BY <2>1, <2>7, <2>8, SomeOf DEF Levelled
<1>. QED
  BY <1>1, <1>2

-----------------------------------------------------------------------------
(* What was asked last.                                                     *)

\* The last request is what the configs, the tables and the replies made of it.
RequestInv ==
    /\ setup \in Setups
    /\ Listing(table)
    /\ request # None =>
         \E replies \in Replies[setup.replies] : request[1].sent = Attempts(replies)
    /\ Asked("Chat", "Claude") =>
         \E h, level : /\ Limited(request[1].entry) /\ Levelled(level)
                       /\ request[1].body = ClaudeRequest(setup.model, setup, h, request[1].entry, level)

\* A Chat module asks what its configs and the tables make of the history.
LEMMA ChatAsks ==
    ASSUME RequestInv, NEW h, NEW show, NEW replies \in Replies[setup.replies],
           setup.module = "Chat", Chat(h, show, replies)
    PROVE  RequestInv'
<1> DEFINE listed == Resolve(setup.model)
           level == ClampLevel(setup.level, OrElse(listed.levels, {}))
           p     == Prepare(setup.model.provider, Sees(listed), h)
           req   == CASE setup.model.provider = "Claude" -> ClaudeRequest(setup.model, setup, p, listed, level)
                      [] setup.model.provider = "OpenAI" -> ChatRequest(setup.model, setup, p, listed, level)
                      [] setup.model.provider = "Ollama" -> OllamaRequest(setup.model, setup, p, listed, level)
<1>1. /\ request' = Some([body |-> req, history |-> h, entry |-> listed, sent |-> Attempts(replies)])
      /\ setup' = setup /\ table' = table
  BY DEF Chat, AskModel
<1>2. Attempts(replies)' = Attempts(replies)
  BY <1>1 DEF Attempts
<1>3. ASSUME setup.model.provider = "Claude"
      PROVE  /\ Limited(listed) /\ Levelled(level)
             /\ req = ClaudeRequest(setup.model, setup, p, listed, level)
  <2>1. Configured(setup)
    BY RequestsAssumption DEF RequestInv
  <2>2. Usable(listed)
    BY <1>3, <2>1, ResolvedIsUsable DEF RequestInv, Configured
  <2>. HIDE DEF listed
  <2>3. OrElse(listed.levels, {}) \subseteq AnyLevels
    BY <2>2 DEF Usable, OrElse
  <2>4. Levelled(level)
    BY <2>1, <2>3, ClampedIsLevelled DEF Configured
  <2>. HIDE DEF level, p
  <2>. QED
    BY <1>3, <2>2, <2>4 DEF Usable
<1>. HIDE DEF req, listed, level, p
<1>4. /\ request'[1].body = req /\ request'[1].entry = listed /\ request'[1].sent = Attempts(replies)
  BY <1>1, SomeOf
<1>5. \E r \in Replies[setup'.replies] : request'[1].sent = Attempts(r)'
  BY <1>1, <1>2, <1>4
<1>6. Asked("Chat", "Claude")' =>
        \E g, l : /\ Limited(request'[1].entry) /\ Levelled(l)
                  /\ request'[1].body = ClaudeRequest(setup'.model, setup', g, request'[1].entry, l)
  BY <1>1, <1>3, <1>4 DEF Asked
<1>. QED
  BY <1>1, <1>5, <1>6 DEF RequestInv

\* Another module asks, with the replies there are.
LEMMA OthersAsk ==
    ASSUME RequestInv, NEW req, NEW h, NEW listed, NEW replies \in Replies[setup.replies],
           setup.module # "Chat", AskModel(req, h, listed, replies), UNCHANGED <<setup, table>>
    PROVE  RequestInv'
<1>1. request' = Some([body |-> req, history |-> h, entry |-> listed, sent |-> Attempts(replies)])
  BY DEF AskModel
<1>2. request'[1].sent = Attempts(replies) /\ Attempts(replies)' = Attempts(replies)
  <2>1. Attempts(replies)' = Attempts(replies)
    BY DEF Attempts
  <2>2. request'[1] = [body |-> req, history |-> h, entry |-> listed, sent |-> Attempts(replies)]
    BY <1>1, SomeOf
  <2>. QED
    BY <2>1, <2>2
<1>3. ~Asked("Chat", "Claude")'
  BY DEF Asked
<1>. QED
  BY <1>2, <1>3 DEF RequestInv

\* No step makes anything else the last request.
LEMMA RequestInvHolds == RequestSpec => []RequestInv
<1>1. RequestInit => RequestInv
  <2>1. Listing(Nothing_)
    BY DEF Listing, Nothing_
  <2>. QED
    BY <2>1 DEF RequestInit, RequestInv, Asked
<1>2. RequestInv /\ [RequestNext]_requestVars => RequestInv'
  <2> SUFFICES ASSUME RequestInv, [RequestNext]_requestVars
               PROVE  RequestInv'
    OBVIOUS
  <2>a. ASSUME UNCHANGED <<setup, request>>, Listing(table') PROVE RequestInv'
    <3>1. \A replies : Attempts(replies)' = Attempts(replies)
      BY <2>a DEF Attempts
    <3>. QED
      BY <2>a, <3>1 DEF RequestInv, Asked
  <2>1. ASSUME NEW t \in Tables, LoadTable(t) PROVE RequestInv'
    <3>1. Listing(t)
      BY RequestsAssumption
    <3>. QED
      BY <2>1, <2>a, <3>1 DEF LoadTable
  <2>2. ASSUME NEW replies \in Replies[setup.replies], setup.module = "Chat",
               NEW h, NEW show, Chat(h, show, replies)
        PROVE  RequestInv'
    BY <2>2, ChatAsks
  <2>3. ASSUME NEW replies \in Replies[setup.replies], setup.module = "Responses",
               NEW h, NEW id, Respond(h, id, replies)
        PROVE  RequestInv'
    BY <2>3, OthersAsk DEF Respond
  <2>4. ASSUME NEW replies \in Replies[setup.replies], setup.module = "Completion",
               NEW show, NEW answered, Complete("p", show, answered, replies)
        PROVE  RequestInv'
    BY <2>4, OthersAsk DEF Complete
  <2>5. CASE Reset
    BY <2>5, <2>a DEF Reset, RequestInv
  <2>6. CASE UNCHANGED requestVars
    BY <2>6, <2>a DEF requestVars, RequestInv
  <2>. QED
    BY <2>1, <2>2, <2>3, <2>4, <2>5, <2>6 DEF RequestNext
<1>. QED
  BY <1>1, <1>2, PTL DEF RequestSpec

\* Whatever the limits, the options, the configs and the level, a request to
\* Claude keeps within them.
THEOREM LimitsFitHolds == RequestSpec => []LimitsFit
<1>1. RequestInv => LimitsFit
  <2> SUFFICES ASSUME RequestInv, Asked("Chat", "Claude")
               PROVE  LimitsFit
    BY DEF LimitsFit
  <2>1. PICK h, level : /\ Limited(request[1].entry) /\ Levelled(level)
                        /\ request[1].body = ClaudeRequest(setup.model, setup, h, request[1].entry, level)
    BY DEF RequestInv
  <2>2. Fits(request[1].body, setup, request[1].entry.max_tokens)
    BY <2>1, ClaudeRequestFits DEF RequestInv
  <2>. QED
    BY <2>2 DEF Fits, LimitsFit
<1>. QED
  BY <1>1, RequestInvHolds, PTL

\* What is sent, of the replies there are: up to the first that is not worth
\* another try, as long as there are tries.
LEMMA AttemptsAre ==
    ASSUME NEW replies, RepliesTo(setup, replies), setup.max_retries \in Int
    PROVE  LET sent  == Attempts(replies)
               tries == Max({0, setup.max_retries}) + 1
               Again(i) == IsRetryable(HttpError(setup.model.provider, sent[i].status, sent[i].phrases))
           IN /\ Len(sent) \in 1 .. tries
              /\ sent \in Seq(AnyReply)
              /\ \A i \in 1 .. Len(sent) - 1 : Again(i)
              /\ Again(Len(sent)) => Len(sent) = tries
<1> DEFINE Again(r) == IsRetryable(HttpError(setup.model.provider, r.status, r.phrases))
           ends  == {i \in DOMAIN replies : ~Again(replies[i])}
           tries == Max({0, setup.max_retries}) + 1
           stops == {tries, Len(replies)} \cup ends
           n     == Min(stops)
           sent  == Attempts(replies)
<1>1. sent = SubSeq(replies, 1, n)
  BY DEF Attempts
<1>2. /\ replies \in Seq(AnyReply) /\ Len(replies) \in Nat
      /\ DOMAIN replies = 1 .. Len(replies) /\ tries \in Nat \ {0}
  BY MaxOfZero, PrefixOf DEF RepliesTo
<1>3. \A i \in DOMAIN replies : replies[i].status \in Nat
  <2>1. \A i \in DOMAIN replies : replies[i] \in AnyReply
    BY <1>2, PrefixOf
  <2>. QED
    BY <2>1, ReplyHas
<1>4. \/ Len(replies) >= tries
      \/ \E i \in ends : TRUE
  <2>1. ASSUME NEW i \in DOMAIN replies, replies[i].status = 200 PROVE i \in ends
    BY <1>3, <2>1, FineIsFinal
  <2>2. Max({0, setup.max_retries}) \in Nat
    BY MaxOfZero
  <2>3. Len(replies) > Max({0, setup.max_retries}) => Len(replies) >= tries
    BY <1>2, <2>2
  <2>. QED
    BY <2>1, <2>3 DEF RepliesTo
<1>. HIDE DEF tries, Again
<1>5. stops \in SUBSET Nat /\ stops # {}
  BY <1>2
<1>6. n \in stops /\ \A y \in stops : n <= y
  <2>. HIDE DEF stops
  <2>. QED
    BY <1>5, MinIsLeast
<1> DEFINE all == Len(replies)
<1>a. /\ all \in Nat /\ tries \in Nat /\ tries # 0
      /\ ends \subseteq 1 .. all
      /\ \A i \in 1 .. all : i \notin ends => Again(replies[i])
      /\ \A i \in ends : ~Again(replies[i])
  BY <1>2
<1>b. /\ n = tries \/ n = all \/ n \in ends
      /\ n <= tries /\ n <= all /\ \A i \in ends : n <= i
  BY <1>6
<1>c. all >= tries \/ \E i \in ends : TRUE
  BY <1>4
<1>. HIDE DEF n, ends, stops, all
<1>7. n \in 1 .. all /\ n <= tries
  <2>1. all # 0
    BY <1>a, <1>c
  <2>2. CASE n \in ends
    BY <1>a, <1>b, <2>2
  <2>3. CASE n = tries \/ n = all
    BY <1>a, <1>b, <2>1, <2>3
  <2>. QED
    BY <1>b, <2>2, <2>3
<1>8. /\ Len(sent) = n /\ \A i \in 1 .. n : sent[i] = replies[i]
      /\ sent \in Seq(AnyReply)
  <2>. HIDE DEF sent
  <2>. QED
    BY <1>1, <1>2, <1>7, PrefixOf, Zenon DEF all
<1>9. \A i \in 1 .. n - 1 : Again(replies[i])
  <2>1. \A i \in 1 .. n - 1 : i \in 1 .. all /\ i \notin ends
    BY <1>a, <1>b, <1>7
  <2>. QED
    BY <1>a, <2>1
<1>10. Again(replies[n]) => n = tries
  <2> SUFFICES ASSUME Again(replies[n]), n # tries PROVE FALSE
    OBVIOUS
  <2>1. n \notin ends /\ n = all
    BY <1>a, <1>b
  <2>2. PICK i \in ends : TRUE
    BY <1>a, <1>c, <1>7, <2>1
  <2>3. i = n
    BY <1>a, <1>b, <2>1, <2>2
  <2>. QED
    BY <2>1, <2>2, <2>3
<1>. HIDE DEF sent
<1>11. \A i \in 1 .. n : Again(sent[i]) <=> Again(replies[i])
  BY <1>8
<1>12. /\ Len(sent) \in 1 .. tries
       /\ \A i \in 1 .. Len(sent) - 1 : Again(sent[i])
       /\ Again(sent[Len(sent)]) => Len(sent) = tries
  BY <1>a, <1>7, <1>8, <1>9, <1>10, <1>11
<1>. QED
  BY <1>8, <1>12 DEF Again, tries, sent

\* What is permanent is not retried, and what may pass is, as often as
\* configured, for any replies of a provider.
THEOREM RetriesFitHolds == RequestSpec => []RetriesFit
<1>1. RequestInv => RetriesFit
  <2> SUFFICES ASSUME RequestInv, request # None
               PROVE  RetriesFit
    BY DEF RetriesFit
  <2> DEFINE sent  == request[1].sent
             tries == Max({0, setup.max_retries}) + 1
             provider == setup.model.provider
             Again(r) == IsRetryable(HttpError(provider, r.status, r.phrases))
             MayPass(r, busy) ==
                \/ r.status = 429 /\ r.phrases \cap Exhausted = {}
                \/ r.status \in busy /\ (OverflowPhrase[provider] \notin r.phrases \/ r.phrases \cap Throttling # {})
  <2>1. PICK replies \in Replies[setup.replies] : sent = Attempts(replies)
    BY DEF RequestInv
  <2>2. RepliesTo(setup, replies) /\ setup.max_retries \in Int
    BY RequestsAssumption DEF RequestInv, Configured
  <2>3. /\ Len(sent) \in 1 .. tries
        /\ sent \in Seq(AnyReply)
        /\ \A i \in 1 .. Len(sent) - 1 : Again(sent[i])
        /\ Again(sent[Len(sent)]) => Len(sent) = tries
    BY <2>1, <2>2, AttemptsAre
  <2>. HIDE DEF sent, tries, provider
  <2>4. \A i \in 1 .. Len(sent) : sent[i].status \in Nat
    <3>1. \A i \in 1 .. Len(sent) : sent[i] \in AnyReply
      BY <2>3, PrefixOf
    <3>. QED
      BY <3>1, ReplyHas
  <2>5. \A i \in 1 .. Len(sent) - 1 : MayPass(sent[i], 500 .. 599)
    <3>. TAKE i \in 1 .. Len(sent) - 1
    <3>1. Again(sent[i]) /\ i \in 1 .. Len(sent)
      BY <2>3
    <3>2. ASSUME NEW status \in Nat, NEW phrases, sent[i].status = status, sent[i].phrases = phrases
          PROVE  MayPass(sent[i], 500 .. 599)
      <4>1. IsRetryable(HttpError(provider, status, phrases))
        BY <3>1, <3>2
      <4>2. Transient(provider, status, phrases, 500 .. 599)
        BY <4>1, RetryableSays
      <4>. QED
        BY <3>2, <4>2 DEF Transient
    <3>. QED
      BY <2>4, <3>1, <3>2
  <2>6. MayPass(Last(sent), {503}) => Len(sent) = tries
    <3>1. Last(sent) = sent[Len(sent)]
      BY DEF Last
    <3>2. Len(sent) \in 1 .. Len(sent)
      BY <2>3
    <3>3. MayPass(sent[Len(sent)], {503}) => Again(sent[Len(sent)])
      <4> DEFINE last == sent[Len(sent)]
      <4>1. last.status \in Nat
        BY <2>4, <3>2
      <4>. HIDE DEF last
      <4>2. ASSUME NEW status \in Nat, NEW phrases,
                   last.status = status, last.phrases = phrases, MayPass(last, {503})
            PROVE  Again(last)
        <5>a. Transient(provider, status, phrases, {503})
          BY <4>2 DEF Transient
        <5>1. IsRetryable(HttpError(provider, status, phrases))
          BY <5>a, SaysRetryable
        <5>. QED
          BY <4>2, <5>1
      <4>. QED
        BY <4>1, <4>2 DEF last
    <3>. QED
      BY <2>3, <3>1, <3>3
  <2>. QED
    BY <2>5, <2>6 DEF RetriesFit, sent, tries, provider
<1>. QED
  BY <1>1, RequestInvHolds, PTL
=============================================================================
