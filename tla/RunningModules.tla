--------------------------- MODULE RunningModules ---------------------------
(***************************************************************************)
(* The standard modules that act on their own while they are started:      *)
(* timers, the throttle, the directory watcher, the delay, and the inputs  *)
(* that speak up when they are edited.  A timer is a task beside the       *)
(* module: start and stop meet it only in the handle, under its lock.      *)
(*                                                                         *)
(* One module runs.  Its calls (start, stop, configs_changed, process) are *)
(* one at a time; stop drops a process() that waits.  Values are numbered  *)
(* as they arrive; a tick emits 0.  Durations are counted in milliseconds  *)
(* the way parse_duration_to_ms reads them, time itself is left out.       *)
(***************************************************************************)
EXTENDS Integers, FiniteSetsExt, SequencesExt, Functions, Optional

CONSTANTS RunConfigs,                        \* per kind, the configs it can be given
          MaxTimers, MaxArrivals, MaxStops, MaxEdits,
          MaxOut                          \* no timer wakes after as many outputs

\* A throttle is given its interval and its capacity.
ASSUME RunAssumption ==
    "Throttle" \in DOMAIN RunConfigs =>
        \A c \in RunConfigs["Throttle"] : c \in [every : {c.every}, capacity : Int]

VARIABLES module,
          status,     \* "Init" or "Start"
          config,        \* the config as committed
          inUse,       \* what the module read from it last
          handle,     \* timer_handle, or the watcher
          timers,     \* the tasks: the settings they run with, and where they are
          work,       \* the call under way, at its next step
          waiting,    \* waiting_data of the throttle
          count,      \* num_waiting_data of the delay, the count of the counter
          arrivals, stops, edits,
          stranded,   \* did the throttle keep a value after its timer had gone?
          given         \* what came out: the value, and from where

runVars == <<module, status, config, inUse, handle, timers, work, waiting, count,
             arrivals, stops, edits, stranded, given>>

AtRest == [step |-> "none", value |-> 0, timer |-> 0]

GiveOut(value, from) == given' = Append(given, [value |-> value, from |-> from])

-----------------------------------------------------------------------------
(* Reading a config.                                                        *)

MinDuration == 10
Units == ("ms" :> 1) @@ ("s" :> 1000) @@ ("m" :> 60000) @@ ("h" :> 3600000) @@ ("d" :> 86400000) @@ ("" :> 1000)

\* A number with its unit, seconds without one; never less than 10 ms.
ParseDuration(d) ==
    IF d.unit \notin DOMAIN Units THEN None
    ELSE Some(Max({d.n * Units[d.unit], MinDuration}))

\* A Schedule Timer without a schedule is idle; a bad one is refused.
ParseSchedule(text) == CASE text = ""    -> Some(None)
                         [] text = "bad" -> None
                         [] OTHER        -> Some(Some(text))

\* What the module makes of a config, None where that is an error.
Read(k, c) ==
    CASE k \in {"Interval", "Throttle"} ->
            LET ms == ParseDuration(c.every)
            IN IF ms = None THEN None ELSE Some([c EXCEPT !.every = ms[1]])
      [] k = "Watch" ->
            LET ms == ParseDuration(c.debounce)
            IN IF ms = None THEN None ELSE Some([c EXCEPT !.debounce = ms[1]])
      [] k = "Schedule" ->
            LET s == ParseSchedule(c.schedule) IN IF s = None THEN None ELSE Some([schedule |-> s[1]])
      [] OTHER -> Some(c)

-----------------------------------------------------------------------------
(* Timers.                                                                  *)

Task(settings, detached) ==
    [runs |-> settings, state |-> "asleep", aborted |-> FALSE, detached |-> detached]

Live(t) == timers[t].state # "done" /\ ~timers[t].aborted /\ ~timers[t].detached

\* stop_timer(), stop_watcher(): an aborted task ends where it next waits, the
\* worker of a dropped watcher at its next tick.
Aborted == [t \in DOMAIN timers |-> IF handle = Some(t) THEN [timers[t] EXCEPT !.aborted = TRUE] ELSE timers[t]]

\* Does this start want a timer?
Wanted(k, m) == CASE k = "Interval" -> TRUE
                  [] k = "Schedule" -> m.schedule # None
                  [] k = "Watch"    -> m.path \notin {"", "missing"}
                  [] k = "OnStart"  -> TRUE
                  [] OTHER          -> FALSE

\* The watcher cannot watch a path that is not there: start() fails.
CannotStart(k, m) == k = "Watch" /\ m.path = "missing"

\* spawn() comes before the handle is stored: the task may run in between.
Spawn(ts, settings) ==
    /\ Len(ts) < MaxTimers
    /\ timers' = Append(ts, Task(settings, module = "OnStart"))

\* start().
Start ==
    /\ status = "Init" /\ work = AtRest
    /\ IF CannotStart(module, inUse) THEN UNCHANGED <<status, timers, work>>
       ELSE IF ~Wanted(module, inUse) THEN status' = "Start" /\ UNCHANGED <<timers, work>>
       ELSE /\ Spawn(timers, inUse)
            /\ IF module = "OnStart" THEN status' = "Start" /\ UNCHANGED work
               ELSE work' = [step |-> "store", value |-> 0, timer |-> Len(timers')] /\ UNCHANGED status
    /\ count' = IF module = "Counter" THEN 0 ELSE count
    /\ UNCHANGED <<module, config, inUse, handle, waiting, arrivals, stops, edits, stranded, given>>

\* The handle of the new task is stored; the throttle goes on with its value.
Store ==
    /\ work.step = "store"
    /\ handle' = Some(work.timer)
    /\ status' = "Start"
    /\ work' = IF work.value = 0 THEN AtRest ELSE [work EXCEPT !.step = "emit"]
    /\ UNCHANGED <<module, config, inUse, timers, waiting, count, arrivals, stops, edits, stranded, given>>

\* stop(): a process() that waits is dropped where it is, then the timer stopped.
Stop ==
    /\ status = "Start" /\ stops < MaxStops
    /\ work.step \in {"none", "emit", "sleep"}
    /\ status' = "Init" /\ stops' = stops + 1
    /\ work' = AtRest
    /\ timers' = Aborted /\ handle' = None
    /\ UNCHANGED <<module, config, inUse, waiting, count, arrivals, edits, stranded, given>>

\* The throttle's part of configs_changed(): the oldest make room.
Trimmed(w, capacity) ==
    IF capacity >= 0 /\ Len(w) > capacity THEN SubSeq(w, Len(w) - capacity + 1, Len(w)) ELSE w

\* The config of an input, by the type it has.
InputValue(c) == c.value

\* Only a change of what was read restarts; a schedule restarts whatever changed.
Restarts(new) == /\ status = "Start"
                 /\ \/ module = "Schedule"
                    \/ module \in {"Interval", "Watch"} /\ new # inUse

\* Mutant: the restart does not stop the timer that runs.
ReconfigureTwice(c) ==
    LET new == Read(module, c) IN
    /\ c # config /\ edits < MaxEdits /\ work = AtRest
    /\ config' = c /\ edits' = edits + 1
    /\ inUse' = IF new = None THEN inUse ELSE new[1]
    /\ waiting' = IF module = "Throttle" /\ new # None THEN Trimmed(waiting, c.capacity) ELSE waiting
    /\ IF new # None /\ Restarts(new[1]) /\ Wanted(module, new[1])
       THEN Spawn(timers, new[1]) /\ work' = [step |-> "store", value |-> 0, timer |-> Len(timers')]
       ELSE UNCHANGED <<timers, work>>
    /\ IF module = "Input" /\ status = "Start" THEN GiveOut(InputValue(c), "edit") ELSE UNCHANGED given
    /\ UNCHANGED <<module, status, handle, count, arrivals, stops, stranded>>

\* Mutant: an input speaks up whether it is started or not.
ReconfigureSpeaks(c) ==
    LET new == Read(module, c) IN
    /\ c # config /\ edits < MaxEdits /\ work = AtRest
    /\ config' = c /\ edits' = edits + 1
    /\ inUse' = IF new = None THEN inUse ELSE new[1]
    /\ IF module = "Input" THEN GiveOut(InputValue(c), "edit") ELSE UNCHANGED given
    /\ UNCHANGED <<module, status, handle, timers, work, waiting, count, arrivals, stops, stranded>>

\* configs_changed(), which is called whether the module is started or not.
Reconfigure(c) ==
    LET new == Read(module, c) IN
    /\ c # config /\ edits < MaxEdits /\ work = AtRest
    /\ config' = c /\ edits' = edits + 1
    /\ inUse' = IF new = None THEN inUse ELSE new[1]
    /\ waiting' = IF module = "Throttle" /\ new # None THEN Trimmed(waiting, c.capacity) ELSE waiting
    /\ IF new # None /\ Restarts(new[1])
       THEN /\ handle' = None
            /\ IF Wanted(module, new[1])
               THEN Spawn(Aborted, new[1]) /\ work' = [step |-> "store", value |-> 0, timer |-> Len(timers')]
               ELSE timers' = Aborted /\ UNCHANGED work
       ELSE UNCHANGED <<handle, timers, work>>
    /\ IF module = "Input" /\ status = "Start" THEN GiveOut(InputValue(c), "edit") ELSE UNCHANGED given
    /\ UNCHANGED <<module, status, count, arrivals, stops, stranded>>

\* A task wakes: its sleep is over, or the debounced events are there.
Wake(t) ==
    /\ timers[t].state = "asleep" /\ ~timers[t].aborted
    /\ Len(given) < MaxOut
    /\ timers' = [timers EXCEPT ![t].state = "awake"]
    /\ UNCHANGED <<module, status, config, inUse, handle, work, waiting, count, arrivals, stops, edits, stranded, given>>

\* It looks whether the module was stopped meanwhile: is there any handle?
\* The watcher and the delayed start do not look.
Check(t) ==
    /\ timers[t].state = "awake" /\ module # "Throttle"
    /\ timers' = [timers EXCEPT ![t].state =
                    IF module \in {"Interval", "Schedule"} /\ handle = None THEN "done" ELSE "sending"]
    /\ UNCHANGED <<module, status, config, inUse, handle, work, waiting, count, arrivals, stops, edits, stranded, given>>

Tick(t) ==
    /\ timers[t].state = "sending"
    /\ GiveOut(0, t)
    /\ timers' = [timers EXCEPT ![t].state = IF timers[t].aborted \/ module = "OnStart" THEN "done" ELSE "asleep"]
    /\ UNCHANGED <<module, status, config, inUse, handle, work, waiting, count, arrivals, stops, edits, stranded>>

\* The throttle's task sends one value under both locks and ends with the last.
ThrottleTick(t) ==
    /\ module = "Throttle" /\ timers[t].state = "awake"
    /\ IF handle = None
       THEN timers' = [timers EXCEPT ![t].state = "done"] /\ UNCHANGED <<handle, waiting, given>>
       ELSE /\ IF waiting # <<>> THEN GiveOut(Head(waiting), t) ELSE UNCHANGED given
            /\ waiting' = IF waiting = <<>> THEN <<>> ELSE Tail(waiting)
            /\ IF waiting' = <<>>
               THEN handle' = None /\ timers' = [timers EXCEPT ![t].state = "done"]
               ELSE UNCHANGED handle /\ timers' = [timers EXCEPT ![t].state = IF timers[t].aborted THEN "done" ELSE "asleep"]
    /\ UNCHANGED <<module, status, config, inUse, work, count, arrivals, stops, edits, stranded>>

-----------------------------------------------------------------------------
(* process().                                                               *)

Arrives == /\ status = "Start" /\ work = AtRest /\ arrivals < MaxArrivals
           /\ arrivals' = arrivals + 1
Working(step) == work' = [AtRest EXCEPT !.step = step, !.value = arrivals']

\* Is there a timer?  The lock is let go before anything is done about it.
ThrottleProcess ==
    /\ module = "Throttle" /\ Arrives
    /\ IF handle # None THEN Working("queue") /\ UNCHANGED timers
       ELSE /\ Spawn(timers, inUse)
            /\ work' = [step |-> "store", value |-> arrivals', timer |-> Len(timers')]
    /\ UNCHANGED <<module, status, config, inUse, handle, waiting, count, stops, edits, stranded, given>>

Queue ==
    /\ work.step = "queue"
    /\ waiting' = CASE inUse.capacity = 0 -> waiting
                    [] inUse.capacity > 0 /\ Len(waiting) >= inUse.capacity -> Append(Tail(waiting), work.value)
                    [] OTHER -> Append(waiting, work.value)
    /\ stranded' = (stranded \/ (handle = None /\ waiting' # <<>>))
    /\ work' = AtRest
    /\ UNCHANGED <<module, status, config, inUse, handle, timers, count, arrivals, stops, edits, given>>

\* A delay that holds as many as it may drops the value.
DelayProcess ==
    /\ module = "Delay" /\ Arrives
    /\ IF count >= config.capacity THEN UNCHANGED <<work, count>>
       ELSE Working("sleep") /\ count' = count + 1
    /\ UNCHANGED <<module, status, config, inUse, handle, timers, waiting, stops, edits, stranded, given>>

\* The value goes out at last; the delay counts it off only then.
Output ==
    /\ work.step \in {"emit", "sleep"}
    /\ GiveOut(work.value, "process")
    /\ count' = IF work.step = "sleep" THEN count - 1 ELSE count
    /\ work' = AtRest
    /\ UNCHANGED <<module, status, config, inUse, handle, timers, waiting, arrivals, stops, edits, stranded>>

\* Inputs, Slider Demo and Color Demo give their config, the counter counts or
\* is reset by the port the value comes on.
AnswerInput(reset) ==
    /\ module \in {"Input", "Slider", "Counter"} /\ Arrives
    /\ reset => module = "Counter"
    /\ count' = CASE module # "Counter" -> count [] reset -> 0 [] OTHER -> count + 1
    /\ GiveOut(IF module = "Counter" THEN count' ELSE config.value, "process")
    /\ UNCHANGED <<module, status, config, inUse, handle, timers, work, waiting, stops, edits, stranded>>

-----------------------------------------------------------------------------

RunInit ==
    /\ module \in DOMAIN RunConfigs
    /\ config \in {c \in RunConfigs[module] : Read(module, c) # None}
    /\ inUse = Read(module, config)[1]
    /\ status = "Init" /\ handle = None /\ timers = <<>> /\ work = AtRest /\ waiting = <<>>
    /\ count = 0 /\ arrivals = 0 /\ stops = 0 /\ edits = 0 /\ stranded = FALSE /\ given = <<>>

RunNext ==
    \/ Start \/ Store \/ Stop
    \/ \E c \in RunConfigs[module] : Reconfigure(c)
    \/ \E t \in DOMAIN timers : Wake(t) \/ Check(t) \/ Tick(t) \/ ThrottleTick(t)
    \/ ThrottleProcess \/ Queue \/ DelayProcess \/ Output
    \/ \E reset \in BOOLEAN : AnswerInput(reset)

RunSpec == RunInit /\ [][RunNext]_runVars

-----------------------------------------------------------------------------

\* However starts, stops and edits follow one another, at most one task goes on
\* ticking: the one the handle names or is about to, and none once the module
\* is stopped.  An interval timer, a schedule and a watcher run with the
\* settings the module read last.  (A throttle that was stopped is left out: a
\* task that was awake then may take the handle of the one started since.)
OneTimer ==
    \A t \in DOMAIN timers : Live(t) /\ (module = "Throttle" => stops = 0) =>
        /\ Some(t) = handle \/ (work.step = "store" /\ work.timer = t)
        /\ work.step = "store" \/ status = "Start"
        /\ module \in {"Interval", "Schedule", "Watch"} => timers[t].runs = inUse

From(source) == SelectSeq(given, LAMBDA o : o.from = source)
Ascends(s) == \A i, j \in DOMAIN s : i < j => s[i] < s[j]

\* The throttle and the delay emit a value once.  What the throttle gives up
\* is older than all it keeps, it keeps no more than its capacity, and until a
\* stop or a value that was kept after the timer had gone, values come out in
\* the order they came in.
ValuesKept ==
    module \in {"Throttle", "Delay"} =>
      LET values == [i \in DOMAIN given |-> given[i].value]
          held   == Range(values) \cup Range(waiting) \cup {work.value}
      IN /\ \A i, j \in DOMAIN values : i # j => values[i] # values[j]
         /\ \A w \in Range(waiting) : w \notin Range(values)
         /\ Ascends(waiting)
         /\ module = "Throttle" => inUse.capacity < 0 \/ Len(waiting) <= inUse.capacity
         /\ stops = 0 => \A v \in 1 .. arrivals : v \in held \/ \A w \in Range(waiting) : v < w
         /\ (stops = 0 /\ ~stranded) \/ module = "Delay" => Ascends(values \o waiting)

\* Whatever is edited, stopped and started while a timer ticks, there is one
\* timer and it loses no value.
TimersKeep == OneTimer /\ ValuesKept

\* A module that is not started emits nothing, not even when it is edited: only
\* what was under way when it was stopped still comes, a tick a timer had
\* decided on, the last events of a watcher, the signal of a delayed start.
QuietWhenStopped ==
    [][(given' # given /\ status = "Start") \/ given' = given
        \/ \E t \in DOMAIN timers : timers[t].state = "sending" /\ timers'[t].state # "sending"]_runVars
=============================================================================
