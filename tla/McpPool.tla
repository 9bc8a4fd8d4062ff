------------------------------ MODULE McpPool ------------------------------
(***************************************************************************)
(* The pool of MCP client connections of modular-agent-core: one entry per *)
(* server, reused by every tool call, replaced when it is marked dead or   *)
(* its service is gone; a failed call marks its entry dead, reconnects and *)
(* retries once; services are cancelled in background tasks or by          *)
(* shutdown_all_mcp_connections.                                           *)
(*                                                                         *)
(* Two locks: the pool lock, held across the handshake of a new service,   *)
(* and one lock per connection, held for the length of a call, which may   *)
(* never return.  A caller may be dropped at any await (its flow is        *)
(* aborted), which releases what it holds.                                 *)
(***************************************************************************)
EXTENDS Naturals, FiniteSets

CONSTANTS
    Servers,
    Callers,       \* tasks that call tools or list those of a server
    MaxEntries     \* bound: services started in a behaviour

None      == 0
Entries   == 1 .. MaxEntries
Free      == "free"
Canceller == "canceller"     \* the background task of an entry
Host      == "host"          \* the task in shutdown_all_mcp_connections
NoServer  == "no server"

ASSUME PoolAssumption ==
    /\ MaxEntries \in Nat
    /\ Callers \cap {Free, Canceller, Host} = {}
    /\ NoServer \notin Servers

VARIABLES
    pool, poolLock,        \* the entry of each server
    nextEntry, service, dead, connLock, background,   \* of each entry
    pc, server, entry, attempt,                       \* of each caller
    shutdown, drained, current                        \* of the host

poolVars  == <<pool, poolLock>>
entryVars == <<nextEntry, service, dead, connLock, background>>
callVars  == <<pc, server, entry, attempt>>
hostVars  == <<shutdown, drained, current>>
vars == <<poolVars, entryVars, callVars, hostVars>>

\* attempt: 0 for the listing of a server's tools, which is not retried and
\* marks nothing dead, 1 and 2 for a tool call.
TypeOK ==
    /\ pool \in [Servers -> Entries \cup {None}]
    /\ poolLock \in Callers \cup {Free}
    /\ nextEntry \in 1 .. MaxEntries + 1
    /\ service \in [Entries -> {"none", "running", "cancelled"}]
    /\ dead \in [Entries -> BOOLEAN]
    /\ connLock \in [Entries -> Callers \cup {Free, Canceller, Host}]
    /\ background \in [Entries -> {"none", "waiting", "cancelling"}]
    /\ pc \in [Callers -> {"idle", "wantPool", "connecting", "wantConn", "calling"}]
    /\ server \in [Callers -> Servers \cup {NoServer}]
    /\ entry \in [Callers -> Entries \cup {None}]
    /\ attempt \in [Callers -> 0 .. 2]
    /\ shutdown \in {"idle", "wantPool", "draining", "wantConn", "cancelling"}
    /\ drained \in SUBSET Entries
    /\ current \in Entries \cup {None}
    /\ \A c \in Callers :
          /\ pc[c] # "idle" => server[c] \in Servers
          /\ pc[c] \in {"wantConn", "calling"} => entry[c] \in Entries
    /\ shutdown \in {"wantConn", "cancelling"} => current \in Entries

Init ==
    /\ pool = [s \in Servers |-> None]
    /\ poolLock = Free
    /\ nextEntry = 1
    /\ service = [e \in Entries |-> "none"]
    /\ dead = [e \in Entries |-> FALSE]
    /\ connLock = [e \in Entries |-> Free]
    /\ background = [e \in Entries |-> "none"]
    /\ pc = [c \in Callers |-> "idle"]
    /\ server = [c \in Callers |-> NoServer]
    /\ entry = [c \in Callers |-> None]
    /\ attempt = [c \in Callers |-> 0]
    /\ shutdown = "idle"
    /\ drained = {}
    /\ current = None

Goto(c, s) == pc' = [pc EXCEPT ![c] = s]

Finish(c) ==
    /\ Goto(c, "idle")
    /\ server' = [server EXCEPT ![c] = NoServer]
    /\ entry' = [entry EXCEPT ![c] = None]
    /\ attempt' = [attempt EXCEPT ![c] = 0]

-----------------------------------------------------------------------------
(* A caller: get_or_create under the pool lock.                             *)

Begin(c, s, a) ==
    /\ pc[c] = "idle"
    /\ Goto(c, "wantPool")
    /\ server' = [server EXCEPT ![c] = s]
    /\ attempt' = [attempt EXCEPT ![c] = a]
    /\ UNCHANGED <<poolVars, entryVars, entry, hostVars>>

\* Mutant: a retry replaces whatever the pool holds.
RetryReplaces(c, e) == dead[e] \/ attempt[c] = 2

\* get_or_create and invalidate replace an entry that is marked dead or whose
\* service is gone.  The lock of a busy connection is not waited for.
Unusable(c, e) ==
    dead[e] \/ (connLock[e] = Free /\ service[e] # "running")

\* Mutant: the pool waits for the connection lock.
ReuseIdle(c) ==
    /\ pc[c] = "wantPool" /\ poolLock = Free
    /\ pool[server[c]] # None /\ ~Unusable(c, pool[server[c]])
    /\ connLock[pool[server[c]]] = Free
    /\ entry' = [entry EXCEPT ![c] = pool[server[c]]]
    /\ Goto(c, "wantConn")
    /\ UNCHANGED <<poolVars, entryVars, server, attempt, hostVars>>

Reuse(c) ==
    /\ pc[c] = "wantPool" /\ poolLock = Free
    /\ pool[server[c]] # None /\ ~Unusable(c, pool[server[c]])
    /\ entry' = [entry EXCEPT ![c] = pool[server[c]]]
    /\ Goto(c, "wantConn")
    /\ UNCHANGED <<poolVars, entryVars, server, attempt, hostVars>>

\* A stale entry leaves the pool for its background task (invalidate before a
\* retry does the same to a dead one), and the handshake of a new service begins
\* with the pool lock held.
Connect(c) ==
    /\ pc[c] = "wantPool" /\ poolLock = Free /\ nextEntry \in Entries
    /\ LET e == pool[server[c]] IN
       \/ e = None /\ UNCHANGED <<dead, background>>
       \/ /\ e # None /\ Unusable(c, e)
          /\ dead' = [dead EXCEPT ![e] = TRUE]
          /\ background' = [background EXCEPT ![e] = "waiting"]
    /\ poolLock' = c
    /\ pool' = [pool EXCEPT ![server[c]] = None]
    /\ Goto(c, "connecting")
    /\ UNCHANGED <<nextEntry, service, connLock, server, entry, attempt, hostVars>>

Connected(c) ==
    /\ pc[c] = "connecting" /\ nextEntry \in Entries
    /\ service' = [service EXCEPT ![nextEntry] = "running"]
    /\ pool' = [pool EXCEPT ![server[c]] = nextEntry]
    /\ entry' = [entry EXCEPT ![c] = nextEntry]
    /\ nextEntry' = nextEntry + 1
    /\ poolLock' = Free
    /\ Goto(c, "wantConn")
    /\ UNCHANGED <<dead, connLock, background, server, attempt, hostVars>>

ConnectFails(c) ==
    /\ pc[c] = "connecting"
    /\ poolLock' = Free
    /\ Finish(c)
    /\ UNCHANGED <<pool, entryVars, hostVars>>

-----------------------------------------------------------------------------
(* A caller: call_once under the connection lock.                           *)

\* What follows a failure: a first attempt marks the entry dead and goes back
\* to the pool, a second marks it dead and gives up, a listing gives up.
Failed(c) ==
    \/ attempt[c] = 0 /\ Finish(c) /\ UNCHANGED dead
    \/ /\ attempt[c] = 1
       /\ dead' = [dead EXCEPT ![entry[c]] = TRUE]
       /\ Goto(c, "wantPool")
       /\ attempt' = [attempt EXCEPT ![c] = 2]
       /\ entry' = [entry EXCEPT ![c] = None]
       /\ UNCHANGED server
    \/ /\ attempt[c] = 2
       /\ dead' = [dead EXCEPT ![entry[c]] = TRUE]
       /\ Finish(c)

StartCall(c) ==
    /\ pc[c] = "wantConn" /\ connLock[entry[c]] = Free
    /\ service[entry[c]] = "running"
    /\ connLock' = [connLock EXCEPT ![entry[c]] = c]
    /\ Goto(c, "calling")
    /\ UNCHANGED <<poolVars, nextEntry, service, dead, background, server, entry,
                   attempt, hostVars>>

\* The service was taken while the caller waited for the lock.
NotAvailable(c) ==
    /\ pc[c] = "wantConn" /\ connLock[entry[c]] = Free
    /\ service[entry[c]] # "running"
    /\ Failed(c)
    /\ UNCHANGED <<poolVars, nextEntry, service, connLock, background, hostVars>>

CallReturns(c) ==
    /\ pc[c] = "calling"
    /\ connLock' = [connLock EXCEPT ![entry[c]] = Free]
    /\ Finish(c)
    /\ UNCHANGED <<poolVars, nextEntry, service, dead, background, hostVars>>

CallFails(c) ==
    /\ pc[c] = "calling"
    /\ connLock' = [connLock EXCEPT ![entry[c]] = Free]
    /\ Failed(c)
    /\ UNCHANGED <<poolVars, nextEntry, service, background, hostVars>>

\* The flow of the caller is aborted: its future is dropped where it waits.
\* A service still in its handshake dies with it.
Dropped(c) ==
    /\ pc[c] # "idle"
    /\ poolLock' = IF poolLock = c THEN Free ELSE poolLock
    /\ connLock' = [e \in Entries |-> IF connLock[e] = c THEN Free ELSE connLock[e]]
    /\ Finish(c)
    /\ UNCHANGED <<pool, nextEntry, service, dead, background, hostVars>>

-----------------------------------------------------------------------------
(* Cancellation of a service: take() it under the connection lock, then     *)
(* await its cancel() with the lock held.                                   *)

TakeService(e) ==
    /\ background[e] = "waiting" /\ connLock[e] = Free
    /\ IF service[e] = "running"
       THEN /\ service' = [service EXCEPT ![e] = "cancelled"]
            /\ connLock' = [connLock EXCEPT ![e] = Canceller]
            /\ background' = [background EXCEPT ![e] = "cancelling"]
       ELSE /\ background' = [background EXCEPT ![e] = "none"]
            /\ UNCHANGED <<service, connLock>>
    /\ UNCHANGED <<poolVars, nextEntry, dead, callVars, hostVars>>

Cancelled(e) ==
    /\ background[e] = "cancelling"
    /\ connLock' = [connLock EXCEPT ![e] = Free]
    /\ background' = [background EXCEPT ![e] = "none"]
    /\ UNCHANGED <<poolVars, nextEntry, service, dead, callVars, hostVars>>

-----------------------------------------------------------------------------
(* shutdown_all_mcp_connections.                                            *)

CallShutdown ==
    /\ shutdown = "idle"
    /\ shutdown' = "wantPool"
    /\ UNCHANGED <<poolVars, entryVars, callVars, drained, current>>

TakeAll ==
    /\ shutdown = "wantPool" /\ poolLock = Free
    /\ drained' = {pool[s] : s \in Servers} \ {None}
    /\ pool' = [s \in Servers |-> None]
    /\ shutdown' = "draining"
    /\ UNCHANGED <<poolLock, entryVars, callVars, current>>

Visit(e) ==
    /\ shutdown = "draining" /\ e \in drained
    /\ drained' = drained \ {e}
    /\ current' = e
    /\ dead' = [dead EXCEPT ![e] = TRUE]
    /\ shutdown' = "wantConn"
    /\ UNCHANGED <<poolVars, nextEntry, service, connLock, background, callVars>>

TakeCurrent ==
    /\ shutdown = "wantConn" /\ connLock[current] = Free
    /\ IF service[current] = "running"
       THEN /\ service' = [service EXCEPT ![current] = "cancelled"]
            /\ connLock' = [connLock EXCEPT ![current] = Host]
            /\ shutdown' = "cancelling"
            /\ UNCHANGED current
       ELSE /\ shutdown' = "draining" /\ current' = None
            /\ UNCHANGED <<service, connLock>>
    /\ UNCHANGED <<poolVars, nextEntry, dead, background, callVars, drained>>

CurrentCancelled ==
    /\ shutdown = "cancelling"
    /\ connLock' = [connLock EXCEPT ![current] = Free]
    /\ shutdown' = "draining" /\ current' = None
    /\ UNCHANGED <<poolVars, nextEntry, service, dead, background, callVars, drained>>

\* Mutant: a connection busy for too long is given up.
GiveUp ==
    /\ shutdown = "wantConn" /\ connLock[current] # Free
    /\ shutdown' = "draining" /\ current' = None
    /\ UNCHANGED <<poolVars, entryVars, callVars, drained>>

\* Busy for five seconds: left to a background task.
TimedOut ==
    /\ shutdown = "wantConn" /\ connLock[current] # Free
    /\ background' = [background EXCEPT ![current] = "waiting"]
    /\ shutdown' = "draining" /\ current' = None
    /\ UNCHANGED <<poolVars, nextEntry, service, dead, connLock, callVars, drained>>

ShutDown ==
    /\ shutdown = "draining" /\ drained = {}
    /\ shutdown' = "idle"
    /\ UNCHANGED <<poolVars, entryVars, callVars, drained, current>>

-----------------------------------------------------------------------------
Caller(c) ==
    \/ \E s \in Servers, a \in {0, 1} : Begin(c, s, a)
    \/ Reuse(c) \/ Connect(c) \/ Connected(c) \/ ConnectFails(c)
    \/ StartCall(c) \/ NotAvailable(c) \/ CallReturns(c) \/ CallFails(c)
    \/ Dropped(c)

Shutdown ==
    \/ CallShutdown \/ TakeAll \/ (\E e \in Entries : Visit(e))
    \/ TakeCurrent \/ CurrentCancelled \/ TimedOut \/ ShutDown

Next ==
    \/ \E c \in Callers : Caller(c)
    \/ \E e \in Entries : TakeService(e) \/ Cancelled(e)
    \/ Shutdown

Spec == Init /\ [][Next]_vars

\* tokio's locks are handed over in FIFO order, a handshake and the cancel() of
\* a service end, the shutdown runs on its own task.  A call may hang for ever.
ShutdownSteps ==
    \/ (\E e \in Entries : Visit(e)) \/ CurrentCancelled \/ ShutDown

PoolFairness ==
    /\ \A c \in Callers : /\ SF_vars(Reuse(c) \/ Connect(c))
                          /\ WF_vars(Connected(c) \/ ConnectFails(c))
    /\ \A e \in Entries : WF_vars(Cancelled(e))
    /\ WF_vars(ShutdownSteps) /\ SF_vars(TakeAll) /\ SF_vars(TakeCurrent \/ TimedOut)

FairSpec == Spec /\ PoolFairness

-----------------------------------------------------------------------------
(* Properties *)

\* Every service that runs is in the pool or some task will cancel it: no MCP
\* child process leaks, whatever fails, is dropped or shut down meanwhile.
NoLeakedService ==
    \A e \in Entries :
        service[e] = "running" =>
            \/ \E s \in Servers : pool[s] = e
            \/ background[e] = "waiting"
            \/ e \in drained \/ e = current

\* A busy connection in the pool has a call in flight and its service: what
\* get_or_create concludes when it cannot lock the connection.
BusyIsLive ==
    \A s \in Servers :
        pool[s] # None /\ connLock[pool[s]] # Free =>
            connLock[pool[s]] \in Callers /\ service[pool[s]] = "running"

\* Every service that runs is held by the pool or about to be cancelled, and a
\* connection that the pool finds busy has its service.
ServicesHeld == NoLeakedService /\ BusyIsLive

\* A late failure does not discard a healthy replacement: outside a shutdown
\* an entry leaves the pool only after its own call failed.
HealthyStays ==
    [][\A s \in Servers :
          pool[s] # None /\ pool'[s] # pool[s] /\ shutdown' = shutdown
              => dead[pool[s]]]_vars

\* A call that hangs does not keep others from the pool.  (The bound on
\* services is the only other way to stay there.)
PoolNeverStalls ==
    \A c \in Callers :
        pc[c] = "wantPool" ~> pc[c] # "wantPool" \/ nextEntry \notin Entries

\* Shutdown ends, though calls may hang.
ShutdownEnds == shutdown # "idle" ~> shutdown = "idle"

\* A call that hangs holds up neither the other callers nor a shutdown.
PoolProgress == PoolNeverStalls /\ ShutdownEnds
=============================================================================
