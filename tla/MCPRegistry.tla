----------------------------- MODULE MCPRegistry -----------------------------
(***************************************************************************)
(* The MCP servers of sdk-python/orchestrator/mcp_integration.py: threads  *)
(* that call tools, each through a server of its own or through the        *)
(* ManagedMCPRegistry, which spawns servers on demand and keeps them until *)
(* cleanup.  One action is what a thread does between two points where it  *)
(* waits or another one could see the difference.                          *)
(*                                                                         *)
(* The threads in Own run the skills of run_sync_with_mcp, which cleans up *)
(* after them: run_sync has joined them by then (NothingRunsOn, SkillRun). *)
(* Others may share the registry.  Left out: arguments and results, and    *)
(* the process of a server, which the code never sets.                     *)
(***************************************************************************)
EXTENDS Naturals, Sequences, FiniteSets

CONSTANTS
    Callers,   \* the threads that call tools
    Own,       \* the ones the cleanup waits for
    Managed,   \* the ones whose wrapper was given the registry
    Names,     \* server names
    MaxCalls,  \* MaxCalls[c]: how many calls a thread makes
    None       \* no server, no thread

\* The thread that cleans up, as the holder of the lock.
Janitor == "cleanup"

ASSUME McpAssumption ==
    /\ IsFiniteSet(Callers) /\ IsFiniteSet(Names)
    /\ Own \subseteq Callers /\ Managed \subseteq Callers
    /\ MaxCalls \in [Callers -> Nat]
    /\ Janitor \notin Callers
    /\ None \notin Callers \cup {Janitor} \cup Nat

VARIABLES
    specs,    \* specs[n]: "absent", or whether n is registered with a handler
    servers,  \* the MCPServer objects created so far, in order
    cache,    \* cache[n]: the number of the server in the registry, or None
    lock,     \* the thread that holds the registry's lock, or None
    caller,   \* caller[c]: where the call of c is, its server's name and number
    calls,    \* calls[c]: how many calls c has begun
    cleaner,  \* where cleanup is, and the names it has still to disconnect
    crossed   \* the servers cleanup disconnected while a call was using them

vars == <<specs, servers, cache, lock, caller, calls, cleaner, crossed>>

-----------------------------------------------------------------------------
Server == [name : Names, handler : BOOLEAN, managed : BOOLEAN, connected : BOOLEAN]

\* The constructor, and connect.
NewServer(n, handled, managed) ==
    [name |-> n, handler |-> handled, managed |-> managed, connected |-> TRUE]

At(label, n, i) == [at |-> label, name |-> n, server |-> i]
Idle == At("idle", None, None)
Goto(c, label) == caller' = [caller EXCEPT ![c].at = label]

Cleaning(label, S) == [at |-> label, todo |-> S]

\* The calls that have a server.
Holds(c) == caller[c].at \in {"call", "use", "skill", "leave"}
Users(i) == {c \in Callers : Holds(c) /\ caller[c].server = i}

SetConnected(i, b) == servers' = [servers EXCEPT ![i].connected = b]

Init ==
    /\ specs = [n \in Names |-> "absent"]
    /\ servers = <<>>
    /\ cache = [n \in Names |-> None]
    /\ lock = None
    /\ caller = [c \in Callers |-> Idle]
    /\ calls = [c \in Callers |-> 0]
    /\ cleaner = Cleaning("idle", {})
    /\ crossed = {}

-----------------------------------------------------------------------------
\* register does not take the lock, and changes no server spawned before.
Register(n, how) ==
    /\ specs[n] # how
    /\ specs' = [specs EXCEPT ![n] = how]
    /\ UNCHANGED <<servers, cache, lock, caller, calls, cleaner, crossed>>

-----------------------------------------------------------------------------
(* The wrapper of mcp_skill, and that of register_mcp_tool *)

\* With a registry the wrapper asks it for the server.
BeginManaged(c, n) ==
    /\ caller[c] = Idle
    /\ calls[c] < MaxCalls[c]
    /\ c \in Managed
    /\ calls' = [calls EXCEPT ![c] = @ + 1]
    /\ caller' = [caller EXCEPT ![c] = At("lock", n, None)]
    /\ UNCHANGED <<specs, servers, cache, lock, cleaner, crossed>>

\* Without one it makes a server, which has no handler, and connects it.
BeginTemporary(c, n) ==
    /\ caller[c] = Idle
    /\ calls[c] < MaxCalls[c]
    /\ c \notin Managed
    /\ calls' = [calls EXCEPT ![c] = @ + 1]
    /\ servers' = Append(servers, NewServer(n, FALSE, FALSE))
    /\ caller' = [caller EXCEPT ![c] = At("call", n, Len(servers'))]
    /\ UNCHANGED <<specs, cache, lock, cleaner, crossed>>

\* Slip: get_or_spawn does not take the lock.
LockNot(c) ==
    /\ caller[c].at = "lock"
    /\ Goto(c, "look")
    /\ UNCHANGED <<specs, servers, cache, lock, calls, cleaner, crossed>>

\* get_or_spawn, which holds the lock from here to its return.
Lock(c) ==
    /\ caller[c].at = "lock"
    /\ lock = None
    /\ lock' = c
    /\ Goto(c, "look")
    /\ UNCHANGED <<specs, servers, cache, calls, cleaner, crossed>>

Cached(c) ==
    LET n == caller[c].name
    IN  /\ caller[c].at = "look"
        /\ cache[n] # None
        /\ lock' = None
        /\ caller' = [caller EXCEPT ![c] = At("call", n, cache[n])]
        /\ UNCHANGED <<specs, servers, cache, calls, cleaner, crossed>>

\* Slip: the lock is released on the way out of a successful call only.
UnknownServerLocked(c) ==
    /\ caller[c].at = "look"
    /\ cache[caller[c].name] = None
    /\ specs[caller[c].name] = "absent"
    /\ caller' = [caller EXCEPT ![c] = Idle]
    /\ UNCHANGED <<specs, servers, cache, lock, calls, cleaner, crossed>>

\* ValueError: the call is over before it has a server.
UnknownServer(c) ==
    /\ caller[c].at = "look"
    /\ cache[caller[c].name] = None
    /\ specs[caller[c].name] = "absent"
    /\ lock' = None
    /\ caller' = [caller EXCEPT ![c] = Idle]
    /\ UNCHANGED <<specs, servers, cache, calls, cleaner, crossed>>

Spawn(c) ==
    LET n == caller[c].name
    IN  /\ caller[c].at = "look"
        /\ cache[n] = None
        /\ specs[n] # "absent"
        /\ servers' = Append(servers, NewServer(n, specs[n] = "handled", TRUE))
        /\ caller' = [caller EXCEPT ![c] = At("store", n, Len(servers'))]
        /\ UNCHANGED <<specs, cache, lock, calls, cleaner, crossed>>

Store(c) ==
    /\ caller[c].at = "store"
    /\ cache' = [cache EXCEPT ![caller[c].name] = caller[c].server]
    /\ lock' = None
    /\ Goto(c, "call")
    /\ UNCHANGED <<specs, servers, calls, cleaner, crossed>>

\* call_tool connects a server that is not connected, and then calls the tool.
Connect(c) ==
    /\ caller[c].at = "call"
    /\ SetConnected(caller[c].server, TRUE)
    /\ Goto(c, "use")
    /\ UNCHANGED <<specs, cache, lock, calls, cleaner, crossed>>

\* A tool the server does not have, or a server without handler, raises, and a
\* handler may; otherwise the skill itself runs before the call is over.
Use(c) ==
    /\ caller[c].at = "use"
    /\ \/ Goto(c, "leave")
       \/ servers[caller[c].server].handler /\ Goto(c, "skill")
    /\ UNCHANGED <<specs, servers, cache, lock, calls, cleaner, crossed>>

SkillEnds(c) ==
    /\ caller[c].at = "skill"
    /\ Goto(c, "leave")
    /\ UNCHANGED <<specs, servers, cache, lock, calls, cleaner, crossed>>

\* Slip: the server is left to whoever collects the wrapper's garbage.
LeaveAsItIs(c) ==
    /\ caller[c].at = "leave"
    /\ caller' = [caller EXCEPT ![c] = Idle]
    /\ UNCHANGED <<specs, servers, cache, lock, calls, cleaner, crossed>>

\* The finally clause.
Leave(c) ==
    /\ caller[c].at = "leave"
    /\ IF c \in Managed THEN UNCHANGED servers ELSE SetConnected(caller[c].server, FALSE)
    /\ caller' = [caller EXCEPT ![c] = Idle]
    /\ UNCHANGED <<specs, cache, lock, calls, cleaner, crossed>>

-----------------------------------------------------------------------------
(* cleanup, in the finally clause of run_sync_with_mcp *)

BeginCleanup ==
    /\ cleaner.at = "idle"
    /\ lock = None
    /\ \A c \in Own : caller[c] = Idle /\ calls[c] = MaxCalls[c]
    /\ lock' = Janitor
    /\ cleaner' = Cleaning("clean", {n \in Names : cache[n] # None})
    /\ UNCHANGED <<specs, servers, cache, caller, calls, crossed>>

\* The lock keeps nobody from using a server it got before.
Disconnect(n) ==
    /\ cleaner.at = "clean"
    /\ n \in cleaner.todo
    /\ SetConnected(cache[n], FALSE)
    /\ crossed' = crossed \cup {i \in {cache[n]} : Users(i) # {}}
    /\ cleaner' = Cleaning("clean", cleaner.todo \ {n})
    /\ UNCHANGED <<specs, cache, lock, caller, calls>>

Clear ==
    /\ cleaner = Cleaning("clean", {})
    /\ cache' = [n \in Names |-> None]
    /\ lock' = None
    /\ cleaner' = Cleaning("done", {})
    /\ UNCHANGED <<specs, servers, caller, calls, crossed>>

-----------------------------------------------------------------------------
CallStep(c) ==
    \/ Lock(c) \/ Cached(c) \/ UnknownServer(c) \/ Spawn(c) \/ Store(c)
    \/ Connect(c) \/ Use(c) \/ SkillEnds(c) \/ Leave(c)

CleanStep == BeginCleanup \/ (\E n \in Names : Disconnect(n)) \/ Clear

Next ==
    \/ \E n \in Names : \E how \in {"bare", "handled"} : Register(n, how)
    \/ \E c \in Callers :
         \/ CallStep(c)
         \/ \E n \in Names : BeginManaged(c, n) \/ BeginTemporary(c, n)
    \/ CleanStep

Spec == Init /\ [][Next]_vars

(***************************************************************************)
(* Fairness.  Every thread that can run does.  Nobody has to register a    *)
(* server or begin a call.                                                 *)
(***************************************************************************)
Fairness == WF_vars(CleanStep) /\ \A c \in Callers : WF_vars(CallStep(c))

FairSpec == Spec /\ Fairness

=============================================================================
