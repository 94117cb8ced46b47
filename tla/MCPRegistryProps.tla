--------------------------- MODULE MCPRegistryProps ---------------------------
(***************************************************************************)
(* What the MCP integration must keep true of its servers.                 *)
(***************************************************************************)
EXTENDS MCPRegistry

Locations == {"idle", "lock", "look", "store", "call", "use", "skill", "leave"}

\* Every variable keeps to the values the registry and its callers give it.
McpTypeOK ==
    /\ specs \in [Names -> {"absent", "bare", "handled"}]
    /\ servers \in Seq(Server)
    /\ cache \in [Names -> DOMAIN servers \cup {None}]
    /\ lock \in Callers \cup {Janitor, None}
    /\ caller \in [Callers -> [at : Locations, name : Names \cup {None},
                               server : DOMAIN servers \cup {None}]]
    /\ \A c \in Callers : calls[c] \in 0..MaxCalls[c]
    /\ cleaner \in [at : {"idle", "clean", "done"}, todo : SUBSET Names]
    /\ crossed \subseteq DOMAIN servers

\* A server is connected only while somebody answers for it: the registry has it
\* or its spawner is about to store it; a call uses it that will disconnect it;
\* or cleanup disconnected it under a call, which may have connected it again.
\* So without calls across a cleanup, a cleanup leaves nothing connected.
NoLeak ==
    \A i \in DOMAIN servers : servers[i].connected =>
        \/ \E n \in Names : cache[n] = i
        \/ \E c \in Callers :
             caller[c].server = i /\ (c \notin Managed \/ caller[c].at = "store")
        \/ i \in crossed

\* The registry, its callers and its cleanup together answer for every server.
ServersAccountedFor == McpTypeOK /\ NoLeak

\* Threads that call the same managed server at the same time share one object,
\* the one in the cache, however they raced to spawn it.
OneServerPerName ==
    \A c \in Managed : Holds(c) =>
        LET i == caller[c].server
        IN  i \in crossed \/ i = cache[caller[c].name]

\* Every call ends, with or without a server, and so does the cleanup: no path
\* keeps the lock.
CallsEnd ==
    /\ \A c \in Callers : caller[c] # Idle ~> caller[c] = Idle
    /\ (\A c \in Own : calls[c] = MaxCalls[c]) ~> cleaner.at = "done"
==============================================================================
