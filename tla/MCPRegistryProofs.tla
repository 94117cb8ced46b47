-------------------------- MODULE MCPRegistryProofs --------------------------
(***************************************************************************)
(* Proofs about the MCP servers, for every set of threads and names, every *)
(* choice of the threads that use the registry and that cleanup waits for, *)
(* and every number of calls.                                              *)
(***************************************************************************)
EXTENDS MCPRegistryProps, TLAPS, SequenceTheorems

\* The lock is held from the look into the cache to the return of get_or_spawn,
\* and by cleanup while it disconnects.
LockInv ==
    /\ \A c \in Callers : caller[c].at \in {"look", "store"} <=> lock = c
    /\ cleaner.at = "clean" <=> lock = Janitor

\* What a call has, by how far it is.  One that is about to store its server
\* still has no other in the cache under that name.
ShapeInv == \A c \in Callers :
    /\ caller[c].at = "idle" => caller[c] = Idle
    /\ caller[c].at # "idle" => caller[c].name \in Names
    /\ caller[c].at \in {"lock", "look"} => c \in Managed /\ caller[c].server = None
    /\ caller[c].at = "store" => c \in Managed /\ cache[caller[c].name] = None
    /\ caller[c].at \notin {"idle", "lock", "look"} => caller[c].server \in DOMAIN servers

\* What cleanup has disconnected stays so until the cache is cleared, unless a
\* call was using it.
CleanInv == cleaner.at = "clean" =>
    /\ \A n \in cleaner.todo : cache[n] # None
    /\ \A n \in Names \ cleaner.todo : cache[n] # None =>
         \/ cache[n] \in crossed
         \/ /\ ~servers[cache[n]].connected
            /\ \A c \in Callers : Holds(c) => caller[c].server # cache[n]

MInv == McpTypeOK /\ LockInv /\ ShapeInv /\ NoLeak /\ OneServerPerName /\ CleanInv

-----------------------------------------------------------------------------
(* Values *)

Calling(S) == [at : Locations, name : Names \cup {None}, server : S \cup {None}]

LEMMA ServerNumbers ==
    ASSUME McpTypeOK
    PROVE  /\ Len(servers) \in Nat /\ DOMAIN servers = 1..Len(servers)
           /\ DOMAIN servers \subseteq Nat /\ None \notin DOMAIN servers
           /\ \A i \in DOMAIN servers : servers[i] \in Server
<1>1. Len(servers) \in Nat /\ DOMAIN servers = 1..Len(servers)
      /\ \A i \in 1..Len(servers) : servers[i] \in Server
  BY LenProperties, ElementOfSeq DEF McpTypeOK
<1>2. DOMAIN servers \subseteq Nat
  BY <1>1
<1> QED
  BY <1>1, <1>2, McpAssumption

LEMMA AppendServer ==
    ASSUME McpTypeOK, NEW s \in Server, servers' = Append(servers, s)
    PROVE  /\ servers' \in Seq(Server) /\ Len(servers') \notin DOMAIN servers
           /\ DOMAIN servers' = DOMAIN servers \cup {Len(servers')}
           /\ servers'[Len(servers')] = s
           /\ \A i \in DOMAIN servers : servers'[i] = servers[i]
<1>1. /\ servers' \in Seq(Server) /\ Len(servers') = Len(servers) + 1
      /\ \A i \in 1..Len(servers) : servers'[i] = servers[i]
      /\ servers'[Len(servers) + 1] = s
  BY AppendProperties DEF McpTypeOK
<1>2. Len(servers) \in Nat /\ DOMAIN servers = 1..Len(servers)
  BY ServerNumbers
<1>3. DOMAIN servers' = 1..Len(servers')
  BY <1>1, LenProperties
<1>4. 1..(Len(servers) + 1) = 1..Len(servers) \cup {Len(servers) + 1}
  BY <1>2
<1>5. Len(servers) + 1 \notin 1..Len(servers)
  BY <1>2
<1> QED
  BY <1>1, <1>2, <1>3, <1>4, <1>5, Zenon

LEMMA SetServer ==
    ASSUME McpTypeOK, NEW i \in DOMAIN servers, NEW b \in BOOLEAN, SetConnected(i, b)
    PROVE  /\ servers' \in Seq(Server) /\ DOMAIN servers' = DOMAIN servers
           /\ servers'[i].connected = b
           /\ \A j \in DOMAIN servers \ {i} : servers'[j] = servers[j]
<1> DEFINE s == [servers[i] EXCEPT !.connected = b]
<1>1. s \in Server /\ s.connected = b
  BY ServerNumbers DEF Server
<1>2. servers' = [servers EXCEPT ![i] = s] /\ servers \in Seq(Server) /\ i \in 1..Len(servers)
  BY ServerNumbers DEF SetConnected, McpTypeOK
<1> HIDE DEF s
<1>3. servers' \in Seq(Server)
  <2>1. [servers EXCEPT ![i] = s] \in Seq(Server)
    BY <1>1, <1>2, ExceptSeq, Zenon
  <2> QED
    BY <1>2, <2>1, Zenon
<1>4. DOMAIN servers' = DOMAIN servers /\ servers'[i] = s
      /\ \A j \in DOMAIN servers \ {i} : servers'[j] = servers[j]
  BY <1>2
<1> QED
  BY <1>1, <1>3, <1>4

Sends(c, l, n, i) == caller' = [caller EXCEPT ![c] = At(l, n, i)]

LEMMA CallerTo ==
    ASSUME McpTypeOK, NEW c \in Callers, NEW l \in Locations, NEW n \in Names \cup {None},
           NEW S, NEW i \in S \cup {None}, DOMAIN servers \subseteq S, Sends(c, l, n, i)
    PROVE  /\ caller' \in [Callers -> Calling(S)]
           /\ caller'[c] = At(l, n, i)
           /\ caller'[c].at = l /\ caller'[c].name = n /\ caller'[c].server = i
           /\ \A d \in Callers \ {c} : caller'[d] = caller[d]
<1>1. caller \in [Callers -> Calling(S)]
  BY DEF McpTypeOK, Calling
<1>2. At(l, n, i) \in Calling(S)
  BY DEF At, Calling
<1>3. At(l, n, i).at = l /\ At(l, n, i).name = n /\ At(l, n, i).server = i
  BY DEF At
<1> HIDE DEF At
<1>4. caller'[c] = At(l, n, i) /\ \A d \in Callers \ {c} : caller'[d] = caller[d]
  BY <1>1 DEF Sends
<1>5. caller' \in [Callers -> Calling(S)]
  BY <1>1, <1>2 DEF Sends
<1> QED
  BY <1>3, <1>4, <1>5

LEMMA GotoIs ==
    ASSUME McpTypeOK, NEW c \in Callers, NEW l \in Locations, Goto(c, l)
    PROVE  /\ caller[c].name \in Names \cup {None}
           /\ caller[c].server \in DOMAIN servers \cup {None}
           /\ Sends(c, l, caller[c].name, caller[c].server)
<1>1. caller[c] \in [at : Locations, name : Names \cup {None}, server : DOMAIN servers \cup {None}]
  BY DEF McpTypeOK
<1>2. [caller[c] EXCEPT !.at = l] = At(l, caller[c].name, caller[c].server)
  BY <1>1 DEF At
<1>3. caller' = [caller EXCEPT ![c] = [caller[c] EXCEPT !.at = l]]
  BY DEF Goto
<1> QED
  BY <1>1, <1>2, <1>3 DEF Sends

-----------------------------------------------------------------------------
LEMMA MInit == Init => MInv
<1> SUFFICES ASSUME Init PROVE MInv
  OBVIOUS
<1>1. servers = <<>> /\ DOMAIN servers = {} /\ servers \in Seq(Server)
  BY EmptySeq DEF Init
<1>2. /\ Idle.at = "idle" /\ Idle.server = None
      /\ Idle \in [at : Locations, name : Names \cup {None}, server : DOMAIN servers \cup {None}]
  BY DEF Idle, At, Locations
<1>3. cleaner.at = "idle" /\ cleaner \in [at : {"idle", "clean", "done"}, todo : SUBSET Names]
  BY DEF Init, Cleaning
<1>4. McpTypeOK
  <2>1. \A c \in Callers : calls[c] \in 0..MaxCalls[c]
    BY McpAssumption DEF Init
  <2> QED
    BY <1>1, <1>2, <1>3, <2>1 DEF Init, McpTypeOK
<1>5. LockInv
  BY <1>2, <1>3, McpAssumption DEF Init, LockInv
<1>6. ShapeInv
  BY <1>2 DEF Init, ShapeInv
<1>7. NoLeak
  BY <1>1 DEF NoLeak
<1>8. OneServerPerName
  BY <1>2, McpAssumption DEF Init, OneServerPerName, Holds
<1>9. CleanInv
  BY <1>3 DEF CleanInv
<1> QED
  BY <1>4, <1>5, <1>6, <1>7, <1>8, <1>9 DEF MInv

-----------------------------------------------------------------------------
(* What a thread does between two points, all but storing a server *)

Holding == {"call", "use", "skill", "leave"}

\* The server c has to answer for, before and after its step.
Answers(c, at, i, j) == i = j /\ (c \notin Managed \/ at = "store")

\* The call of c goes to l, with the name n and the server i.
Moves(c, l, n, i) ==
    /\ l \in Locations /\ n \in Names \cup {None} /\ i \in DOMAIN servers' \cup {None}
    /\ Sends(c, l, n, i)
    /\ specs' = specs /\ cache' = cache /\ cleaner' = cleaner /\ crossed' = crossed
    /\ \A d \in Callers : calls'[d] \in 0..MaxCalls[d]
    /\ servers' \in Seq(Server) /\ DOMAIN servers \subseteq DOMAIN servers'

\* It takes the lock, gives it back or leaves it.
LockMoves(c, l) ==
    \/ lock' = lock /\ (l \in {"look", "store"} <=> caller[c].at \in {"look", "store"})
    \/ lock = None /\ lock' = c /\ l \in {"look", "store"}
    \/ lock = c /\ lock' = None /\ l \notin {"look", "store"}

Shaped(c, l, n, i) ==
    /\ l = "idle" => n = None /\ i = None
    /\ l # "idle" => n \in Names
    /\ l \in {"lock", "look"} => c \in Managed /\ i = None
    /\ l = "store" => c \in Managed /\ cache[n] = None
    /\ l \notin {"idle", "lock", "look"} => i \in DOMAIN servers'

LEMMA Moving ==
    ASSUME MInv, NEW c \in Callers, NEW l, NEW n, NEW i,
           Moves(c, l, n, i), LockMoves(c, l), Shaped(c, l, n, i),
           \A j \in DOMAIN servers' : servers'[j].connected =>
               \/ /\ j \in DOMAIN servers /\ servers[j].connected
                  /\ ~Answers(c, caller[c].at, caller[c].server, j)
               \/ Answers(c, l, i, j)
               \/ j \in crossed \/ \E m \in Names : cache[m] = j,
           c \in Managed /\ l \in Holding => i \in crossed \/ i = cache[n],
           lock = Janitor =>
               /\ l \in Holding => i \notin DOMAIN servers \/ (Holds(c) /\ i = caller[c].server)
               /\ \A j \in DOMAIN servers : servers'[j].connected =>
                     servers[j].connected \/ (Holds(c) /\ caller[c].server = j)
    PROVE  MInv'
<1>0. /\ McpTypeOK /\ LockInv /\ ShapeInv /\ NoLeak /\ OneServerPerName /\ CleanInv
      /\ l \in Locations /\ n \in Names \cup {None} /\ i \in DOMAIN servers' \cup {None}
      /\ Sends(c, l, n, i) /\ DOMAIN servers \subseteq DOMAIN servers'
      /\ cache' = cache /\ cleaner' = cleaner /\ crossed' = crossed /\ servers' \in Seq(Server)
  BY DEF MInv, Moves
<1>1. /\ caller' \in [Callers -> Calling(DOMAIN servers')]
      /\ caller'[c] = At(l, n, i)
      /\ caller'[c].at = l /\ caller'[c].name = n /\ caller'[c].server = i
      /\ \A d \in Callers \ {c} : caller'[d] = caller[d]
  <2>1. PICK S : S = DOMAIN servers'
    OBVIOUS
  <2>2. i \in S \cup {None} /\ DOMAIN servers \subseteq S
    BY <1>0, <2>1
  <2> QED
    BY <1>0, <2>1, <2>2, CallerTo
<1>2. McpTypeOK'
  <2>1. lock' \in Callers \cup {Janitor, None}
    BY <1>0 DEF LockMoves, McpTypeOK
  <2>2. /\ cache' \in [Names -> DOMAIN servers' \cup {None}]
        /\ specs' \in [Names -> {"absent", "bare", "handled"}]
        /\ cleaner' \in [at : {"idle", "clean", "done"}, todo : SUBSET Names]
        /\ crossed' \subseteq DOMAIN servers'
    BY <1>0 DEF McpTypeOK, Moves
  <2>3. \A d \in Callers : calls'[d] \in 0..MaxCalls[d]
    BY DEF Moves
  <2> QED
    BY <1>0, <1>1, <2>1, <2>2, <2>3 DEF McpTypeOK, Calling
<1>3. LockInv'
  <2>1. Janitor # None /\ \A d \in Callers : d # Janitor /\ d # None
    BY McpAssumption
  <2>2. ASSUME NEW d \in Callers
        PROVE  caller'[d].at \in {"look", "store"} <=> lock' = d
    <3>1. CASE d = c
      BY <1>0, <1>1, <2>1, <3>1 DEF LockInv, LockMoves
    <3>2. CASE d # c
      BY <1>0, <1>1, <2>1, <3>2 DEF LockInv, LockMoves
    <3> QED
      BY <3>1, <3>2
  <2>3. cleaner'.at = "clean" <=> lock' = Janitor
    BY <1>0, <2>1 DEF LockInv, LockMoves
  <2> QED
    BY <2>2, <2>3 DEF LockInv
<1>4. ShapeInv'
  <2>1. ASSUME NEW d \in Callers \ {c}
        PROVE  /\ caller'[d].at = "idle" => caller'[d] = Idle
               /\ caller'[d].at # "idle" => caller'[d].name \in Names
               /\ caller'[d].at \in {"lock", "look"} => d \in Managed /\ caller'[d].server = None
               /\ caller'[d].at = "store" => d \in Managed /\ cache'[caller'[d].name] = None
               /\ caller'[d].at \notin {"idle", "lock", "look"} =>
                    caller'[d].server \in DOMAIN servers'
    BY <1>0, <1>1 DEF ShapeInv
  <2>2. l = "idle" => caller'[c] = Idle
    BY <1>1 DEF Shaped, Idle
  <2> QED
    BY <1>0, <1>1, <2>1, <2>2 DEF ShapeInv, Shaped, Idle, At
<1>5. NoLeak'
  <2> SUFFICES ASSUME NEW j \in DOMAIN servers', servers'[j].connected
               PROVE  \/ \E m \in Names : cache'[m] = j
                      \/ \E d \in Callers :
                            caller'[d].server = j /\ (d \notin Managed \/ caller'[d].at = "store")
                      \/ j \in crossed'
    BY DEF NoLeak
  <2>1. CASE Answers(c, l, i, j)
    BY <1>1, <2>1 DEF Answers
  <2>2. CASE j \in crossed \/ \E m \in Names : cache[m] = j
    BY <1>0, <2>2
  <2>3. CASE /\ j \in DOMAIN servers /\ servers[j].connected
             /\ ~Answers(c, caller[c].at, caller[c].server, j)
    <3>1. ASSUME NEW d \in Callers, caller[d].server = j,
                 d \notin Managed \/ caller[d].at = "store"
          PROVE  caller'[d].server = j /\ (d \notin Managed \/ caller'[d].at = "store")
      <4>1. d # c
        BY <2>3, <3>1 DEF Answers
      <4> QED
        BY <1>1, <3>1, <4>1
    <3> QED
      BY <1>0, <2>2, <2>3, <3>1 DEF NoLeak
  <2> QED
    BY <2>1, <2>2, <2>3
<1>6. OneServerPerName'
  <2> SUFFICES ASSUME NEW d \in Managed, Holds(d)'
               PROVE  caller'[d].server \in crossed \/ caller'[d].server = cache[caller'[d].name]
    BY <1>0 DEF OneServerPerName
  <2>1. d \in Callers
    BY McpAssumption
  <2>2. CASE d = c
    BY <1>1, <2>2 DEF Holds, Holding
  <2>3. CASE d # c
    BY <1>0, <1>1, <2>1, <2>3 DEF OneServerPerName, Holds
  <2> QED
    BY <2>2, <2>3
<1>7. CleanInv'
  <2> SUFFICES ASSUME cleaner.at = "clean", NEW m \in Names \ cleaner.todo, cache[m] # None,
                      cache[m] \notin crossed
               PROVE  /\ ~servers'[cache[m]].connected
                      /\ \A d \in Callers : Holds(d)' => caller'[d].server # cache[m]
    BY <1>0 DEF CleanInv
  <2>1. lock = Janitor /\ cache[m] \in DOMAIN servers
    BY <1>0 DEF LockInv, McpTypeOK
  <2>2. /\ ~servers[cache[m]].connected
        /\ \A d \in Callers : Holds(d) => caller[d].server # cache[m]
    BY <1>0 DEF CleanInv
  <2>3. ASSUME NEW d \in Callers, Holds(d)' PROVE caller'[d].server # cache[m]
    <3>1. CASE d = c
      BY <1>1, <2>1, <2>2, <2>3, <3>1 DEF Holds, Holding
    <3>2. CASE d # c
      BY <1>1, <2>2, <2>3, <3>2 DEF Holds
    <3> QED
      BY <3>1, <3>2
  <2> QED
    BY <2>1, <2>2, <2>3
<1> QED
  BY <1>2, <1>3, <1>4, <1>5, <1>6, <1>7 DEF MInv

LEMMA MCallStep ==
    ASSUME MInv, NEW c \in Callers, NEW m \in Names,
           CallStep(c) \/ BeginManaged(c, m) \/ BeginTemporary(c, m), ~Store(c)
    PROVE  MInv'
<1>0. /\ McpTypeOK /\ LockInv /\ ShapeInv /\ NoLeak /\ OneServerPerName /\ CleanInv
      /\ servers \in Seq(Server) /\ DOMAIN servers \subseteq DOMAIN servers
      /\ \A d \in Callers : calls[d] \in 0..MaxCalls[d]
      /\ None \in Names \cup {None} /\ None \in DOMAIN servers \cup {None}
      /\ None \in DOMAIN servers' \cup {None}
      /\ None \notin DOMAIN servers
      /\ Idle = At("idle", None, None) /\ Idle.at = "idle" /\ Idle.server = None
  BY ServerNumbers DEF MInv, McpTypeOK, Idle, At
<1>1. PICK n : n = caller[c].name
  OBVIOUS
<1>2. PICK i : i = caller[c].server
  OBVIOUS
<1>3. n \in Names \cup {None} /\ i \in DOMAIN servers \cup {None}
  BY <1>0, <1>1, <1>2 DEF McpTypeOK
\* Every server connected before is still answered for if c was not to.
<1>4. ASSUME servers' = servers, ~(c \notin Managed \/ caller[c].at = "store") \/ i = None
      PROVE  \A j \in DOMAIN servers' : servers'[j].connected =>
               /\ j \in DOMAIN servers /\ servers[j].connected
               /\ ~Answers(c, caller[c].at, caller[c].server, j)
  BY <1>0, <1>2, <1>4 DEF Answers
<1>5. CASE BeginManaged(c, m)
  <2>1. /\ caller[c] = Idle /\ c \in Managed /\ Sends(c, "lock", m, None) /\ lock' = lock
        /\ servers' = servers /\ UNCHANGED <<specs, cache, cleaner, crossed>>
        /\ calls' = [calls EXCEPT ![c] = @ + 1] /\ calls[c] < MaxCalls[c]
    BY <1>5 DEF BeginManaged, Sends
  <2>2. \A d \in Callers : calls'[d] \in 0..MaxCalls[d]
    BY <1>0, <2>1, McpAssumption DEF McpTypeOK
  <2>3. Moves(c, "lock", m, None)
    BY <1>0, <2>1, <2>2 DEF Moves, Locations
  <2>4. LockMoves(c, "lock") /\ Shaped(c, "lock", m, None)
    BY <1>0, <2>1 DEF LockMoves, Shaped
  <2> QED
    BY <1>0, <1>2, <1>4, <2>1, <2>3, <2>4, Moving DEF Holding
<1>6. CASE BeginTemporary(c, m)
  <2>1. PICK s : s = NewServer(m, FALSE, FALSE)
    OBVIOUS
  <2>2. s \in Server
    BY <2>1 DEF NewServer, Server
  <2>3. PICK k : k = Len(servers')
    OBVIOUS
  <2>4. /\ caller[c] = Idle /\ c \notin Managed /\ Sends(c, "call", m, k) /\ lock' = lock
        /\ servers' = Append(servers, s) /\ UNCHANGED <<specs, cache, cleaner, crossed>>
        /\ calls' = [calls EXCEPT ![c] = @ + 1] /\ calls[c] < MaxCalls[c]
    BY <1>6, <2>1, <2>3 DEF BeginTemporary, Sends
  <2>5. \A d \in Callers : calls'[d] \in 0..MaxCalls[d]
    BY <1>0, <2>4, McpAssumption DEF McpTypeOK
  <2>6. /\ servers' \in Seq(Server) /\ k \notin DOMAIN servers
        /\ DOMAIN servers' = DOMAIN servers \cup {k}
        /\ \A j \in DOMAIN servers : servers'[j] = servers[j]
    BY <1>0, <2>2, <2>3, <2>4, AppendServer
  <2>7. Moves(c, "call", m, k)
    BY <1>0, <2>4, <2>5, <2>6 DEF Moves, Locations
  <2>8. LockMoves(c, "call") /\ Shaped(c, "call", m, k)
    BY <1>0, <2>4, <2>6 DEF LockMoves, Shaped
  <2>9. \A j \in DOMAIN servers' : servers'[j].connected =>
            \/ /\ j \in DOMAIN servers /\ servers[j].connected
               /\ ~Answers(c, caller[c].at, caller[c].server, j)
            \/ Answers(c, "call", k, j)
    BY <1>0, <2>4, <2>6 DEF Answers
  <2> QED
    BY <2>4, <2>6, <2>7, <2>8, <2>9, Moving
<1>7. CASE Lock(c)
  <2>1. /\ caller[c].at = "lock" /\ lock = None /\ lock' = c /\ Sends(c, "look", n, i)
        /\ UNCHANGED <<specs, servers, cache, calls, cleaner, crossed>>
    BY <1>0, <1>1, <1>2, <1>7, GotoIs DEF Lock, Locations
  <2>2. n \in Names /\ c \in Managed /\ i = None
    BY <1>0, <1>1, <1>2, <2>1 DEF ShapeInv
  <2>3. Moves(c, "look", n, i) /\ LockMoves(c, "look") /\ Shaped(c, "look", n, i)
    BY <1>0, <1>3, <2>1, <2>2 DEF Moves, LockMoves, Shaped, Locations
  <2> QED
    BY <1>0, <1>2, <1>4, <2>1, <2>2, <2>3, Moving DEF Holding
<1>8. CASE Cached(c)
  <2>1. PICK k : k = cache[n]
    OBVIOUS
  <2>2. /\ caller[c].at = "look" /\ k # None /\ lock' = None /\ Sends(c, "call", n, k)
        /\ UNCHANGED <<specs, servers, cache, calls, cleaner, crossed>>
    BY <1>1, <1>8, <2>1 DEF Cached, Sends
  <2>3. n \in Names /\ c \in Managed /\ i = None /\ lock = c
    BY <1>0, <1>1, <1>2, <2>2 DEF ShapeInv, LockInv
  <2>4. k \in DOMAIN servers
    BY <1>0, <2>1, <2>2, <2>3 DEF McpTypeOK
  <2>5. Moves(c, "call", n, k) /\ LockMoves(c, "call") /\ Shaped(c, "call", n, k)
    BY <1>0, <2>2, <2>3, <2>4 DEF Moves, LockMoves, Shaped, Locations
  <2> QED
    BY <1>0, <1>2, <1>4, <2>1, <2>2, <2>3, <2>5, Moving, McpAssumption DEF Holding
<1>9. CASE UnknownServer(c)
  <2>1. /\ caller[c].at = "look" /\ lock' = None /\ Sends(c, "idle", None, None)
        /\ UNCHANGED <<specs, servers, cache, calls, cleaner, crossed>>
    BY <1>9 DEF UnknownServer, Sends, Idle
  <2>2. c \in Managed /\ lock = c
    BY <1>0, <2>1 DEF ShapeInv, LockInv
  <2>3. /\ Moves(c, "idle", None, None) /\ LockMoves(c, "idle") /\ Shaped(c, "idle", None, None)
    BY <1>0, <2>1, <2>2 DEF Moves, LockMoves, Shaped, Locations
  <2> QED
    BY <1>0, <1>2, <1>4, <2>1, <2>2, <2>3, Moving DEF Holding
<1>10. CASE Spawn(c)
  <2>1. PICK s : s = NewServer(n, specs[n] = "handled", TRUE)
    OBVIOUS
  <2>2. PICK k : k = Len(servers')
    OBVIOUS
  <2>3. /\ caller[c].at = "look" /\ cache[n] = None /\ Sends(c, "store", n, k)
        /\ servers' = Append(servers, s)
        /\ UNCHANGED <<specs, cache, lock, calls, cleaner, crossed>>
    BY <1>1, <1>10, <2>1, <2>2 DEF Spawn, Sends
  <2>4. n \in Names /\ c \in Managed /\ i = None /\ lock = c
    BY <1>0, <1>1, <1>2, <2>3 DEF ShapeInv, LockInv
  <2>5. s \in Server
    <3>1. (specs[n] = "handled") \in BOOLEAN /\ TRUE \in BOOLEAN
      BY Zenon
    <3> QED
      BY <2>1, <2>4, <3>1 DEF NewServer, Server
  <2>6. /\ servers' \in Seq(Server) /\ k \notin DOMAIN servers
        /\ DOMAIN servers' = DOMAIN servers \cup {k}
        /\ \A j \in DOMAIN servers : servers'[j] = servers[j]
    BY <1>0, <2>2, <2>3, <2>5, AppendServer
  <2>7. Moves(c, "store", n, k) /\ LockMoves(c, "store") /\ Shaped(c, "store", n, k)
    BY <1>0, <2>3, <2>4, <2>6 DEF Moves, LockMoves, Shaped, Locations
  <2>8. \A j \in DOMAIN servers' : servers'[j].connected =>
            \/ /\ j \in DOMAIN servers /\ servers[j].connected
               /\ ~Answers(c, caller[c].at, caller[c].server, j)
            \/ Answers(c, "store", k, j)
    BY <1>0, <1>2, <2>3, <2>4, <2>6 DEF Answers
  <2> QED
    BY <2>3, <2>4, <2>6, <2>7, <2>8, Moving, McpAssumption DEF Holding
<1>11. CASE Connect(c)
  <2>1. /\ caller[c].at = "call" /\ SetConnected(i, TRUE) /\ Sends(c, "use", n, i)
        /\ UNCHANGED <<specs, cache, lock, calls, cleaner, crossed>>
    BY <1>0, <1>1, <1>2, <1>11, GotoIs DEF Connect, Locations
  <2>2. n \in Names /\ i \in DOMAIN servers /\ Holds(c)
    BY <1>0, <1>1, <1>2, <2>1 DEF ShapeInv, Holds
  <2>3. /\ servers' \in Seq(Server) /\ DOMAIN servers' = DOMAIN servers
        /\ \A j \in DOMAIN servers \ {i} : servers'[j] = servers[j]
    BY <1>0, <2>1, <2>2, SetServer
  <2>4. Moves(c, "use", n, i) /\ LockMoves(c, "use") /\ Shaped(c, "use", n, i)
    BY <1>0, <2>1, <2>2, <2>3 DEF Moves, LockMoves, Shaped, Locations
  <2>5. c \in Managed => i \in crossed \/ i = cache[n]
    BY <1>0, <1>1, <1>2, <2>2 DEF OneServerPerName
  <2>6. \A j \in DOMAIN servers' : servers'[j].connected =>
            \/ /\ j \in DOMAIN servers /\ servers[j].connected
               /\ ~Answers(c, caller[c].at, caller[c].server, j)
            \/ Answers(c, "use", i, j) \/ j \in crossed \/ \E x \in Names : cache[x] = j
    BY <1>2, <2>2, <2>3, <2>5 DEF Answers
  <2> QED
    BY <1>2, <2>1, <2>2, <2>3, <2>4, <2>5, <2>6, Moving
<1>12. CASE Use(c) \/ SkillEnds(c)
  <2>1. PICK l \in {"leave", "skill"} :
          /\ caller[c].at \in {"use", "skill"} /\ Sends(c, l, n, i)
          /\ UNCHANGED <<specs, servers, cache, lock, calls, cleaner, crossed>>
    BY <1>0, <1>1, <1>2, <1>12, GotoIs DEF Use, SkillEnds, Locations
  <2>2. n \in Names /\ i \in DOMAIN servers /\ Holds(c)
    BY <1>0, <1>1, <1>2, <2>1 DEF ShapeInv, Holds
  <2>3. Moves(c, l, n, i) /\ LockMoves(c, l) /\ Shaped(c, l, n, i)
    BY <1>0, <2>1, <2>2 DEF Moves, LockMoves, Shaped, Locations
  <2>4. c \in Managed => i \in crossed \/ i = cache[n]
    BY <1>0, <1>1, <1>2, <2>2 DEF OneServerPerName
  <2>5. \A j \in DOMAIN servers' : servers'[j].connected =>
            \/ /\ j \in DOMAIN servers /\ servers[j].connected
               /\ ~Answers(c, caller[c].at, caller[c].server, j)
            \/ Answers(c, l, i, j)
    BY <1>2, <2>1, <2>2 DEF Answers
  <2> QED
    BY <1>2, <2>1, <2>2, <2>3, <2>4, <2>5, Moving
<1>13. CASE Leave(c)
  <2>1. /\ caller[c].at = "leave" /\ Sends(c, "idle", None, None)
        /\ IF c \in Managed THEN servers' = servers ELSE SetConnected(i, FALSE)
        /\ UNCHANGED <<specs, cache, lock, calls, cleaner, crossed>>
    BY <1>2, <1>13 DEF Leave, Sends, Idle
  <2>2. i \in DOMAIN servers
    BY <1>0, <1>2, <2>1 DEF ShapeInv
  <2>3. /\ servers' \in Seq(Server) /\ DOMAIN servers' = DOMAIN servers
        /\ \A j \in DOMAIN servers \ {i} : servers'[j] = servers[j]
        /\ servers' = servers \/ servers'[i].connected = FALSE
    BY <1>0, <2>1, <2>2, SetServer
  <2>4. /\ Moves(c, "idle", None, None) /\ LockMoves(c, "idle") /\ Shaped(c, "idle", None, None)
    BY <1>0, <2>1, <2>2, <2>3 DEF Moves, LockMoves, Shaped, Locations
  <2>5. \A j \in DOMAIN servers' : servers'[j].connected =>
            /\ j \in DOMAIN servers /\ servers[j].connected
            /\ ~Answers(c, caller[c].at, caller[c].server, j)
    <3>1. CASE c \in Managed
      BY <2>1, <3>1 DEF Answers
    <3>2. CASE c \notin Managed
      <4>1. servers'[i].connected = FALSE
        BY <1>0, <2>1, <2>2, <3>2, SetServer
      <4> QED
        BY <1>2, <2>3, <4>1 DEF Answers
    <3> QED
      BY <3>1, <3>2
  <2>6. \A j \in DOMAIN servers : servers'[j].connected => servers[j].connected
    BY <2>3
  <2> QED
    BY <2>4, <2>5, <2>6, Moving DEF Holding
<1> QED
  BY <1>5, <1>6, <1>7, <1>8, <1>9, <1>10, <1>11, <1>12, <1>13 DEF CallStep

-----------------------------------------------------------------------------
\* Storing a server: nobody has stored another one under its name meanwhile.
LEMMA MStore == ASSUME MInv, NEW c \in Callers, Store(c) PROVE MInv'
<1>0. /\ McpTypeOK /\ LockInv /\ ShapeInv /\ NoLeak /\ OneServerPerName /\ CleanInv
      /\ None \notin DOMAIN servers
  BY ServerNumbers DEF MInv
<1>1. PICK n, i : n = caller[c].name /\ i = caller[c].server
  OBVIOUS
<1>2. /\ caller[c].at = "store" /\ Sends(c, "call", n, i) /\ lock' = None
      /\ cache' = [cache EXCEPT ![n] = i]
      /\ UNCHANGED <<specs, servers, calls, cleaner, crossed>>
  BY <1>0, <1>1, GotoIs DEF Store, Locations
<1>3. n \in Names /\ i \in DOMAIN servers /\ c \in Managed /\ cache[n] = None /\ lock = c
  BY <1>0, <1>1, <1>2 DEF ShapeInv, LockInv
<1>4. /\ caller' \in [Callers -> Calling(DOMAIN servers)]
      /\ caller'[c].at = "call" /\ caller'[c].name = n /\ caller'[c].server = i
      /\ \A d \in Callers \ {c} : caller'[d] = caller[d]
  BY <1>0, <1>2, <1>3, CallerTo DEF Locations
<1>5. cache'[n] = i /\ \A m \in Names \ {n} : cache'[m] = cache[m]
  BY <1>0, <1>2, <1>3 DEF McpTypeOK
<1>6. McpTypeOK'
  <2>1. cache' \in [Names -> DOMAIN servers \cup {None}]
    BY <1>0, <1>2, <1>3 DEF McpTypeOK
  <2> QED
    BY <1>0, <1>2, <1>4, <2>1 DEF McpTypeOK, Calling
<1>7. LockInv'
  BY <1>0, <1>2, <1>3, <1>4, McpAssumption DEF LockInv
<1>8. ShapeInv'
  <2>1. ASSUME NEW d \in Callers \ {c} PROVE caller[d].at # "store"
    BY <1>0, <1>3 DEF LockInv
  <2> QED
    BY <1>0, <1>2, <1>3, <1>4, <2>1 DEF ShapeInv
<1>9. NoLeak'
  <2> SUFFICES ASSUME NEW j \in DOMAIN servers, servers[j].connected
               PROVE  \/ \E m \in Names : cache'[m] = j
                      \/ \E d \in Callers :
                            caller'[d].server = j /\ (d \notin Managed \/ caller'[d].at = "store")
                      \/ j \in crossed
    BY <1>2 DEF NoLeak
  <2>1. CASE j = i
    BY <1>3, <1>5, <2>1
  <2>2. CASE j # i
    <3>1. \A m \in Names : cache[m] = j => cache'[m] = j
      BY <1>0, <1>3, <1>5
    <3>2. \A d \in Callers : caller[d].server = j => d # c
      BY <1>1, <2>2
    <3> QED
      BY <1>0, <1>4, <3>1, <3>2 DEF NoLeak
  <2> QED
    BY <2>1, <2>2
<1>10. OneServerPerName'
  <2> SUFFICES ASSUME NEW d \in Managed, Holds(d)'
               PROVE  caller'[d].server \in crossed \/ caller'[d].server = cache'[caller'[d].name]
    BY <1>2 DEF OneServerPerName
  <2>1. d \in Callers
    BY McpAssumption
  <2>2. CASE d = c
    BY <1>4, <1>5, <2>2
  <2>3. CASE d # c
    <3>1. Holds(d) /\ caller'[d] = caller[d]
      BY <1>4, <2>1, <2>3 DEF Holds
    <3>2. caller[d].server \in DOMAIN servers /\ caller[d].name \in Names
      BY <1>0, <2>1, <3>1 DEF ShapeInv, Holds
    <3>3. caller[d].server \in crossed \/ caller[d].server = cache[caller[d].name]
      BY <1>0, <3>1 DEF OneServerPerName
    <3> QED
      BY <1>0, <1>3, <1>5, <3>1, <3>2, <3>3
  <2> QED
    BY <2>2, <2>3
<1>11. CleanInv'
  BY <1>0, <1>2, <1>3, McpAssumption DEF CleanInv, LockInv
<1> QED
  BY <1>6, <1>7, <1>8, <1>9, <1>10, <1>11 DEF MInv

-----------------------------------------------------------------------------
(* register and cleanup *)

LEMMA CleaningFields ==
    ASSUME NEW l, NEW S
    PROVE  Cleaning(l, S).at = l /\ Cleaning(l, S).todo = S
BY DEF Cleaning

LEMMA MRegister ==
    ASSUME MInv, NEW n \in Names, NEW how \in {"bare", "handled"}, Register(n, how)
    PROVE  MInv'
<1>1. UNCHANGED <<servers, cache, lock, caller, calls, cleaner, crossed>>
  BY DEF Register
<1>2. specs' \in [Names -> {"absent", "bare", "handled"}]
  BY DEF Register, MInv, McpTypeOK
<1>3. McpTypeOK'
  BY <1>1, <1>2 DEF MInv, McpTypeOK
<1> QED
  BY <1>1, <1>3 DEF MInv, LockInv, ShapeInv, NoLeak, OneServerPerName, CleanInv, Holds

LEMMA MBeginCleanup == ASSUME MInv, BeginCleanup PROVE MInv'
<1> DEFINE S == {n \in Names : cache[n] # None}
<1>1. /\ cleaner.at = "idle" /\ lock = None /\ lock' = Janitor /\ cleaner' = Cleaning("clean", S)
      /\ UNCHANGED <<specs, servers, cache, caller, calls, crossed>>
  BY DEF BeginCleanup
<1>2. S \subseteq Names /\ \A n \in Names : n \in S <=> cache[n] # None
  OBVIOUS
<1> HIDE DEF S
<1>3. cleaner'.at = "clean" /\ cleaner'.todo = S
      /\ cleaner' \in [at : {"idle", "clean", "done"}, todo : SUBSET Names]
  BY <1>1, <1>2 DEF Cleaning
<1>4. McpTypeOK'
  BY <1>1, <1>3 DEF MInv, McpTypeOK
<1>5. LockInv'
  BY <1>1, <1>3, McpAssumption DEF MInv, LockInv
<1>6. CleanInv'
  BY <1>1, <1>2, <1>3 DEF CleanInv
<1> QED
  BY <1>1, <1>4, <1>5, <1>6 DEF MInv, ShapeInv, NoLeak, OneServerPerName, Holds

LEMMA MDisconnect == ASSUME MInv, NEW n \in Names, Disconnect(n) PROVE MInv'
<1>0. McpTypeOK /\ LockInv /\ ShapeInv /\ NoLeak /\ OneServerPerName /\ CleanInv
  BY DEF MInv
<1>1. PICK i : i = cache[n]
  OBVIOUS
<1>2. /\ cleaner.at = "clean" /\ n \in cleaner.todo /\ SetConnected(i, FALSE)
      /\ crossed' = crossed \cup {j \in {i} : Users(j) # {}}
      /\ cleaner' = Cleaning("clean", cleaner.todo \ {n})
      /\ UNCHANGED <<specs, cache, lock, caller, calls>>
  BY <1>1 DEF Disconnect
<1>3. i \in DOMAIN servers
  BY <1>0, <1>1, <1>2 DEF McpTypeOK, CleanInv
<1>4. /\ servers' \in Seq(Server) /\ DOMAIN servers' = DOMAIN servers
      /\ servers'[i].connected = FALSE
      /\ \A j \in DOMAIN servers \ {i} : servers'[j] = servers[j]
  BY <1>0, <1>2, <1>3, SetServer
<1>5. /\ crossed \subseteq crossed' /\ crossed' \subseteq DOMAIN servers
      /\ Users(i) # {} => i \in crossed'
  BY <1>0, <1>2, <1>3 DEF McpTypeOK
<1>6. /\ cleaner'.at = "clean" /\ cleaner'.todo = cleaner.todo \ {n}
      /\ cleaner' \in [at : {"idle", "clean", "done"}, todo : SUBSET Names]
  BY <1>0, <1>2 DEF Cleaning, McpTypeOK
<1>7. McpTypeOK'
  BY <1>0, <1>2, <1>4, <1>5, <1>6 DEF McpTypeOK
<1>8. LockInv'
  BY <1>0, <1>2, <1>6 DEF LockInv
<1>9. ShapeInv'
  BY <1>0, <1>2, <1>4 DEF ShapeInv
<1>10. NoLeak'
  <2>1. \A j \in DOMAIN servers : servers'[j].connected => servers[j].connected
    BY <1>4
  <2> QED
    BY <1>0, <1>2, <1>4, <1>5, <2>1 DEF NoLeak
<1>11. OneServerPerName'
  BY <1>0, <1>2, <1>5 DEF OneServerPerName, Holds
<1>12. CleanInv'
  <2>1. ASSUME NEW m \in Names, m \notin cleaner'.todo, cache[m] # None, cache[m] \notin crossed'
        PROVE  /\ ~servers'[cache[m]].connected
               /\ \A c \in Callers : Holds(c)' => caller'[c].server # cache[m]
    <3>1. CASE cache[m] = i
      <4>1. Users(i) = {}
        BY <1>5, <2>1, <3>1
      <4> QED
        BY <1>2, <1>4, <3>1, <4>1 DEF Users, Holds
    <3>2. CASE cache[m] # i
      <4>1. m \notin cleaner.todo /\ cache[m] \notin crossed
        BY <1>1, <1>5, <1>6, <2>1, <3>2
      <4>2. cache[m] \in DOMAIN servers \ {i}
        BY <1>0, <2>1, <3>2 DEF McpTypeOK
      <4> QED
        BY <1>0, <1>2, <1>4, <2>1, <4>1, <4>2 DEF CleanInv, Holds
    <3> QED
      BY <3>1, <3>2
  <2> QED
    BY <1>0, <1>2, <1>6, <2>1 DEF CleanInv
<1> QED
  BY <1>7, <1>8, <1>9, <1>10, <1>11, <1>12 DEF MInv

LEMMA MClear == ASSUME MInv, Clear PROVE MInv'
<1>0. McpTypeOK /\ LockInv /\ ShapeInv /\ NoLeak /\ OneServerPerName /\ CleanInv
  BY DEF MInv
<1>1. /\ cleaner.at = "clean" /\ cleaner.todo = {} /\ lock' = None
      /\ cache' = [n \in Names |-> None]
      /\ cleaner' = Cleaning("done", {}) /\ UNCHANGED <<specs, servers, caller, calls, crossed>>
  BY CleaningFields DEF Clear
<1>2. /\ cleaner'.at = "done"
      /\ cleaner' \in [at : {"idle", "clean", "done"}, todo : SUBSET Names]
  BY <1>1 DEF Cleaning
<1>3. lock = Janitor
  BY <1>0, <1>1 DEF LockInv
<1>4. McpTypeOK'
  BY <1>0, <1>1, <1>2 DEF McpTypeOK
<1>5. LockInv'
  BY <1>0, <1>1, <1>2, <1>3, McpAssumption DEF LockInv
<1>6. ShapeInv'
  BY <1>0, <1>1 DEF ShapeInv
<1>7. \A n \in Names : cache[n] # None =>
         \/ cache[n] \in crossed
         \/ /\ ~servers[cache[n]].connected
            /\ \A c \in Callers : Holds(c) => caller[c].server # cache[n]
  BY <1>0, <1>1 DEF CleanInv
<1>8. NoLeak'
  <2> SUFFICES ASSUME NEW j \in DOMAIN servers, servers[j].connected, j \notin crossed
               PROVE  \E d \in Callers :
                         caller[d].server = j /\ (d \notin Managed \/ caller[d].at = "store")
    BY <1>1 DEF NoLeak
  <2>1. ASSUME NEW n \in Names, cache[n] = j PROVE FALSE
    BY <1>0, <1>7, <2>1, ServerNumbers
  <2> QED
    BY <1>0, <2>1 DEF NoLeak
<1>9. OneServerPerName'
  <2> SUFFICES ASSUME NEW d \in Managed, Holds(d) PROVE caller[d].server \in crossed
    BY <1>1 DEF OneServerPerName, Holds
  <2>1. d \in Callers
    BY McpAssumption
  <2>2. caller[d].server \in DOMAIN servers /\ caller[d].name \in Names
    BY <1>0, <2>1 DEF ShapeInv, Holds
  <2>3. caller[d].server \in crossed \/ caller[d].server = cache[caller[d].name]
    BY <1>0 DEF OneServerPerName
  <2> QED
    BY <1>0, <1>7, <2>1, <2>2, <2>3, ServerNumbers
<1>10. CleanInv'
  BY <1>2 DEF CleanInv
<1> QED
  BY <1>4, <1>5, <1>6, <1>8, <1>9, <1>10 DEF MInv

-----------------------------------------------------------------------------
LEMMA MStep == ASSUME MInv, [Next]_vars PROVE MInv'
<1>1. CASE UNCHANGED vars
  BY <1>1 DEF vars, MInv, McpTypeOK, LockInv, ShapeInv, NoLeak, OneServerPerName, CleanInv, Holds
<1>2. ASSUME NEW n \in Names, NEW how \in {"bare", "handled"}, Register(n, how) PROVE MInv'
  BY <1>2, MRegister
<1>3. ASSUME NEW c \in Callers, CallStep(c) PROVE MInv'
  <2>1. CASE Store(c)
    BY <2>1, MStore
  <2>2. CASE ~Store(c)
    <3>1. caller[c].at # "idle"
      BY <1>3, Zenon DEF CallStep, Lock, Cached, UnknownServer, Spawn, Store, Connect, Use,
                         SkillEnds, Leave
    <3>2. caller[c].name \in Names
      BY <3>1 DEF MInv, ShapeInv
    <3> QED
      BY <1>3, <2>2, <3>2, MCallStep
  <2> QED
    BY <2>1, <2>2
<1>4. ASSUME NEW c \in Callers, NEW n \in Names, BeginManaged(c, n) \/ BeginTemporary(c, n)
      PROVE  MInv'
  <2>1. ~Store(c)
    <3>1. caller[c] = Idle
      BY <1>4 DEF BeginManaged, BeginTemporary
    <3>2. caller[c].at = "idle"
      BY <3>1 DEF Idle, At
    <3> QED
      BY <3>2 DEF Store
  <2> QED
    BY <1>4, <2>1, MCallStep
<1>5. ASSUME CleanStep PROVE MInv'
  BY <1>5, MBeginCleanup, MDisconnect, MClear DEF CleanStep
<1> QED
  BY <1>1, <1>2, <1>3, <1>4, <1>5 DEF Next

LEMMA MInvHolds == Spec => []MInv
<1>1. MInv /\ [Next]_vars => MInv'
  BY MStep
<1> QED
  BY <1>1, MInit, PTL DEF Spec

\* However calls, registrations and the cleanup interleave, every connected server
\* has somebody who will disconnect it, or was disconnected under a call.
THEOREM ServersAccountedForCorrect == Spec => []ServersAccountedFor
<1>1. MInv => ServersAccountedFor
  BY DEF MInv, ServersAccountedFor
<1> QED
  BY <1>1, MInvHolds, PTL

\* get_or_spawn never hands out two servers for one name between two cleanups,
\* however many threads race for it.
THEOREM OneServerPerNameCorrect == Spec => []OneServerPerName
<1>1. MInv => OneServerPerName
  BY DEF MInv
<1> QED
  BY <1>1, MInvHolds, PTL
=============================================================================
