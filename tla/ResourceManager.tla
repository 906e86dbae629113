-------------------------- MODULE ResourceManager --------------------------
(***************************************************************************)
(* The cluster accounts of src/scheduler/resource_manager.py: the node and *)
(* allocation records in Redis, and the callers of allocate() and          *)
(* release().  A Redis command or Lua script is one action; the snapshot   *)
(* that allocate() filters, and the record that release() reads, are taken *)
(* before the script runs and may be stale when it does.                   *)
(***************************************************************************)
EXTENDS Integers, Functions

CONSTANTS Nodes, Resources, Callers, Requests,
          Total,         \* the capacity of each node
          Need,          \* the resources each request asks for
          AllocIds,      \* bound: the allocation ids that can be drawn
          OtherKeys,     \* arguments of release() that are no allocation id
          Unsteady,      \* nodes that may register again, whose records and
                         \* allocations may expire, and of whose allocations
                         \* one may be released by two callers
          None

ASSUME ResourceAssumption ==
  /\ Total \in [Nodes -> [Resources -> Nat]]
  /\ Need \in [Requests -> [Resources -> Nat]]
  /\ AllocIds \cap OtherKeys = {}
  /\ None \notin Nodes \cup Requests \cup AllocIds \cup OtherKeys
  /\ None \notin [request : Requests, node : Nodes]
  /\ Unsteady \subseteq Nodes

VARIABLES
  online,   \* the nodes with a node:<id> record
  used,     \* used_gpus, used_cpus, used_memory_gb of each record
  alloc,    \* alloc:<id> -> request and node; the amounts are Need[request]
  issued,   \* the allocation ids drawn so far
  rmPc,     \* the step each caller is at
  request,  \* what the caller of allocate() asks for
  unread,   \* node keys of KEYS node:* that _list_nodes() has yet to GET
  fitting,  \* snapshot nodes with enough room that were not tried yet
  result,   \* the allocation id that allocate() returned last
  key,      \* the argument of release()
  read,     \* the allocation record that release() has read
  undercounted  \* history: nodes whose counters were lowered by more than what
                \* became free

rmVars ==
  <<online, used, alloc, issued, rmPc, request, unread, fitting, result, key, read, undercounted>>
callVars == <<request, unread, fitting, result, key, read>>

NothingUsed == [r \in Resources |-> 0]
Records == [request : Requests, node : Nodes]

\* Mutant of Minus: the script forgets one of its subtractions.
MinusGpusOnly(u, d) == [u EXCEPT !["gpus"] = @ - d["gpus"]]

Plus(u, d) == [r \in Resources |-> u[r] + d[r]]
Minus(u, d) == [r \in Resources |-> u[r] - d[r]]

\* free_gpus >= gpus_needed and free_cpus >= ... and free_mem >= ...
Fits(n, q) == \A r \in Resources : Total[n][r] - used[n][r] >= Need[q][r]

\* Mutant of ScriptFits: the script trusts the snapshot and checks nothing.
ScriptTrusts(n, q) == n \in online

\* The checks of the allocation script, made when it runs.
ScriptFits(n, q) == n \in online /\ Fits(n, q)

\* Mutant of FreshId: an allocation id is not unique.
AnyId(a) == TRUE

\* uuid4()[:8]: 32 random bits.  SETEX would overwrite the allocation that has drawn
\* the same bits before; here no id is drawn twice.
FreshId(a) == a \notin issued

RMInit ==
  /\ online = {}
  /\ used = [n \in Nodes |-> NothingUsed]
  /\ alloc = [a \in AllocIds |-> None]
  /\ issued = {}
  /\ rmPc = [c \in Callers |-> "idle"]
  /\ request = [c \in Callers |-> None]
  /\ unread = [c \in Callers |-> {}]
  /\ fitting = [c \in Callers |-> {}]
  /\ result = [c \in Callers |-> None]
  /\ key = [c \in Callers |-> None]
  /\ read = [c \in Callers |-> None]
  /\ undercounted = {}

\* The allocations on a node whose records are still there.
Live(n) == {a \in AllocIds : alloc[a] # None /\ alloc[a].node = n}

-----------------------------------------------------------------------------
(* Nodes *)

\* register_node(): SETEX of a fresh record, also over an existing one.
\* node_heartbeat() only renews the TTL.
RegisterNode(n) ==
  /\ n \in online => n \in Unsteady
  /\ online' = online \cup {n}
  /\ used' = [used EXCEPT ![n] = NothingUsed]
  /\ undercounted' = undercounted \cup (IF Live(n) = {} THEN {} ELSE {n})
  /\ UNCHANGED <<alloc, issued, rmPc, callVars>>

\* The node has not renewed its record for 2 * NODE_TTL.
NodeExpires(n) ==
  /\ n \in Unsteady
  /\ n \in online
  /\ online' = online \ {n}
  /\ used' = [used EXCEPT ![n] = NothingUsed]
  /\ UNCHANGED <<alloc, issued, rmPc, callVars, undercounted>>

\* An allocation record lives for 86400 seconds.
AllocExpires(a) ==
  /\ alloc[a] # None /\ alloc[a].node \in Unsteady
  /\ alloc' = [alloc EXCEPT ![a] = None]
  /\ UNCHANGED <<online, used, issued, rmPc, callVars, undercounted>>

-----------------------------------------------------------------------------
(* allocate() *)

At(c, l) == rmPc[c] = l
RMGoto(c, l) == rmPc' = [rmPc EXCEPT ![c] = l]

\* The arguments of allocate()
Ask(c, q) == request' = [request EXCEPT ![c] = q]

\* _list_nodes(): KEYS node:*
ListKeys(c, q) ==
  /\ At(c, "idle")
  /\ Ask(c, q)
  /\ unread' = [unread EXCEPT ![c] = online]
  /\ fitting' = [fitting EXCEPT ![c] = {}]
  /\ result' = [result EXCEPT ![c] = None]
  /\ RMGoto(c, "list")
  /\ UNCHANGED <<online, used, alloc, issued, key, read, undercounted>>

\* _list_nodes(): GET of one key, skipped when it has expired since.  The loop
\* of allocate() filters the snapshot, so the nodes it will skip are left out.
ReadNode(c, n) ==
  /\ At(c, "list")
  /\ n \in unread[c]
  /\ unread' = [unread EXCEPT ![c] = @ \ {n}]
  /\ fitting' = [fitting EXCEPT ![c] =
                   IF n \in online /\ Fits(n, request[c]) THEN @ \cup {n} ELSE @]
  /\ UNCHANGED <<online, used, alloc, issued, rmPc, request, result, key, read, undercounted>>

\* _atomic_allocate(): the script checks the node's record again, adds what is
\* needed and stores the allocation under a fresh id.
LuaAllocate(c, n, a) ==
  /\ At(c, "list") /\ unread[c] = {}
  /\ n \in fitting[c]
  /\ ScriptFits(n, request[c])
  /\ FreshId(a)
  /\ used' = [used EXCEPT ![n] = Plus(@, Need[request[c]])]
  /\ alloc' = [alloc EXCEPT ![a] = [request |-> request[c], node |-> n]]
  /\ issued' = issued \cup {a}
  /\ result' = [result EXCEPT ![c] = a]
  /\ fitting' = [fitting EXCEPT ![c] = {}]
  /\ RMGoto(c, "idle")
  /\ UNCHANGED <<online, request, unread, key, read, undercounted>>

\* _atomic_allocate(): the script returns 0 and allocate() tries the next node.
LuaRefuse(c, n) ==
  /\ At(c, "list") /\ unread[c] = {}
  /\ n \in fitting[c]
  /\ ~ScriptFits(n, request[c])
  /\ fitting' = [fitting EXCEPT ![c] = @ \ {n}]
  /\ UNCHANGED <<online, used, alloc, issued, rmPc, request, unread, result, key, read,
                 undercounted>>

\* allocate() returns None: no node is left to try.
NoResources(c) ==
  /\ At(c, "list") /\ unread[c] = {} /\ fitting[c] = {}
  /\ RMGoto(c, "idle")
  /\ UNCHANGED <<online, used, alloc, issued, callVars, undercounted>>

-----------------------------------------------------------------------------
(* release() *)

\* GET alloc:<id>; return when there is no such record.
ReleaseGet(c, a) ==
  /\ At(c, "idle")
  /\ \/ /\ a \in AllocIds /\ alloc[a] # None
        /\ alloc[a].node \in Unsteady \/ \A d \in Callers : key[d] # a
        /\ key' = [key EXCEPT ![c] = a]
        /\ read' = [read EXCEPT ![c] = alloc[a]]
        /\ RMGoto(c, "release")
     \/ /\ a \in AllocIds => alloc[a] = None
        /\ UNCHANGED <<rmPc, key, read>>
  /\ UNCHANGED <<online, used, alloc, issued, request, unread, fitting, result, undercounted>>

\* The script: nothing happens to a node without record; otherwise the amounts
\* that were read are subtracted and the allocation is deleted.
LuaRelease(c) ==
  /\ At(c, "release")
  /\ \/ /\ read[c].node \in online
        /\ used' = [used EXCEPT ![read[c].node] = Minus(@, Need[read[c].request])]
        /\ alloc' = [alloc EXCEPT ![key[c]] = None]
        /\ undercounted' =
             undercounted \cup (IF alloc[key[c]] = None THEN {read[c].node} ELSE {})
     \/ /\ read[c].node \notin online
        /\ UNCHANGED <<used, alloc, undercounted>>
  /\ key' = [key EXCEPT ![c] = None]
  /\ read' = [read EXCEPT ![c] = None]
  /\ RMGoto(c, "idle")
  /\ UNCHANGED <<online, issued, request, unread, fitting, result>>

-----------------------------------------------------------------------------
\* The caller's process dies and starts again.
CallerCrash(c) ==
  /\ RMGoto(c, "idle")
  /\ request' = [request EXCEPT ![c] = None]
  /\ unread' = [unread EXCEPT ![c] = {}]
  /\ fitting' = [fitting EXCEPT ![c] = {}]
  /\ result' = [result EXCEPT ![c] = None]
  /\ key' = [key EXCEPT ![c] = None]
  /\ read' = [read EXCEPT ![c] = None]
  /\ UNCHANGED <<online, used, alloc, issued, undercounted>>

RMNext ==
  \/ \E n \in Nodes : RegisterNode(n) \/ NodeExpires(n)
  \/ \E a \in AllocIds : AllocExpires(a)
  \/ \E c \in Callers :
       \/ \E q \in Requests : ListKeys(c, q)
       \/ \E n \in Nodes : ReadNode(c, n) \/ LuaRefuse(c, n)
                           \/ \E a \in AllocIds : LuaAllocate(c, n, a)
       \/ NoResources(c)
       \/ \E a \in issued \cup OtherKeys : ReleaseGet(c, a)
       \/ LuaRelease(c)
       \/ CallerCrash(c)

RMSpec == RMInit /\ [][RMNext]_rmVars

-----------------------------------------------------------------------------
(* What the accounts guarantee *)

\* The shape of the records and of the callers' local state.
RMTypeOK ==
  /\ online \in SUBSET Nodes /\ undercounted \in SUBSET Nodes
  /\ used \in [Nodes -> [Resources -> Int]]
  /\ alloc \in [AllocIds -> Records \cup {None}]
  /\ issued \in SUBSET AllocIds
  /\ rmPc \in [Callers -> {"idle", "list", "release"}]
  /\ request \in [Callers -> Requests \cup {None}]
  /\ unread \in [Callers -> SUBSET Nodes]
  /\ fitting \in [Callers -> SUBSET Nodes]
  /\ result \in [Callers -> AllocIds \cup {None}]
  /\ key \in [Callers -> AllocIds \cup {None}]
  /\ read \in [Callers -> Records \cup {None}]
  /\ \A c \in Callers : At(c, "list") => request[c] # None
  /\ \A c \in Callers : At(c, "release") => key[c] # None /\ read[c] # None

\* What the live allocations on a node need together, whatever its counter says.
Booked(n, r) == SumFunctionOnSet([a \in Live(n) |-> Need[alloc[a].request][r]], Live(n))

\* However stale the snapshots, and whatever nodes and allocations expire, the live
\* allocations on a node never need more than it has, online or not, until it
\* registers again while some of its allocations are live, or a release subtracts
\* an allocation that another release has deleted or that has expired since: both
\* make the counter smaller than what is booked, and the scripts trust the counter.
WithinCapacity ==
  \A n \in Nodes \ undercounted, r \in Resources : Booked(n, r) <= Total[n][r]

\* While a node registers once, its records do not expire and its allocations
\* have one releaser each, its counters are exactly the sum of its live
\* allocations, whatever becomes of other nodes and of the callers.
AccountsExact ==
  \A n \in online \ Unsteady, r \in Resources : used[n][r] = Booked(n, r)

Reserves ==
  INSTANCE Reservations
    WITH Ids <- AllocIds, given <- alloc, drawn <- issued,
         booked <- [n \in Nodes |-> [r \in Resources |-> Booked(n, r)]]

\* The commands and scripts of allocate() and release(), however stale what they
\* read, amount to reservations in one step: no live allocations of a steady node
\* together need more than it has, an allocation record is never moved or given to
\* another request, and its id is not reused.
ImplementsReservations == Reserves!Spec
=============================================================================
