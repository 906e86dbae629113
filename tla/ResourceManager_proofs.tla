----------------------- MODULE ResourceManager_proofs -----------------------
(***************************************************************************)
(* On a node whose registration lasts, the counters are exactly the sums   *)
(* of its live allocations, so that the manager implements Reservations.   *)
(* And the live allocations of any node need no more than it has until its *)
(* counter is made smaller than they need, for any number of nodes,        *)
(* resources and callers: the script that adds checks the record it adds   *)
(* to, and what expires only makes the counter too large.                  *)
(***************************************************************************)
EXTENDS ResourceManager, Sums, FiniteSetTheorems, TLAPS

\* Every step keeps the shape of the records and of the callers' state.
LEMMA RMTypeStep ==
  ASSUME RMTypeOK, [RMNext]_rmVars
  PROVE  RMTypeOK'
<1> USE ResourceAssumption DEF RMTypeOK, At, RMGoto, rmVars, callVars
<1>0. NothingUsed \in [Resources -> Int]
  BY DEF NothingUsed
<1>1. ASSUME NEW n \in Nodes, RegisterNode(n) \/ NodeExpires(n)
      PROVE  RMTypeOK'
  <2>1. /\ online' \in SUBSET Nodes
        /\ used' = [used EXCEPT ![n] = NothingUsed]
        /\ UNCHANGED <<alloc, issued, rmPc, callVars>>
        /\ undercounted' \in SUBSET Nodes
    BY <1>1 DEF RegisterNode, NodeExpires
  <2>2. used' \in [Nodes -> [Resources -> Int]]
    BY <1>0, <2>1
  <2> QED
    BY <2>1, <2>2
<1>2. ASSUME NEW a \in AllocIds, AllocExpires(a)
      PROVE  RMTypeOK'
  BY <1>2 DEF AllocExpires
<1>3. ASSUME NEW c \in Callers, NEW q \in Requests, ListKeys(c, q)
      PROVE  RMTypeOK'
  BY <1>3 DEF ListKeys, Ask
<1>4. ASSUME NEW c \in Callers, NEW n \in Nodes, ReadNode(c, n)
      PROVE  RMTypeOK'
  BY <1>4 DEF ReadNode
<1>5. ASSUME NEW c \in Callers, NEW n \in Nodes, LuaRefuse(c, n)
      PROVE  RMTypeOK'
  BY <1>5 DEF LuaRefuse
<1>6. ASSUME NEW c \in Callers, NEW n \in Nodes, NEW a \in AllocIds, LuaAllocate(c, n, a)
      PROVE  RMTypeOK'
  <2>1. request[c] \in Requests
    BY <1>6 DEF LuaAllocate
  <2>2. Plus(used[n], Need[request[c]]) \in [Resources -> Int]
    BY <2>1 DEF Plus
  <2>3. [request |-> request[c], node |-> n] \in Records
    BY <2>1 DEF Records
  <2> QED
    BY <1>6, <2>2, <2>3 DEF LuaAllocate
<1>7. ASSUME NEW c \in Callers, NoResources(c)
      PROVE  RMTypeOK'
  BY <1>7 DEF NoResources
<1>8. ASSUME NEW c \in Callers, NEW a \in issued \cup OtherKeys, ReleaseGet(c, a)
      PROVE  RMTypeOK'
  <2>1. CASE a \in AllocIds /\ alloc[a] # None
    <3>1. /\ key' = [key EXCEPT ![c] = a]
          /\ read' = [read EXCEPT ![c] = alloc[a]]
          /\ rmPc' = [rmPc EXCEPT ![c] = "release"]
          /\ UNCHANGED <<online, used, alloc, issued, request, unread, fitting, result, undercounted>>
      BY <1>8, <2>1 DEF ReleaseGet
    <3>2. alloc[a] \in Records
      BY <2>1
    <3> QED
      BY <2>1, <3>1, <3>2
  <2>2. CASE ~(a \in AllocIds /\ alloc[a] # None)
    BY <1>8, <2>2 DEF ReleaseGet
  <2> QED
    BY <2>1, <2>2
<1>9. ASSUME NEW c \in Callers, LuaRelease(c)
      PROVE  RMTypeOK'
  <2> DEFINE m == read[c].node
             q == read[c].request
             left == Minus(used[m], Need[q])
  <2>1. m \in Nodes /\ q \in Requests /\ key[c] \in AllocIds
    BY <1>9 DEF LuaRelease, Records
  <2>2. left \in [Resources -> Int]
    BY <2>1 DEF Minus
  <2>5. \/ used' = [used EXCEPT ![m] = left] /\ alloc' = [alloc EXCEPT ![key[c]] = None]
        \/ UNCHANGED <<used, alloc>>
    BY <1>9 DEF LuaRelease
  <2> HIDE DEF m, q, left
  <2>3. used' \in [Nodes -> [Resources -> Int]] /\ alloc' \in [AllocIds -> Records \cup {None}]
    <3>1. used \in [Nodes -> [Resources -> Int]] /\ alloc \in [AllocIds -> Records \cup {None}]
      OBVIOUS
    <3>2. used' \in [Nodes -> [Resources -> Int]]
      BY ONLY <2>1, <2>2, <2>5, <3>1
    <3>3. alloc' \in [AllocIds -> Records \cup {None}]
      BY <2>1, <2>5, <3>1
    <3> QED
      BY <3>2, <3>3
  <2>4. /\ key' = [key EXCEPT ![c] = None]
        /\ read' = [read EXCEPT ![c] = None]
        /\ rmPc' = [rmPc EXCEPT ![c] = "idle"]
        /\ UNCHANGED <<online, issued, request, unread, fitting, result>>
    BY <1>9 DEF LuaRelease
  <2>6. undercounted' \in SUBSET Nodes
    <3>1. \/ undercounted' = undercounted \cup IF alloc[key[c]] = None THEN {m} ELSE {}
          \/ undercounted' = undercounted
      BY <1>9 DEF LuaRelease, m
    <3>2. undercounted \in SUBSET Nodes
      OBVIOUS
    <3> QED
      BY ONLY <2>1, <3>1, <3>2
  <2> QED
    BY <2>3, <2>4, <2>6
<1>10. ASSUME NEW c \in Callers, CallerCrash(c)
       PROVE  RMTypeOK'
  BY <1>10 DEF CallerCrash
<1>11. CASE UNCHANGED rmVars
  BY <1>11
<1> QED
  BY <1>1, <1>2, <1>3, <1>4, <1>5, <1>6, <1>7, <1>8, <1>9, <1>10, <1>11 DEF RMNext

\* The shape of the records and of the callers' state.
THEOREM AccountsTypeCorrect == RMSpec => []RMTypeOK
<1>1. RMInit => RMTypeOK
  BY ResourceAssumption DEF RMInit, RMTypeOK, NothingUsed, Records, At
<1> QED
  BY <1>1, RMTypeStep, PTL DEF RMSpec

\* An allocation record was drawn.
Drawn == \A a \in AllocIds : alloc[a] # None => a \in issued

\* Only the allocation script stores a record, and under an id that was not drawn yet;
\* expiry and release delete records.
LEMMA RecordsStep ==
  ASSUME RMTypeOK, Drawn, [RMNext]_rmVars
  PROVE  /\ issued \subseteq issued'
         /\ \A a \in AllocIds :
              \/ alloc'[a] = alloc[a] \/ alloc'[a] = None
              \/ alloc[a] = None /\ a \notin issued /\ a \in issued'
<1> DEFINE Goal == /\ issued \subseteq issued'
                   /\ \A a \in AllocIds :
                        \/ alloc'[a] = alloc[a] \/ alloc'[a] = None
                        \/ alloc[a] = None /\ a \notin issued /\ a \in issued'
<1>1. ASSUME NEW c \in Callers, NEW n \in Nodes, NEW a \in AllocIds, LuaAllocate(c, n, a)
      PROVE  Goal
  BY <1>1 DEF LuaAllocate, FreshId, RMTypeOK, Drawn
<1>2. ASSUME NEW a \in AllocIds, AllocExpires(a) PROVE Goal
  BY <1>2 DEF AllocExpires, RMTypeOK
<1>3. ASSUME NEW c \in Callers, LuaRelease(c) PROVE Goal
  <2>1. key[c] \in AllocIds
    BY <1>3 DEF LuaRelease, At, RMTypeOK
  <2>2. CASE alloc' = [alloc EXCEPT ![key[c]] = None]
    BY <1>3, <2>1, <2>2 DEF LuaRelease, RMTypeOK
  <2>3. CASE alloc' = alloc
    BY <1>3, <2>3 DEF LuaRelease
  <2> QED
    BY <1>3, <2>2, <2>3 DEF LuaRelease
<1>4. CASE UNCHANGED <<alloc, issued>>
  BY <1>4
<1> HIDE DEF Goal
<1>5. UNCHANGED <<alloc, issued>> => Goal
  BY <1>4 DEF Goal
<1>6. Goal
  BY <1>1, <1>2, <1>3, <1>5
  DEF RMNext, RegisterNode, NodeExpires, ListKeys, ReadNode, LuaRefuse, NoResources, ReleaseGet,
      CallerCrash, rmVars, callVars
<1> QED
  BY <1>6 DEF Goal

-----------------------------------------------------------------------------
(* The accounts of a steady node *)

\* Caller c, which releases, holds the record of its allocation: that of a steady
\* node stays until c deletes it.
ReadAgrees(c) ==
  key[c] # None =>
    /\ key[c] \in issued /\ read[c] \in Records
    /\ alloc[key[c]] \in {None, read[c]}
    /\ read[c].node \notin Unsteady => alloc[key[c]] = read[c]

OneReleaser ==
  \A c, d \in Callers :
    key[c] # None /\ key[c] = key[d] /\ read[c].node \notin Unsteady => c = d

\* The allocations of a steady node were made after it registered.
SteadyOnline ==
  \A a \in AllocIds : alloc[a] # None /\ alloc[a].node \notin Unsteady => alloc[a].node \in online

\* The counters of a steady node, registered or not yet.
SteadyExact == \A n \in Nodes \ Unsteady, r \in Resources : used[n][r] = Booked(n, r)

\* What AccountsExact rests on.
ExactInv ==
  /\ IsFiniteSet(issued) /\ Drawn
  /\ \A c \in Callers : ReadAgrees(c)
  /\ OneReleaser
  /\ SteadyOnline
  /\ SteadyExact

\* Only finitely many allocations are live, as each has an id that was drawn.
LEMMA LiveFinite ==
  ASSUME IsFiniteSet(issued), Drawn, NEW n
  PROVE  IsFiniteSet(Live(n))
<1>1. Live(n) \subseteq issued
  BY DEF Live, Drawn
<1> QED
  BY <1>1, FS_Subset

\* A node of whose allocations none comes or goes has the same ones booked.
LEMMA BookedSame ==
  ASSUME NEW n,
         \A a \in AllocIds : alloc'[a] = alloc[a] \/ (a \notin Live(n) /\ a \notin Live(n)')
  PROVE  \A r \in Resources : Booked(n, r)' = Booked(n, r)
<1>1. Live(n)' = Live(n) /\ \A a \in Live(n) : alloc'[a] = alloc[a]
  BY DEF Live
<1> TAKE r \in Resources
<1>2. [a \in Live(n)' |-> Need[alloc'[a].request][r]] = [a \in Live(n) |-> Need[alloc[a].request][r]]
  BY <1>1
<1> QED
  BY <1>1, <1>2 DEF Booked

\* An allocation adds what it needs to what is booked on its node.
LEMMA BookedAdds ==
  ASSUME RMTypeOK, Drawn, IsFiniteSet(issued),
         NEW n \in Nodes, NEW q \in Requests, NEW a \in AllocIds, a \notin issued,
         alloc' = [alloc EXCEPT ![a] = [request |-> q, node |-> n]],
         NEW r \in Resources
  PROVE  Booked(n, r)' = Booked(n, r) + Need[q][r]
<1> DEFINE L == Live(n)
           f == [x \in L |-> Need[alloc[x].request][r]]
           g == [x \in L \cup {a} |-> Need[alloc'[x].request][r]]
<1>1. a \notin L /\ IsFiniteSet(L)
  BY LiveFinite DEF Live, Drawn
<1>2. alloc \in [AllocIds -> Records \cup {None}] /\ None \notin Records
  BY ResourceAssumption DEF RMTypeOK, Records
<1>3. alloc'[a] = [request |-> q, node |-> n] /\ \A x \in AllocIds \ {a} : alloc'[x] = alloc[x]
  BY <1>2
<1>4. [request |-> q, node |-> n] \in Records /\ [request |-> q, node |-> n].node = n
      /\ [request |-> q, node |-> n].request = q
  BY DEF Records
<1>5. Live(n)' = L \cup {a}
  BY <1>2, <1>3, <1>4 DEF Live
<1>6. \A x \in L : f[x] \in Int /\ g[x] = f[x]
  <2> TAKE x \in L
  <2>1. x \in AllocIds /\ alloc[x] \in Records /\ alloc'[x] = alloc[x]
    BY <1>1, <1>2, <1>3 DEF Live
  <2>2. alloc[x].request \in Requests
    BY <2>1 DEF Records
  <2> QED
    BY <2>1, <2>2, ResourceAssumption
<1>7. g[a] = Need[q][r] /\ g[a] \in Int
  BY <1>3, <1>4, ResourceAssumption
<1> HIDE DEF L, f, g
<1>8. SumFunctionOnSet(g, L \cup {a}) = SumFunctionOnSet(g, L) + g[a]
  BY <1>1, <1>6, <1>7, SumAdd
<1>9. SumFunctionOnSet(g, L) = SumFunctionOnSet(f, L)
  BY <1>1, <1>6, SumSame
<1>10. Booked(n, r) = SumFunctionOnSet(f, L) /\ Booked(n, r)' = SumFunctionOnSet(g, L \cup {a})
  BY <1>5 DEF Booked, f, g, L
<1> QED
  BY <1>7, <1>8, <1>9, <1>10

\* A release takes off what the allocation needed.
LEMMA BookedDrops ==
  ASSUME RMTypeOK, Drawn, IsFiniteSet(issued),
         NEW n \in Nodes, NEW a \in Live(n), alloc' = [alloc EXCEPT ![a] = None],
         NEW r \in Resources
  PROVE  Booked(n, r)' = Booked(n, r) - Need[alloc[a].request][r]
<1> DEFINE L == Live(n)
           f == [x \in L |-> Need[alloc[x].request][r]]
           g == [x \in L \ {a} |-> Need[alloc'[x].request][r]]
<1>1. a \in L /\ IsFiniteSet(L) /\ IsFiniteSet(L \ {a})
  BY LiveFinite, FS_RemoveElement
<1>2. alloc \in [AllocIds -> Records \cup {None}] /\ a \in AllocIds
  BY DEF RMTypeOK, Live
<1>3. alloc'[a] = None /\ \A x \in AllocIds \ {a} : alloc'[x] = alloc[x]
  BY <1>2
<1>4. Live(n)' = L \ {a}
  BY <1>2, <1>3 DEF Live
<1>5. \A x \in L : f[x] \in Int
  <2> TAKE x \in L
  <2>1. alloc[x] \in Records
    BY <1>2 DEF Live
  <2>2. alloc[x].request \in Requests
    BY <2>1 DEF Records
  <2> QED
    BY <2>2, ResourceAssumption
<1>6. \A x \in L \ {a} : f[x] = g[x]
  BY <1>3 DEF Live
<1>7. f[a] = Need[alloc[a].request][r]
  OBVIOUS
<1> HIDE DEF L, f, g
<1>8. SumFunctionOnSet(f, L) = f[a] + SumFunctionOnSet(f, L \ {a})
  BY <1>1, <1>5, SumTakeOut
<1>9. SumFunctionOnSet(f, L \ {a}) = SumFunctionOnSet(g, L \ {a})
  BY <1>1, <1>6, SumSame
<1>10. SumFunctionOnSet(f, L \ {a}) \in Int
  BY <1>1, <1>5, SumType
<1>11. Booked(n, r) = SumFunctionOnSet(f, L) /\ Booked(n, r)' = SumFunctionOnSet(g, L \ {a})
  BY <1>4 DEF Booked, f, g, L
<1> QED
  BY <1>1, <1>5, <1>7, <1>8, <1>9, <1>10, <1>11

\* Each step keeps the accounts of the steady nodes.
LEMMA ExactStep ==
  ASSUME RMTypeOK, ExactInv, [RMNext]_rmVars
  PROVE  ExactInv'
<1> USE ResourceAssumption DEF ExactInv
<1>0. /\ alloc \in [AllocIds -> Records \cup {None}] /\ None \notin Records
      /\ used \in [Nodes -> [Resources -> Int]] /\ issued \subseteq AllocIds
      /\ key \in [Callers -> AllocIds \cup {None}]
      /\ read \in [Callers -> Records \cup {None}] /\ None \notin AllocIds
      /\ \A x \in Records : x.node \in Nodes /\ x.request \in Requests
  BY DEF RMTypeOK, Records
<1>1. ASSUME NEW n \in Nodes, RegisterNode(n) \/ NodeExpires(n) PROVE ExactInv'
  <2>1. /\ online' = online \cup {n} \/ online' = online \ {n}
        /\ n \in Unsteady \/ (n \notin online /\ online' = online \cup {n})
        /\ used' = [used EXCEPT ![n] = NothingUsed]
        /\ UNCHANGED <<alloc, issued, key, read>>
    BY <1>1 DEF RegisterNode, NodeExpires, callVars
  <2>2. SteadyOnline'
    BY <2>1 DEF SteadyOnline
  <2>3. ASSUME NEW m \in Nodes \ Unsteady, NEW r \in Resources PROVE used'[m][r] = Booked(m, r)'
    <3>1. Booked(m, r)' = Booked(m, r)
      BY <2>1, BookedSame
    <3>2. CASE m # n
      BY <1>0, <2>1, <3>1, <3>2 DEF SteadyExact
    <3>3. CASE m = n
      <4>1. Live(n) = {}
        BY <2>1, <3>3 DEF Live, SteadyOnline
      <4>2. Booked(m, r) = 0
        BY <3>3, <4>1, SumEmpty DEF Booked
      <4> QED
        BY <1>0, <2>1, <3>1, <3>3, <4>2 DEF NothingUsed
    <3> QED
      BY <3>2, <3>3
  <2>4. Drawn' /\ OneReleaser' /\ \A c \in Callers : ReadAgrees(c)'
    BY <2>1 DEF Drawn, OneReleaser, ReadAgrees
  <2> QED
    BY <2>1, <2>2, <2>3, <2>4 DEF SteadyExact
<1>2. ASSUME NEW a \in AllocIds, AllocExpires(a) PROVE ExactInv'
  <2>1. /\ alloc[a] \in Records /\ alloc[a].node \in Unsteady
        /\ alloc' = [alloc EXCEPT ![a] = None]
        /\ UNCHANGED <<online, used, issued, key, read>>
    BY <1>0, <1>2 DEF AllocExpires, callVars
  <2>2. alloc'[a] = None /\ \A x \in AllocIds \ {a} : alloc'[x] = alloc[x]
    BY <1>0, <2>1
  <2>3. ASSUME NEW m \in Nodes \ Unsteady, NEW r \in Resources PROVE used'[m][r] = Booked(m, r)'
    <3>1. a \notin Live(m) /\ a \notin Live(m)'
      BY <2>1, <2>2 DEF Live
    <3>2. Booked(m, r)' = Booked(m, r)
      BY <2>2, <3>1, BookedSame
    <3> QED
      BY <2>1, <3>2 DEF SteadyExact
  <2>4. ASSUME NEW c \in Callers PROVE ReadAgrees(c)'
    BY <1>0, <2>1, <2>2 DEF ReadAgrees
  <2>5. Drawn' /\ OneReleaser' /\ SteadyOnline'
    BY <2>1, <2>2 DEF Drawn, OneReleaser, SteadyOnline
  <2> QED
    BY <2>1, <2>3, <2>4, <2>5 DEF SteadyExact
<1>3. ASSUME NEW c \in Callers, NEW n \in Nodes, NEW a \in AllocIds, LuaAllocate(c, n, a)
      PROVE  ExactInv'
  <2>1. request[c] \in Requests
    BY <1>3 DEF LuaAllocate, RMTypeOK, At
  <2> DEFINE q == request[c]
             record == [request |-> q, node |-> n]
  <2>2. /\ n \in online /\ a \notin issued /\ alloc[a] = None
        /\ used' = [used EXCEPT ![n] = Plus(used[n], Need[q])]
        /\ alloc' = [alloc EXCEPT ![a] = record]
        /\ issued' = issued \cup {a}
        /\ UNCHANGED <<online, key, read>>
    BY <1>3 DEF LuaAllocate, FreshId, ScriptFits, Drawn
  <2>3. record \in Records /\ record.node = n /\ q \in Requests
    BY <2>1 DEF Records
  <2> HIDE DEF q, record
  <2>4. alloc'[a] = record /\ \A x \in AllocIds \ {a} : alloc'[x] = alloc[x]
    BY <1>0, <2>2
  <2>5. ASSUME NEW m \in Nodes \ Unsteady, NEW r \in Resources PROVE used'[m][r] = Booked(m, r)'
    <3>1. CASE m = n
      <4>1. Booked(n, r)' = Booked(n, r) + Need[q][r]
        BY <2>2, <2>3, BookedAdds DEF record
      <4>2. used'[n][r] = used[n][r] + Need[q][r]
        BY <1>0, <2>2 DEF Plus
      <4> QED
        BY <3>1, <4>1, <4>2 DEF SteadyExact
    <3>2. CASE m # n
      <4>1. a \notin Live(m) /\ a \notin Live(m)'
        BY <2>2, <2>3, <2>4, <3>2 DEF Live
      <4>2. Booked(m, r)' = Booked(m, r)
        BY <2>4, <4>1, BookedSame
      <4> QED
        BY <1>0, <2>2, <3>2, <4>2 DEF SteadyExact
    <3> QED
      BY <3>1, <3>2
  <2>6. IsFiniteSet(issued')
    BY <2>2, FS_AddElement
  <2>7. ASSUME NEW d \in Callers PROVE ReadAgrees(d)'
    BY <2>2, <2>4, <1>0 DEF ReadAgrees
  <2>8. Drawn' /\ OneReleaser' /\ SteadyOnline'
    BY <2>2, <2>3, <2>4 DEF Drawn, OneReleaser, SteadyOnline
  <2> QED
    BY <2>5, <2>6, <2>7, <2>8 DEF SteadyExact
<1>4. ASSUME NEW c \in Callers, NEW a \in issued \cup OtherKeys, ReleaseGet(c, a)
      PROVE  ExactInv'
  <2>1. UNCHANGED <<online, used, alloc, issued>>
    BY <1>4 DEF ReleaseGet
  <2>2. SteadyExact'
    BY <2>1, BookedSame DEF SteadyExact
  <2>3. Drawn' /\ SteadyOnline' /\ IsFiniteSet(issued')
    BY <2>1 DEF Drawn, SteadyOnline
  <2>4. CASE a \in AllocIds /\ alloc[a] # None
    <3>1. /\ key' = [key EXCEPT ![c] = a] /\ read' = [read EXCEPT ![c] = alloc[a]]
          /\ alloc[a].node \in Unsteady \/ \A d \in Callers : key[d] # a
      BY <1>4, <2>4 DEF ReleaseGet
    <3>2. alloc[a] \in Records /\ a \in issued /\ a # None
      BY <1>0, <2>4 DEF Drawn
    <3>3. /\ key'[c] = a /\ read'[c] = alloc[a]
          /\ \A d \in Callers \ {c} : key'[d] = key[d] /\ read'[d] = read[d]
      BY <1>0, <3>1
    <3>4. ASSUME NEW d \in Callers PROVE ReadAgrees(d)'
      BY <2>1, <3>2, <3>3 DEF ReadAgrees
    <3>5. OneReleaser'
      <4> SUFFICES ASSUME NEW d \in Callers, NEW e \in Callers, d # e,
                          key'[d] # None, key'[d] = key'[e], read'[d].node \notin Unsteady
                   PROVE  FALSE
        BY DEF OneReleaser
      <4>1. CASE d # c /\ e # c
        BY <3>3, <4>1 DEF OneReleaser
      <4>2. CASE d = c
        BY <3>1, <3>3, <4>2
      <4>3. CASE e = c
        BY <3>1, <3>3, <4>3 DEF ReadAgrees
      <4> QED
        BY <4>1, <4>2, <4>3
    <3> QED
      BY <2>2, <2>3, <3>4, <3>5
  <2>5. CASE ~(a \in AllocIds /\ alloc[a] # None)
    <3>1. UNCHANGED <<key, read>>
      BY <1>4, <2>5 DEF ReleaseGet
    <3>2. OneReleaser' /\ \A d \in Callers : ReadAgrees(d)'
      BY <2>1, <3>1 DEF OneReleaser, ReadAgrees
    <3> QED
      BY <2>2, <2>3, <3>2
  <2> QED
    BY <2>4, <2>5
<1>5. ASSUME NEW c \in Callers, LuaRelease(c) PROVE ExactInv'
  <2> DEFINE m == read[c].node
             q == read[c].request
             a == key[c]
  <2>1. /\ key[c] \in issued /\ read[c] \in Records /\ m \in Nodes /\ q \in Requests
        /\ a \in AllocIds /\ alloc[a] \in {None, read[c]}
        /\ m \notin Unsteady => alloc[a] = read[c]
    BY <1>0, <1>5 DEF LuaRelease, At, RMTypeOK, ReadAgrees
  <2>2. /\ key'[c] = None /\ read'[c] = None
        /\ \A d \in Callers \ {c} : key'[d] = key[d] /\ read'[d] = read[d]
        /\ UNCHANGED <<online, issued>>
    BY <1>0, <1>5 DEF LuaRelease
  <2>3. OneReleaser'
    BY <2>2 DEF OneReleaser
  <2>4. CASE m \notin online
    <3>1. UNCHANGED <<alloc, used>>
      BY <1>5, <2>4 DEF LuaRelease
    <3>2. SteadyExact'
      BY <3>1, BookedSame DEF SteadyExact
    <3>3. ASSUME NEW d \in Callers PROVE ReadAgrees(d)'
      BY <2>2, <3>1 DEF ReadAgrees
    <3>4. Drawn' /\ SteadyOnline'
      BY <2>2, <3>1 DEF Drawn, SteadyOnline
    <3> QED
      BY <2>2, <2>3, <3>2, <3>3, <3>4
  <2>5. CASE m \in online
    <3>1. used' = [used EXCEPT ![m] = Minus(used[m], Need[q])] /\ alloc' = [alloc EXCEPT ![a] = None]
      BY <1>5, <2>5 DEF LuaRelease
    <3> HIDE DEF a, m, q
    <3>2. alloc'[a] = None /\ \A x \in AllocIds \ {a} : alloc'[x] = alloc[x]
      BY <1>0, <2>1, <3>1
    <3>3. ASSUME NEW k \in Nodes \ Unsteady, NEW r \in Resources PROVE used'[k][r] = Booked(k, r)'
      <4>1. CASE k = m
        <5>1. a \in Live(k) /\ alloc[a].request = q
          BY <1>0, <2>1, <4>1 DEF Live, m, q
        <5>2. Booked(k, r)' = Booked(k, r) - Need[q][r]
          BY <3>1, <5>1, BookedDrops
        <5>3. used'[k][r] = used[k][r] - Need[q][r]
          BY <1>0, <2>1, <3>1, <4>1 DEF Minus
        <5> QED
          BY <5>2, <5>3 DEF SteadyExact
      <4>2. CASE k # m
        <5>1. a \notin Live(k) /\ a \notin Live(k)'
          BY <1>0, <2>1, <3>2, <4>2 DEF Live, m
        <5>2. Booked(k, r)' = Booked(k, r)
          BY <3>2, <5>1, BookedSame
        <5> QED
          BY <1>0, <2>1, <3>1, <4>2, <5>2 DEF SteadyExact
      <4> QED
        BY <4>1, <4>2
    <3>4. ASSUME NEW d \in Callers PROVE ReadAgrees(d)'
      <4> SUFFICES ASSUME key'[d] # None
                   PROVE  /\ key'[d] \in issued' /\ read'[d] \in Records
                          /\ alloc'[key'[d]] \in {None, read'[d]}
                          /\ read'[d].node \notin Unsteady => alloc'[key'[d]] = read'[d]
        BY DEF ReadAgrees
      <4>1. d # c /\ key'[d] = key[d] /\ read'[d] = read[d] /\ key[d] # None
        BY <2>2
      <4>2. /\ key[d] \in issued /\ read[d] \in Records
            /\ alloc[key[d]] \in {None, read[d]}
            /\ read[d].node \notin Unsteady => alloc[key[d]] = read[d]
        BY <4>1 DEF ReadAgrees
      <4>3. CASE key[d] # a
        BY <1>0, <2>2, <3>2, <4>1, <4>2, <4>3
      <4>4. CASE key[d] = a
        BY <2>2, <3>2, <4>1, <4>2, <4>4 DEF OneReleaser, a
      <4> QED
        BY <4>3, <4>4
    <3>5. Drawn' /\ SteadyOnline'
      BY <2>2, <3>2 DEF Drawn, SteadyOnline
    <3> QED
      BY <2>2, <2>3, <3>3, <3>4, <3>5 DEF SteadyExact
  <2> QED
    BY <2>4, <2>5
<1>6. ASSUME NEW c \in Callers, CallerCrash(c) PROVE ExactInv'
  <2>1. /\ UNCHANGED <<online, used, alloc, issued>>
        /\ key'[c] = None /\ \A d \in Callers \ {c} : key'[d] = key[d] /\ read'[d] = read[d]
    BY <1>0, <1>6 DEF CallerCrash
  <2>2. SteadyExact'
    BY <2>1, BookedSame DEF SteadyExact
  <2>3. Drawn' /\ SteadyOnline' /\ OneReleaser' /\ \A d \in Callers : ReadAgrees(d)'
    BY <2>1 DEF Drawn, SteadyOnline, OneReleaser, ReadAgrees
  <2> QED
    BY <2>1, <2>2, <2>3
<1>7. ASSUME UNCHANGED <<online, used, alloc, issued, key, read>> PROVE ExactInv'
  <2>1. SteadyExact'
    BY <1>7, BookedSame DEF SteadyExact
  <2>2. Drawn' /\ SteadyOnline' /\ OneReleaser' /\ \A d \in Callers : ReadAgrees(d)'
    BY <1>7 DEF Drawn, SteadyOnline, OneReleaser, ReadAgrees
  <2> QED
    BY <1>7, <2>1, <2>2
<1> HIDE DEF ExactInv
<1> QED
  BY <1>1, <1>2, <1>3, <1>4, <1>5, <1>6, <1>7
  DEF RMNext, ListKeys, ReadNode, LuaRefuse, NoResources, rmVars, callVars

\* Nothing is used and nothing is booked at first.
LEMMA ExactInit == RMInit => ExactInv
<1> SUFFICES ASSUME RMInit PROVE ExactInv
  OBVIOUS
<1>1. \A a \in AllocIds : alloc[a] = None
  BY DEF RMInit
<1>2. ASSUME NEW n \in Nodes, NEW r \in Resources PROVE used[n][r] = Booked(n, r)
  <2>1. Live(n) = {}
    BY <1>1 DEF Live
  <2>2. Booked(n, r) = 0
    BY <2>1, SumEmpty DEF Booked
  <2> QED
    BY <2>2 DEF RMInit, NothingUsed
<1>3. IsFiniteSet(issued)
  BY FS_EmptySet DEF RMInit
<1> QED
  BY <1>1, <1>2, <1>3 DEF RMInit, ExactInv, Drawn, ReadAgrees, OneReleaser, SteadyOnline, SteadyExact

\* Every state of the specification satisfies the invariant.
LEMMA ExactInvariance == RMSpec => []ExactInv
<1>1. RMTypeOK /\ ExactInv /\ [RMNext]_rmVars => ExactInv'
  BY ExactStep
<1> QED
  BY <1>1, ExactInit, AccountsTypeCorrect, PTL DEF RMSpec

\* However callers interleave, crash and hold stale snapshots, and whatever becomes of
\* other nodes, the counters of a node that registers once, and of whose allocations
\* none expires or is released twice, are the sums of what its allocations need.
THEOREM AccountsStayExact == RMSpec => []AccountsExact
<1>1. ExactInv /\ RMTypeOK => AccountsExact
  BY DEF ExactInv, SteadyExact, AccountsExact, RMTypeOK
<1> QED
  BY <1>1, ExactInvariance, AccountsTypeCorrect, PTL

-----------------------------------------------------------------------------
(* The capacity of the nodes *)

\* The counters of a node that is not undercounted are at least what is booked on it,
\* while it has a record, and what is booked is no more than it has, also without.
CoveredBy(n, r) ==
  /\ Booked(n, r) <= Total[n][r]
  /\ n \in online => Booked(n, r) <= used[n][r]

Covered == \A n \in Nodes \ undercounted, r \in Resources : CoveredBy(n, r)

\* What is booked on a node is a number.
LEMMA BookedType ==
  ASSUME RMTypeOK, Drawn, IsFiniteSet(issued), NEW n \in Nodes, NEW r \in Resources
  PROVE  Booked(n, r) \in Int
<1> DEFINE L == Live(n)
           f == [x \in L |-> Need[alloc[x].request][r]]
<1>1. \A x \in L : f[x] \in Int
  BY ResourceAssumption DEF Live, RMTypeOK, Records
<1>2. IsFiniteSet(L)
  BY LiveFinite
<1>3. Booked(n, r) = SumFunctionOnSet(f, L)
  BY DEF Booked
<1> HIDE DEF L, f
<1> QED
  BY <1>1, <1>2, <1>3, SumType

\* A node on which nothing changes stays covered, and one that goes offline too.
LEMMA CoveredStays ==
  ASSUME NEW n \in Nodes, NEW r \in Resources, CoveredBy(n, r), Booked(n, r)' = Booked(n, r),
         n \in online' => n \in online /\ used'[n][r] = used[n][r]
  PROVE  CoveredBy(n, r)'
BY DEF CoveredBy

\* Each step keeps the nodes covered: only the allocation script adds to what is
\* booked, and it adds the same to the counter, which it has checked.
LEMMA CoveredStep ==
  ASSUME RMTypeOK, ExactInv, Covered, [RMNext]_rmVars
  PROVE  Covered'
<1> USE ResourceAssumption
<1>0. /\ alloc \in [AllocIds -> Records \cup {None}] /\ None \notin Records
      /\ used \in [Nodes -> [Resources -> Int]]
      /\ \A x \in Records : x.node \in Nodes /\ x.request \in Requests
  BY DEF RMTypeOK, Records
<1>1. IsFiniteSet(issued) /\ Drawn
  BY DEF ExactInv
<1> SUFFICES ASSUME NEW k \in Nodes \ undercounted', NEW r \in Resources
             PROVE  CoveredBy(k, r)'
  BY DEF Covered
<1>2. undercounted \subseteq undercounted'
  BY DEF RMNext, RegisterNode, NodeExpires, AllocExpires, ListKeys, ReadNode, LuaRefuse, LuaAllocate,
         NoResources, ReleaseGet, LuaRelease, CallerCrash, rmVars
<1>3. CoveredBy(k, r)
  BY <1>2 DEF Covered
<1>4. Booked(k, r) \in Int /\ used[k][r] \in Int /\ Total[k][r] \in Nat
  BY <1>0, <1>1, BookedType
<1>5. ASSUME NEW n \in Nodes, RegisterNode(n) PROVE CoveredBy(k, r)'
  <2>1. /\ online' = online \cup {n} /\ used' = [used EXCEPT ![n] = NothingUsed]
        /\ UNCHANGED alloc
    BY <1>5 DEF RegisterNode
  <2>2. Booked(k, r)' = Booked(k, r)
    BY <2>1, BookedSame
  <2>3. CASE k = n
    <3>1. Live(k) = {}
      BY <1>5, <2>3 DEF RegisterNode
    <3>2. Booked(k, r) = 0
      BY <3>1, SumEmpty DEF Booked
    <3>3. used'[k][r] = 0
      BY <1>0, <2>1, <2>3 DEF NothingUsed
    <3> QED
      BY <1>4, <2>2, <3>2, <3>3 DEF CoveredBy
  <2>4. CASE k # n
    <3>1. used'[k] = used[k] /\ (k \in online' => k \in online)
      BY <1>0, <2>1, <2>4
    <3> QED
      BY <1>3, <2>2, <3>1, CoveredStays
  <2> QED
    BY <2>3, <2>4
<1>6. ASSUME NEW n \in Nodes, NodeExpires(n) PROVE CoveredBy(k, r)'
  <2>1. /\ online' = online \ {n} /\ used' = [used EXCEPT ![n] = NothingUsed]
        /\ UNCHANGED alloc
    BY <1>6 DEF NodeExpires
  <2>2. Booked(k, r)' = Booked(k, r)
    BY <2>1, BookedSame
  <2>3. k \in online' => k \in online /\ used'[k] = used[k]
    BY <1>0, <2>1
  <2> QED
    BY <1>3, <2>2, <2>3, CoveredStays
<1>7. ASSUME NEW a \in AllocIds, AllocExpires(a) PROVE CoveredBy(k, r)'
  <2>1. /\ alloc[a] # None /\ alloc' = [alloc EXCEPT ![a] = None] /\ UNCHANGED <<online, used>>
    BY <1>7 DEF AllocExpires
  <2>2. CASE a \in Live(k)
    <3>1. Booked(k, r)' = Booked(k, r) - Need[alloc[a].request][r]
      BY <1>1, <2>1, <2>2, BookedDrops
    <3>2. Need[alloc[a].request][r] \in Nat
      BY <1>0, <2>1
    <3> QED
      BY <1>3, <1>4, <2>1, <3>1, <3>2 DEF CoveredBy
  <2>3. CASE a \notin Live(k)
    <3>1. a \notin Live(k)' /\ \A x \in AllocIds \ {a} : alloc'[x] = alloc[x]
      BY <1>0, <2>1 DEF Live
    <3>2. Booked(k, r)' = Booked(k, r)
      BY <2>3, <3>1, BookedSame
    <3> QED
      BY <1>3, <2>1, <3>2, CoveredStays
  <2> QED
    BY <2>2, <2>3
<1>8. ASSUME NEW c \in Callers, NEW n \in Nodes, NEW a \in AllocIds, LuaAllocate(c, n, a)
      PROVE  CoveredBy(k, r)'
  <2> DEFINE q == request[c]
  <2>1. q \in Requests
    BY <1>8 DEF LuaAllocate, RMTypeOK, At
  <2>2. /\ n \in online /\ Fits(n, q) /\ a \notin issued
        /\ used' = [used EXCEPT ![n] = Plus(used[n], Need[q])]
        /\ alloc' = [alloc EXCEPT ![a] = [request |-> q, node |-> n]]
        /\ UNCHANGED online
    BY <1>8 DEF LuaAllocate, ScriptFits, FreshId
  <2> HIDE DEF q
  <2>3. CASE k = n
    <3>1. Booked(k, r)' = Booked(k, r) + Need[q][r]
      BY <1>1, <2>1, <2>2, <2>3, BookedAdds
    <3>2. used'[k][r] = used[k][r] + Need[q][r]
      BY <1>0, <2>1, <2>2, <2>3 DEF Plus
    <3>3. Total[k][r] - used[k][r] >= Need[q][r] /\ Need[q][r] \in Nat
      BY <2>1, <2>2, <2>3 DEF Fits
    <3>4. Booked(k, r) <= used[k][r]
      BY <1>3, <2>2, <2>3 DEF CoveredBy
    <3> QED
      BY <1>4, <3>1, <3>2, <3>3, <3>4 DEF CoveredBy
  <2>4. CASE k # n
    <3>1. /\ alloc[a] = None /\ alloc'[a].node = n
          /\ \A x \in AllocIds \ {a} : alloc'[x] = alloc[x]
      BY <1>0, <1>1, <2>2 DEF Drawn
    <3>2. a \notin Live(k) /\ a \notin Live(k)'
      BY <2>4, <3>1 DEF Live
    <3>3. Booked(k, r)' = Booked(k, r)
      BY <3>1, <3>2, BookedSame
    <3>4. used'[k] = used[k]
      BY <1>0, <2>2, <2>4
    <3> QED
      BY <1>3, <2>2, <3>3, <3>4, CoveredStays
  <2> QED
    BY <2>3, <2>4
<1>9. ASSUME NEW c \in Callers, LuaRelease(c) PROVE CoveredBy(k, r)'
  <2> DEFINE m == read[c].node
             q == read[c].request
             a == key[c]
  <2>1. /\ m \in Nodes /\ q \in Requests /\ read[c] \in Records
        /\ a \in AllocIds /\ alloc[a] \in {None, read[c]}
    BY <1>0, <1>9 DEF LuaRelease, At, RMTypeOK, ExactInv, ReadAgrees
  <2>2. UNCHANGED online
    BY <1>9 DEF LuaRelease
  <2>3. CASE UNCHANGED <<used, alloc>>
    <3>1. Booked(k, r)' = Booked(k, r)
      BY <2>3, BookedSame
    <3> QED
      BY <1>3, <2>2, <2>3, <3>1, CoveredStays
  <2>4. CASE /\ used' = [used EXCEPT ![m] = Minus(used[m], Need[q])]
             /\ alloc' = [alloc EXCEPT ![a] = None]
             /\ alloc[a] = None => m \in undercounted'
    <3>1. alloc'[a] = None /\ \A x \in AllocIds \ {a} : alloc'[x] = alloc[x]
      BY <1>0, <2>1, <2>4
    <3>2. CASE k = m
      <4>1. a \in Live(k) /\ alloc[a].request = q
        BY <1>0, <2>1, <2>4, <3>2 DEF Live
      <4> HIDE DEF a, m, q
      <4>2. Booked(k, r)' = Booked(k, r) - Need[q][r]
        BY <1>1, <2>4, <4>1, BookedDrops
      <4>3. used'[k][r] = used[k][r] - Need[q][r]
        BY <1>0, <2>1, <2>4, <3>2 DEF Minus
      <4>4. Need[q][r] \in Nat
        BY <2>1
      <4> QED
        BY <1>3, <1>4, <2>2, <4>2, <4>3, <4>4 DEF CoveredBy
    <3>3. CASE k # m
      <4>1. a \notin Live(k) /\ a \notin Live(k)'
        BY <1>0, <2>1, <3>1, <3>3 DEF Live
      <4> HIDE DEF a, m, q
      <4>2. Booked(k, r)' = Booked(k, r)
        BY <3>1, <4>1, BookedSame
      <4>3. used'[k] = used[k]
        BY <1>0, <2>1, <2>4, <3>3
      <4> QED
        BY <1>3, <2>2, <4>2, <4>3, CoveredStays
    <3> QED
      BY <3>2, <3>3
  <2> QED
    BY <1>9, <2>3, <2>4 DEF LuaRelease
<1>10. ASSUME UNCHANGED <<online, used, alloc>> PROVE CoveredBy(k, r)'
  <2>1. Booked(k, r)' = Booked(k, r)
    BY <1>10, BookedSame
  <2> QED
    BY <1>3, <1>10, <2>1, CoveredStays
<1> QED
  BY <1>5, <1>6, <1>7, <1>8, <1>9, <1>10
  DEF RMNext, ListKeys, ReadNode, LuaRefuse, NoResources, ReleaseGet, CallerCrash, rmVars

\* Whatever registers, expires, is released or crashes while allocate() holds a stale
\* snapshot: what is live on a node needs no more than the node has, unless its
\* counter was made smaller than that by a registration or by a release that
\* subtracts what is no longer stored.
THEOREM NeverOverbooked == RMSpec => []WithinCapacity
<1>1. RMInit => Covered
  <2> SUFFICES ASSUME RMInit, NEW n \in Nodes, NEW r \in Resources PROVE CoveredBy(n, r)
    BY DEF Covered
  <2>1. Live(n) = {} /\ n \notin online
    BY DEF RMInit, Live
  <2>2. Booked(n, r) = 0 /\ Total[n][r] \in Nat
    BY <2>1, SumEmpty, ResourceAssumption DEF Booked
  <2> QED
    BY <2>1, <2>2 DEF CoveredBy
<1>2. RMTypeOK /\ ExactInv /\ Covered /\ [RMNext]_rmVars => Covered'
  BY CoveredStep
<1>3. Covered => WithinCapacity
  BY DEF Covered, CoveredBy, WithinCapacity
<1> QED
  BY <1>1, <1>2, <1>3, ExactInvariance, AccountsTypeCorrect, PTL DEF RMSpec

-----------------------------------------------------------------------------
(* Reservations *)

\* The accounts, in the terms of Reservations
Accounts == [n \in Nodes |-> [r \in Resources |-> Booked(n, r)]]

\* What is booked changes on one node only.
LEMMA AccountsChange ==
  ASSUME NEW n \in Nodes, NEW change,
         \A r \in Resources : Booked(n, r)' = Booked(n, r) + change[r],
         \A m \in Nodes \ {n}, r \in Resources : Booked(m, r)' = Booked(m, r)
  PROVE  Accounts' = [Accounts EXCEPT ![n] = [r \in Resources |-> Accounts[n][r] + change[r]]]
BY DEF Accounts

\* Steps that store and delete no record do not change the accounts.
LEMMA AccountsStay ==
  ASSUME UNCHANGED alloc
  PROVE  UNCHANGED Accounts
BY BookedSame DEF Accounts

\* The allocation script makes a reservation: what the snapshot told is checked again,
\* against counters that are exact.
LEMMA AllocateReserves ==
  ASSUME RMTypeOK, ExactInv, NEW c \in Callers, NEW n \in Nodes, NEW a \in AllocIds,
         LuaAllocate(c, n, a)
  PROVE  Reserves!Reserve(a, request[c], n) /\ request[c] \in Requests
<1> DEFINE q == request[c]
<1>1. q \in Requests
  BY DEF LuaAllocate, RMTypeOK, At
<1>2. /\ a \notin issued /\ Fits(n, q)
      /\ alloc' = [alloc EXCEPT ![a] = [request |-> q, node |-> n]]
      /\ issued' = issued \cup {a}
  BY DEF LuaAllocate, FreshId, ScriptFits
<1> HIDE DEF q
<1>3. Drawn /\ IsFiniteSet(issued) /\ None \notin Records
  BY ResourceAssumption DEF ExactInv, Records
<1>4. \A r \in Resources : Booked(n, r)' = Booked(n, r) + Need[q][r]
  BY <1>1, <1>2, <1>3, BookedAdds
<1>5. \A m \in Nodes \ {n}, r \in Resources : Booked(m, r)' = Booked(m, r)
  <2> SUFFICES ASSUME NEW m \in Nodes \ {n} PROVE \A r \in Resources : Booked(m, r)' = Booked(m, r)
    OBVIOUS
  <2>1. alloc[a] = None /\ alloc'[a].node = n /\ \A x \in AllocIds \ {a} : alloc'[x] = alloc[x]
    BY <1>2, <1>3 DEF Drawn, RMTypeOK
  <2>2. a \notin Live(m) /\ a \notin Live(m)'
    BY <2>1 DEF Live
  <2> QED
    BY <2>1, <2>2, BookedSame
<1>6. n \in Unsteady \/ \A r \in Resources : Booked(n, r) + Need[q][r] <= Total[n][r]
  <2> SUFFICES ASSUME n \notin Unsteady, NEW r \in Resources
               PROVE  Booked(n, r) + Need[q][r] <= Total[n][r]
    OBVIOUS
  <2>1. used[n][r] = Booked(n, r) /\ Total[n][r] - used[n][r] >= Need[q][r]
    BY <1>2 DEF ExactInv, SteadyExact, Fits
  <2>2. used[n][r] \in Int /\ Total[n][r] \in Int /\ Need[q][r] \in Int
    BY <1>1, ResourceAssumption DEF RMTypeOK
  <2> QED
    BY <2>1, <2>2
<1>7. Accounts' = [Accounts EXCEPT ![n] = [r \in Resources |-> Accounts[n][r] + Need[q][r]]]
  BY <1>4, <1>5, AccountsChange
<1>8. Reserves!Reserve(a, q, n)
  BY <1>2, <1>6, <1>7 DEF Reserves!Reserve, Reserves!Book, Accounts
<1> QED
  BY <1>1, <1>8 DEF q

\* A record that is deleted takes back its reservation.
LEMMA DeleteTakesBack ==
  ASSUME RMTypeOK, ExactInv, NEW a \in AllocIds, alloc[a] # None,
         alloc' = [alloc EXCEPT ![a] = None], UNCHANGED issued
  PROVE  Reserves!TakeBack(a)
<1>1. alloc[a] \in Records
  BY DEF RMTypeOK
<1>2. PICK n \in Nodes, q \in Requests : alloc[a] = [request |-> q, node |-> n]
  BY <1>1 DEF Records
<1>3. alloc[a].node = n /\ alloc[a].request = q
  BY <1>2
<1> DEFINE back == [r \in Resources |-> -Need[q][r]]
<1>4. ASSUME NEW r \in Resources PROVE Booked(n, r)' = Booked(n, r) + back[r]
  <2> DEFINE L == Live(n)
             f == [x \in L |-> Need[alloc[x].request][r]]
  <2>1. \A x \in L : f[x] \in Int
    BY ResourceAssumption DEF Live, RMTypeOK, Records
  <2>2. IsFiniteSet(L)
    BY LiveFinite DEF ExactInv
  <2>3. Booked(n, r) = SumFunctionOnSet(f, L)
    BY DEF Booked
  <2> HIDE DEF L, f
  <2>4. Booked(n, r) \in Int
    BY <2>1, <2>2, <2>3, SumType
  <2>5. Booked(n, r)' = Booked(n, r) - Need[alloc[a].request][r]
    <3>1. a \in Live(n)
      BY <1>3 DEF Live
    <3> QED
      BY <3>1, BookedDrops DEF ExactInv
  <2>6. Need[q][r] \in Int
    BY ResourceAssumption
  <2> QED
    BY <1>3, <2>4, <2>5, <2>6
<1>5. \A m \in Nodes \ {n}, r \in Resources : Booked(m, r)' = Booked(m, r)
  <2> SUFFICES ASSUME NEW m \in Nodes \ {n} PROVE \A r \in Resources : Booked(m, r)' = Booked(m, r)
    OBVIOUS
  <2>1. alloc'[a] = None /\ \A x \in AllocIds \ {a} : alloc'[x] = alloc[x]
    BY DEF RMTypeOK
  <2>2. a \notin Live(m) /\ a \notin Live(m)'
    BY <1>3, <2>1 DEF Live
  <2> QED
    BY <2>1, <2>2, BookedSame
<1> HIDE DEF back
<1>6. Accounts' = [Accounts EXCEPT ![n] = [r \in Resources |-> Accounts[n][r] + back[r]]]
  BY <1>4, <1>5, AccountsChange
<1> QED
  BY <1>3, <1>6 DEF Reserves!TakeBack, Reserves!Book, Accounts, back

\* Each step of the resource manager makes or takes back a reservation, or neither.
LEMMA ReservesStep ==
  ASSUME RMTypeOK, ExactInv, [RMNext]_rmVars
  PROVE  [Reserves!Next]_<<alloc, issued, Accounts>>
<1> DEFINE Goal == [Reserves!Next]_<<alloc, issued, Accounts>>
<1>1. ASSUME NEW c \in Callers, NEW n \in Nodes, NEW a \in AllocIds, LuaAllocate(c, n, a)
      PROVE  Goal
  BY <1>1, AllocateReserves DEF Reserves!Next
<1>2. ASSUME NEW a \in AllocIds, AllocExpires(a) PROVE Goal
  BY <1>2, DeleteTakesBack DEF AllocExpires, Reserves!Next
<1>3. ASSUME NEW c \in Callers, LuaRelease(c) PROVE Goal
  <2>1. key[c] \in AllocIds /\ UNCHANGED issued
    BY <1>3 DEF LuaRelease, At, RMTypeOK
  <2>2. CASE alloc' = [alloc EXCEPT ![key[c]] = None] /\ alloc[key[c]] # None
    BY <2>1, <2>2, DeleteTakesBack DEF Reserves!Next
  <2>3. CASE UNCHANGED alloc
    BY <2>1, <2>3, AccountsStay
  <2>4. \/ UNCHANGED alloc
        \/ alloc' = [alloc EXCEPT ![key[c]] = None] /\ alloc[key[c]] # None
    BY <1>3, <2>1 DEF LuaRelease, RMTypeOK
  <2> QED
    BY <2>2, <2>3, <2>4
<1>4. CASE UNCHANGED <<alloc, issued>>
  BY <1>4, AccountsStay
<1> HIDE DEF Goal
<1>5. UNCHANGED <<alloc, issued>> => Goal
  BY <1>4 DEF Goal
<1>6. Goal
  BY <1>1, <1>2, <1>3, <1>5
  DEF RMNext, RegisterNode, NodeExpires, ListKeys, ReadNode, LuaRefuse, NoResources, ReleaseGet,
      CallerCrash, rmVars, callVars
<1> QED
  BY <1>6 DEF Goal

\* For any number of nodes, callers and requests, and whatever crashes and expires: the
\* resource manager implements Reservations.
THEOREM ManagerImplementsReservations == RMSpec => ImplementsReservations
<1>1. RMInit => Reserves!Init
  <2> SUFFICES ASSUME RMInit PROVE Reserves!Init
    OBVIOUS
  <2>1. ASSUME NEW n \in Nodes, NEW r \in Resources PROVE Booked(n, r) = 0
    <3>1. Live(n) = {}
      BY DEF RMInit, Live
    <3> QED
      BY <3>1, SumEmpty DEF Booked
  <2> QED
    BY <2>1 DEF RMInit, Reserves!Init
<1>2. RMTypeOK /\ ExactInv /\ [RMNext]_rmVars => [Reserves!Next]_(Reserves!resVars)
  BY ReservesStep DEF Reserves!resVars, Accounts
<1> QED
  BY <1>1, <1>2, AccountsTypeCorrect, ExactInvariance, PTL
  DEF RMSpec, ImplementsReservations, Reserves!Spec
=============================================================================
