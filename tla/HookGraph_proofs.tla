--------------------------- MODULE HookGraph_proofs ---------------------------
(***************************************************************************)
(* The two algorithms over the hook graph, for every graph: topo_sort      *)
(* places a hook after its dependencies and accepts exactly the graphs     *)
(* without a cycle, and cascade_disable leaves exactly the largest         *)
(* hard-closed subset of the wanted hooks enabled.                         *)
(***************************************************************************)
EXTENDS TopoSort, CascadeDisable, FiniteSetTheorems, WellFoundedInduction, TLAPS

-----------------------------------------------------------------------------
(* topo_sort.  The invariant counts: in_degree of a hook is the number of  *)
(* its incoming edges that are not relaxed yet, its open edges.            *)

Deps(v) == hard[v] \cup soft[v]

(* The hooks whose edges are in adj. *)
Added == IF topoPc = "edges" THEN 1..(node - 1) ELSE Listed

(* The hooks the seed loop has looked at. *)
Seeded == IF topoPc = "edges" THEN {}
          ELSE IF topoPc = "seed" THEN 1..(node - 1) ELSE Listed

(* Entry i of the row of d has been counted down: d is placed, and it is   *)
(* not the hook whose row is being read, or the reading is past i.         *)
Relaxed(d, i) ==
  \E j \in 1..Front : order[j] = d /\ (j < Front \/ topoPc # "relax" \/ i < edge)

Open(v) == {e \in Listed \X (1..n) : /\ e[2] <= Len(adj[e[1]])
                                     /\ adj[e[1]][e[2]] = v
                                     /\ ~Relaxed(e[1], e[2])}

TopoTypeOK ==
  /\ topoPc \in {"edges", "seed", "pop", "relax", "sorted", "rejected"}
  /\ node \in 1..(n + 1)
  /\ inDegree \in [Listed -> Nat]
  /\ adj \in [Listed -> Seq(Listed)]
  /\ \A d \in Listed : Len(adj[d]) <= n
  /\ queue \in Seq(Listed)
  /\ order \in Seq(Listed)
  /\ edge \in 1..(n + 1)

(* order is the part of queue already popped, and no hook is pushed twice. *)
QueueOK ==
  /\ Len(order) <= Len(queue)
  /\ \A i \in 1..Len(order) : order[i] = queue[i]
  /\ \A i, j \in 1..Len(queue) : queue[i] = queue[j] => i = j
  /\ topoPc \in {"edges", "seed"} => order = <<>>
  /\ topoPc = "relax" => Len(order) > 0 /\ edge <= Len(adj[order[Front]]) + 1

(* adj is the dependency relation, turned round, of the hooks added. *)
EdgesOK ==
  /\ \A d \in Listed : \A i \in 1..Len(adj[d]) :
       adj[d][i] \in Added /\ d \in Deps(adj[d][i])
  /\ \A v \in Added : \A d \in Deps(v) : \E i \in 1..Len(adj[d]) : adj[d][i] = v

(* A row holds one entry for each hook added, unless one is listed twice.  *)
RowsOK == ListedTwice \/ \A d \in Listed : Len(adj[d]) <= IF topoPc = "edges" THEN node - 1 ELSE n

DegreesOK == \A v \in Listed : inDegree[v] = Cardinality(Open(v))

(* The queue holds exactly the hooks without an open edge. *)
ReadyOK ==
  /\ \A i \in 1..Len(queue) : queue[i] \in Seeded /\ Open(queue[i]) = {}
  /\ \A v \in Seeded : Open(v) = {} => \E i \in 1..Len(queue) : queue[i] = v

Verdict ==
  /\ topoPc = "sorted" => Len(order) = n
  /\ topoPc = "rejected" => ~Acyclic(AllDeps(hard, soft)) \/ ListedTwice

Sorting == QueueOK /\ EdgesOK /\ RowsOK /\ DegreesOK /\ ReadyOK

TopoInv ==
  /\ TopoTypeOK
  /\ PlacedAfterDeps
  /\ \A i, j \in 1..Len(order) : order[i] = order[j] => i = j
  /\ Verdict
  /\ topoPc # "rejected" => Sorting

(* Whatever is open is an edge of the graph, and there are finitely many.  *)
LEMMA OpenIsFinite ==
  ASSUME GraphOK, NEW v
  PROVE  IsFiniteSet(Open(v))
<1>1. IsFiniteSet(1..n) /\ IsFiniteSet(Listed)
  BY FS_Interval DEF GraphOK, Listed
<1>2. IsFiniteSet(Listed \X (1..n))
  BY <1>1, FS_Product
<1>3. Open(v) \in SUBSET (Listed \X (1..n))
  BY DEF Open
<1>. QED
  BY <1>2, <1>3, FS_Subset

LEMMA TopoInitInv == GraphOK /\ TopoInit => TopoInv
<1> SUFFICES ASSUME GraphOK, TopoInit
             PROVE  TopoInv
  OBVIOUS
<1> USE DEF TopoInit, GraphOK
<1>1. TopoTypeOK
  BY DEF TopoTypeOK, Listed
<1>2. Added = {} /\ Seeded = {}
  BY DEF Added, Seeded
<1>3. QueueOK /\ EdgesOK /\ ReadyOK
  BY <1>2 DEF QueueOK, EdgesOK, ReadyOK
<1>4. RowsOK
  BY DEF RowsOK
<1>5. \A v \in Listed : Open(v) = {}
  BY DEF Open
<1>6. DegreesOK
  BY <1>5, FS_EmptySet DEF DegreesOK
<1>7. PlacedAfterDeps /\ Verdict
  BY DEF PlacedAfterDeps, Verdict
<1>. QED
  BY <1>1, <1>3, <1>4, <1>6, <1>7 DEF TopoInv, Sorting

(* What AddEdges appends to a row.                                         *)
LEMMA RowsGrow ==
  ASSUME GraphOK, TopoTypeOK, AddEdges, graphVars' = graphVars, NEW d \in Listed
  PROVE  LET a == Len(adj[d])
             b == Len(adj'[d])
         IN
         /\ adj'[d] \in Seq(Listed)
         /\ a \in Nat /\ b \in Nat /\ a <= b /\ b <= n
         /\ d \in hard[node] \cap soft[node] => b = a + 2
         /\ d \in (hard[node] \cup soft[node]) \ (hard[node] \cap soft[node]) => b = a + 1
         /\ d \notin hard[node] \cup soft[node] => b = a
         /\ \A i \in 1..a : adj'[d][i] = adj[d][i]
         /\ \A i \in (a + 1)..b : adj'[d][i] = node
<1> DEFINE s == adj[d]
           t == NewEdges(d)
<1>1. node \in Listed /\ s \in Seq(Listed) /\ adj'[d] = s \o t
  BY DEF AddEdges, TopoTypeOK, Listed, GraphOK
<1>2. /\ t \in Seq(Listed)
      /\ d \in hard[node] \cap soft[node] => Len(t) = 2
      /\ d \in (hard[node] \cup soft[node]) \ (hard[node] \cap soft[node]) => Len(t) = 1
      /\ d \notin hard[node] \cup soft[node] => Len(t) = 0
      /\ \A i \in 1..Len(t) : t[i] = node
  <2>1. <<node>> \in Seq(Listed) /\ <<>> \in Seq(Listed) /\ <<node, node>> \in Seq(Listed)
    BY <1>1
  <2>2. CASE d \in hard[node] /\ d \in soft[node]
    <3>1. t = <<node>> \o <<node>>
      BY <2>2 DEF NewEdges
    <3>2. /\ Len(<<node>> \o <<node>>) = 2
          /\ (<<node>> \o <<node>>)[1] = node
          /\ (<<node>> \o <<node>>)[2] = node
          /\ <<node>> \o <<node>> \in Seq(Listed)
      BY <1>1
    <3>. QED BY <2>2, <3>1, <3>2
  <2>3. CASE d \in hard[node] /\ d \notin soft[node]
    <3>1. t = <<node>>
      BY <2>3, <2>1 DEF NewEdges
    <3>. QED BY <2>1, <2>3, <3>1
  <2>4. CASE d \notin hard[node] /\ d \in soft[node]
    <3>1. t = <<node>>
      BY <2>4, <2>1 DEF NewEdges
    <3>. QED BY <2>1, <2>4, <3>1
  <2>5. CASE d \notin hard[node] /\ d \notin soft[node]
    <3>1. t = <<>>
      BY <2>5, <2>1 DEF NewEdges
    <3>. QED BY <2>1, <2>5, <3>1
  <2>. QED BY <2>2, <2>3, <2>4, <2>5
<1>3. Len(s) + Len(t) <= n
  BY DEF AddEdges, EdgesFit
<1> HIDE DEF s, t
<1>4. /\ Len(s \o t) = Len(s) + Len(t)
      /\ \A i \in 1..Len(s) : (s \o t)[i] = s[i]
      /\ \A i \in (Len(s) + 1)..Len(s \o t) : (s \o t)[i] = t[i - Len(s)]
      /\ s \o t \in Seq(Listed)
      /\ Len(s) \in Nat /\ Len(t) \in Nat
  BY <1>1, <1>2
<1>5. \A i \in (Len(s) + 1)..Len(s \o t) : i - Len(s) \in 1..Len(t)
  BY <1>4
<1>6. \A i \in (Len(s) + 1)..Len(s \o t) : (s \o t)[i] = node
  <2>1. SUFFICES ASSUME NEW i \in (Len(s) + 1)..Len(s \o t) PROVE (s \o t)[i] = node
    OBVIOUS
  <2>2. (s \o t)[i] = t[i - Len(s)] /\ i - Len(s) \in 1..Len(t)
    BY <1>4, <1>5, <2>1
  <2>. QED BY <1>2, <2>2
<1> DEFINE k == Len(s)
           l == Len(t)
           b == Len(s \o t)
<1>7. k \in Nat /\ l \in Nat /\ b = k + l /\ k + l <= n
  BY <1>3, <1>4
<1>8. d \in hard[node] \cap soft[node] => l = 2
  BY <1>2
<1>9. d \in (hard[node] \cup soft[node]) \ (hard[node] \cap soft[node]) => l = 1
  BY <1>2
<1>10. d \notin hard[node] \cup soft[node] => l = 0
  BY <1>2
<1>11. /\ b <= n /\ k <= b /\ b \in Nat /\ k \in Nat
       /\ l = 2 => b = k + 2
       /\ l = 1 => b = k + 1
       /\ l = 0 => b = k
  <2> HIDE DEF k, l, b
  <2>. QED BY <1>7
<1>. QED
  BY <1>1, <1>4, <1>6, <1>8, <1>9, <1>10, <1>11 DEF s

(* The edges AddEdges opens: those of its hook, as many as it counts in.   *)
LEMMA EdgesOpened ==
  ASSUME GraphOK, TopoTypeOK, QueueOK, EdgesOK, AddEdges, graphVars' = graphVars,
         NEW h \in Listed, h = node
  PROVE  /\ Open(h) = {}
         /\ \A v \in Listed : v # h => Open(v)' = Open(v)
         /\ Open(h)' = {e \in Listed \X (1..n) : /\ e[2] <= Len(adj'[e[1]])
                                                    /\ adj'[e[1]][e[2]] = h}
<1> USE DEF graphVars
<1>1. order = <<>> /\ order' = <<>>
  BY DEF QueueOK, AddEdges
<1>2. \A d \in Listed : \A i \in 1..n : ~Relaxed(d, i) /\ ~Relaxed(d, i)'
  BY <1>1 DEF Relaxed, Front
<1>3. \A v : Open(v) = {e \in Listed \X (1..n) : e[2] <= Len(adj[e[1]]) /\ adj[e[1]][e[2]] = v}
  BY <1>2 DEF Open
<1>4. \A v : Open(v)' = {e \in Listed \X (1..n) : e[2] <= Len(adj'[e[1]]) /\ adj'[e[1]][e[2]] = v}
  BY <1>2 DEF Open, Listed
<1>5. node \in Listed /\ Added = 1..(node - 1) /\ node \in Nat
  BY DEF AddEdges, TopoTypeOK, Listed, GraphOK, Added
<1>6. Open(h) = {}
  <2>1. SUFFICES ASSUME NEW e \in Listed \X (1..n), e[2] <= Len(adj[e[1]]), adj[e[1]][e[2]] = h
                 PROVE  FALSE
    BY <1>3
  <2>2. e[2] \in 1..Len(adj[e[1]]) /\ e[1] \in Listed
    BY <2>1, <1>5 DEF TopoTypeOK
  <2>3. node \in 1..(node - 1)
    BY <2>1, <2>2, <1>5 DEF EdgesOK
  <2>. QED BY <2>3, <1>5
<1>7. ASSUME NEW v \in Listed, v # h PROVE Open(v)' = Open(v)
  <2>1. ASSUME NEW d \in Listed, NEW i \in 1..n
        PROVE  (i <= Len(adj[d]) /\ adj[d][i] = v) <=> (i <= Len(adj'[d]) /\ adj'[d][i] = v)
    <3> DEFINE a == Len(adj[d])
               b == Len(adj'[d])
    <3>1. /\ a \in Nat /\ b \in Nat /\ a <= b
          /\ \A j \in 1..a : adj'[d][j] = adj[d][j]
          /\ \A j \in (a + 1)..b : adj'[d][j] = h
      BY RowsGrow
    <3> HIDE DEF a, b
    <3>2. CASE i <= a
      <4>1. i \in 1..a /\ i <= b
        BY <3>1, <3>2
      <4>. QED BY <4>1, <3>1, <3>2 DEF a, b
    <3>3. CASE ~(i <= a)
      <4>1. i <= b => i \in (a + 1)..b
        BY <3>1, <3>3
      <4>. QED BY <4>1, <3>1, <3>3, <1>7 DEF a, b
    <3>. QED BY <3>2, <3>3
  <2>2. \A e \in Listed \X (1..n) : e[1] \in Listed /\ e[2] \in 1..n
    OBVIOUS
  <2>3. \A e \in Listed \X (1..n) : (e[2] <= Len(adj[e[1]]) /\ adj[e[1]][e[2]] = v)
                                <=> (e[2] <= Len(adj'[e[1]]) /\ adj'[e[1]][e[2]] = v)
    BY <2>1, <2>2
  <2>. QED BY <1>3, <1>4, <2>3
<1>. QED
  BY <1>4, <1>6, <1>7

(* in_degree of its hook is their number: the hard ones are the first new  *)
(* entries of their rows, the soft ones the last.                          *)
LEMMA EdgesCounted ==
  ASSUME GraphOK, TopoTypeOK, QueueOK, EdgesOK, AddEdges, graphVars' = graphVars,
         NEW h \in Listed, h = node
  PROVE  Cardinality(Open(h)') = Cardinality(hard[node]) + Cardinality(soft[node])
<1> DEFINE H == hard[node]
           S == soft[node]
           A == {<<d, Len(adj[d]) + 1>> : d \in H}
           B == {<<d, Len(adj'[d])>> : d \in S}
<1>1. node \in Listed
  BY DEF AddEdges, TopoTypeOK, Listed, GraphOK
<1>2. H \in SUBSET Listed /\ S \in SUBSET Listed /\ IsFiniteSet(Listed)
  BY <1>1, FS_Interval DEF GraphOK, DepTables, Listed
<1>3. IsFiniteSet(H) /\ IsFiniteSet(S)
  BY <1>2, FS_Subset
<1>4. ASSUME NEW d \in Listed
      PROVE  /\ Len(adj[d]) \in Nat /\ Len(adj'[d]) \in Nat /\ Len(adj'[d]) <= n
             /\ d \in H /\ d \in S => Len(adj'[d]) = Len(adj[d]) + 2
             /\ d \in H /\ d \notin S => Len(adj'[d]) = Len(adj[d]) + 1
             /\ d \notin H /\ d \in S => Len(adj'[d]) = Len(adj[d]) + 1
             /\ d \notin H /\ d \notin S => Len(adj'[d]) = Len(adj[d])
             /\ \A i \in 1..Len(adj[d]) : adj'[d][i] # node
             /\ \A i \in (Len(adj[d]) + 1)..Len(adj'[d]) : adj'[d][i] = node
  <2>1. /\ Len(adj[d]) \in Nat /\ Len(adj'[d]) \in Nat /\ Len(adj'[d]) <= n
        /\ d \in H \cap S => Len(adj'[d]) = Len(adj[d]) + 2
        /\ d \in (H \cup S) \ (H \cap S) => Len(adj'[d]) = Len(adj[d]) + 1
        /\ d \notin H \cup S => Len(adj'[d]) = Len(adj[d])
        /\ \A i \in 1..Len(adj[d]) : adj'[d][i] = adj[d][i]
        /\ \A i \in (Len(adj[d]) + 1)..Len(adj'[d]) : adj'[d][i] = node
    BY RowsGrow
  <2>2. \A i \in 1..Len(adj[d]) : adj[d][i] # node
    <3>1. \A i \in 1..Len(adj[d]) : adj[d][i] \in 1..(node - 1)
      BY DEF EdgesOK, Added, AddEdges
    <3>2. node \notin 1..(node - 1)
      BY <1>1 DEF Listed, GraphOK
    <3>. QED BY <3>1, <3>2
  <2> HIDE DEF H, S
  <2>. QED BY <2>1, <2>2
<1> HIDE DEF H, S
<1>5. Open(h)' = A \cup B
  <2>1. Open(h)' = {e \in Listed \X (1..n) : e[2] <= Len(adj'[e[1]]) /\ adj'[e[1]][e[2]] = h}
    BY EdgesOpened
  <2>2. ASSUME NEW d \in Listed, NEW i \in 1..n, i <= Len(adj'[d]), adj'[d][i] = node
        PROVE  <<d, i>> \in A \cup B
    <3>1. i \in (Len(adj[d]) + 1)..Len(adj'[d])
      BY <1>4, <2>2
    <3>2. (d \in H /\ i = Len(adj[d]) + 1) \/ (d \in S /\ i = Len(adj'[d]))
      BY <1>4, <3>1
    <3>. QED BY <3>2
  <2>3. ASSUME NEW d \in H
        PROVE  LET i == Len(adj[d]) + 1 IN
               d \in Listed /\ i \in 1..n /\ i <= Len(adj'[d]) /\ adj'[d][i] = node
    <3>1. d \in Listed
      BY <1>2
    <3>2. Len(adj[d]) + 1 \in (Len(adj[d]) + 1)..Len(adj'[d])
      BY <1>4, <3>1
    <3>. QED BY <1>4, <3>1, <3>2 DEF GraphOK
  <2>4. ASSUME NEW d \in S
        PROVE  LET i == Len(adj'[d]) IN
               d \in Listed /\ i \in 1..n /\ i <= Len(adj'[d]) /\ adj'[d][i] = node
    <3>1. d \in Listed
      BY <1>2
    <3>2. Len(adj'[d]) \in (Len(adj[d]) + 1)..Len(adj'[d])
      BY <1>4, <3>1
    <3>. QED BY <1>4, <3>1, <3>2 DEF GraphOK
  <2>5. \A e \in Listed \X (1..n) : e = <<e[1], e[2]>> /\ e[1] \in Listed /\ e[2] \in 1..n
    OBVIOUS
  <2>6. \A e \in Open(h)' : e \in A \cup B
    BY <2>1, <2>2, <2>5
  <2>7. \A d \in H : <<d, Len(adj[d]) + 1>> \in Open(h)'
    BY <2>1, <2>3
  <2>8. \A d \in S : <<d, Len(adj'[d])>> \in Open(h)'
    BY <2>1, <2>4
  <2>. QED BY <2>6, <2>7, <2>8
<1>6. IsFiniteSet(A) /\ Cardinality(A) = Cardinality(H)
  <2> DEFINE f == [d \in H |-> <<d, Len(adj[d]) + 1>>]
  <2>1. f \in Bijection(H, A)
    <3>1. f \in [H -> A]
      OBVIOUS
    <3>2. \A x, y \in H : f[x] = f[y] => x = y
      OBVIOUS
    <3>3. \A e \in A : \E x \in H : f[x] = e
      OBVIOUS
    <3>4. QED
      <4> HIDE DEF A, B, f
      <4>. QED BY <3>1, <3>2, <3>3 DEF Bijection, Injection, Surjection, IsInjective
  <2>. QED
    <3> HIDE DEF A, f
    <3>. QED BY <1>3, <2>1, FS_Bijection DEF ExistsBijection
<1>7. IsFiniteSet(B) /\ Cardinality(B) = Cardinality(S)
  <2> DEFINE f == [d \in S |-> <<d, Len(adj'[d])>>]
  <2>1. f \in Bijection(S, B)
    <3>1. f \in [S -> B]
      OBVIOUS
    <3>2. \A x, y \in S : f[x] = f[y] => x = y
      OBVIOUS
    <3>3. \A e \in B : \E x \in S : f[x] = e
      OBVIOUS
    <3>4. QED
      <4> HIDE DEF A, B, f
      <4>. QED BY <3>1, <3>2, <3>3 DEF Bijection, Injection, Surjection, IsInjective
  <2>. QED
    <3> HIDE DEF B, f
    <3>. QED BY <1>3, <2>1, FS_Bijection DEF ExistsBijection
<1>8. A \cap B = {}
  <2>1. SUFFICES ASSUME NEW d \in H, d \in S, Len(adj[d]) + 1 = Len(adj'[d]) PROVE FALSE
    OBVIOUS
  <2>2. d \in Listed
    BY <1>2
  <2>. QED BY <1>4, <2>1, <2>2
<1>9. Cardinality(A \cup B) = Cardinality(A) + Cardinality(B)
  <2> HIDE DEF A, B
  <2>1. Cardinality(A) \in Nat /\ Cardinality(B) \in Nat
    BY <1>6, <1>7, FS_CardinalityType
  <2>2. Cardinality(A \cup B) = Cardinality(A) + Cardinality(B) - Cardinality(A \cap B)
    BY <1>6, <1>7, FS_Union
  <2>3. Cardinality(A \cap B) = 0
    BY <1>8, FS_EmptySet
  <2>. QED BY <2>1, <2>2, <2>3
<1>. QED
  BY <1>5, <1>6, <1>7, <1>9 DEF H, S

(* An action that places no hook keeps what is said of the order.          *)
LEMMA OrderStays ==
  ASSUME TopoInv, graphVars' = graphVars, order' = order
  PROVE  PlacedAfterDeps' /\ (\A i, j \in 1..Len(order) : order[i] = order[j] => i = j)'
<1>1. order' = order /\ hard' = hard /\ soft' = soft
  BY DEF graphVars
<1>2. PlacedAfterDeps /\ \A i, j \in 1..Len(order) : order[i] = order[j] => i = j
  BY DEF TopoInv
<1>. QED
  BY <1>1, <1>2 DEF PlacedAfterDeps

LEMMA AddEdgesKeeps ==
  ASSUME GraphOK, TopoInv, AddEdges, graphVars' = graphVars
  PROVE  TopoInv'
<1> USE DEF graphVars
<1>1. Sorting /\ TopoTypeOK
  BY DEF TopoInv, AddEdges
<1>2. PICK h \in Listed : h = node
  BY DEF AddEdges, GraphOK, Listed, TopoInv, TopoTypeOK
<1>3. /\ topoPc = "edges" /\ topoPc' = "edges" /\ node' = node + 1
      /\ UNCHANGED <<queue, order, edge>>
      /\ Listed' = Listed /\ node \in 1..n /\ n \in Nat
  BY DEF AddEdges, GraphOK, Listed, TopoInv, TopoTypeOK
<1>4. TopoTypeOK'
  <2>1. (inDegree \in [Listed -> Nat])'
    <3>1. Cardinality(hard[node]) + Cardinality(soft[node]) \in Nat
      <4>1. hard[node] \in SUBSET Listed /\ soft[node] \in SUBSET Listed /\ IsFiniteSet(Listed)
        BY <1>3, FS_Interval DEF GraphOK, DepTables, Listed
      <4>2. IsFiniteSet(hard[node]) /\ IsFiniteSet(soft[node])
        BY <4>1, FS_Subset
      <4>. QED BY <4>2, FS_CardinalityType
    <3>. QED BY <1>3, <3>1, <1>1 DEF AddEdges, TopoTypeOK
  <2>2. (adj \in [Listed -> Seq(Listed)])' /\ (\A d \in Listed : Len(adj[d]) <= n)'
    <3>1. \A d \in Listed : adj'[d] \in Seq(Listed) /\ Len(adj'[d]) <= n
      BY <1>1, RowsGrow
    <3>2. adj' = [d \in Listed |-> adj'[d]]
      BY DEF AddEdges
    <3>. QED BY <1>3, <3>1, <3>2
  <2>. QED BY <1>1, <1>3, <2>1, <2>2 DEF TopoTypeOK
<1>5. Added = 1..(node - 1) /\ Added' = 1..node /\ node \notin Added /\ Added' = Added \cup {node}
  BY <1>3 DEF Added
<1>6. QueueOK'
  BY <1>1, <1>3 DEF Sorting, QueueOK
<1>7. EdgesOK'
  <2>1. ASSUME NEW d \in Listed, NEW i \in 1..Len(adj'[d])
        PROVE  adj'[d][i] \in Added' /\ d \in Deps(adj'[d][i])
    <3>1. CASE i \in 1..Len(adj[d])
      <4>1. adj'[d][i] = adj[d][i]
        BY <1>1, <3>1, RowsGrow
      <4>2. adj[d][i] \in Added /\ d \in Deps(adj[d][i])
        BY <1>1, <3>1 DEF Sorting, EdgesOK
      <4>. QED BY <4>1, <4>2, <1>5
    <3>2. CASE i \notin 1..Len(adj[d])
      <4>1. i \in (Len(adj[d]) + 1)..Len(adj'[d]) /\ Len(adj'[d]) # Len(adj[d])
        BY <1>1, <3>2, RowsGrow
      <4>2. d \in Deps(node) /\ adj'[d][i] = node
        BY <1>1, <4>1, RowsGrow DEF Deps
      <4>. QED BY <4>2, <1>5
    <3>. QED BY <3>1, <3>2
  <2>2. ASSUME NEW v \in Added', NEW d \in Deps(v)
        PROVE  \E i \in 1..Len(adj'[d]) : adj'[d][i] = v
    <3>0. v \in Listed /\ d \in Listed
      BY <1>3, <1>5 DEF Deps, GraphOK, DepTables, Listed
    <3>1. CASE v \in Added
      <4>1. PICK i \in 1..Len(adj[d]) : adj[d][i] = v
        BY <1>1, <3>1 DEF Sorting, EdgesOK
      <4>2. adj'[d][i] = adj[d][i] /\ i \in 1..Len(adj'[d])
        BY <1>1, <3>0, <4>1, RowsGrow
      <4>. QED BY <4>1, <4>2
    <3>2. CASE v = node
      <4>1. d \in hard[node] \cup soft[node]
        BY <3>2 DEF Deps
      <4>2. Len(adj[d]) \in Nat /\ Len(adj'[d]) \in Nat /\ Len(adj'[d]) > Len(adj[d])
        BY <1>1, <3>0, <4>1, RowsGrow
      <4>3. Len(adj'[d]) \in (Len(adj[d]) + 1)..Len(adj'[d]) /\ Len(adj'[d]) \in 1..Len(adj'[d])
        BY <4>2
      <4>4. adj'[d][Len(adj'[d])] = node
        BY <1>1, <3>0, <4>3, RowsGrow
      <4>. QED BY <4>3, <4>4, <3>2
    <3>. QED BY <3>1, <3>2, <1>5
  <2>. QED
    BY <1>3, <2>1, <2>2 DEF EdgesOK, Deps
<1>8. RowsOK'
  <2>1. SUFFICES ASSUME ~ListedTwice, NEW d \in Listed
                 PROVE  Len(adj'[d]) <= node
    BY <1>3 DEF RowsOK, ListedTwice
  <2>2. Len(adj[d]) <= node - 1
    BY <1>1, <1>3, <2>1 DEF Sorting, RowsOK
  <2>3. d \notin hard[node] \cap soft[node]
    BY <1>3, <2>1 DEF ListedTwice, Listed
  <2>4. Len(adj[d]) \in Nat /\ (Len(adj'[d]) = Len(adj[d]) + 1 \/ Len(adj'[d]) = Len(adj[d]))
    BY <1>1, <2>3, RowsGrow
  <2>. QED BY <2>2, <2>4, <1>3
<1>9. DegreesOK'
  <2>1. ASSUME NEW v \in Listed PROVE inDegree'[v] = Cardinality(Open(v)')
    <3>1. CASE v = h
      <4>1. Cardinality(Open(h)') = Cardinality(hard[node]) + Cardinality(soft[node])
        BY <1>1, <1>2, EdgesCounted DEF Sorting
      <4>2. inDegree'[h] = Cardinality(hard[node]) + Cardinality(soft[node])
        BY <1>1, <1>2 DEF AddEdges, TopoTypeOK
      <4>. QED BY <3>1, <4>1, <4>2
    <3>2. CASE v # h
      <4>1. Open(v)' = Open(v)
        BY <1>1, <1>2, <3>2, EdgesOpened DEF Sorting
      <4>2. inDegree'[v] = inDegree[v]
        BY <1>1, <1>2, <3>2 DEF AddEdges, TopoTypeOK
      <4>. QED BY <1>1, <4>1, <4>2 DEF Sorting, DegreesOK
    <3>. QED BY <3>1, <3>2
  <2>. QED BY <1>3, <2>1 DEF DegreesOK
<1>10. ReadyOK'
  <2>1. Seeded = {} /\ Seeded' = {}
    BY <1>3 DEF Seeded
  <2>2. Len(queue) = 0 \/ Len(queue) \notin Nat
    BY <1>1, <2>1 DEF Sorting, ReadyOK, TopoTypeOK
  <2>3. 1..Len(queue) = {}
    BY <1>1, <2>2 DEF TopoTypeOK
  <2>. QED BY <1>3, <2>1, <2>3 DEF ReadyOK
<1>11. /\ PlacedAfterDeps'
       /\ (\A i, j \in 1..Len(order) : order[i] = order[j] => i = j)'
       /\ Verdict'
  <2>1. order = <<>>
    BY <1>1, <1>3 DEF Sorting, QueueOK
  <2>. QED BY <1>3, <2>1 DEF PlacedAfterDeps, Verdict
<1>. QED
  BY <1>4, <1>6, <1>7, <1>8, <1>9, <1>10, <1>11 DEF TopoInv, Sorting

(* A row can overflow only if a hook lists a dependency twice.             *)
LEMMA RejectEdgesKeeps ==
  ASSUME GraphOK, TopoInv, RejectEdges, graphVars' = graphVars
  PROVE  TopoInv'
<1> USE DEF graphVars
<1>1. TopoTypeOK /\ RowsOK /\ node \in 1..n /\ n \in Nat /\ topoPc = "edges"
  BY DEF TopoInv, Sorting, RejectEdges, TopoTypeOK, GraphOK
<1>2. ListedTwice
  <2>1. PICK d \in Listed : ~(Len(adj[d]) + Len(NewEdges(d)) <= n)
    BY DEF RejectEdges, EdgesFit
  <2>2. SUFFICES ASSUME ~ListedTwice PROVE FALSE
    OBVIOUS
  <2>3. Len(adj[d]) <= node - 1 /\ Len(adj[d]) \in Nat
    BY <1>1, <2>2 DEF RowsOK, TopoTypeOK
  <2>4. d \notin hard[node] \cap soft[node]
    BY <1>1, <2>2 DEF ListedTwice, Listed
  <2>5. NewEdges(d) = <<node>> \/ NewEdges(d) = <<>>
    <3>1. <<node>> \o <<>> = <<node>> /\ <<>> \o <<node>> = <<node>> /\ <<>> \o <<>> = <<>>
      BY <1>1
    <3>. QED BY <2>4, <3>1 DEF NewEdges
  <2>6. Len(NewEdges(d)) \in 0..1
    BY <2>5
  <2> DEFINE x == Len(adj[d])
             y == Len(NewEdges(d))
  <2>7. ~(x + y <= n) /\ x <= node - 1 /\ x \in Nat /\ y \in 0..1
    BY <2>1, <2>3, <2>6
  <2>. QED
    <3> HIDE DEF x, y
    <3>. QED BY <1>1, <2>7
<1>3. TopoTypeOK'
  BY <1>1 DEF RejectEdges, TopoTypeOK, Listed
<1>4. PlacedAfterDeps' /\ (\A i, j \in 1..Len(order) : order[i] = order[j] => i = j)'
  BY OrderStays DEF RejectEdges
<1>5. Verdict' /\ topoPc' = "rejected"
  BY <1>2 DEF RejectEdges, Verdict, ListedTwice, Listed
<1>. QED
  BY <1>3, <1>4, <1>5 DEF TopoInv

(* An action that relaxes nothing keeps what is open; with the edges in,   *)
(* it keeps the counts too.                                                *)
LEMMA OpenStays ==
  ASSUME GraphOK, graphVars' = graphVars, adj' = adj, TopoTypeOK,
         \A d \in Listed : \A i \in 1..n :
           i <= Len(adj[d]) => (Relaxed(d, i)' <=> Relaxed(d, i))
  PROVE  \A v \in Listed : Open(v)' = Open(v)
<1>1. Listed' = Listed /\ n' = n
  BY DEF graphVars, Listed
<1>2. \A e \in Listed \X (1..n) : e[1] \in Listed /\ e[2] \in 1..n
  OBVIOUS
<1>. QED
  BY <1>1, <1>2 DEF Open

LEMMA EdgesStay ==
  ASSUME GraphOK, graphVars' = graphVars, adj' = adj, inDegree' = inDegree,
         TopoTypeOK, EdgesOK, RowsOK, DegreesOK,
         topoPc = "edges" => node = n + 1, topoPc' # "edges",
         \A v \in Listed : Open(v)' = Open(v)
  PROVE  EdgesOK' /\ RowsOK' /\ DegreesOK'
<1>1. Listed' = Listed /\ n' = n /\ hard' = hard /\ soft' = soft /\ n \in Nat
  BY DEF graphVars, Listed, GraphOK
<1>2. Added = Listed /\ Added' = Listed
  BY <1>1 DEF Added, Listed
<1>3. EdgesOK'
  BY <1>1, <1>2 DEF EdgesOK, Deps
<1>4. RowsOK'
  BY <1>1 DEF RowsOK, ListedTwice
<1>5. DegreesOK'
  BY <1>1 DEF DegreesOK
<1>. QED
  BY <1>3, <1>4, <1>5

LEMMA EdgesDoneKeeps ==
  ASSUME GraphOK, TopoInv, EdgesDone, graphVars' = graphVars
  PROVE  TopoInv'
<1>1. Sorting /\ TopoTypeOK /\ n \in Nat /\ Listed' = Listed /\ n' = n
  BY DEF TopoInv, EdgesDone, GraphOK, graphVars, Listed
<1>2. /\ topoPc = "edges" /\ topoPc' = "seed" /\ node = n + 1 /\ node' = 1
      /\ UNCHANGED <<inDegree, adj, queue, order, edge>>
  BY DEF EdgesDone
<1>3. TopoTypeOK'
  BY <1>1, <1>2 DEF TopoTypeOK
<1>4. \A v \in Listed : Open(v)' = Open(v)
  <2>1. order = <<>>
    BY <1>1, <1>2 DEF Sorting, QueueOK
  <2>2. \A d \in Listed : \A i \in 1..n : ~Relaxed(d, i)' /\ ~Relaxed(d, i)
    BY <1>2, <2>1 DEF Relaxed, Front
  <2>. QED BY <1>1, <1>2, <2>2, OpenStays
<1>5. EdgesOK' /\ RowsOK' /\ DegreesOK'
  BY <1>1, <1>2, <1>4, EdgesStay DEF Sorting
<1>6. QueueOK'
  BY <1>1, <1>2 DEF Sorting, QueueOK, Front
<1>7. ReadyOK'
  <2>1. Seeded = {} /\ Seeded' = {}
    BY <1>2 DEF Seeded
  <2>2. 1..Len(queue) = {}
    BY <1>1, <2>1 DEF Sorting, ReadyOK
  <2>. QED BY <1>2, <2>1, <2>2 DEF ReadyOK
<1>. QED
  BY <1>2, <1>3, <1>5, <1>6, <1>7, OrderStays DEF TopoInv, Sorting, Verdict

LEMMA SeedKeeps ==
  ASSUME GraphOK, TopoInv, Seed, graphVars' = graphVars
  PROVE  TopoInv'
<1>1. Sorting /\ TopoTypeOK /\ n \in Nat /\ Listed' = Listed /\ n' = n /\ Listed = 1..n
  BY DEF TopoInv, Seed, GraphOK, graphVars, Listed
<1>2. /\ topoPc = "seed" /\ topoPc' = "seed" /\ node' = node + 1 /\ node \in 1..n
      /\ UNCHANGED <<inDegree, adj, order, edge>>
      /\ queue' = IF inDegree[node] = 0 THEN Append(queue, node) ELSE queue
  BY <1>1 DEF Seed, TopoTypeOK
<1>3. order = <<>>
  BY <1>1, <1>2 DEF Sorting, QueueOK
<1>4. \A v \in Listed : Open(v)' = Open(v)
  <2>2. \A d \in Listed : \A i \in 1..n : ~Relaxed(d, i)' /\ ~Relaxed(d, i)
    BY <1>2, <1>3 DEF Relaxed, Front
  <2>. QED BY <1>1, <1>2, <2>2, OpenStays
<1>5. EdgesOK' /\ RowsOK' /\ DegreesOK'
  BY <1>1, <1>2, <1>4, EdgesStay DEF Sorting
<1>6. Seeded = 1..(node - 1) /\ Seeded' = 1..node /\ node \notin Seeded
  BY <1>2 DEF Seeded
<1>7. inDegree[node] = 0 <=> Open(node) = {}
  <2>1. inDegree[node] = Cardinality(Open(node))
    BY <1>1, <1>2 DEF Sorting, DegreesOK
  <2>. QED BY <2>1, OpenIsFinite, FS_EmptySet
<1>8. TopoTypeOK' /\ QueueOK' /\ ReadyOK'
  <2>1. CASE inDegree[node] = 0
    <3>1. queue' = Append(queue, node)
      BY <1>2, <2>1
    <3>2. /\ Len(queue') = Len(queue) + 1 /\ Len(queue) \in Nat
          /\ queue' \in Seq(Listed)
          /\ \A i \in 1..Len(queue) : queue'[i] = queue[i]
          /\ queue'[Len(queue) + 1] = node
      <4>1. queue \in Seq(Listed) /\ node \in Listed
        BY <1>1, <1>2 DEF TopoTypeOK
      <4>. QED BY <3>1, <4>1
    <3>3. \A i \in 1..Len(queue') : i \in 1..Len(queue) \/ i = Len(queue) + 1
      BY <3>2
    <3>4. \A i \in 1..Len(queue) : queue[i] # node
      BY <1>1, <1>6 DEF Sorting, ReadyOK
    <3>5. TopoTypeOK'
      BY <1>1, <1>2, <3>2 DEF TopoTypeOK
    <3>6. QueueOK'
      <4>1. \A i, j \in 1..Len(queue') : queue'[i] = queue'[j] => i = j
        BY <1>1, <3>2, <3>3, <3>4 DEF Sorting, QueueOK
      <4>. QED BY <1>2, <1>3, <3>2, <4>1 DEF QueueOK
    <3>7. ASSUME NEW i \in 1..Len(queue') PROVE queue'[i] \in Seeded' /\ Open(queue'[i]) = {}
      <4>1. CASE i \in 1..Len(queue)
        <5>1. queue'[i] = queue[i]
          BY <3>2, <4>1
        <5>2. queue[i] \in Seeded /\ Open(queue[i]) = {}
          BY <1>1, <4>1 DEF Sorting, ReadyOK
        <5>3. 1..(node - 1) \subseteq 1..node
          BY <1>2
        <5>. QED BY <1>6, <5>1, <5>2, <5>3
      <4>2. CASE i = Len(queue) + 1
        <5>1. queue'[i] = node /\ node \in 1..node
          BY <1>2, <3>2, <4>2
        <5>2. Open(node) = {}
          BY <1>7, <2>1
        <5>. QED BY <1>6, <5>1, <5>2
      <4>. QED BY <3>3, <4>1, <4>2
    <3>8. ASSUME NEW v \in Seeded', Open(v) = {} PROVE \E i \in 1..Len(queue') : queue'[i] = v
      <4>1. CASE v = node
        BY <3>2, <4>1
      <4>2. CASE v \in Seeded
        <5>1. PICK i \in 1..Len(queue) : queue[i] = v
          BY <1>1, <3>8, <4>2 DEF Sorting, ReadyOK
        <5>2. i \in 1..Len(queue') /\ queue'[i] = v
          BY <3>2, <5>1
        <5>. QED BY <5>2
      <4>. QED BY <1>2, <1>6, <4>1, <4>2
    <3>9. Seeded' \subseteq Listed
      BY <1>1, <1>2, <1>6
    <3>10. ReadyOK'
      <4>1. \A i \in 1..Len(queue') : queue'[i] \in Listed
        BY <3>7, <3>9
      <4>2. (\A i \in 1..Len(queue) : queue[i] \in Seeded /\ Open(queue[i]) = {})'
        <5>1. SUFFICES ASSUME NEW i \in 1..Len(queue') PROVE queue'[i] \in Seeded' /\ Open(queue[i])' = {}
          OBVIOUS
        <5>2. PICK v \in Listed : v = queue'[i]
          BY <4>1
        <5>3. Open(v)' = {}
          BY <1>4, <3>7, <5>2
        <5>. QED BY <3>7, <5>2, <5>3 DEF Open, Relaxed, Front
      <4>3. (\A v \in Seeded : Open(v) = {} => \E i \in 1..Len(queue) : queue[i] = v)'
        BY <1>4, <3>8, <3>9
      <4>. QED BY <4>2, <4>3 DEF ReadyOK
    <3>. QED BY <3>5, <3>6, <3>10
  <2>2. CASE inDegree[node] # 0
    <3>1. queue' = queue
      BY <1>2, <2>2
    <3>2. TopoTypeOK' /\ QueueOK'
      BY <1>1, <1>2, <3>1 DEF TopoTypeOK, Sorting, QueueOK, Front
    <3>3. ReadyOK'
      <4>1. Seeded' \subseteq Listed /\ Seeded \subseteq Seeded'
        BY <1>1, <1>2, <1>6
      <4>2. ASSUME NEW i \in 1..Len(queue) PROVE queue[i] \in Seeded' /\ Open(queue[i])' = {}
        <5>1. queue[i] \in Seeded /\ Open(queue[i]) = {}
          BY <1>1 DEF Sorting, ReadyOK
        <5>2. PICK v \in Listed : v = queue[i]
          BY <4>1, <5>1
        <5>3. Open(v)' = {}
          BY <1>4, <5>1, <5>2
        <5>. QED BY <3>1, <4>1, <5>1, <5>2, <5>3 DEF Open, Relaxed, Front
      <4>3. ASSUME NEW v \in Seeded', Open(v)' = {} PROVE \E i \in 1..Len(queue) : queue[i] = v
        <5>1. Open(v) = {} /\ v # node
          BY <1>4, <1>7, <2>2, <4>1, <4>3
        <5>2. v \in Seeded
          BY <1>2, <1>6, <5>1
        <5>. QED BY <1>1, <5>1, <5>2 DEF Sorting, ReadyOK
      <4>. QED BY <3>1, <4>2, <4>3 DEF ReadyOK
    <3>. QED BY <3>2, <3>3
  <2>. QED BY <2>1, <2>2
<1>. QED
  BY <1>2, <1>5, <1>8, OrderStays DEF TopoInv, Sorting, Verdict

(* With everything seeded and the queue left alone, so is ReadyOK.         *)
LEMMA ReadyStays ==
  ASSUME GraphOK, graphVars' = graphVars, queue' = queue,
         QueueOK, TopoTypeOK, ReadyOK, Seeded = Listed, Seeded' = Listed,
         \A v \in Listed : Open(v)' = Open(v)
  PROVE  ReadyOK'
<1>1. ASSUME NEW i \in 1..Len(queue) PROVE queue[i] \in Listed /\ Open(queue[i])' = {}
  <2>1. PICK v \in Listed : v = queue[i]
    BY DEF ReadyOK
  <2>2. Open(v)' = {}
    BY <2>1 DEF ReadyOK
  <2>. QED BY <2>1, <2>2 DEF Open, Relaxed, Front
<1>. QED
  BY <1>1 DEF ReadyOK

LEMMA SeedsDoneKeeps ==
  ASSUME GraphOK, TopoInv, SeedsDone, graphVars' = graphVars
  PROVE  TopoInv'
<1>1. Sorting /\ TopoTypeOK /\ n \in Nat /\ Listed' = Listed /\ n' = n /\ Listed = 1..n
  BY DEF TopoInv, SeedsDone, GraphOK, graphVars, Listed
<1>2. /\ topoPc = "seed" /\ topoPc' = "pop" /\ node = n + 1
      /\ UNCHANGED <<node, inDegree, adj, queue, order, edge>>
  BY DEF SeedsDone
<1>3. order = <<>>
  BY <1>1, <1>2 DEF Sorting, QueueOK
<1>4. \A v \in Listed : Open(v)' = Open(v)
  <2>1. \A d \in Listed : \A i \in 1..n : ~Relaxed(d, i)' /\ ~Relaxed(d, i)
    BY <1>2, <1>3 DEF Relaxed, Front
  <2>. QED BY <1>1, <1>2, <2>1, OpenStays
<1>5. EdgesOK' /\ RowsOK' /\ DegreesOK'
  BY <1>1, <1>2, <1>4, EdgesStay DEF Sorting
<1>6. TopoTypeOK' /\ QueueOK'
  BY <1>1, <1>2 DEF TopoTypeOK, Sorting, QueueOK, Front
<1>7. Seeded = Listed /\ Seeded' = Listed
  BY <1>1, <1>2 DEF Seeded
<1>8. ReadyOK'
  BY <1>1, <1>2, <1>4, <1>7, ReadyStays DEF Sorting
<1>. QED
  BY <1>2, <1>5, <1>6, <1>8, OrderStays DEF TopoInv, Sorting, Verdict

(* A hook in the queue has no open edge: its dependencies are placed.      *)
LEMMA PopKeeps ==
  ASSUME GraphOK, TopoInv, Pop, graphVars' = graphVars
  PROVE  TopoInv'
<1>1. Sorting /\ TopoTypeOK /\ n \in Nat /\ Listed' = Listed /\ n' = n /\ Listed = 1..n
  BY DEF TopoInv, Pop, GraphOK, graphVars, Listed
<1> DEFINE u == queue[Front + 1]
<1>2. /\ topoPc = "pop" /\ topoPc' = "relax" /\ Front < Len(queue)
      /\ UNCHANGED <<node, inDegree, adj, queue>>
      /\ edge' = 1 /\ order' = Append(order, u)
  BY DEF Pop
<1>3. Front \in Nat /\ u \in Listed /\ Front + 1 \in 1..Len(queue)
  <2>1. order \in Seq(Listed) /\ queue \in Seq(Listed)
    BY <1>1 DEF TopoTypeOK
  <2>2. Front \in Nat /\ Len(queue) \in Nat
    BY <2>1 DEF Front
  <2>3. Front + 1 \in 1..Len(queue)
    BY <1>2, <2>2
  <2>. QED BY <2>1, <2>2, <2>3
<1>4. /\ Front' = Front + 1 /\ order' \in Seq(Listed)
      /\ \A i \in 1..Front : order'[i] = order[i]
      /\ order'[Front + 1] = u
      /\ \A i \in 1..(Front + 1) : i \in 1..Front \/ i = Front + 1
  <2> HIDE DEF u
  <2>1. order \in Seq(Listed) /\ u \in Listed /\ order' = Append(order, u)
    BY <1>1, <1>2, <1>3 DEF TopoTypeOK
  <2>. QED BY <2>1 DEF Front
<1> HIDE DEF u
<1>5. TopoTypeOK'
  <2>1. edge' \in 1..(n + 1) /\ topoPc' \in {"edges", "seed", "pop", "relax", "sorted", "rejected"}
    BY <1>1, <1>2
  <2>. QED BY <1>1, <1>2, <1>4, <2>1 DEF TopoTypeOK
<1>6. \A v \in Listed : Open(v)' = Open(v)
  <2>1. ASSUME NEW d \in Listed, NEW i \in 1..n PROVE Relaxed(d, i)' <=> Relaxed(d, i)
    <3>1. Relaxed(d, i) <=> \E j \in 1..Front : order[j] = d
      BY <1>2, Zenon DEF Relaxed
    <3>2. Relaxed(d, i)' <=> \E j \in 1..(Front + 1) : order'[j] = d /\ j < Front + 1
      <4>1. ~(i < 1)
        OBVIOUS
      <4>2. Relaxed(d, i)' <=>
              \E j \in 1..Front' : order'[j] = d /\ (j < Front' \/ topoPc' # "relax" \/ i < edge')
        BY DEF Relaxed, Front
      <4>. QED BY <1>2, <1>4, <4>1, <4>2
    <3>3. (\E j \in 1..(Front + 1) : order'[j] = d /\ j < Front + 1) <=> \E j \in 1..Front : order[j] = d
      BY <1>3, <1>4
    <3>. QED BY <3>1, <3>2, <3>3
  <2>. QED BY <1>1, <1>2, <2>1, OpenStays
<1>7. EdgesOK' /\ RowsOK' /\ DegreesOK'
  BY <1>1, <1>2, <1>6, EdgesStay DEF Sorting
<1>8. Seeded = Listed /\ Seeded' = Listed /\ Added = Listed
  BY <1>1, <1>2 DEF Seeded, Added
<1>9. ReadyOK'
  BY <1>1, <1>2, <1>6, <1>8, ReadyStays DEF Sorting
<1>10. QueueOK'
  <2>1. Len(order') <= Len(queue)
    BY <1>3, <1>4 DEF Front
  <2>2. \A i \in 1..Len(order') : order'[i] = queue[i]
    BY <1>1, <1>4 DEF Sorting, QueueOK, Front, u
  <2>3. Len(order') > 0 /\ 1 <= Len(adj[order'[Front']]) + 1
    <3>1. Len(adj[u]) \in Nat
      BY <1>1, <1>3 DEF TopoTypeOK
    <3>. QED BY <1>3, <1>4, <3>1 DEF Front
  <2>. QED BY <1>1, <1>2, <2>1, <2>2, <2>3 DEF Sorting, QueueOK
<1>11. (\A i, j \in 1..Len(order) : order[i] = order[j] => i = j)'
  <2>1. \A i \in 1..Len(order') : order'[i] = queue[i] /\ i \in 1..Len(queue)
    <3>1. SUFFICES ASSUME NEW i \in 1..Len(order') PROVE order'[i] = queue[i] /\ i \in 1..Len(queue)
      OBVIOUS
    <3>2. order'[i] = queue[i] /\ Len(order') <= Len(queue)
      BY <1>2, <1>10 DEF QueueOK
    <3>3. Len(order') \in Nat /\ Len(queue) \in Nat
      <4>1. order' \in Seq(Listed) /\ queue \in Seq(Listed)
        BY <1>1, <1>4 DEF TopoTypeOK
      <4>. QED BY <4>1
    <3>. QED BY <3>2, <3>3
  <2>. QED BY <1>1, <2>1 DEF Sorting, QueueOK
<1>12. PlacedAfterDeps'
  <2>1. \A d \in Deps(u) : \E j \in 1..Front : order[j] = d
    <3>1. SUFFICES ASSUME NEW d \in Deps(u) PROVE \E j \in 1..Front : order[j] = d
      OBVIOUS
    <3>2. d \in Listed
      BY <1>1, <1>3, <3>1 DEF Deps, GraphOK, DepTables
    <3>3. PICK i \in 1..Len(adj[d]) : adj[d][i] = u
      BY <1>1, <1>3, <1>8 DEF Sorting, EdgesOK
    <3>4. i \in 1..n /\ i <= Len(adj[d])
      BY <1>1, <3>2, <3>3 DEF TopoTypeOK
    <3>5. Open(u) = {}
      BY <1>1, <1>3 DEF Sorting, ReadyOK, u
    <3>6. Relaxed(d, i)
      <4>1. <<d, i>> \in Listed \X (1..n) /\ <<d, i>>[1] = d /\ <<d, i>>[2] = i
        BY <3>2, <3>4
      <4>. QED BY <3>3, <3>4, <3>5, <4>1 DEF Open
    <3>. QED BY <3>6 DEF Relaxed
  <2>2. ASSUME NEW i \in 1..Len(order')
        PROVE  AllDeps(hard, soft)[order'[i]] \subseteq {order'[j] : j \in 1..(i - 1)}
    <3>0. \A h \in Listed : AllDeps(hard, soft)[h] = Deps(h)
      BY <1>1 DEF AllDeps, Deps, GraphOK, DepTables
    <3>1. CASE i \in 1..Front
      <4>1. order'[i] = order[i] /\ \A j \in 1..(i - 1) : order'[j] = order[j]
        BY <1>3, <1>4, <3>1
      <4>2. AllDeps(hard, soft)[order[i]] \subseteq {order[j] : j \in 1..(i - 1)}
        BY <3>1 DEF TopoInv, PlacedAfterDeps, Front
      <4>. QED BY <4>1, <4>2
    <3>2. CASE i = Front + 1
      <4>1. \A j \in 1..Front : order'[j] = order[j]
        BY <1>4
      <4>2. i - 1 = Front /\ order'[i] = u
        BY <1>3, <1>4, <3>2
      <4>. QED BY <1>3, <2>1, <3>0, <4>1, <4>2
    <3>. QED BY <1>4, <3>1, <3>2 DEF Front
  <2>. QED BY <2>2 DEF PlacedAfterDeps, graphVars
<1>. QED
  BY <1>2, <1>5, <1>7, <1>9, <1>10, <1>11, <1>12 DEF TopoInv, Sorting, Verdict

LEMMA NextHookKeeps ==
  ASSUME GraphOK, TopoInv, NextHook, graphVars' = graphVars
  PROVE  TopoInv'
<1>1. Sorting /\ TopoTypeOK /\ n \in Nat /\ Listed' = Listed /\ n' = n /\ Listed = 1..n
  BY DEF TopoInv, NextHook, GraphOK, graphVars, Listed
<1>2. /\ topoPc = "relax" /\ topoPc' = "pop" /\ edge > Len(adj[order[Front]])
      /\ UNCHANGED <<node, inDegree, adj, queue, order, edge>>
  BY DEF NextHook
<1>3. \A v \in Listed : Open(v)' = Open(v)
  <2>1. ASSUME NEW d \in Listed, NEW i \in 1..n, i <= Len(adj[d])
        PROVE  Relaxed(d, i)' <=> Relaxed(d, i)
    <3>1. Relaxed(d, i)' <=> \E j \in 1..Front : order[j] = d
      BY <1>2 DEF Relaxed, Front
    <3>2. ASSUME NEW j \in 1..Front, order[j] = d PROVE j < Front \/ i < edge
      <4>1. Front \in Nat /\ edge \in Nat /\ Len(adj[d]) \in Nat
        BY <1>1 DEF TopoTypeOK, Front
      <4>2. CASE j = Front
        BY <1>2, <2>1, <3>2, <4>1, <4>2
      <4>. QED BY <4>1, <4>2, <3>2
    <3>. QED BY <3>1, <3>2 DEF Relaxed
  <2>. QED BY <1>1, <1>2, <2>1, OpenStays
<1>4. EdgesOK' /\ RowsOK' /\ DegreesOK'
  BY <1>1, <1>2, <1>3, EdgesStay DEF Sorting
<1>5. Seeded = Listed /\ Seeded' = Listed
  BY <1>1, <1>2 DEF Seeded
<1>6. ReadyOK'
  BY <1>1, <1>2, <1>3, <1>5, ReadyStays DEF Sorting
<1>7. TopoTypeOK' /\ QueueOK'
  BY <1>1, <1>2 DEF TopoTypeOK, Sorting, QueueOK, Front
<1>. QED
  BY <1>2, <1>4, <1>6, <1>7, OrderStays DEF TopoInv, Sorting, Verdict

(* The hooks left out when the queue runs dry depend on one another.       *)
LEMMA FinishKeeps ==
  ASSUME GraphOK, TopoInv, Finish, graphVars' = graphVars
  PROVE  TopoInv'
<1>1. Sorting /\ TopoTypeOK /\ n \in Nat /\ Listed' = Listed /\ n' = n /\ Listed = 1..n
  BY DEF TopoInv, Finish, GraphOK, graphVars, Listed
<1>2. /\ topoPc = "pop" /\ Front = Len(queue)
      /\ topoPc' = IF Len(order) = n THEN "sorted" ELSE "rejected"
      /\ UNCHANGED <<node, inDegree, adj, queue, order, edge>>
  BY DEF Finish
<1>3. TopoTypeOK'
  BY <1>1, <1>2 DEF TopoTypeOK
<1>4. \A d \in Listed : \A i \in 1..n : Relaxed(d, i) <=> \E j \in 1..Front : order[j] = d
  BY <1>2, Zenon DEF Relaxed
<1>5. Sorting'
  <2>1. topoPc' # "relax" /\ topoPc' # "edges" /\ topoPc' # "seed"
    BY <1>2
  <2>2. \A d \in Listed : \A i \in 1..n : Relaxed(d, i)' <=> \E j \in 1..Front : order[j] = d
    BY <1>2, <2>1, Zenon DEF Relaxed, Front
  <2>3. \A v \in Listed : Open(v)' = Open(v)
    BY <1>1, <1>2, <1>4, <2>2, OpenStays
  <2>4. EdgesOK' /\ RowsOK' /\ DegreesOK'
    BY <1>1, <1>2, <2>1, <2>3, EdgesStay DEF Sorting
  <2>5. Seeded = Listed /\ Seeded' = Listed
    BY <1>1, <1>2, <2>1 DEF Seeded
  <2>6. ReadyOK'
    BY <1>1, <1>2, <2>3, <2>5, ReadyStays DEF Sorting
  <2>7. QueueOK'
    BY <1>1, <1>2, <2>1 DEF Sorting, QueueOK, Front
  <2>. QED BY <2>4, <2>6, <2>7 DEF Sorting
<1>6. ASSUME Len(order) # n PROVE ~Acyclic(AllDeps(hard, soft))
  <2> DEFINE P == {order[i] : i \in 1..Len(order)}
             T == Listed \ P
  <2>1. T # {}
    <3>1. SUFFICES ASSUME Listed \subseteq P PROVE FALSE
      OBVIOUS
    <3>2. order \in Bijection(1..Len(order), Listed)
      <4>1. order \in [1..Len(order) -> Listed]
        BY <1>1 DEF TopoTypeOK
      <4>2. \A a, b \in 1..Len(order) : order[a] = order[b] => a = b
        BY DEF TopoInv
      <4>3. \A h \in Listed : \E a \in 1..Len(order) : order[a] = h
        BY <3>1
      <4>. QED BY <4>1, <4>2, <4>3 DEF Bijection, Injection, Surjection, IsInjective
    <3>3. Len(order) \in Nat
      BY <1>1 DEF TopoTypeOK
    <3>4. IsFiniteSet(1..Len(order)) /\ Cardinality(1..Len(order)) = Len(order)
      <4>1. PICK l \in Nat : l = Len(order)
        BY <3>3
      <4>2. IsFiniteSet(1..l) /\ Cardinality(1..l) = l
        BY FS_Interval
      <4>. QED BY <4>1, <4>2
    <3>5. Cardinality(Listed) = n
      BY <1>1, FS_Interval
    <3>6. Cardinality(Listed) = Cardinality(1..Len(order))
      BY <3>2, <3>4, FS_Bijection DEF ExistsBijection
    <3>. QED BY <1>6, <3>4, <3>5, <3>6
  <2>2. ASSUME NEW v \in T PROVE \E d \in T : d \in Deps(v)
    <3>1. \A i \in 1..Len(queue) : queue[i] # v
      <4>1. \A i \in 1..Len(queue) : i \in 1..Len(order) /\ order[i] = queue[i]
        BY <1>1, <1>2 DEF Sorting, QueueOK, Front
      <4>. QED BY <4>1
    <3>2. Open(v) # {}
      <4>1. Seeded = Listed
        BY <1>2 DEF Seeded
      <4>. QED BY <1>1, <3>1, <4>1 DEF Sorting, ReadyOK
    <3>3. PICK d \in Listed, i \in 1..n : i <= Len(adj[d]) /\ adj[d][i] = v /\ ~Relaxed(d, i)
      BY <3>2 DEF Open
    <3>4. d \notin P
      BY <1>4, <3>3 DEF Front
    <3>5. i \in 1..Len(adj[d])
      BY <1>1, <3>3 DEF TopoTypeOK
    <3>6. d \in Deps(v)
      BY <1>1, <3>3, <3>5 DEF Sorting, EdgesOK
    <3>. QED BY <3>4, <3>6
  <2> HIDE DEF P
  <2>3. /\ DOMAIN AllDeps(hard, soft) = Listed
        /\ \A h \in Listed : AllDeps(hard, soft)[h] = Deps(h)
    BY <1>1 DEF AllDeps, Deps, GraphOK, DepTables
  <2>4. T \in SUBSET DOMAIN AllDeps(hard, soft) /\ \A h \in T : AllDeps(hard, soft)[h] \cap T # {}
    BY <2>2, <2>3
  <2> HIDE DEF T
  <2>. QED BY <2>1, <2>4 DEF Acyclic
<1>7. Verdict'
  BY <1>2, <1>6 DEF Verdict, graphVars
<1>. QED
  BY <1>2, <1>3, <1>5, <1>7, OrderStays DEF TopoInv

(* One open edge of one hook is closed; the hook is pushed if it was the   *)
(* last.                                                                   *)
LEMMA RelaxKeeps ==
  ASSUME GraphOK, TopoInv, Relax, graphVars' = graphVars
  PROVE  TopoInv'
<1>1. Sorting /\ TopoTypeOK /\ n \in Nat /\ Listed' = Listed /\ n' = n /\ Listed = 1..n
  BY DEF TopoInv, Relax, GraphOK, graphVars, Listed
<1>2. /\ topoPc = "relax" /\ topoPc' = "relax" /\ edge <= Len(adj[order[Front]])
      /\ edge' = edge + 1
      /\ UNCHANGED <<node, adj, order>>
  BY DEF Relax
<1>3. PICK u \in Listed :
         /\ u = order[Front] /\ Front \in Nat /\ Front \in 1..Len(order)
         /\ edge \in 1..Len(adj[u]) /\ edge \in 1..n /\ edge \in Nat
         /\ Len(adj[u]) <= n /\ Len(adj[u]) \in Nat
  <2>1. Front \in Nat /\ Front > 0 /\ order \in Seq(Listed)
    BY <1>1, <1>2 DEF TopoTypeOK, Sorting, QueueOK, Front
  <2>2. order[Front] \in Listed
    BY <2>1 DEF Front
  <2>3. Len(adj[order[Front]]) \in Nat /\ Len(adj[order[Front]]) <= n /\ edge \in 1..(n + 1)
    BY <1>1, <2>2 DEF TopoTypeOK
  <2>. QED BY <1>1, <1>2, <2>1, <2>2, <2>3 DEF Front
<1>4. PICK w \in Listed : w = adj[u][edge]
  <2>1. Added = Listed
    BY <1>2 DEF Added
  <2>. QED BY <1>3, <1>1, <2>1 DEF Sorting, EdgesOK
<1>0. /\ inDegree' = [inDegree EXCEPT ![w] = @ - 1]
      /\ queue' = IF inDegree[w] = 1 THEN Append(queue, w) ELSE queue
  BY <1>3, <1>4 DEF Relax
<1>5. ASSUME NEW d \in Listed, NEW i \in 1..n
      PROVE  Relaxed(d, i)' <=> (Relaxed(d, i) \/ (d = u /\ i = edge))
  <2>1. Relaxed(d, i) <=> \E j \in 1..Front : order[j] = d /\ (j < Front \/ i < edge)
    BY <1>2, Zenon DEF Relaxed
  <2>2. Relaxed(d, i)' <=> \E j \in 1..Front : order[j] = d /\ (j < Front \/ i < edge + 1)
    BY <1>2 DEF Relaxed, Front
  <2>3. i < edge + 1 <=> i < edge \/ i = edge
    BY <1>3
  <2>4. \A j \in 1..Front : j < Front \/ j = Front
    BY <1>3
  <2>5. order[Front] = u /\ Front \in 1..Front
    BY <1>3
  <2>6. CASE i = edge
    <3>1. \A j \in 1..Front : j < Front => order[j] # u
      <4>1. \A j \in 1..Front : j \in 1..Len(order)
        BY <1>3 DEF Front
      <4>2. \A j \in 1..Front : order[j] = order[Front] => j = Front
        BY <1>3, <4>1 DEF TopoInv
      <4>. QED BY <1>3, <4>2, <2>5
    <3>. QED BY <1>3, <2>1, <2>2, <2>3, <2>4, <2>5, <2>6, <3>1
  <2>7. CASE i # edge
    BY <2>1, <2>2, <2>3, <2>7
  <2>. QED BY <2>6, <2>7
<1>6. ~Relaxed(u, edge)
  <2>1. \A j \in 1..Front : order[j] = order[Front] => j = Front
    <3>1. \A j \in 1..Front : j \in 1..Len(order)
      BY <1>3 DEF Front
    <3>. QED BY <1>3, <3>1 DEF TopoInv
  <2>2. SUFFICES ASSUME NEW j \in 1..Front, order[j] = u, j < Front \/ edge < edge PROVE FALSE
    BY <1>2, Zenon DEF Relaxed
  <2>. QED BY <1>3, <2>1, <2>2
<1>7. <<u, edge>> \in Open(w)
  <2>1. <<u, edge>> \in Listed \X (1..n) /\ <<u, edge>>[1] = u /\ <<u, edge>>[2] = edge
    BY <1>3
  <2>. QED BY <1>2, <1>3, <1>4, <1>6, <2>1 DEF Open
<1>8. \A v \in Listed : Open(v)' = Open(v) \ {<<u, edge>>}
  <2>1. SUFFICES ASSUME NEW v \in Listed, NEW e \in Listed \X (1..n),
                         e[2] <= Len(adj[e[1]]), adj[e[1]][e[2]] = v
                 PROVE  ~Relaxed(e[1], e[2])' <=> ~Relaxed(e[1], e[2]) /\ e # <<u, edge>>
    BY <1>1, <1>2 DEF Open
  <2>2. e[1] \in Listed /\ e[2] \in 1..n /\ (e = <<u, edge>> <=> e[1] = u /\ e[2] = edge)
    OBVIOUS
  <2>. QED BY <1>5, <2>2
<1>9. \A v \in Listed : v # w => Open(v)' = Open(v)
  <2>1. SUFFICES ASSUME NEW v \in Listed, v # w PROVE <<u, edge>> \notin Open(v)
    BY <1>8
  <2>. QED BY <1>4, <2>1 DEF Open
<1>10. IsFiniteSet(Open(w)) /\ Open(w) # {} /\ Cardinality(Open(w)) \in Nat \ {0}
  BY <1>7, OpenIsFinite, FS_EmptySet, FS_CardinalityType
<1>11. inDegree[w] = Cardinality(Open(w)) /\ Cardinality(Open(w)') = inDegree[w] - 1
  <2>1. Cardinality(Open(w) \ {<<u, edge>>}) = Cardinality(Open(w)) - 1
    BY <1>7, <1>10, FS_RemoveElement
  <2>. QED BY <1>1, <1>8, <2>1 DEF Sorting, DegreesOK
<1>12. /\ inDegree[w] \in Nat \ {0}
       /\ inDegree'[w] = inDegree[w] - 1
       /\ \A v \in Listed : v # w => inDegree'[v] = inDegree[v]
       /\ inDegree' \in [Listed -> Nat]
  BY <1>0, <1>1, <1>10, <1>11 DEF TopoTypeOK
<1>13. inDegree[w] = 1 <=> Open(w)' = {}
  <2>1. IsFiniteSet(Open(w)')
    <3>1. IsFiniteSet(Open(w) \ {<<u, edge>>})
      BY <1>10, FS_RemoveElement
    <3>. QED BY <1>8, <3>1
  <2>2. Cardinality(Open(w)') = 0 <=> Open(w)' = {}
    BY <2>1, FS_EmptySet
  <2>. QED BY <1>11, <1>12, <2>2
<1>14. \A i \in 1..Len(queue) : queue[i] # w
  BY <1>1, <1>10 DEF Sorting, ReadyOK
<1>15. DegreesOK'
  BY <1>1, <1>9, <1>11, <1>12 DEF Sorting, DegreesOK
<1>16. EdgesOK' /\ RowsOK'
  <2>1. Added = Listed /\ Added' = Listed
    BY <1>1, <1>2 DEF Added
  <2>. QED
    BY <1>1, <1>2, <2>1 DEF Sorting, EdgesOK, RowsOK, Deps, ListedTwice, graphVars
<1>17. Seeded = Listed /\ Seeded' = Listed
  BY <1>1, <1>2 DEF Seeded
<1>18. edge' \in 1..(n + 1) /\ edge' <= Len(adj[order[Front]]) + 1
  BY <1>1, <1>2, <1>3
<1>19. \A v \in Listed : v # w => (Open(v)' = {} <=> Open(v) = {})
  BY <1>9
<1>22. /\ topoPc' \in {"edges", "seed", "pop", "relax", "sorted", "rejected"}
       /\ (node \in 1..(n + 1))'
       /\ (inDegree \in [Listed -> Nat])'
       /\ (adj \in [Listed -> Seq(Listed)])'
       /\ (\A d \in Listed : Len(adj[d]) <= n)'
       /\ (order \in Seq(Listed))'
       /\ (edge \in 1..(n + 1))'
       /\ Listed' = Listed
  <2>1. inDegree' \in [Listed -> Nat] /\ Listed' = Listed /\ n' = n
    BY <1>1, <1>12
  <2>2. edge' \in 1..(n + 1)
    BY <1>18
  <2>3. adj' = adj /\ order' = order /\ node' = node /\ topoPc' = "relax"
    BY <1>2
  <2>4. /\ node \in 1..(n + 1) /\ adj \in [Listed -> Seq(Listed)] /\ order \in Seq(Listed)
        /\ \A d \in Listed : Len(adj[d]) <= n
    BY <1>1 DEF TopoTypeOK
  <2>. QED BY <2>1, <2>2, <2>3, <2>4
<1>20. ASSUME inDegree[w] = 1 PROVE TopoTypeOK' /\ QueueOK' /\ ReadyOK'
  <2>1. queue' = Append(queue, w)
    BY <1>0, <1>20
  <2>2. /\ Len(queue') = Len(queue) + 1 /\ Len(queue) \in Nat
        /\ queue' \in Seq(Listed)
        /\ \A i \in 1..Len(queue) : queue'[i] = queue[i]
        /\ queue'[Len(queue) + 1] = w
    <3>1. queue \in Seq(Listed)
      BY <1>1 DEF TopoTypeOK
    <3>. QED BY <2>1, <3>1
  <2>3. \A i \in 1..Len(queue') : i \in 1..Len(queue) \/ i = Len(queue) + 1
    BY <2>2
  <2>4. TopoTypeOK'
    <3>1. queue' \in Seq(Listed)
      BY <1>1, <2>2 DEF TopoTypeOK
    <3>. QED BY <1>22, <3>1 DEF TopoTypeOK
  <2>5. QueueOK'
    <3>1. \A i, j \in 1..Len(queue') : queue'[i] = queue'[j] => i = j
      BY <1>1, <1>14, <2>2, <2>3 DEF Sorting, QueueOK
    <3>2. Len(order) <= Len(queue) /\ Len(order) \in Nat
      BY <1>1 DEF Sorting, QueueOK, TopoTypeOK
    <3>3. Len(order') <= Len(queue')
      BY <1>2, <2>2, <3>2
    <3>4. \A i \in 1..Len(order) : order[i] = queue[i] /\ i \in 1..Len(queue)
      BY <1>1, <2>2, <3>2 DEF Sorting, QueueOK
    <3>. QED BY <1>1, <1>2, <1>3, <1>18, <2>2, <3>1, <3>3, <3>4 DEF QueueOK, Front
  <2>6. ReadyOK'
    <3>1. ASSUME NEW i \in 1..Len(queue') PROVE queue'[i] \in Listed /\ Open(queue[i])' = {}
      <4>1. PICK v \in Listed : v = queue'[i]
        BY <2>2
      <4>2. CASE i \in 1..Len(queue)
        <5>1. v = queue[i]
          BY <2>2, <4>1, <4>2
        <5>2. v # w /\ Open(v) = {}
          BY <1>1, <1>14, <4>2, <5>1 DEF Sorting, ReadyOK
        <5>3. Open(v)' = {}
          BY <1>19, <5>2
        <5>. QED BY <4>1, <5>3 DEF Open, Relaxed, Front
      <4>3. CASE i = Len(queue) + 1
        <5>1. v = w
          BY <2>2, <4>1, <4>3
        <5>2. Open(v)' = {}
          BY <1>13, <1>20, <5>1
        <5>. QED BY <4>1, <5>2 DEF Open, Relaxed, Front
      <4>. QED BY <2>3, <4>2, <4>3
    <3>2. ASSUME NEW v \in Listed, Open(v)' = {} PROVE \E i \in 1..Len(queue') : queue'[i] = v
      <4>1. CASE v = w
        BY <2>2, <4>1
      <4>2. CASE v # w
        <5>1. PICK i \in 1..Len(queue) : queue[i] = v
          BY <1>1, <1>17, <1>19, <3>2, <4>2 DEF Sorting, ReadyOK
        <5>2. i \in 1..Len(queue') /\ queue'[i] = v
          BY <2>2, <5>1
        <5>. QED BY <5>2
      <4>. QED BY <4>1, <4>2
    <3>. QED BY <1>17, <3>1, <3>2 DEF ReadyOK
  <2>. QED BY <2>4, <2>5, <2>6
<1>21. ASSUME inDegree[w] # 1 PROVE TopoTypeOK' /\ QueueOK' /\ ReadyOK'
  <2>1. queue' = queue
    BY <1>0, <1>21
  <2>2. TopoTypeOK'
    <3>1. queue' \in Seq(Listed)
      BY <1>1, <2>1 DEF TopoTypeOK
    <3>. QED BY <1>22, <3>1 DEF TopoTypeOK
  <2>3. QueueOK'
    BY <1>1, <1>2, <1>3, <1>18, <2>1 DEF Sorting, QueueOK, Front
  <2>4. ReadyOK'
    <3>1. ASSUME NEW i \in 1..Len(queue) PROVE queue[i] \in Listed /\ Open(queue[i])' = {}
      <4>1. PICK v \in Listed : v = queue[i]
        BY <1>1, <1>17 DEF Sorting, ReadyOK
      <4>2. v # w /\ Open(v) = {}
        BY <1>1, <1>14, <4>1 DEF Sorting, ReadyOK
      <4>3. Open(v)' = {}
        BY <1>19, <4>2
      <4>. QED BY <2>1, <4>1, <4>3 DEF Open, Relaxed, Front
    <3>2. ASSUME NEW v \in Listed, Open(v)' = {} PROVE \E i \in 1..Len(queue) : queue[i] = v
      <4>1. v # w
        BY <1>13, <1>21, <3>2
      <4>. QED BY <1>1, <1>17, <1>19, <3>2, <4>1 DEF Sorting, ReadyOK
    <3>. QED BY <1>17, <2>1, <3>1, <3>2 DEF ReadyOK
  <2>. QED BY <2>2, <2>3, <2>4
<1>. QED
  BY <1>2, <1>15, <1>16, <1>20, <1>21, OrderStays DEF TopoInv, Sorting, Verdict

LEMMA TopoStep ==
  ASSUME GraphOK, TopoInv, [TopoNext]_<<graphVars, topoVars>>
  PROVE  TopoInv'
<1>1. CASE UNCHANGED <<graphVars, topoVars>>
  <2>1. /\ graphVars' = graphVars /\ n' = n /\ hard' = hard /\ soft' = soft /\ Listed' = Listed
        /\ UNCHANGED <<topoPc, node, inDegree, adj, queue, order, edge>>
    BY <1>1 DEF graphVars, topoVars, Listed
  <2>2. TopoTypeOK' /\ Verdict'
    BY <2>1 DEF TopoInv, TopoTypeOK, Verdict, ListedTwice
  <2>3. ASSUME topoPc # "rejected" PROVE Sorting'
    <3>1. Sorting
      BY <2>3 DEF TopoInv
    <3>2. QueueOK' /\ RowsOK'
      BY <2>1, <3>1 DEF Sorting, QueueOK, RowsOK, Front, ListedTwice
    <3>3. EdgesOK'
      BY <2>1, <3>1 DEF Sorting, EdgesOK, Added, Deps
    <3>4. \A v \in Listed : Open(v)' = Open(v)
      BY <2>1 DEF Open, Relaxed, Front
    <3>5. DegreesOK'
      BY <2>1, <3>1, <3>4 DEF Sorting, DegreesOK
    <3>6. ReadyOK'
      <4>1. Seeded' = Seeded
        BY <2>1 DEF Seeded
      <4>2. Seeded \subseteq Listed
        BY DEF Seeded, Listed, TopoInv, TopoTypeOK, GraphOK
      <4>3. ASSUME NEW i \in 1..Len(queue) PROVE Open(queue[i])' = {}
        <5>1. PICK v \in Listed : v = queue[i] /\ Open(v) = {}
          BY <3>1, <4>2 DEF Sorting, ReadyOK
        <5>2. Open(v)' = {}
          BY <3>4, <5>1
        <5>. QED BY <2>1, <5>1, <5>2 DEF Open, Relaxed, Front
      <4>. QED BY <2>1, <3>1, <3>4, <4>1, <4>2, <4>3 DEF Sorting, ReadyOK
    <3>. QED BY <3>2, <3>3, <3>5, <3>6 DEF Sorting
  <2>. QED BY <2>1, <2>2, <2>3, OrderStays DEF TopoInv
<1>2. CASE TopoNext
  BY <1>2, AddEdgesKeeps, RejectEdgesKeeps, EdgesDoneKeeps, SeedKeeps, SeedsDoneKeeps,
     PopKeeps, RelaxKeeps, NextHookKeeps, FinishKeeps DEF TopoNext
<1>. QED
  BY <1>1, <1>2

LEMMA TopoInductive == TopoSpec => [](GraphOK /\ TopoInv)
<1>1. GraphOK /\ [TopoNext]_<<graphVars, topoVars>> => GraphOK'
  BY DEF GraphOK, TopoNext, graphVars, DepTables
<1>2. GraphOK /\ TopoInv /\ [TopoNext]_<<graphVars, topoVars>> => TopoInv'
  BY TopoStep
<1>. QED
  BY <1>1, <1>2, TopoInitInv, PTL DEF TopoSpec

(* install_all calls a hook's install only after those of its hard and     *)
(* soft dependencies, at every point of the sort and for every graph:      *)
(* install_order is a linear extension of the dependency relation.         *)
THEOREM DepsComeFirst == TopoSpec => []PlacedAfterDeps
<1>1. TopoInv => PlacedAfterDeps
  BY DEF TopoInv
<1>. QED
  BY <1>1, TopoInductive, PTL

(* A nonempty set of naturals has a least element.                         *)
LEMMA LeastPosition ==
  ASSUME NEW T, T \subseteq Nat, T # {}
  PROVE  \E x \in T : \A y \in T : x <= y
<1> DEFINE R == {p \in Nat \X Nat : p[1] < p[2]}
<1>1. IsWellFoundedOn(R, Nat)
  BY NatLessThanWellFounded DEF OpToRel
<1>2. PICK x \in T : \A y \in T : ~(<<y, x>> \in R)
  <2> HIDE DEF R
  <2>. QED BY <1>1, WFMin
<1>3. ASSUME NEW y \in T PROVE x <= y
  <2>1. x \in Nat /\ y \in Nat
    OBVIOUS
  <2>2. ~(y < x)
    BY <1>2, <2>1
  <2>. QED BY <2>1, <2>2
<1>. QED
  BY <1>3

(* An order of n different hooks is all of them, and the first one of a    *)
(* set to be placed depends on none of the set.                            *)
LEMMA VerdictIsRight == GraphOK /\ TopoInv => AcceptsExactlyAcyclic
<1> SUFFICES ASSUME GraphOK, TopoInv PROVE AcceptsExactlyAcyclic
  OBVIOUS
<1>1. TopoTypeOK /\ Verdict /\ n \in Nat /\ Listed = 1..n
  BY DEF TopoInv, GraphOK, Listed
<1>2. ASSUME topoPc = "sorted" PROVE {order[i] : i \in 1..n} = Listed
  <2>1. Len(order) = n
    BY <1>1, <1>2 DEF Verdict
  <2>2. order \in Injection(1..n, Listed)
    <3>1. order \in [1..n -> Listed]
      BY <1>1, <2>1 DEF TopoTypeOK
    <3>2. \A a, b \in 1..n : order[a] = order[b] => a = b
      BY <2>1 DEF TopoInv
    <3>. QED BY <3>1, <3>2 DEF Injection, IsInjective
  <2>3. IsFiniteSet(1..n) /\ IsFiniteSet(Listed) /\ Cardinality(1..n) = Cardinality(Listed)
    BY <1>1, FS_Interval
  <2>4. order \in Surjection(1..n, Listed)
    BY <2>2, <2>3, FS_Injection
  <2>. QED BY <2>4 DEF Surjection
<1>3. ASSUME topoPc = "sorted" PROVE Acyclic(AllDeps(hard, soft))
  <2>1. SUFFICES ASSUME NEW S \in SUBSET Listed, S # {}
                 PROVE  \E h \in S : AllDeps(hard, soft)[h] \cap S = {}
    BY DEF Acyclic, AllDeps, GraphOK, DepTables, Listed
  <2> DEFINE T == {i \in 1..n : order[i] \in S}
  <2>2. T # {} /\ T \subseteq Nat
    <3>1. PICK h \in S : h \in Listed
      BY <2>1
    <3>2. PICK i \in 1..n : order[i] = h
      BY <1>2, <1>3, <3>1
    <3>3. i \in T
      BY <3>2
    <3>. QED BY <1>1, <3>3
  <2>3. PICK x \in T : \A y \in T : x <= y
    <3> HIDE DEF T
    <3>. QED BY <2>2, LeastPosition
  <2>4. Len(order) = n
    BY <1>1, <1>3 DEF Verdict
  <2>5. AllDeps(hard, soft)[order[x]] \subseteq {order[j] : j \in 1..(x - 1)}
    BY <2>4 DEF TopoInv, PlacedAfterDeps
  <2>6. ASSUME NEW d \in AllDeps(hard, soft)[order[x]] PROVE d \notin S
    <3>1. PICK j \in 1..(x - 1) : d = order[j]
      BY <2>5
    <3>2. j \in 1..n /\ ~(x <= j)
      BY <1>1, <3>1
    <3>. QED BY <2>3, <3>1, <3>2
  <2>. QED BY <2>6
<1>. QED
  BY <1>1, <1>2, <1>3 DEF AcceptsExactlyAcyclic, Verdict

(* The static_assert on the count stops exactly the hook lists with a      *)
(* dependency cycle, and install_order then holds every hook once; only a  *)
(* hook with the same hook as hard and as soft dependency can make a list  *)
(* without a cycle fail to compile.                                        *)
THEOREM BuildAcceptsAcyclic == TopoSpec => []AcceptsExactlyAcyclic
  BY TopoInductive, VerdictIsRight, PTL

(* What HookRegistry assumes of its InstallOrder, of the order sorted.      *)
IsInstallOrder(o) ==
  /\ o \in [Listed -> Listed]
  /\ \A i, j \in Listed : o[i] = o[j] => i = j
  /\ \A i \in Listed : \A d \in hard[o[i]] \cup soft[o[i]] : \E j \in Listed : j < i /\ o[j] = d

(* Whatever order the build accepts is one install_all can use: the        *)
(* assumption the registry's theorems rest on is what the sort brings      *)
(* about, for every graph.                                                 *)
THEOREM SortGivesInstallOrder == TopoSpec => [](topoPc = "sorted" => IsInstallOrder(order))
<1>1. GraphOK /\ TopoInv => (topoPc = "sorted" => IsInstallOrder(order))
  <2> SUFFICES ASSUME GraphOK, TopoInv, topoPc = "sorted" PROVE IsInstallOrder(order)
    OBVIOUS
  <2>1. Listed = 1..n /\ n \in Nat /\ Len(order) = n
    BY DEF TopoInv, Verdict, GraphOK, Listed
  <2>2. order \in [Listed -> Listed]
    BY <2>1 DEF TopoInv, TopoTypeOK
  <2>3. \A i, j \in Listed : order[i] = order[j] => i = j
    BY <2>1 DEF TopoInv
  <2>4. ASSUME NEW i \in Listed, NEW d \in hard[order[i]] \cup soft[order[i]]
        PROVE  \E j \in Listed : j < i /\ order[j] = d
    <3>1. i \in 1..Len(order) /\ order[i] \in DOMAIN hard
      BY <2>1, <2>2 DEF GraphOK, DepTables, Listed
    <3>2. d \in AllDeps(hard, soft)[order[i]]
      BY <3>1 DEF AllDeps
    <3>3. d \in {order[j] : j \in 1..(i - 1)}
      BY <3>1, <3>2 DEF TopoInv, PlacedAfterDeps
    <3>4. PICK j \in 1..(i - 1) : order[j] = d
      BY <3>3
    <3>. QED BY <2>1, <3>4
  <2>. QED BY <2>2, <2>3, <2>4 DEF IsInstallOrder
<1>. QED
  BY <1>1, TopoInductive, PTL

-----------------------------------------------------------------------------
(* cascade_disable. *)

(* The graph never changes and stays a graph. *)
LEMMA GraphIsRigid == CascadeSpec => []GraphOK
<1>1. GraphOK /\ [CascadeNext]_cascadeAll => GraphOK'
  BY DEF GraphOK, CascadeNext, cascadeAll, cascadeVars, graphVars, DepTables
<1>2. QED
  BY <1>1, PTL DEF CascadeSpec

(* What the passes have cleared and checked so far, at every step.         *)
LEMMA CascadeInductive == CascadeSpec => []CascadeInv
<1>1. GraphOK /\ CascadeInit => CascadeInv
  <2> SUFFICES ASSUME GraphOK, CascadeInit
               PROVE  CascadeInv
    OBVIOUS
  <2> USE DEF GraphOK, CascadeInit
  <2>1. CascadeTypeOK
    <3>1. changed \in BOOLEAN
      BY Zenon
    <3>2. QED
      BY <3>1 DEF CascadeTypeOK
  <2>2. KeepsClosedSubsets
    BY DEF KeepsClosedSubsets
  <2>3. CheckedSoFar
    BY DEF CheckedSoFar, Listed
  <2>4. QED
    BY <2>1, <2>2, <2>3 DEF CascadeInv
<1>2. GraphOK /\ CascadeInv /\ [CascadeNext]_cascadeAll => CascadeInv'
  <2> SUFFICES ASSUME GraphOK, CascadeInv, [CascadeNext]_cascadeAll
               PROVE  CascadeInv'
    OBVIOUS
  <2> USE DEF GraphOK, CascadeInv, CascadeTypeOK, Listed, graphVars
  <2>1. CASE Examine /\ UNCHANGED graphVars
    <3>1. CascadeTypeOK'
      <4>1. at' \in 1..(n' + 1)
        BY <2>1 DEF Examine
      <4>2. (kept \in SUBSET wanted)' /\ (wanted \in SUBSET Listed)'
        BY <2>1 DEF Examine
      <4>3. changed' \in BOOLEAN
        BY <2>1, Zenon DEF Examine
      <4>4. (cascadePc \in {"pass", "done"})'
        BY <2>1 DEF Examine
      <4>5. QED
        BY <4>1, <4>2, <4>3, <4>4
    <3>2. KeepsClosedSubsets'
      BY <2>1 DEF Examine, KeepsClosedSubsets, HardClosed, LacksHardDep
    <3>3. CheckedSoFar'
      <4> SUFFICES ASSUME ~changed', NEW h \in kept', h < at'
                   PROVE  hard'[h] \subseteq kept'
        BY DEF CheckedSoFar
      <4>1. ~changed /\ ~(at \in kept /\ LacksHardDep(at))
        BY <2>1, Zenon DEF Examine
      <4>2. kept' = kept /\ hard' = hard
        BY <2>1, <4>1 DEF Examine
      <4>3. CASE h = at
        BY <4>1, <4>2, <4>3 DEF LacksHardDep
      <4>4. CASE h < at
        BY <4>1, <4>2, <4>4 DEF CheckedSoFar
      <4>5. h = at \/ h < at
        BY <2>1, <4>2 DEF Examine
      <4>6. QED
        BY <4>3, <4>4, <4>5
    <3>4. (cascadePc = "done" => ~changed /\ at = n + 1)'
      BY <2>1 DEF Examine
    <3>5. QED
      BY <3>1, <3>2, <3>3, <3>4
  <2>2. CASE NewPass /\ UNCHANGED graphVars
    <3>1. changed' \in BOOLEAN
      BY <2>2, Zenon DEF NewPass
    <3>2. CascadeTypeOK'
      BY <2>2, <3>1 DEF NewPass
    <3>3. KeepsClosedSubsets'
      BY <2>2 DEF NewPass, KeepsClosedSubsets, HardClosed
    <3>4. CheckedSoFar'
      BY <2>2 DEF NewPass, CheckedSoFar
    <3>5. (cascadePc = "done" => ~changed /\ at = n + 1)'
      BY <2>2 DEF NewPass
    <3>6. QED
      BY <3>2, <3>3, <3>4, <3>5
  <2>3. CASE Settle /\ UNCHANGED graphVars
    BY <2>3 DEF Settle, KeepsClosedSubsets, CheckedSoFar, HardClosed
  <2>4. CASE UNCHANGED cascadeAll
    BY <2>4 DEF cascadeAll, cascadeVars, KeepsClosedSubsets, CheckedSoFar, HardClosed
  <2>5. QED
    BY <2>1, <2>2, <2>3, <2>4 DEF CascadeNext
<1>3. QED
  BY <1>1, <1>2, GraphIsRigid, PTL DEF CascadeSpec

(* What the inductive invariant says at the end of the loop: the enabled   *)
(* set is closed, and it contains every closed subset of the wanted one.   *)
LEMMA CascadeInvSuffices ==
  GraphOK /\ CascadeInv => CascadeIsLargestClosed
<1> SUFFICES ASSUME GraphOK, CascadeInv, cascadePc = "done"
             PROVE  kept = LargestClosed(hard, wanted)
  BY DEF CascadeIsLargestClosed
<1>1. HardClosed(hard, kept)
  BY DEF GraphOK, CascadeInv, CascadeTypeOK, CheckedSoFar, HardClosed, Listed
<1>2. kept \in SUBSET wanted
  BY DEF CascadeInv, CascadeTypeOK
<1>3. \A T \in SUBSET wanted : HardClosed(hard, T) => T \subseteq kept
  BY DEF CascadeInv, KeepsClosedSubsets
<1>4. QED
  BY <1>1, <1>2, <1>3 DEF LargestClosed

(* cascade_disable returns the largest hard-closed subset of its input,    *)
(* whatever the graph, the list order and the input.                       *)
THEOREM CascadeCorrect == CascadeSpec => []CascadeIsLargestClosed
  BY CascadeInductive, GraphIsRigid, CascadeInvSuffices, PTL
=============================================================================
