---------------------------- MODULE MemoryProofs ----------------------------
(* memory.c and swap.c, as one of the tables of MCTables, for any numbers of *)
(* address spaces, of their pages, and of pages of memory and of the swap    *)
(* device: mem_map[] counts the references to every page, and a task finds   *)
(* in its pages what it has put there.                                       *)
EXTENDS MCTables, FiniteSetTheorems, WellFoundedInduction, SequenceTheorems, TLAPS

\* A nonempty set of naturals has a least element.
LEMMA LeastNat ==
  ASSUME NEW X \in SUBSET Nat, X # {}
  PROVE  \E x \in X : \A y \in X : x <= y
<1>1. PICK x \in X : \A y \in X : <<y, x>> \notin OpToRel(<, Nat)
  BY NatLessThanWellFounded, WFMin
<1>2. \A y \in X : ~ (y < x)
  BY <1>1 DEF OpToRel
<1> QED
  BY <1>2

\* Each table takes its own steps, whatever the others do.
LEMMA EachTable ==
  ASSUME [TablesNext]_<<vars, pvars, svars, tvars, mvars, lvars, yvars, table>>
  PROVE  /\ [P!Next]_pvars /\ [S!Next]_svars /\ [T!Next]_tvars /\ [M!Next]_mvars
         /\ [L!Next]_lvars /\ [Y!Next]_yvars
BY DEF TablesNext, Only
-----------------------------------------------------------------------------
\* memory.c: the places of a reference to a page are the entries of the tasks
\* and, for each task, the page that it is about to enter or to free.
Places == Spaces \X (M!Virtual \cup {NULL})
Has(e, c) == [x \in Places |-> IF x[2] = NULL THEN c[x[1]].new ELSE e[x[1]][x[2]].frame]

\* Those that must be the only ones of their page: whoever may write a page
\* has it alone, and so has a task that is not through with it.
Alone(e, c) == {x \in Places : IF x[2] = NULL THEN c[x[1]].new # 0 ELSE e[x[1]][x[2]].rw}

\* m counts the places of each page for the function H; those of s are alone.
Frames0 == M!Frames \cup {0}
With(H, f) == {x \in Places : H[x] = f}
Counts(H, m) == \A f \in M!Frames : m[f] = Cardinality(With(H, f))
Sole(H, m, s) == s \subseteq Places /\ \A x \in s : H[x] # 0 /\ m[H[x]] = 1
Tally(H, m, s) == m \in [M!Frames -> Nat] /\ Counts(H, m) /\ Sole(H, m, s)

\* There are finitely many places, ...
LEMMA PlacesFinite == IsFiniteSet(Places)
<1>1. IsFiniteSet(Spaces) /\ IsFiniteSet(M!Virtual \cup {NULL})
  BY PageAssumption, FS_Union, FS_AddElement DEF M!Virtual
<1> QED
  BY <1>1, FS_Product DEF Places

\* ... the entries and one for each task.
LEMMA PlaceTypes ==
  /\ \A t \in Spaces, v \in M!Virtual : <<t, v>> \in Places /\ v # NULL
  /\ \A t \in Spaces : <<t, NULL>> \in Places
  /\ \A x \in Places : x = <<x[1], x[2]>> /\ x[1] \in Spaces /\ (x[2] = NULL \/ x[2] \in M!Virtual)
  /\ 0 \notin M!Frames /\ M!Frames \subseteq Nat /\ NrPages \in Nat /\ NrSwap \in Nat
BY PageAssumption DEF Places, M!Virtual, M!Frames

\* Counting one element more, ...
LEMMA OneMore ==
  ASSUME NEW A, NEW B, NEW x, IsFiniteSet(A), x \notin A, B = A \cup {x}
  PROVE  Cardinality(B) = Cardinality(A) + 1
BY FS_AddElement

\* ... or some less.
LEMMA SomeLess ==
  ASSUME NEW A, NEW B, NEW C, IsFiniteSet(A), B \subseteq A, C = A \ B
  PROVE  Cardinality(C) = Cardinality(A) - Cardinality(B)
<1>1. A \cap B = B
  OBVIOUS
<1> QED
  BY <1>1, FS_Difference

\* What has a page can be counted.
LEMMA WithFinite == \A H, f : IsFiniteSet(With(H, f)) /\ Cardinality(With(H, f)) \in Nat
BY PlacesFinite, FS_Subset, FS_CardinalityType DEF With

\* A page that counts 1 has one place; one that somebody has counts, one that
\* does not count nobody has.
LEMMA OnePlace ==
  ASSUME NEW H, NEW m, NEW s, Tally(H, m, s),
         NEW x \in Places, NEW y \in Places, H[x] \in M!Frames, H[y] = H[x], m[H[x]] = 1
  PROVE  x = y
<1>1. Cardinality(With(H, H[x])) = 1 /\ IsFiniteSet(With(H, H[x]))
  BY WithFinite DEF Tally, Counts
<1>2. PICK z : With(H, H[x]) = {z}
  BY <1>1, FS_Singleton
<1> QED
  BY <1>2 DEF With

\* A page that a place has counts.
LEMMA HadCounts ==
  ASSUME NEW H, NEW m, NEW s, Tally(H, m, s), NEW x \in Places, H[x] \in M!Frames
  PROVE  m[H[x]] \in Nat /\ m[H[x]] >= 1
<1>1. x \in With(H, H[x])
  BY DEF With
<1>2. Cardinality(With(H, H[x])) # 0
  BY <1>1, WithFinite, FS_EmptySet
<1> QED
  BY <1>2, WithFinite DEF Tally, Counts

\* A place takes another page, lets go its page, ...
MayTake(H, m, s, x, f, s2) == \A z \in s2 : (z \in s /\ H[z] # f) \/ (z = x /\ m[f] = 0)

\* The count goes up with the page it takes, ...
LEMMA TakePage ==
  ASSUME NEW H \in [Places -> Frames0], NEW m, NEW s, Tally(H, m, s),
         NEW x \in Places, NEW f \in M!Frames, H[x] = 0, NEW s2 \in SUBSET Places,
         MayTake(H, m, s, x, f, s2)
  PROVE  Tally([H EXCEPT ![x] = f], [m EXCEPT ![f] = @ + 1], s2)
<1> DEFINE H2 == [H EXCEPT ![x] = f]
           m2 == [m EXCEPT ![f] = @ + 1]
<1>1. m \in [M!Frames -> Nat] /\ m2 \in [M!Frames -> Nat] /\ \A g \in M!Frames : m[g] = Cardinality(With(H, g)) /\ m[g] \in Nat
  BY DEF Tally, Counts
<1>2. f # 0
  BY PlaceTypes
<1>3. With(H2, f) = With(H, f) \cup {x} /\ x \notin With(H, f)
  BY <1>2 DEF With
<1>4. Cardinality(With(H2, f)) = Cardinality(With(H, f)) + 1
  <2>1. IsFiniteSet(With(H, f))
    BY WithFinite
  <2> QED
    BY ONLY <2>1, <1>3, OneMore
<1>5. \A g \in M!Frames : g # f => With(H2, g) = With(H, g)
  BY PlaceTypes DEF With
<1>6. Counts(H2, m2)
  BY <1>1, <1>4, <1>5 DEF Counts
<1>7. ASSUME NEW z \in s2 PROVE H2[z] # 0 /\ m2[H2[z]] = 1
  <2>1. CASE z = x
    <3>1. m[f] = 0
      <4>1. CASE z \in s
        BY <2>1, <4>1 DEF Tally, Sole
      <4> QED
        BY <1>7, <4>1 DEF MayTake
    <3> QED
      BY <2>1, <3>1, <1>1, <1>2
  <2>2. CASE z # x
    <3>1. z \in s /\ H[z] # f /\ H2[z] = H[z] /\ H[z] # 0 /\ m[H[z]] = 1 /\ H[z] \in M!Frames
      BY <1>7, <2>2 DEF Tally, Sole, Frames0, MayTake
    <3> QED
      BY <3>1, <1>1
  <2> QED
    BY <2>1, <2>2
<1> QED
  BY <1>1, <1>6, <1>7 DEF Tally, Sole

\* ... and down with the page that it lets go.
LEMMA LetGo ==
  ASSUME NEW H \in [Places -> Frames0], NEW m, NEW s, Tally(H, m, s),
         NEW x \in Places, H[x] # 0, NEW s2 \in SUBSET Places, s2 \subseteq s \ {x}
  PROVE  Tally([H EXCEPT ![x] = 0], [m EXCEPT ![H[x]] = @ - 1], s2)
<1> DEFINE f == H[x]
           H2 == [H EXCEPT ![x] = 0]
           m2 == [m EXCEPT ![f] = @ - 1]
<1>0. f \in M!Frames /\ f # 0
  BY DEF Frames0
<1>1. m \in [M!Frames -> Nat] /\ \A g \in M!Frames : m[g] = Cardinality(With(H, g)) /\ m[g] \in Nat
  BY DEF Tally, Counts
<1>2. m[f] >= 1
  BY <1>0, HadCounts
<1>3. m2 \in [M!Frames -> Nat]
  BY <1>0, <1>1, <1>2
<1>4. With(H2, f) = With(H, f) \ {x} /\ x \in With(H, f)
  BY <1>0 DEF With
<1>5. Cardinality(With(H2, f)) = Cardinality(With(H, f)) - 1
  <2>1. IsFiniteSet(With(H, f)) /\ {x} \subseteq With(H, f) /\ With(H2, f) = With(H, f) \ {x} /\ Cardinality({x}) = 1
    BY <1>4, WithFinite, FS_Singleton
  <2>2. Cardinality(With(H2, f)) = Cardinality(With(H, f)) - Cardinality({x})
    BY ONLY <2>1, SomeLess
  <2> QED
    BY <2>1, <2>2
<1>6. \A g \in M!Frames : g # f => With(H2, g) = With(H, g)
  BY PlaceTypes DEF With
<1>7. Counts(H2, m2)
  BY <1>0, <1>1, <1>5, <1>6 DEF Counts
<1>8. ASSUME NEW z \in s2 PROVE H2[z] # 0 /\ m2[H2[z]] = 1
  <2>1. z \in s /\ z # x /\ z \in Places /\ H2[z] = H[z] /\ H[z] # 0 /\ m[H[z]] = 1 /\ H[z] \in M!Frames
    BY <1>8 DEF Tally, Sole, Frames0
  <2>2. H[z] # f
    BY <2>1, OnePlace
  <2> QED
    BY <2>1, <2>2, <1>1
<1> QED
  BY <1>3, <1>7, <1>8 DEF Tally, Sole

\* ... or gives the page, which it has alone, to another place; fewer places,
\* or one more that is alone, change nothing.
LEMMA PassOn ==
  ASSUME NEW H \in [Places -> Frames0], NEW m, NEW s, Tally(H, m, s),
         NEW x \in Places, NEW y \in Places, H[x] # 0, H[y] = 0, m[H[x]] = 1,
         NEW s2 \in SUBSET Places, s2 \subseteq (s \ {x}) \cup {y}
  PROVE  Tally([[H EXCEPT ![x] = 0] EXCEPT ![y] = H[x]], m, s2)
<1> DEFINE f == H[x]
           H1 == [H EXCEPT ![x] = 0]
           m1 == [m EXCEPT ![f] = @ - 1]
<1>0. f \in M!Frames /\ m \in [M!Frames -> Nat] /\ m[f] = 1
  BY DEF Frames0, Tally
<1>1. Tally(H1, m1, s \ {x})
  <2>1. s \ {x} \in SUBSET Places
    BY DEF Tally, Sole
  <2> QED
    BY <2>1, LetGo
<1>2. H1 \in [Places -> Frames0] /\ H1[y] = 0
  BY DEF Frames0
<1>3. m1[f] = 0 /\ [m1 EXCEPT ![f] = @ + 1] = m
  <2>1. m1[f] = 0
    BY <1>0
  <2>2. [m1 EXCEPT ![f] = @ + 1] = [m EXCEPT ![f] = 1]
    BY <1>0
  <2> QED
    BY <1>0, <2>1, <2>2
<1>4. ASSUME NEW z \in s2 PROVE (z \in s \ {x} /\ H1[z] # f) \/ (z = y /\ m1[f] = 0)
  <2>1. CASE z = y
    BY <2>1, <1>3
  <2>2. CASE z # y
    <3>1. z \in s /\ z # x /\ z \in Places
      BY <1>4, <2>2
    <3>2. H[z] # f
      BY <3>1, <1>0, OnePlace
    <3>3. H1[z] = H[z]
      BY <3>1
    <3> QED
      BY <3>1, <3>2, <3>3
  <2> QED
    BY <2>1, <2>2
<1>5. Tally([H1 EXCEPT ![y] = f], [m1 EXCEPT ![f] = @ + 1], s2)
  BY <1>0, <1>1, <1>2, <1>4, TakePage DEF MayTake
<1> QED
  BY <1>3, <1>5

\* A place that alone has its page may be one of those that are alone.
LEMMA MayWrite ==
  ASSUME NEW H, NEW m, NEW s, Tally(H, m, s), NEW s2 \in SUBSET Places,
         \A z \in s2 : z \in s \/ (H[z] # 0 /\ m[H[z]] = 1)
  PROVE  Tally(H, m, s2)
BY DEF Tally, Sole

\* The entries of a task let go all their pages.
LEMMA FreeAll ==
  ASSUME NEW H \in [Places -> Frames0], NEW m, NEW s, Tally(H, m, s),
         NEW t \in Spaces, NEW s2 \in SUBSET Places,
         s2 \subseteq s \ ({t} \X M!Virtual), NEW H2 \in [Places -> Frames0],
         \A x \in Places : H2[x] = IF x[1] = t /\ x[2] # NULL THEN 0 ELSE H[x]
  PROVE  Tally(H2, [f \in M!Frames |-> m[f] - Cardinality({v \in M!Virtual : H[<<t, v>>] = f})], s2)
<1> DEFINE Row(f) == {v \in M!Virtual : H[<<t, v>>] = f}
           Places1(f) == {x \in Places : x[1] = t /\ x[2] # NULL /\ H[x] = f}
           m2 == [f \in M!Frames |-> m[f] - Cardinality(Row(f))]
<1>1. ASSUME NEW f \in M!Frames
      PROVE  /\ IsFiniteSet(Places1(f)) /\ IsFiniteSet(Row(f))
             /\ Cardinality(Places1(f)) = Cardinality(Row(f))
  <2> DEFINE b == [x \in Places1(f) |-> x[2]]
  <2>1. b \in Bijection(Places1(f), Row(f))
    <3>1. b \in [Places1(f) -> Row(f)]
      BY PlaceTypes
    <3>2. \A x, y \in Places1(f) : b[x] = b[y] => x = y
      BY PlaceTypes
    <3>3. \A v \in Row(f) : \E x \in Places1(f) : b[x] = v
      <4> SUFFICES ASSUME NEW v \in Row(f) PROVE \E x \in Places1(f) : b[x] = v
        OBVIOUS
      <4>1. <<t, v>> \in Places1(f)
        BY PlaceTypes
      <4> QED
        BY <4>1
    <3> QED
      BY <3>1, <3>2, <3>3 DEF Bijection, Injection, Surjection, IsInjective
  <2>2. IsFiniteSet(Places1(f))
    BY PlacesFinite, FS_Subset
  <2> QED
    BY <2>1, <2>2, FS_Bijection DEF ExistsBijection
<1>2. ASSUME NEW f \in M!Frames
      PROVE Cardinality(With(H2, f)) = m[f] - Cardinality(Row(f)) /\ Cardinality(With(H2, f)) \in Nat
  <2>1. f # 0
    BY PlaceTypes
  <2>2. With(H2, f) = With(H, f) \ Places1(f) /\ Places1(f) \subseteq With(H, f)
    BY <2>1 DEF With
  <2>3. Cardinality(With(H, f)) = m[f] /\ IsFiniteSet(With(H, f)) /\ Cardinality(With(H, f)) \in Nat
    BY WithFinite DEF Tally, Counts
  <2>5. Cardinality(With(H2, f)) = Cardinality(With(H, f)) - Cardinality(Places1(f))
    BY ONLY <2>2, <2>3, SomeLess
  <2> QED
    BY <2>3, <2>5, <1>1, WithFinite
<1>3. m2 \in [M!Frames -> Nat]
  BY <1>2
<1>4. Counts(H2, m2)
  BY <1>2 DEF Counts
<1>5. ASSUME NEW z \in s2 PROVE H2[z] # 0 /\ m2[H2[z]] = 1
  <2>1. z \in s /\ z \in Places /\ H[z] # 0 /\ H[z] \in M!Frames /\ m[H[z]] = 1
    BY <1>5 DEF Tally, Sole, Frames0
  <2>2. ~(z[1] = t /\ z[2] # NULL) /\ H2[z] = H[z]
    BY <1>5, <2>1, PlaceTypes
  <2>3. z \in With(H2, H[z])
    BY <2>1, <2>2 DEF With
  <2>4. Cardinality(With(H2, H[z])) # 0
    BY <2>3, WithFinite, FS_EmptySet
  <2>5. Cardinality(Row(H[z])) \in Nat
    BY <1>1, <2>1, FS_CardinalityType
  <2>6. m2[H[z]] = m[H[z]] - Cardinality(Row(H[z])) /\ m2[H[z]] = Cardinality(With(H2, H[z]))
    BY <1>2, <2>1
  <2> HIDE DEF m2, Row
  <2> QED
    BY <1>2, <2>1, <2>2, <2>4, <2>5, <2>6
<1> QED
  BY <1>3, <1>4, <1>5 DEF Tally, Sole

\* A place takes the page of another place besides it.
LEMMA SharePage ==
  ASSUME NEW H \in [Places -> Frames0], NEW m, NEW s, Tally(H, m, s),
         NEW x \in Places, NEW y \in Places, H[x] # 0, H[y] = 0,
         NEW s2 \in SUBSET Places, s2 \subseteq s \ {x, y}
  PROVE  Tally([H EXCEPT ![y] = H[x]], [m EXCEPT ![H[x]] = @ + 1], s2)
<1>1. H[x] \in M!Frames
  BY DEF Frames0
<1>2. ASSUME NEW z \in s2 PROVE z \in s /\ H[z] # H[x]
  <2>1. z \in s /\ z \in Places /\ z # x /\ m[H[z]] = 1
    BY <1>2 DEF Tally, Sole
  <2> QED
    BY <2>1, <1>1, OnePlace
<1> QED
  BY <1>1, <1>2, TakePage DEF MayTake

\* An entry or a task's place in the kernel changes.
Tables == [Spaces -> [M!Virtual -> M!Entry]]
Calls == [Spaces -> M!Call]
Put(e, t, v, n) == [e EXCEPT ![t][v] = n]

\* The page of each place.
LEMMA HasIsFunction ==
  \A e, c : /\ Has(e, c) = [x \in Places |-> Has(e, c)[x]]
             /\ \A x \in Places : Has(e, c)[x] = IF x[2] = NULL THEN c[x[1]].new ELSE e[x[1]][x[2]].frame
BY DEF Has

\* Functions that agree are the same.
LEMMA SameFunction ==
  ASSUME NEW D, NEW f, NEW g, f = [x \in D |-> f[x]], g = [x \in D |-> g[x]], \A x \in D : f[x] = g[x]
  PROVE  f = g
OBVIOUS

\* The page of each place, and whether it is alone, for well-formed tables.
LEMMA HasType ==
  ASSUME NEW e \in Tables, NEW c \in Calls
  PROVE  /\ Has(e, c) \in [Places -> Frames0] /\ Alone(e, c) \in SUBSET Places
         /\ \A t \in Spaces, v \in M!Virtual : /\ Has(e, c)[<<t, v>>] = e[t][v].frame
                                               /\ (<<t, v>> \in Alone(e, c)) = e[t][v].rw
                                               /\ e[t][v] \in M!Entry
         /\ \A t \in Spaces : /\ Has(e, c)[<<t, NULL>>] = c[t].new
                              /\ (<<t, NULL>> \in Alone(e, c)) = (c[t].new # 0)
                              /\ c[t] \in M!Call
<1>1. \A t \in Spaces, v \in M!Virtual : e[t][v] \in M!Entry /\ e[t][v].frame \in Frames0 /\ e[t][v].rw \in BOOLEAN
  BY DEF Tables, M!Entry, Frames0
<1>2. \A t \in Spaces : c[t] \in M!Call /\ c[t].new \in Frames0
  BY DEF Calls, M!Call, Frames0
<1>3. Has(e, c) \in [Places -> Frames0] /\ Alone(e, c) \in SUBSET Places
  BY <1>1, <1>2, PlaceTypes DEF Has, Alone
<1>4. ASSUME NEW t \in Spaces, NEW v \in M!Virtual
      PROVE  /\ Has(e, c)[<<t, v>>] = e[t][v].frame
             /\ (<<t, v>> \in Alone(e, c)) = e[t][v].rw
  <2>1. <<t, v>> \in Places /\ v # NULL
    BY PlaceTypes
  <2>2. Has(e, c)[<<t, v>>] = e[t][v].frame
    BY <2>1 DEF Has
  <2>3. <<t, v>> \in Alone(e, c) <=> e[t][v].rw
    BY <2>1 DEF Alone
  <2> QED
    BY <2>2, <2>3, <1>1
<1>5. ASSUME NEW t \in Spaces
      PROVE  /\ Has(e, c)[<<t, NULL>>] = c[t].new
             /\ (<<t, NULL>> \in Alone(e, c)) = (c[t].new # 0)
  BY PlaceTypes DEF Has, Alone
<1> QED
  BY <1>1, <1>2, <1>3, <1>4, <1>5

PutResult(e, c, t, v, n, e2) ==
  /\ e2 \in Tables
  /\ \A u \in Spaces, w \in M!Virtual : e2[u][w] = IF u = t /\ w = v THEN n ELSE e[u][w]
  /\ Has(e2, c) = [Has(e, c) EXCEPT ![<<t, v>>] = n.frame]
  /\ Alone(e2, c) \subseteq Alone(e, c) \cup {<<t, v>>}
  /\ ~n.rw => Alone(e2, c) \subseteq Alone(e, c) \ {<<t, v>>}

\* One entry changes.
LEMMA PutEntry ==
  ASSUME NEW e \in Tables, NEW c \in Calls, NEW t \in Spaces, NEW v \in M!Virtual, NEW n \in M!Entry
  PROVE  PutResult(e, c, t, v, n, Put(e, t, v, n))
<1> DEFINE e2 == Put(e, t, v, n)
<1>1. e2 \in Tables
  BY DEF Put, Tables
<1>2. \A u \in Spaces, w \in M!Virtual : e2[u][w] = IF u = t /\ w = v THEN n ELSE e[u][w]
  BY DEF Put, Tables
<1> HIDE DEF e2
<1>3. Has(e2, c) = [Has(e, c) EXCEPT ![<<t, v>>] = n.frame]
  <2> DEFINE G == [Has(e, c) EXCEPT ![<<t, v>>] = n.frame]
  <2>1. G = [x \in Places |-> IF x = <<t, v>> THEN n.frame ELSE Has(e, c)[x]]
    BY HasIsFunction
  <2>2. ASSUME NEW x \in Places PROVE Has(e2, c)[x] = G[x]
    <3>1. CASE x[2] = NULL
      <4>1. Has(e2, c)[x] = Has(e, c)[x] /\ x # <<t, v>>
        BY <3>1, HasIsFunction, PlaceTypes
      <4> QED
        BY <4>1, <2>1
    <3>2. CASE x[2] # NULL
      <4>1. Has(e2, c)[x] = e2[x[1]][x[2]].frame /\ Has(e, c)[x] = e[x[1]][x[2]].frame
        BY <3>2, HasIsFunction
      <4>2. x = <<x[1], x[2]>> /\ x[1] \in Spaces /\ x[2] \in M!Virtual
        BY <3>2, PlaceTypes
      <4>3. x = <<t, v>> <=> (x[1] = t /\ x[2] = v)
        BY <4>2
      <4>4. e2[x[1]][x[2]] = IF x[1] = t /\ x[2] = v THEN n ELSE e[x[1]][x[2]]
        BY <4>2, <1>2
      <4> QED
        BY <4>1, <4>3, <4>4, <2>1
    <3> QED
      BY <3>1, <3>2
  <2>3. Has(e2, c) = [x \in Places |-> Has(e2, c)[x]] /\ G = [x \in Places |-> G[x]]
    BY <2>1, HasIsFunction
  <2> HIDE DEF G
  <2>4. Has(e2, c) = G
    BY ONLY <2>2, <2>3, SameFunction
  <2> QED
    BY <2>4 DEF G
<1>4. \A x \in Places : x # <<t, v>> => (x \in Alone(e2, c) <=> x \in Alone(e, c))
  BY <1>2, PlaceTypes DEF Alone
<1>5. <<t, v>> \in Alone(e2, c) <=> n.rw
  BY <1>2, PlaceTypes DEF Alone
<1>6. Alone(e2, c) \subseteq Places
  BY DEF Alone
<1>7. Alone(e2, c) \subseteq Alone(e, c) \cup {<<t, v>>}
  BY <1>4, <1>6
<1>8. ~n.rw => Alone(e2, c) \subseteq Alone(e, c) \ {<<t, v>>}
  BY <1>4, <1>5, <1>6
<1> QED
  BY <1>1, <1>2, <1>3, <1>7, <1>8 DEF e2, PutResult

CallResult(e, c, t, k, c2) ==
  /\ c2 \in Calls
  /\ \A u \in Spaces : c2[u] = IF u = t THEN k ELSE c[u]
  /\ Has(e, c2) = [Has(e, c) EXCEPT ![<<t, NULL>>] = k.new]
  /\ Alone(e, c2) \subseteq Alone(e, c) \cup {<<t, NULL>>}
  /\ k.new = 0 => Alone(e, c2) \subseteq Alone(e, c) \ {<<t, NULL>>}
  /\ k.new = c[t].new => Has(e, c2) = Has(e, c) /\ Alone(e, c2) = Alone(e, c)

\* One task changes its place in the kernel.
LEMMA PutFault ==
  ASSUME NEW e \in Tables, NEW c \in Calls, NEW t \in Spaces, NEW k \in M!Call
  PROVE  CallResult(e, c, t, k, [c EXCEPT ![t] = k])
<1> DEFINE c2 == [c EXCEPT ![t] = k]
<1>1. c2 \in Calls /\ \A u \in Spaces : c2[u] = IF u = t THEN k ELSE c[u]
  BY DEF Calls
<1> HIDE DEF c2
<1>2. Has(e, c2) = [Has(e, c) EXCEPT ![<<t, NULL>>] = k.new]
  BY <1>1, PlaceTypes DEF Has
<1>3. \A x \in Places : x # <<t, NULL>> => (x \in Alone(e, c2) <=> x \in Alone(e, c))
  BY <1>1, PlaceTypes DEF Alone
<1>4. <<t, NULL>> \in Alone(e, c2) <=> k.new # 0
  BY <1>1, PlaceTypes DEF Alone
<1>5. <<t, NULL>> \in Alone(e, c) <=> c[t].new # 0
  BY PlaceTypes DEF Alone
<1>6. Alone(e, c2) \subseteq Places /\ Alone(e, c) \subseteq Places
  BY DEF Alone
<1>7. Alone(e, c2) \subseteq Alone(e, c) \cup {<<t, NULL>>}
  BY <1>3, <1>6
<1>8. k.new = 0 => Alone(e, c2) \subseteq Alone(e, c) \ {<<t, NULL>>}
  BY <1>3, <1>4, <1>6
<1>9. k.new = c[t].new => /\ Has(e, c2) = Has(e, c) /\ Alone(e, c2) = Alone(e, c)
  <2> SUFFICES ASSUME k.new = c[t].new PROVE Has(e, c2) = Has(e, c) /\ Alone(e, c2) = Alone(e, c)
    OBVIOUS
  <2>1. Has(e, c2) = Has(e, c)
    <3>1. ASSUME NEW x \in Places PROVE Has(e, c2)[x] = Has(e, c)[x]
      <4>1. x[1] \in Spaces /\ c2[x[1]].new = c[x[1]].new
        BY <1>1, PlaceTypes
      <4> QED
        BY <4>1, HasIsFunction
    <3>2. Has(e, c2) = [x \in Places |-> Has(e, c2)[x]] /\ Has(e, c) = [x \in Places |-> Has(e, c)[x]]
      BY HasIsFunction
    <3> QED
      BY ONLY <3>1, <3>2, SameFunction
  <2>2. \A x : x \in Alone(e, c2) <=> x \in Alone(e, c)
    BY <1>3, <1>4, <1>5, <1>6
  <2> QED
    BY <2>1, <2>2
<1> QED
  BY <1>1, <1>2, <1>7, <1>8, <1>9 DEF c2, CallResult

\* The entry v of u is shared with t.
ShareResult(e, c, m, u, t, v, n, e2) ==
  /\ e2 \in Tables
  /\ \A a \in Spaces, w \in M!Virtual : e2[a][w] = IF w = v /\ a \in {t, u} THEN n ELSE e[a][w]
  /\ Tally(Has(e2, c), [m EXCEPT ![n.frame] = @ + 1], Alone(e2, c))

\* An entry becomes a copy of another one.
LEMMA ShareEntry ==
  ASSUME NEW e \in Tables, NEW c \in Calls, NEW m, Tally(Has(e, c), m, Alone(e, c)),
         NEW u \in Spaces, NEW t \in Spaces, u # t, NEW v \in M!Virtual, NEW n \in M!Entry,
         n.frame = e[u][v].frame, n.frame # 0, ~n.rw, e[t][v].frame = 0
  PROVE  ShareResult(e, c, m, u, t, v, n, Put(Put(e, u, v, n), t, v, n))
<1> DEFINE e1 == Put(e, u, v, n)
           e2 == Put(e1, t, v, n)
<1>1. PutResult(e, c, u, v, n, e1)
  BY PutEntry
<1>2. e1 \in Tables
  BY <1>1 DEF PutResult
<1> HIDE DEF e1
<1>3. PutResult(e1, c, t, v, n, e2)
  BY <1>2, PutEntry
<1> HIDE DEF e2
<1>4. e2 \in Tables
  BY <1>3 DEF PutResult
<1>5. \A a \in Spaces, w \in M!Virtual : e2[a][w] = IF w = v /\ a \in {t, u} THEN n ELSE e[a][w]
  <2>1. \A a \in Spaces, w \in M!Virtual : e2[a][w] = IF a = t /\ w = v THEN n ELSE e1[a][w]
    BY <1>3 DEF PutResult
  <2>2. \A a \in Spaces, w \in M!Virtual : e1[a][w] = IF a = u /\ w = v THEN n ELSE e[a][w]
    BY <1>1 DEF PutResult
  <2> QED
    BY ONLY <2>1, <2>2
<1>6. Tally(Has(e2, c), [m EXCEPT ![n.frame] = @ + 1], Alone(e2, c))
  <2> DEFINE H == Has(e, c)
             s == Alone(e, c)
             s2 == Alone(e2, c)
  <2>1. H \in [Places -> Frames0] /\ s2 \in SUBSET Places /\ H[<<u, v>>] = n.frame /\ H[<<t, v>>] = 0
    BY <1>4, HasType
  <2>2. <<u, v>> \in Places /\ <<t, v>> \in Places
    BY PlaceTypes
  <2>3. s2 \subseteq s \ {<<u, v>>, <<t, v>>}
    BY <1>1, <1>3 DEF PutResult
  <2>4. [H EXCEPT ![<<u, v>>] = n.frame] = H
    BY <2>1, <2>2
  <2>5. Has(e2, c) = [H EXCEPT ![<<t, v>>] = H[<<u, v>>]]
    BY <1>1, <1>3, <2>1, <2>4 DEF PutResult
  <2> HIDE DEF H, s, s2
  <2>6. Tally(H, m, s)
    BY DEF H, s
  <2>7. Tally([H EXCEPT ![<<t, v>>] = H[<<u, v>>]], [m EXCEPT ![H[<<u, v>>]] = @ + 1], s2)
    BY <2>1, <2>2, <2>3, <2>6, SharePage
  <2> QED
    BY <2>1, <2>5, <2>7 DEF s2
<1> QED
  BY <1>4, <1>5, <1>6 DEF ShareResult, e1, e2

\* The new page of t is entered; an entry gives its page to t.
LEMMA EnterPage ==
  ASSUME NEW e \in Tables, NEW c \in Calls, NEW m, Tally(Has(e, c), m, Alone(e, c)),
         NEW t \in Spaces, NEW v \in M!Virtual, NEW n \in M!Entry, NEW k \in M!Call,
         n.frame = c[t].new, n.frame # 0, e[t][v].frame = 0, k.new = 0
  PROVE  Tally(Has(Put(e, t, v, n), [c EXCEPT ![t] = k]), m, Alone(Put(e, t, v, n), [c EXCEPT ![t] = k]))
<1> DEFINE e2 == Put(e, t, v, n)
           c2 == [c EXCEPT ![t] = k]
           H == Has(e, c)
           s == Alone(e, c)
           s2 == Alone(e2, c2)
           x == <<t, NULL>>
           y == <<t, v>>
<1>1. CallResult(e, c, t, k, c2)
  BY PutFault
<1>2. c2 \in Calls
  BY <1>1 DEF CallResult
<1> HIDE DEF c2
<1>3. PutResult(e, c2, t, v, n, e2)
  BY <1>2, PutEntry
<1>3a. e2 \in Tables
  BY <1>3 DEF PutResult
<1> HIDE DEF e2
<1>4. H \in [Places -> Frames0] /\ s2 \in SUBSET Places /\ H[x] = n.frame /\ H[y] = 0 /\ x \in s
  BY <1>2, <1>3a, HasType
<1>5. x \in Places /\ y \in Places /\ x # y
  BY PlaceTypes
<1>6. Has(e2, c2) = [[H EXCEPT ![x] = 0] EXCEPT ![y] = H[x]] /\ s2 \subseteq (s \ {x}) \cup {y}
  BY <1>1, <1>3, <1>4 DEF CallResult, PutResult
<1> HIDE DEF H, s, s2, x, y
<1>7. Tally(H, m, s)
  BY DEF H, s
<1>8. H[x] # 0 /\ m[H[x]] = 1
  BY <1>4, <1>7 DEF Tally, Sole
<1>9. Tally([[H EXCEPT ![x] = 0] EXCEPT ![y] = H[x]], m, s2)
  BY <1>4, <1>5, <1>6, <1>7, <1>8, PassOn
<1> QED
  BY <1>6, <1>9 DEF e2, c2, s2

\* A task takes over the page of an entry to write it out, ...
LEMMA LeavePage ==
  ASSUME NEW e \in Tables, NEW c \in Calls, NEW m, Tally(Has(e, c), m, Alone(e, c)),
         NEW t \in Spaces, NEW u \in Spaces, NEW v \in M!Virtual, NEW n \in M!Entry, NEW k \in M!Call,
         k.new = e[u][v].frame, k.new # 0, m[k.new] = 1, c[t].new = 0, n.frame = 0, ~n.rw
  PROVE  Tally(Has(Put(e, u, v, n), [c EXCEPT ![t] = k]), m, Alone(Put(e, u, v, n), [c EXCEPT ![t] = k]))
<1> DEFINE e2 == Put(e, u, v, n)
           c2 == [c EXCEPT ![t] = k]
           H == Has(e, c)
           s == Alone(e, c)
           s2 == Alone(e2, c2)
           x == <<u, v>>
           y == <<t, NULL>>
<1>1. PutResult(e, c, u, v, n, e2)
  BY PutEntry
<1>2. e2 \in Tables
  BY <1>1 DEF PutResult
<1> HIDE DEF e2
<1>3. CallResult(e2, c, t, k, c2)
  BY <1>2, PutFault
<1>3a. c2 \in Calls
  BY <1>3 DEF CallResult
<1> HIDE DEF c2
<1>4. H \in [Places -> Frames0] /\ s2 \in SUBSET Places /\ H[x] = k.new /\ H[y] = 0
  BY <1>2, <1>3a, HasType
<1>5. x \in Places /\ y \in Places
  BY PlaceTypes
<1>6. Has(e2, c2) = [[H EXCEPT ![x] = 0] EXCEPT ![y] = H[x]] /\ s2 \subseteq (s \ {x}) \cup {y}
  BY <1>1, <1>3, <1>4 DEF CallResult, PutResult
<1> HIDE DEF H, s, s2, x, y
<1>7. Tally(H, m, s)
  BY DEF H, s
<1>9. Tally([[H EXCEPT ![x] = 0] EXCEPT ![y] = H[x]], m, s2)
  BY <1>4, <1>5, <1>6, <1>7, PassOn
<1> QED
  BY <1>6, <1>9 DEF e2, c2, s2

\* An entry that loses its page, and a task that frees one or gets one.
LEMMA DropEntry ==
  ASSUME NEW e \in Tables, NEW c \in Calls, NEW m, Tally(Has(e, c), m, Alone(e, c)),
         NEW u \in Spaces, NEW v \in M!Virtual, NEW n \in M!Entry, e[u][v].frame # 0, n.frame = 0, ~n.rw
  PROVE  Tally(Has(Put(e, u, v, n), c), [m EXCEPT ![e[u][v].frame] = @ - 1], Alone(Put(e, u, v, n), c))
<1> DEFINE e2 == Put(e, u, v, n)
           H == Has(e, c)
           s == Alone(e, c)
           s2 == Alone(e2, c)
           x == <<u, v>>
<1>1. PutResult(e, c, u, v, n, e2)
  BY PutEntry
<1>2. e2 \in Tables
  BY <1>1 DEF PutResult
<1> HIDE DEF e2
<1>4. H \in [Places -> Frames0] /\ s2 \in SUBSET Places /\ H[x] = e[u][v].frame
  BY <1>2, HasType
<1>5. x \in Places
  BY PlaceTypes
<1>6. Has(e2, c) = [H EXCEPT ![x] = 0] /\ s2 \subseteq s \ {x}
  BY <1>1 DEF PutResult
<1> HIDE DEF H, s, s2, x
<1>7. Tally(H, m, s)
  BY DEF H, s
<1>9. Tally([H EXCEPT ![x] = 0], [m EXCEPT ![H[x]] = @ - 1], s2)
  BY <1>4, <1>5, <1>6, <1>7, LetGo
<1> QED
  BY <1>4, <1>6, <1>9 DEF e2, s2

\* ... frees it when it has been written, ...
LEMMA DropNew ==
  ASSUME NEW e \in Tables, NEW c \in Calls, NEW m, Tally(Has(e, c), m, Alone(e, c)),
         NEW t \in Spaces, NEW k \in M!Call, c[t].new # 0, k.new = 0
  PROVE  Tally(Has(e, [c EXCEPT ![t] = k]), [m EXCEPT ![c[t].new] = @ - 1], Alone(e, [c EXCEPT ![t] = k]))
<1> DEFINE c2 == [c EXCEPT ![t] = k]
           H == Has(e, c)
           s == Alone(e, c)
           s2 == Alone(e, c2)
           x == <<t, NULL>>
<1>1. CallResult(e, c, t, k, c2)
  BY PutFault
<1>2. c2 \in Calls
  BY <1>1 DEF CallResult
<1> HIDE DEF c2
<1>4. H \in [Places -> Frames0] /\ s2 \in SUBSET Places /\ H[x] = c[t].new
  BY <1>2, HasType
<1>5. x \in Places
  BY PlaceTypes
<1>6. Has(e, c2) = [H EXCEPT ![x] = 0] /\ s2 \subseteq s \ {x}
  BY <1>1 DEF CallResult
<1> HIDE DEF H, s, s2, x
<1>7. Tally(H, m, s)
  BY DEF H, s
<1>9. Tally([H EXCEPT ![x] = 0], [m EXCEPT ![H[x]] = @ - 1], s2)
  BY <1>4, <1>5, <1>6, <1>7, LetGo
<1> QED
  BY <1>4, <1>6, <1>9 DEF c2, s2

\* ... or gets a page that was free.
LEMMA TakeNew ==
  ASSUME NEW e \in Tables, NEW c \in Calls, NEW m, Tally(Has(e, c), m, Alone(e, c)),
         NEW t \in Spaces, NEW k \in M!Call, c[t].new = 0, k.new # 0, m[k.new] = 0
  PROVE  Tally(Has(e, [c EXCEPT ![t] = k]), [m EXCEPT ![k.new] = 1], Alone(e, [c EXCEPT ![t] = k]))
<1> DEFINE c2 == [c EXCEPT ![t] = k]
           H == Has(e, c)
           s == Alone(e, c)
           s2 == Alone(e, c2)
           x == <<t, NULL>>
           f == k.new
<1>0. f \in M!Frames
  BY DEF M!Call
<1>1. CallResult(e, c, t, k, c2)
  BY PutFault
<1>2. c2 \in Calls
  BY <1>1 DEF CallResult
<1> HIDE DEF c2
<1>4. H \in [Places -> Frames0] /\ s2 \in SUBSET Places /\ H[x] = 0
  BY <1>2, HasType
<1>5. x \in Places
  BY PlaceTypes
<1>6. Has(e, c2) = [H EXCEPT ![x] = f] /\ s2 \subseteq s \cup {x}
  BY <1>1 DEF CallResult
<1> HIDE DEF H, s, s2, x, f
<1>7. Tally(H, m, s)
  BY DEF H, s
<1>8. m[f] = 0 /\ \A z \in s : m[H[z]] = 1
  BY <1>7 DEF f, Tally, Sole
<1>9. MayTake(H, m, s, x, f, s2)
  BY <1>6, <1>8 DEF MayTake
<1>10. Tally([H EXCEPT ![x] = f], [m EXCEPT ![f] = @ + 1], s2)
  BY <1>0, <1>4, <1>5, <1>7, <1>9, TakePage
<1>11. [m EXCEPT ![f] = @ + 1] = [m EXCEPT ![f] = 1]
  <2>1. m[f] + 1 = 1
    BY <1>8
  <2> QED
    BY <2>1, Zenon
<1> QED
  BY <1>6, <1>10, <1>11 DEF c2, s2, f

\* An entry is of one kind, and each page of the swap device is free or has
\* one entry.
EntryOK(e) ==
  /\ e.frame = 0 \/ e.nr = 0
  /\ e.frame = 0 => ~e.rw /\ ~e.dirty
SlotsOK(e, free) ==
  /\ \A t \in Spaces, v \in M!Virtual : e[t][v].nr # 0 => e[t][v].nr \notin free
  /\ \A t, u \in Spaces, v, w \in M!Virtual :
       e[t][v].nr # 0 /\ e[t][v].nr = e[u][w].nr => t = u /\ v = w
  /\ \A n \in 1 .. NrSwap : n \notin free => \E t \in Spaces, v \in M!Virtual : e[t][v].nr = n

\* What task t, which is at k, knows of its new page, of the entry e that it
\* is going to change and of the child it is making.
Fits(t, k, e, tasks) ==
  /\ k.at = "user" => k = M!User
  /\ k.at # "user" => t \in tasks /\ k.op # "none"
  /\ k.at \notin {"user", "copy"} => k.v \in M!Virtual
  /\ k.new = 0 <=> k.at \in {"user", "copy", "get"}
  /\ k.nr = 0 <=> k.at \notin {"write", "written", "read", "done"}
  /\ k.at \in {"read", "done"} => k.op \in {"in", "fork"} /\ k.nr = e.nr
  /\ k.at = "copy" => k.op = "fork"
  /\ k.at = "load" => k.op = "load"
  /\ k.op = "in" \/ (k.op = "fork" /\ k.at # "copy") => e.nr # 0
  /\ k.op \in {"load", "empty"} => e = M!Zero
  /\ k.op = "unshare" => k.frame # 0 /\ e.frame = k.frame
  /\ k.op = "fork" => k.child \in Spaces \ tasks /\ (k.at # "copy" => k.v \in k.todo)
  /\ k.op # "fork" => k.child = NULL
FaultOK(t) == Fits(t, fault[t], entry[t][fault[t].v], used)

\* A child belongs to one fork; a task that is not used has what has been
\* copied for it.
ChildrenOK ==
  /\ \A t, u \in Spaces : fault[t].child # NULL /\ fault[t].child = fault[u].child => t = u
  /\ \A c \in Spaces \ used, v \in M!Virtual :
       (\A t \in Spaces : fault[t].child = c => v \in fault[t].todo) => entry[c][v] = M!Zero

\* Who waits for the swap device, once each.
IoOK ==
  /\ io \in Seq(Spaces)
  /\ \A i \in 1 .. Len(io) : fault[io[i]].at \in {"write", "read"}
  /\ \A i, j \in 1 .. Len(io) : io[i] = io[j] => i = j

PageInv ==
  /\ M!TypeOK
  /\ Tally(Has(entry, fault), mem_map, Alone(entry, fault))
  /\ \A t \in Spaces, v \in M!Virtual : EntryOK(entry[t][v])
  /\ SlotsOK(entry, swap_bitmap)
  /\ \A t \in Spaces : FaultOK(t)
  /\ ChildrenOK
  /\ IoOK

\* The types, and what follows from them, ...
LEMMA PageTypes ==
  M!TypeOK <=>
    /\ entry \in Tables /\ fault \in Calls
    /\ mem_map \in [M!Frames -> Nat] /\ swap_bitmap \subseteq 1 .. NrSwap
    /\ used \subseteq Spaces /\ cpu \in Spaces \cup {NULL}
    /\ \A i \in DOMAIN io : io[i] \in Spaces
    /\ page \in [M!Frames -> BOOLEAN] /\ swap \in [1 .. NrSwap -> BOOLEAN]
    /\ mine \in [Spaces -> SUBSET M!Virtual]
BY DEF M!TypeOK, Tables, Calls

\* ... and so in the next state.
LEMMA PageTypesNext ==
  /\ entry' \in Tables /\ fault' \in Calls
  /\ mem_map' \in [M!Frames -> Nat] /\ swap_bitmap' \subseteq 1 .. NrSwap
  /\ used' \subseteq Spaces /\ cpu' \in Spaces \cup {NULL}
  /\ \A i \in DOMAIN io' : io'[i] \in Spaces
  /\ page' \in [M!Frames -> BOOLEAN] /\ swap' \in [1 .. NrSwap -> BOOLEAN]
  /\ mine' \in [Spaces -> SUBSET M!Virtual]
  => M!TypeOK'
BY DEF M!TypeOK, Tables, Calls

\* Where a task is in user mode or between two pages of a fork, its entries
\* are its own affair; elsewhere only frame and nr matter.
LEMMA FitsAnyEntry ==
  ASSUME PageInv, NEW u \in Spaces, fault[u].at \in {"user", "copy"}, NEW e
  PROVE  Fits(u, fault[u], e, used)
<1>1. Fits(u, fault[u], entry[u][fault[u].v], used)
  BY DEF PageInv, FaultOK
<1>2. CASE fault[u].at = "user"
  BY <1>1, <1>2 DEF Fits, M!User
<1>3. CASE fault[u].at = "copy"
  BY <1>1, <1>3 DEF Fits
<1> QED
  BY <1>2, <1>3

\* It knows no more of its entry than its kind.
LEMMA FitsLikeEntry ==
  ASSUME PageInv, NEW u \in Spaces, NEW e,
         e.frame = entry[u][fault[u].v].frame, e.nr = entry[u][fault[u].v].nr,
         entry[u][fault[u].v].frame # 0
  PROVE  Fits(u, fault[u], e, used)
BY DEF PageInv, FaultOK, Fits, M!Zero

\* The other tasks stay where they are when t goes to k.
LEMMA OthersFit ==
  ASSUME PageInv, NEW t \in Spaces, NEW k \in M!Call,
         fault' = [fault EXCEPT ![t] = k], used' = used,
         Fits(t, k, entry'[t][k.v], used),
         \A u \in Spaces \ {t} :
            \/ fault[u].at \in {"user", "copy"}
            \/ entry'[u][fault[u].v] = entry[u][fault[u].v]
            \/ /\ entry[u][fault[u].v].frame # 0
               /\ entry'[u][fault[u].v].frame = entry[u][fault[u].v].frame
               /\ entry'[u][fault[u].v].nr = entry[u][fault[u].v].nr
  PROVE  \A u \in Spaces : FaultOK(u)'
<1> SUFFICES ASSUME NEW u \in Spaces PROVE FaultOK(u)'
  OBVIOUS
<1>1. fault'[u] = IF u = t THEN k ELSE fault[u]
  BY PageTypes DEF PageInv, Calls
<1>2. CASE u = t
  BY <1>1, <1>2 DEF FaultOK
<1>3. CASE u # t
  <2>1. fault'[u] = fault[u]
    BY <1>1, <1>3
  <2>2. Fits(u, fault[u], entry'[u][fault[u].v], used)
    <3>1. CASE fault[u].at \in {"user", "copy"}
      BY <3>1, FitsAnyEntry
    <3>2. CASE entry'[u][fault[u].v] = entry[u][fault[u].v]
      BY <3>2 DEF PageInv, FaultOK
    <3>3. CASE /\ entry[u][fault[u].v].frame # 0
               /\ entry'[u][fault[u].v].frame = entry[u][fault[u].v].frame
               /\ entry'[u][fault[u].v].nr = entry[u][fault[u].v].nr
      BY <3>3, FitsLikeEntry
    <3> QED
      BY <1>3, <3>1, <3>2, <3>3
  <2> QED
    BY <2>1, <2>2 DEF FaultOK
<1> QED
  BY <1>2, <1>3

\* The tasks that are forking stay as they are.
LEMMA ChildrenStay ==
  ASSUME PageInv, NEW t \in Spaces, NEW k \in M!Call,
         fault' = [fault EXCEPT ![t] = k], used' = used,
         k.child = fault[t].child, k.todo = fault[t].todo,
         \A c \in Spaces \ used, v \in M!Virtual : entry'[c][v] = entry[c][v] \/ entry[c][v] # M!Zero
  PROVE  ChildrenOK'
<1>1. \A u \in Spaces : fault'[u].child = fault[u].child /\ fault'[u].todo = fault[u].todo
  BY PageTypes DEF PageInv, Calls
<1> QED
  BY <1>1 DEF PageInv, ChildrenOK

\* The queue of the swap device stays as it is, ...
LEMMA IoStays ==
  ASSUME PageInv, NEW t \in Spaces, NEW k \in M!Call,
         fault' = [fault EXCEPT ![t] = k], io' = io, fault[t].at \notin {"write", "read"}
  PROVE  IoOK'
<1>1. \A u \in Spaces : u # t => fault'[u] = fault[u]
  BY PageTypes DEF PageInv, Calls
<1>2. \A i \in 1 .. Len(io) : io[i] \in Spaces /\ io[i] # t
  BY ElementOfSeq DEF PageInv, IoOK
<1> QED
  BY <1>1, <1>2 DEF PageInv, IoOK

\* ... or a task is appended to it.
LEMMA IoGrows ==
  ASSUME PageInv, NEW t \in Spaces, NEW k \in M!Call,
         fault' = [fault EXCEPT ![t] = k], io' = Append(io, t),
         fault[t].at \notin {"write", "read"}, k.at \in {"write", "read"}
  PROVE  IoOK'
<1>1. \A u \in Spaces : fault'[u] = IF u = t THEN k ELSE fault[u]
  BY PageTypes DEF PageInv, Calls
<1>2. Len(io) \in Nat /\ \A i \in 1 .. Len(io) : io[i] \in Spaces /\ io[i] # t
  BY ElementOfSeq, LenProperties DEF PageInv, IoOK
<1>3. /\ io' \in Seq(Spaces) /\ Len(io') = Len(io) + 1
      /\ \A i \in 1 .. Len(io) : io'[i] = io[i]
      /\ io'[Len(io) + 1] = t
  BY AppendProperties DEF PageInv, IoOK
<1>4. \A i \in 1 .. Len(io') : fault'[io'[i]].at \in {"write", "read"}
  BY <1>1, <1>2, <1>3 DEF PageInv, IoOK
<1>5. ASSUME NEW i \in 1 .. Len(io'), NEW j \in 1 .. Len(io'), io'[i] = io'[j] PROVE i = j
  <2>1. CASE i = Len(io) + 1 \/ j = Len(io) + 1
    BY <1>2, <1>3, <1>5, <2>1
  <2>2. CASE i # Len(io) + 1 /\ j # Len(io) + 1
    BY <1>2, <1>3, <1>5, <2>2 DEF PageInv, IoOK
  <2> QED
    BY <2>1, <2>2
<1> QED
  BY <1>3, <1>4, <1>5 DEF IoOK

\* Entries that keep their page of the swap device.
LEMMA SlotsStay ==
  ASSUME PageInv, swap_bitmap' = swap_bitmap,
         \A u \in Spaces, w \in M!Virtual : entry'[u][w].nr = entry[u][w].nr
  PROVE  SlotsOK(entry', swap_bitmap')
BY DEF PageInv, SlotsOK

\* Steps that only move the task t on, from one place in the kernel to the
\* next.
LEMMA PageStepQuiet ==
  ASSUME PageInv, NEW t \in Spaces, NEW k \in M!Call,
         fault' = [fault EXCEPT ![t] = k], cpu' \in Spaces \cup {NULL},
         UNCHANGED <<entry, mem_map, swap_bitmap, used>>,
         page' \in [M!Frames -> BOOLEAN], swap' \in [1 .. NrSwap -> BOOLEAN],
         mine' \in [Spaces -> SUBSET M!Virtual],
         k.new = fault[t].new, k.child = fault[t].child, k.todo = fault[t].todo,
         Fits(t, k, entry[t][k.v], used), IoOK', \A i \in DOMAIN io' : io'[i] \in Spaces
  PROVE  PageInv'
<1>1. entry \in Tables /\ fault \in Calls
  BY PageTypes DEF PageInv
<1>2. CallResult(entry, fault, t, k, fault')
  BY <1>1, PutFault
<1>3. M!TypeOK'
  BY <1>1, <1>2, PageTypes, PageTypesNext DEF PageInv, CallResult
<1>4. Has(entry', fault') = Has(entry, fault) /\ Alone(entry', fault') = Alone(entry, fault)
  BY <1>2 DEF CallResult
<1>5. \A u \in Spaces : FaultOK(u)'
  BY OthersFit
<1>6. ChildrenOK'
  BY ChildrenStay
<1> QED
  BY <1>3, <1>4, <1>5, <1>6 DEF PageInv

\* Tasks wait in the queue of the swap device.
LEMMA IoTypes == ASSUME IoOK PROVE \A i \in DOMAIN io : io[i] \in Spaces
<1>1. io \in Seq(Spaces) /\ DOMAIN io = 1 .. Len(io)
  BY LenProperties DEF IoOK
<1> QED
  BY <1>1, ElementOfSeq

\* At the start no page is used.
LEMMA PageStart == M!Init => PageInv
<1> SUFFICES ASSUME M!Init PROVE PageInv
  OBVIOUS
<1>1. M!Zero \in M!Entry /\ M!User \in M!Call
  BY PlaceTypes DEF M!Zero, M!Entry, M!User, M!Call, M!Frames
<1>2. io = << >> /\ io \in Seq(Spaces) /\ Len(io) = 0
  BY EmptySeq DEF M!Init
<1>3. entry \in Tables /\ fault \in Calls
  BY <1>1 DEF M!Init, Tables, Calls
<1>4. used \subseteq Spaces
  BY PageAssumption DEF M!Init
<1>5. M!TypeOK
  BY <1>2, <1>3, <1>4, PageTypes DEF M!Init
<1>6. \A t \in Spaces, v \in M!Virtual : entry[t][v] = M!Zero
  BY DEF M!Init
<1>7. \A t \in Spaces : fault[t] = M!User
  BY DEF M!Init
<1>8. \A x \in Places : Has(entry, fault)[x] = 0 /\ x \notin Alone(entry, fault)
  BY <1>6, <1>7, PlaceTypes DEF Has, Alone, M!Zero, M!User
<1>9. Alone(entry, fault) = {}
  BY <1>8 DEF Alone
<1>10. \A f \in M!Frames : With(Has(entry, fault), f) = {}
  BY <1>8, PlaceTypes DEF With
<1>11. Tally(Has(entry, fault), mem_map, Alone(entry, fault))
  BY <1>9, <1>10, FS_EmptySet DEF Tally, Counts, Sole, M!Init
<1>12. SlotsOK(entry, swap_bitmap) /\ \A t \in Spaces, v \in M!Virtual : EntryOK(entry[t][v])
  BY <1>6 DEF SlotsOK, EntryOK, M!Zero, M!Init
<1>13. \A t \in Spaces : FaultOK(t)
  BY <1>7 DEF FaultOK, Fits, M!User
<1>14. ChildrenOK
  BY <1>6, <1>7 DEF ChildrenOK, M!User
<1>15. IoOK
  BY <1>2 DEF IoOK
<1> QED
  BY <1>5, <1>11, <1>12, <1>13, <1>14, <1>15 DEF PageInv

\* A task in user mode gets to its own entries.
LEMMA InUserFacts ==
  ASSUME PageInv, NEW t \in Spaces, M!InUser(t)
  PROVE  t \in used /\ fault[t] = M!User /\ cpu = NULL /\ fault[t].at = "user" /\ fault[t].new = 0
BY DEF M!InUser, M!At, PageInv, FaultOK, Fits, M!User

StartCall(v, op) == [M!User EXCEPT !.op = op, !.at = "get", !.v = v]

\* In user mode a task has no page in the kernel.
LEMMA UserType == M!User \in M!Call
<1>1. 0 \in 0 .. NrSwap
  BY PlaceTypes
<1> QED
  BY <1>1 DEF M!User, M!Call

\* A fault of do_no_page().
LEMMA StartTypes ==
  ASSUME NEW v \in M!Virtual, NEW op \in {"in", "load", "empty"}
  PROVE  /\ StartCall(v, op) \in M!Call /\ StartCall(v, op).new = 0 /\ StartCall(v, op).child = NULL
         /\ StartCall(v, op).todo = {} /\ StartCall(v, op).nr = 0
         /\ StartCall(v, op).v = v /\ StartCall(v, op).at = "get" /\ StartCall(v, op).op = op
<1>1. StartCall(v, op) \in M!Call
  BY UserType DEF StartCall, M!Call
<1>2. /\ StartCall(v, op).new = M!User.new /\ StartCall(v, op).child = M!User.child
      /\ StartCall(v, op).todo = M!User.todo /\ StartCall(v, op).nr = M!User.nr
      /\ StartCall(v, op).v = v /\ StartCall(v, op).at = "get" /\ StartCall(v, op).op = op
  BY UserType DEF StartCall, M!Call
<1> QED
  BY <1>1, <1>2 DEF M!User

\* do_no_page() begins to get a page, ...
LEMMA PageNoPageStarts ==
  ASSUME PageInv, NEW t \in Spaces, NEW v \in M!Virtual, NEW op \in {"in", "load", "empty"},
         M!InUser(t), entry[t][v].frame = 0, op = "in" <=> entry[t][v].nr # 0,
         M!Start(t, v, op), UNCHANGED <<entry, mem_map, swap_bitmap, used, io, M!contents>>
  PROVE  PageInv'
<1> DEFINE k == StartCall(v, op)
<1>1. entry[t][v] \in M!Entry /\ EntryOK(entry[t][v])
  BY HasType, PageTypes DEF PageInv
<1>2. k \in M!Call /\ k.new = 0 /\ k.child = NULL /\ k.todo = {} /\ k.v = v /\ k.at = "get" /\ k.op = op /\ k.nr = 0
  BY StartTypes
<1>3. op # "in" => entry[t][v] = M!Zero
  BY <1>1 DEF M!Zero, M!Entry, EntryOK
<1>4. Fits(t, k, entry[t][k.v], used)
  BY <1>2, <1>3, InUserFacts DEF Fits
<1>5. fault' = [fault EXCEPT ![t] = k] /\ cpu' = t
  BY DEF M!Start, M!Goto, StartCall
<1>6. IoOK'
  BY <1>2, <1>5, IoStays, InUserFacts
<1>7. fault[t].child = NULL /\ fault[t].todo = {}
  BY InUserFacts DEF M!User
<1> HIDE DEF k
<1> QED
  BY <1>2, <1>4, <1>5, <1>6, <1>7, PageStepQuiet, InUserFacts, PageTypes, IoTypes DEF PageInv, M!contents

\* ... or shares the one of another task: share_page().
LEMMA PageShared ==
  ASSUME PageInv, NEW t \in Spaces, NEW u \in used \ {t}, NEW v \in M!Virtual, NEW n \in M!Entry,
         M!InUser(t), entry[t][v].frame = 0, entry[t][v].nr = 0, entry[u][v].frame # 0,
         n.frame = entry[u][v].frame, n.nr = entry[u][v].nr, ~n.rw, ~n.dirty,
         entry' = Put(Put(entry, u, v, n), t, v, n), mem_map' = [mem_map EXCEPT ![n.frame] = @ + 1],
         UNCHANGED <<cpu, fault, swap_bitmap, used, io, M!contents>>
  PROVE  PageInv'
<1>1. entry \in Tables /\ fault \in Calls /\ u \in Spaces /\ t # u
  BY PageTypes DEF PageInv
<1>2. entry[u][v] \in M!Entry /\ EntryOK(entry[u][v])
  BY <1>1, HasType DEF PageInv
<1>3. n \in M!Entry /\ n.frame = entry[u][v].frame /\ ~n.rw /\ n.nr = 0 /\ ~n.dirty /\ n.frame # 0 /\ n.frame \in M!Frames
  BY <1>2 DEF M!Entry, EntryOK
<1>4. ShareResult(entry, fault, mem_map, u, t, v, n, entry')
  <2>1. Tally(Has(entry, fault), mem_map, Alone(entry, fault))
    BY DEF PageInv
  <2> QED
    BY <1>1, <1>3, <2>1, ShareEntry
<1>5a. entry' \in Tables /\ \A a \in Spaces, w \in M!Virtual : entry'[a][w] = IF w = v /\ a \in {t, u} THEN n ELSE entry[a][w]
  BY <1>4 DEF ShareResult
<1>0. /\ cpu' = cpu /\ fault' = fault /\ swap_bitmap' = swap_bitmap /\ used' = used /\ io' = io
      /\ page' = page /\ swap' = swap /\ mine' = mine
  BY DEF M!contents
<1>6. Tally(Has(entry', fault'), mem_map', Alone(entry', fault'))
  BY <1>0, <1>4 DEF ShareResult
<1>7. M!TypeOK'
  <2>1. mem_map' \in [M!Frames -> Nat]
    BY <1>6 DEF Tally
  <2>2. /\ fault \in Calls /\ swap_bitmap \subseteq 1 .. NrSwap
        /\ used \subseteq Spaces /\ cpu \in Spaces \cup {NULL}
        /\ \A i \in DOMAIN io : io[i] \in Spaces
        /\ page \in [M!Frames -> BOOLEAN] /\ swap \in [1 .. NrSwap -> BOOLEAN]
        /\ mine \in [Spaces -> SUBSET M!Virtual]
    BY PageTypes DEF PageInv
  <2>3. entry' \in Tables
    BY <1>5a
  <2> QED
    BY ONLY <2>1, <2>2, <2>3, <1>0, PageTypesNext
<1>8. \A a \in Spaces, w \in M!Virtual : EntryOK(entry'[a][w])
  BY <1>3, <1>5a DEF PageInv, EntryOK
<1>9. SlotsOK(entry', swap_bitmap')
  <2>1. \A a \in Spaces, w \in M!Virtual : entry'[a][w].nr = entry[a][w].nr
    BY <1>2, <1>3, <1>5a DEF EntryOK
  <2> QED
    BY <2>1, SlotsStay
<1>10. \A a \in Spaces : FaultOK(a)'
  <2> SUFFICES ASSUME NEW a \in Spaces PROVE FaultOK(a)'
    OBVIOUS
  <2>1. CASE fault[a].at \in {"user", "copy"}
    BY <2>1, FitsAnyEntry DEF FaultOK
  <2>2. CASE fault[a].at \notin {"user", "copy"}
    <3>1. fault[a].v \in M!Virtual /\ a # t
      BY <2>2, InUserFacts DEF PageInv, FaultOK, Fits
    <3>2. CASE a = u /\ fault[a].v = v
      <4>1. entry'[a][fault[a].v] = n
        BY <1>5a, <3>1, <3>2
      <4>2. Fits(a, fault[a], n, used)
        BY <1>2, <1>3, <3>2, FitsLikeEntry DEF EntryOK
      <4> QED
        BY <4>1, <4>2 DEF FaultOK
    <3>3. CASE ~(a = u /\ fault[a].v = v)
      <4>1. entry'[a][fault[a].v] = entry[a][fault[a].v]
        BY <1>5a, <3>1, <3>3
      <4> QED
        BY <4>1 DEF FaultOK, PageInv
    <3> QED
      BY <3>2, <3>3
  <2> QED
    BY <2>1, <2>2
<1>11. ChildrenOK'
  <2>1. \A c \in Spaces \ used, w \in M!Virtual : entry'[c][w] = entry[c][w]
    BY <1>5a, InUserFacts
  <2>2. ChildrenOK
    BY DEF PageInv
  <2> QED
    BY ONLY <2>1, <1>0, <2>2 DEF ChildrenOK
<1>12. IoOK'
  BY DEF PageInv, IoOK
<1> QED
  BY <1>6, <1>7, <1>8, <1>9, <1>10, <1>11, <1>12 DEF PageInv

\* do_no_page().
LEMMA PageNoPage == ASSUME PageInv, NEW t \in Spaces, NEW v \in M!Virtual, M!NoPage(t, v) PROVE PageInv'
<1> DEFINE sharers == {u \in used \ {t} : /\ entry[u][v].frame # 0 /\ ~entry[u][v].dirty
                                          /\ "copy" \in Overlaps \/ ~page[entry[u][v].frame]}
           shared(u) == [entry[u][v] EXCEPT !.rw = FALSE]
<1>1. M!InUser(t) /\ entry[t][v].frame = 0 /\ UNCHANGED <<swap_bitmap, used, io, M!contents>>
  BY DEF M!NoPage
<1>2. \/ /\ entry[t][v].nr = 0
         /\ \E u \in sharers : /\ entry' = [entry EXCEPT ![u][v] = shared(u), ![t][v] = shared(u)]
                               /\ mem_map' = [mem_map EXCEPT ![shared(u).frame] = @ + 1]
         /\ UNCHANGED <<cpu, fault>>
      \/ /\ M!Start(t, v, IF entry[t][v].nr # 0 THEN "in" ELSE IF v \in FilePages THEN "load" ELSE "empty")
         /\ UNCHANGED <<entry, mem_map>>
  BY DEF M!NoPage
<1>3. CASE entry[t][v].nr = 0 /\ UNCHANGED <<cpu, fault>>
           /\ \E u \in sharers : /\ entry' = [entry EXCEPT ![u][v] = shared(u), ![t][v] = shared(u)]
                                 /\ mem_map' = [mem_map EXCEPT ![shared(u).frame] = @ + 1]
  <2>1. PICK u \in sharers : /\ entry' = [entry EXCEPT ![u][v] = shared(u), ![t][v] = shared(u)]
                             /\ mem_map' = [mem_map EXCEPT ![shared(u).frame] = @ + 1]
    BY <1>3
  <2>2. u \in used \ {t} /\ entry[u][v].frame # 0 /\ ~entry[u][v].dirty
    OBVIOUS
  <2>3. entry' = Put(Put(entry, u, v, shared(u)), t, v, shared(u))
    BY <2>1 DEF Put
  <2>4. /\ shared(u) \in M!Entry /\ shared(u).frame = entry[u][v].frame
        /\ shared(u).nr = entry[u][v].nr /\ ~shared(u).rw /\ ~shared(u).dirty
    <3>1. entry[u][v] \in M!Entry
      BY HasType, PageTypes DEF PageInv
    <3> QED
      BY <2>2, <3>1 DEF M!Entry
  <2> HIDE DEF sharers, shared
  <2> QED
    BY <1>1, <1>3, <2>1, <2>2, <2>3, <2>4, PageShared
<1>4. CASE /\ M!Start(t, v, IF entry[t][v].nr # 0 THEN "in" ELSE IF v \in FilePages THEN "load" ELSE "empty")
           /\ UNCHANGED <<entry, mem_map>>
  BY <1>1, <1>4, PageNoPageStarts
<1> QED
  BY <1>2, <1>3, <1>4

\* An entry of a page is marked, and the page stays where it is.
LEMMA PageMarked ==
  ASSUME PageInv, NEW t \in used, NEW v \in M!Virtual, NEW n \in M!Entry,
         n.frame = entry[t][v].frame, n.nr = entry[t][v].nr, n.frame # 0,
         n.rw => entry[t][v].rw \/ mem_map[n.frame] = 1,
         entry' = Put(entry, t, v, n),
         cpu' = cpu, fault' = fault, mem_map' = mem_map, swap_bitmap' = swap_bitmap, used' = used, io' = io,
         page' \in [M!Frames -> BOOLEAN], swap' = swap, mine' \in [Spaces -> SUBSET M!Virtual]
  PROVE  PageInv'
<1>1. entry \in Tables /\ fault \in Calls /\ t \in Spaces
  BY PageTypes DEF PageInv
<1>2. PutResult(entry, fault, t, v, n, entry')
  BY <1>1, PutEntry
<1>3. entry' \in Tables /\ \A u \in Spaces, w \in M!Virtual : entry'[u][w] = IF u = t /\ w = v THEN n ELSE entry[u][w]
  BY <1>2 DEF PutResult
<1>4. Tally(Has(entry', fault'), mem_map', Alone(entry', fault'))
  <2> DEFINE H == Has(entry, fault)
             s == Alone(entry, fault)
             s2 == Alone(entry', fault)
  <2>1. /\ H \in [Places -> Frames0] /\ s2 \in SUBSET Places /\ H[<<t, v>>] = n.frame
        /\ (<<t, v>> \in s) = entry[t][v].rw /\ (<<t, v>> \in s2) = n.rw
    BY <1>1, <1>3, HasType
  <2>2. <<t, v>> \in Places /\ Tally(H, mem_map, s)
    BY <1>1, PlaceTypes DEF PageInv
  <2>3. Has(entry', fault) = [H EXCEPT ![<<t, v>>] = n.frame] /\ s2 \subseteq s \cup {<<t, v>>}
    BY <1>2 DEF PutResult
  <2> HIDE DEF H, s, s2
  <2>4. Has(entry', fault) = H
    BY <2>1, <2>2, <2>3
  <2>5. ASSUME NEW z \in s2 PROVE z \in s \/ (H[z] # 0 /\ mem_map[H[z]] = 1)
    <3>1. CASE z = <<t, v>>
      BY <2>1, <2>5, <3>1
    <3>2. CASE z # <<t, v>>
      BY <2>3, <2>5, <3>2
    <3> QED
      BY <3>1, <3>2
  <2>6. Tally(H, mem_map, s2)
    BY ONLY <2>1, <2>2, <2>5, MayWrite
  <2> QED
    BY <2>4, <2>6 DEF s2
<1>5. M!TypeOK'
  BY <1>1, <1>3, PageTypes, PageTypesNext DEF PageInv
<1>6. \A u \in Spaces, w \in M!Virtual : EntryOK(entry'[u][w])
  <2>1. EntryOK(entry[t][v])
    BY <1>1 DEF PageInv
  <2>2. EntryOK(n)
    BY <2>1 DEF EntryOK
  <2>3. \A u \in Spaces, w \in M!Virtual : EntryOK(entry[u][w])
    BY DEF PageInv
  <2> QED
    BY ONLY <2>2, <2>3, <1>3
<1>7. SlotsOK(entry', swap_bitmap')
  <2>1. \A a \in Spaces, w \in M!Virtual : entry'[a][w].nr = entry[a][w].nr
    BY <1>3
  <2> QED
    BY <2>1, SlotsStay
<1>8. ASSUME NEW u \in Spaces PROVE FaultOK(u)'
  <2>1. CASE fault[u].at \in {"user", "copy"}
    BY <2>1, FitsAnyEntry DEF FaultOK
  <2>2. CASE fault[u].at \notin {"user", "copy"}
    <3>1. fault[u].v \in M!Virtual
      BY <2>2 DEF PageInv, FaultOK, Fits
    <3>2. CASE u = t /\ fault[u].v = v
      <4>1. entry'[u][fault[u].v] = n
        BY <1>3, <3>1, <3>2
      <4>2. Fits(u, fault[u], n, used)
        BY <1>1, <3>2, FitsLikeEntry
      <4> QED
        BY <4>1, <4>2 DEF FaultOK
    <3>3. CASE ~(u = t /\ fault[u].v = v)
      <4>1. entry'[u][fault[u].v] = entry[u][fault[u].v]
        BY <1>3, <3>1, <3>3
      <4> QED
        BY <4>1 DEF FaultOK, PageInv
    <3> QED
      BY <3>2, <3>3
  <2> QED
    BY <2>1, <2>2
<1>9. ChildrenOK'
  <2>1. \A c \in Spaces \ used, w \in M!Virtual : entry'[c][w] = entry[c][w]
    BY <1>3
  <2>2. ChildrenOK
    BY DEF PageInv
  <2> QED
    BY <2>1, <2>2 DEF ChildrenOK
<1>10. IoOK'
  BY DEF PageInv, IoOK
<1> QED
  BY <1>4, <1>5, <1>6, <1>7, <1>8, <1>9, <1>10 DEF PageInv

\* A task writes a page.
LEMMA PageWrite == ASSUME PageInv, NEW t \in Spaces, NEW v \in M!Virtual, M!Write(t, v) PROVE PageInv'
<1> DEFINE n == [entry[t][v] EXCEPT !.dirty = TRUE]
<1>1. entry[t][v] \in M!Entry /\ entry \in Tables /\ page \in [M!Frames -> BOOLEAN] /\ mine \in [Spaces -> SUBSET M!Virtual]
  BY HasType, PageTypes DEF PageInv
<1>2. n \in M!Entry /\ n.frame = entry[t][v].frame /\ n.nr = entry[t][v].nr /\ n.rw = entry[t][v].rw
  BY <1>1 DEF M!Entry
<1>3. /\ M!InUser(t) /\ entry[t][v].frame # 0 /\ entry[t][v].rw
      /\ entry' = [entry EXCEPT ![t][v].dirty = TRUE]
      /\ page' = [page EXCEPT ![entry[t][v].frame] = TRUE]
      /\ mine' = [mine EXCEPT ![t] = @ \cup {v}]
      /\ mem_map' = mem_map /\ swap_bitmap' = swap_bitmap /\ used' = used /\ cpu' = cpu /\ io' = io
      /\ fault' = fault /\ swap' = swap
  BY DEF M!Write
<1>4. entry' = Put(entry, t, v, n)
  BY <1>1, <1>3 DEF Put, Tables
<1>5. page' \in [M!Frames -> BOOLEAN] /\ mine' \in [Spaces -> SUBSET M!Virtual]
  BY <1>1, <1>3
<1>6. t \in used
  BY <1>3, InUserFacts
<1> HIDE DEF n
<1> QED
  BY <1>2, <1>3, <1>4, <1>5, <1>6, PageMarked

\* un_wp_page() finds that nobody else has the page, ...
LEMMA PageUnshareAlone ==
  ASSUME PageInv, NEW t \in Spaces, NEW v \in M!Virtual, M!InUser(t), entry[t][v].frame # 0,
         mem_map[entry[t][v].frame] = 1, entry' = [entry EXCEPT ![t][v].rw = TRUE],
         UNCHANGED <<cpu, fault, mem_map, swap_bitmap, used, io, page, swap, mine>>
  PROVE  PageInv'
<1> DEFINE n == [entry[t][v] EXCEPT !.rw = TRUE]
<1>1. entry[t][v] \in M!Entry /\ entry \in Tables /\ page \in [M!Frames -> BOOLEAN] /\ mine \in [Spaces -> SUBSET M!Virtual]
  BY HasType, PageTypes DEF PageInv
<1>2. n \in M!Entry /\ n.frame = entry[t][v].frame /\ n.nr = entry[t][v].nr
  BY <1>1 DEF M!Entry
<1>4. entry' = Put(entry, t, v, n)
  BY <1>1 DEF Put, Tables
<1>6. t \in used
  BY InUserFacts
<1> HIDE DEF n
<1> QED
  BY <1>1, <1>2, <1>4, <1>6, PageMarked

UnshareCall(v, f) == [M!User EXCEPT !.op = "unshare", !.at = "get", !.v = v, !.frame = f]

\* ... or is going to copy it.
LEMMA UnshareTypes ==
  ASSUME NEW v \in M!Virtual, NEW f \in M!Frames
  PROVE  /\ UnshareCall(v, f) \in M!Call /\ UnshareCall(v, f).new = 0 /\ UnshareCall(v, f).child = NULL
         /\ UnshareCall(v, f).todo = {} /\ UnshareCall(v, f).nr = 0 /\ UnshareCall(v, f).frame = f
         /\ UnshareCall(v, f).v = v /\ UnshareCall(v, f).at = "get" /\ UnshareCall(v, f).op = "unshare"
<1>1. UnshareCall(v, f) \in M!Call
  BY UserType DEF UnshareCall, M!Call
<1>2. /\ UnshareCall(v, f).new = M!User.new /\ UnshareCall(v, f).child = M!User.child
      /\ UnshareCall(v, f).todo = M!User.todo /\ UnshareCall(v, f).nr = M!User.nr /\ UnshareCall(v, f).frame = f
      /\ UnshareCall(v, f).v = v /\ UnshareCall(v, f).at = "get" /\ UnshareCall(v, f).op = "unshare"
  BY UserType DEF UnshareCall, M!Call
<1> QED
  BY <1>1, <1>2 DEF M!User

\* un_wp_page().
LEMMA PageUnshare == ASSUME PageInv, NEW t \in Spaces, NEW v \in M!Virtual, M!un_wp_page(t, v) PROVE PageInv'
<1> DEFINE f == entry[t][v].frame
           k == UnshareCall(v, f)
<1>1. M!InUser(t) /\ f # 0 /\ UNCHANGED <<mem_map, swap_bitmap, used, io, page, swap, mine>>
  BY DEF M!un_wp_page, M!contents
<1>2. \/ mem_map[f] = 1 /\ entry' = [entry EXCEPT ![t][v].rw = TRUE] /\ UNCHANGED <<cpu, fault>>
      \/ fault' = [fault EXCEPT ![t] = k] /\ cpu' = t /\ UNCHANGED entry
  BY DEF M!un_wp_page, M!Goto, UnshareCall
<1>3. CASE mem_map[f] = 1 /\ entry' = [entry EXCEPT ![t][v].rw = TRUE] /\ UNCHANGED <<cpu, fault>>
  BY <1>1, <1>3, PageUnshareAlone
<1>4. CASE fault' = [fault EXCEPT ![t] = k] /\ cpu' = t /\ UNCHANGED entry
  <2>1. entry[t][v] \in M!Entry /\ f \in M!Frames
    <3>1. entry[t][v] \in M!Entry
      BY HasType, PageTypes DEF PageInv
    <3> QED
      BY <1>1, <3>1 DEF M!Entry
  <2> HIDE DEF f
  <2>2. /\ k \in M!Call /\ k.new = 0 /\ k.child = NULL /\ k.todo = {} /\ k.nr = 0 /\ k.frame = f
        /\ k.v = v /\ k.at = "get" /\ k.op = "unshare"
    BY <2>1, UnshareTypes
  <2> HIDE DEF k
  <2>3. Fits(t, k, entry[t][k.v], used)
    BY <1>1, <2>2, InUserFacts DEF Fits, f
  <2>4. IoOK'
    BY <1>1, <1>4, <2>2, IoStays, InUserFacts
  <2>5. fault[t].child = NULL /\ fault[t].todo = {} /\ fault[t].new = 0
    BY <1>1, InUserFacts DEF M!User
  <2>6. page' \in [M!Frames -> BOOLEAN] /\ swap' \in [1 .. NrSwap -> BOOLEAN] /\ mine' \in [Spaces -> SUBSET M!Virtual]
        /\ \A i \in DOMAIN io' : io'[i] \in Spaces
    BY <1>1, PageTypes DEF PageInv
  <2> QED
    BY <1>1, <1>4, <2>2, <2>3, <2>4, <2>5, <2>6, PageStepQuiet
<1> QED
  BY <1>2, <1>3, <1>4

\* A task in user mode knows nothing.
LEMMA UserFits == \A t, e, tasks : Fits(t, M!User, e, tasks)
BY DEF Fits, M!User

\* The cardinality that the module Memory takes from its library.
LEMMA PageCardinality == \A X : M!Cardinality(X) = Cardinality(X)
BY DEF M!Cardinality, Cardinality

\* free_page_tables() lets go every page of task g, in memory and in the swap
\* device.
RowResult(g) ==
  /\ entry' \in Tables
  /\ \A u \in Spaces, w \in M!Virtual : entry'[u][w] = IF u = g THEN M!Zero ELSE entry[u][w]
  /\ Tally(Has(entry', fault), mem_map', Alone(entry', fault))
  /\ SlotsOK(entry', swap_bitmap')
  /\ swap_bitmap' \subseteq 1 .. NrSwap
  /\ \A u \in Spaces, w \in M!Virtual : EntryOK(entry'[u][w])

\* free_page_tables() frees the pages of all the entries of a task.
LEMMA RowFreed == ASSUME PageInv, NEW g \in Spaces, M!free_page_tables(g) PROVE RowResult(g)
<1>1. /\ entry' = [entry EXCEPT ![g] = [v \in M!Virtual |-> M!Zero]]
      /\ mem_map' = [f \in M!Frames |-> mem_map[f] - Cardinality({v \in M!Virtual : entry[g][v].frame = f})]
      /\ swap_bitmap' = swap_bitmap \cup ({entry[g][v].nr : v \in M!Virtual} \ {0})
  BY PageCardinality DEF M!free_page_tables, M!Freed, M!Frees
<1>2. entry \in Tables /\ fault \in Calls
  BY PageTypes DEF PageInv
<1>3. M!Zero \in M!Entry /\ M!Zero.frame = 0 /\ M!Zero.nr = 0 /\ ~M!Zero.rw /\ ~M!Zero.dirty
  BY PlaceTypes DEF M!Zero, M!Entry
<1>4. entry' \in Tables /\ \A u \in Spaces, w \in M!Virtual : entry'[u][w] = IF u = g THEN M!Zero ELSE entry[u][w]
  BY <1>1, <1>2, <1>3 DEF Tables
<1>5. Tally(Has(entry', fault), mem_map', Alone(entry', fault))
  <2> DEFINE H == Has(entry, fault)
             H2 == Has(entry', fault)
             s == Alone(entry, fault)
             s2 == Alone(entry', fault)
  <2>1. H \in [Places -> Frames0] /\ H2 \in [Places -> Frames0] /\ s2 \in SUBSET Places
    BY <1>2, <1>4, HasType
  <2>2. \A x \in Places : H2[x] = IF x[1] = g /\ x[2] # NULL THEN 0 ELSE H[x]
    <3> SUFFICES ASSUME NEW x \in Places PROVE H2[x] = IF x[1] = g /\ x[2] # NULL THEN 0 ELSE H[x]
      OBVIOUS
    <3>1. CASE x[2] = NULL
      BY <3>1, HasIsFunction
    <3>2. CASE x[2] # NULL
      <4>1. x[1] \in Spaces /\ x[2] \in M!Virtual
        BY <3>2, PlaceTypes
      <4>2. H2[x] = entry'[x[1]][x[2]].frame /\ H[x] = entry[x[1]][x[2]].frame
        BY <3>2, HasIsFunction
      <4> QED
        BY <1>3, <1>4, <3>2, <4>1, <4>2
    <3> QED
      BY <3>1, <3>2
  <2>3. s2 \subseteq s \ ({g} \X M!Virtual)
    <3> SUFFICES ASSUME NEW x \in s2 PROVE x \in s /\ x \notin {g} \X M!Virtual
      OBVIOUS
    <3>1. x \in Places /\ x = <<x[1], x[2]>> /\ x[1] \in Spaces /\ (x[2] = NULL \/ x[2] \in M!Virtual)
      BY <2>1, PlaceTypes
    <3>2. CASE x[2] = NULL
      <4>1. fault[x[1]].new # 0
        BY <3>2 DEF Alone
      <4>2. x \in s
        BY <3>1, <3>2, <4>1 DEF Alone
      <4>3. NULL \notin M!Virtual
        BY PageAssumption DEF M!Virtual
      <4> QED
        BY <3>1, <3>2, <4>2, <4>3
    <3>3. CASE x[2] # NULL
      <4>1. entry'[x[1]][x[2]].rw
        BY <3>3 DEF Alone
      <4>2. x[1] # g /\ entry[x[1]][x[2]].rw
        BY <1>3, <1>4, <3>1, <3>3, <4>1
      <4>3. x \in s
        BY <3>1, <3>3, <4>2 DEF Alone
      <4> QED
        BY <3>1, <4>2, <4>3
    <3> QED
      BY <3>2, <3>3
  <2>4. Tally(H, mem_map, s)
    BY DEF PageInv
  <2>5. \A v \in M!Virtual : H[<<g, v>>] = entry[g][v].frame
    BY <1>2, HasType
  <2> HIDE DEF H, H2, s, s2
  <2>6. Tally(H2, [f \in M!Frames |-> mem_map[f] - Cardinality({v \in M!Virtual : H[<<g, v>>] = f})], s2)
    BY <2>1, <2>2, <2>3, <2>4, FreeAll
  <2>7. \A f : {v \in M!Virtual : H[<<g, v>>] = f} = {v \in M!Virtual : entry[g][v].frame = f}
    BY <2>5
  <2>8. mem_map' = [f \in M!Frames |-> mem_map[f] - Cardinality({v \in M!Virtual : H[<<g, v>>] = f})]
    BY <1>1, <2>7
  <2> QED
    BY <2>6, <2>8 DEF H2, s2
<1>6. swap_bitmap' \subseteq 1 .. NrSwap
  <2>1. \A v \in M!Virtual : entry[g][v].nr \in 0 .. NrSwap
    BY <1>2 DEF Tables, M!Entry
  <2>2. swap_bitmap \subseteq 1 .. NrSwap
    BY PageTypes DEF PageInv
  <2> QED
    BY <1>1, <2>1, <2>2, PlaceTypes
<1>7. SlotsOK(entry', swap_bitmap')
  <2>1. SlotsOK(entry, swap_bitmap)
    BY DEF PageInv
  <2>2. ASSUME NEW u \in Spaces, NEW w \in M!Virtual, entry'[u][w].nr # 0
        PROVE  u # g /\ entry'[u][w] = entry[u][w] /\ entry'[u][w].nr \notin swap_bitmap'
    <3>1. u # g /\ entry'[u][w] = entry[u][w]
      BY <1>3, <1>4, <2>2
    <3>2. \A v \in M!Virtual : entry[g][v].nr # entry[u][w].nr
      BY <2>1, <2>2, <3>1 DEF SlotsOK
    <3>3. entry[u][w].nr \notin swap_bitmap
      BY <2>1, <2>2, <3>1 DEF SlotsOK
    <3> QED
      BY <1>1, <3>1, <3>2, <3>3
  <2>3. ASSUME NEW n \in 1 .. NrSwap, n \notin swap_bitmap' PROVE \E u \in Spaces, w \in M!Virtual : entry'[u][w].nr = n
    <3>1. n # 0 /\ n \notin swap_bitmap /\ \A v \in M!Virtual : entry[g][v].nr # n
      BY <1>1, <2>3
    <3>2. PICK u \in Spaces, w \in M!Virtual : entry[u][w].nr = n
      BY <2>1, <3>1 DEF SlotsOK
    <3>3. u # g
      BY <3>1, <3>2
    <3> QED
      BY <1>4, <3>2, <3>3
  <2>4. \A t, u \in Spaces, v, w \in M!Virtual :
          entry'[t][v].nr # 0 /\ entry'[t][v].nr = entry'[u][w].nr => t = u /\ v = w
    <3> SUFFICES ASSUME NEW t \in Spaces, NEW u \in Spaces, NEW v \in M!Virtual, NEW w \in M!Virtual,
                        entry'[t][v].nr # 0, entry'[t][v].nr = entry'[u][w].nr
                 PROVE  t = u /\ v = w
      OBVIOUS
    <3>1. entry[t][v].nr # 0 /\ entry[t][v].nr = entry[u][w].nr
      BY <2>2
    <3> QED
      BY <2>1, <3>1 DEF SlotsOK
  <2> QED
    BY <2>2, <2>3, <2>4 DEF SlotsOK
<1>8. \A u \in Spaces, w \in M!Virtual : EntryOK(entry'[u][w])
  <2>1. EntryOK(M!Zero)
    BY <1>3 DEF EntryOK
  <2>2. \A u \in Spaces, w \in M!Virtual : EntryOK(entry[u][w])
    BY DEF PageInv
  <2> QED
    BY ONLY <2>1, <2>2, <1>4
<1> QED
  BY <1>4, <1>5, <1>6, <1>7, <1>8 DEF RowResult

\* A task ends, or a fork fails.
LEMMA PageFreed ==
  ASSUME PageInv, NEW t \in used, NEW g \in Spaces, RowResult(g),
         fault[t].at \in {"user", "get"}, g = IF fault[t].op = "fork" THEN fault[t].child ELSE t,
         fault' = [fault EXCEPT ![t] = M!User],
         used' = used \ {g}, mine' = [mine EXCEPT ![g] = {}],
         cpu' = NULL, io' = io, page' = page, swap' = swap
  PROVE  PageInv'
<1>1. entry \in Tables /\ fault \in Calls /\ t \in Spaces
  BY PageTypes DEF PageInv
<1>2. FaultOK(t) /\ fault[t].new = 0 /\ M!User.new = 0
  BY <1>1, ZenonT(60) DEF PageInv, FaultOK, Fits, M!User
<1>3. g = t \/ (g = fault[t].child /\ g \notin used /\ fault[t].op = "fork")
  BY <1>2 DEF FaultOK, Fits
<1>4. CallResult(entry', fault, t, M!User, fault')
  BY <1>1, UserType, PutFault DEF RowResult
<1>5. fault' \in Calls /\ \A u \in Spaces : fault'[u] = IF u = t THEN M!User ELSE fault[u]
  BY <1>4 DEF CallResult
<1>6. Tally(Has(entry', fault'), mem_map', Alone(entry', fault'))
  BY <1>2, <1>4 DEF CallResult, RowResult
<1>7. M!TypeOK'
  <2>1. mem_map' \in [M!Frames -> Nat]
    BY <1>6 DEF Tally
  <2>2. entry' \in Tables /\ swap_bitmap' \subseteq 1 .. NrSwap
    BY DEF RowResult
  <2>3. used' \subseteq Spaces /\ mine' \in [Spaces -> SUBSET M!Virtual] /\ cpu' \in Spaces \cup {NULL}
    BY PageTypes DEF PageInv
  <2>4. page' \in [M!Frames -> BOOLEAN] /\ swap' \in [1 .. NrSwap -> BOOLEAN] /\ \A i \in DOMAIN io' : io'[i] \in Spaces
    BY PageTypes DEF PageInv
  <2> QED
    BY ONLY <1>5, <2>1, <2>2, <2>3, <2>4, PageTypesNext
<1>8. ASSUME NEW u \in Spaces PROVE FaultOK(u)'
  <2>1. CASE u = t
    BY <1>5, <2>1, UserFits DEF FaultOK
  <2>2. CASE u # t
    <3>1. fault'[u] = fault[u]
      BY <1>5, <2>2
    <3>2. CASE fault[u].at = "user"
      <4>1. fault[u] = M!User
        BY <3>2 DEF PageInv, FaultOK, Fits
      <4> QED
        BY <3>1, <4>1, UserFits DEF FaultOK
    <3>3. CASE fault[u].at # "user"
      <4>1. Fits(u, fault[u], entry'[u][fault[u].v], used)
        <5>1. CASE fault[u].at = "copy"
          BY <5>1, FitsAnyEntry
        <5>2. CASE fault[u].at # "copy"
          <6>1. u \in used /\ fault[u].v \in M!Virtual
            BY <3>3, <5>2 DEF PageInv, FaultOK, Fits
          <6>2. entry'[u][fault[u].v] = entry[u][fault[u].v]
            BY <1>3, <2>2, <6>1 DEF RowResult
          <6> QED
            BY <6>2 DEF PageInv, FaultOK
        <5> QED
          BY <5>1, <5>2
      <4>2. u \in used /\ u \in used'
        BY <1>3, <2>2, <3>3 DEF PageInv, FaultOK, Fits
      <4>3. Spaces \ used \subseteq Spaces \ used'
        OBVIOUS
      <4>4. Fits(u, fault[u], entry'[u][fault[u].v], used')
        BY ONLY <4>1, <4>2, <4>3 DEF Fits
      <4> QED
        BY <3>1, <4>4 DEF FaultOK
    <3> QED
      BY <3>2, <3>3
  <2> QED
    BY <2>1, <2>2
<1>9. ChildrenOK'
  <2>1. ChildrenOK
    BY DEF PageInv
  <2>2. M!User.child = NULL /\ NULL \notin Spaces
    BY PageAssumption DEF M!User
  <2>3. ASSUME NEW a \in Spaces, NEW b \in Spaces, fault'[a].child # NULL, fault'[a].child = fault'[b].child
        PROVE  a = b
    <3>1. a # t /\ b # t
      BY <1>5, <2>2, <2>3
    <3> QED
      BY <1>5, <2>1, <2>3, <3>1 DEF ChildrenOK
  <2>4. ASSUME NEW c \in Spaces \ used', NEW w \in M!Virtual,
               \A a \in Spaces : fault'[a].child = c => w \in fault'[a].todo
        PROVE  entry'[c][w] = M!Zero
    <3>1. CASE c = g
      BY <3>1 DEF RowResult
    <3>2. CASE c # g
      <4>1. c \in Spaces \ used /\ entry'[c][w] = entry[c][w]
        BY <3>2 DEF RowResult
      <4>2. fault[t].child # c
        BY <1>2, <1>3, <2>2, <2>4, <3>2 DEF FaultOK, Fits
      <4>3. \A a \in Spaces : fault[a].child = c => w \in fault[a].todo
        BY <1>5, <2>4, <4>2
      <4> QED
        BY <2>1, <4>1, <4>3 DEF ChildrenOK
    <3> QED
      BY <3>1, <3>2
  <2> QED
    BY <2>3, <2>4 DEF ChildrenOK
<1>10. IoOK'
  <2>1. fault[t].at \notin {"write", "read"}
    OBVIOUS
  <2> QED
    BY <1>1, <2>1, UserType, IoStays
<1> QED
  BY <1>6, <1>7, <1>8, <1>9, <1>10 DEF PageInv, RowResult

\* exit().
LEMMA PageExit == ASSUME PageInv, NEW t \in Spaces, M!exit(t) PROVE PageInv'
<1>1. /\ M!InUser(t) /\ M!free_page_tables(t) /\ used' = used \ {t} /\ mine' = [mine EXCEPT ![t] = {}]
      /\ cpu' = cpu /\ io' = io /\ fault' = fault /\ page' = page /\ swap' = swap
  BY DEF M!exit
<1>2. t \in used /\ fault[t] = M!User /\ cpu = NULL /\ fault[t].at = "user" /\ fault[t].op = "none"
  BY <1>1, InUserFacts DEF M!User
<1>3. fault' = [fault EXCEPT ![t] = M!User]
  BY <1>1, <1>2, PageTypes DEF PageInv, Calls
<1> QED
  BY <1>1, <1>2, <1>3, RowFreed, PageFreed

\* oom() and a fork that fails.
LEMMA PageOutOfMemory == ASSUME PageInv, NEW t \in Spaces, M!OutOfMemory(t) PROVE PageInv'
<1> DEFINE gone == IF fault[t].op = "fork" THEN fault[t].child ELSE t
<1>1. /\ fault[t].at = "get" /\ M!free_page_tables(gone) /\ used' = used \ {gone} /\ mine' = [mine EXCEPT ![gone] = {}]
      /\ cpu' = NULL /\ io' = io /\ fault' = [fault EXCEPT ![t] = M!User] /\ page' = page /\ swap' = swap
  BY DEF M!OutOfMemory, M!At, M!Leave
<1>2. t \in used /\ gone \in Spaces
  BY <1>1 DEF PageInv, FaultOK, Fits
<1> HIDE DEF gone
<1>3. RowResult(gone)
  BY <1>1, <1>2, RowFreed
<1> QED
  BY <1>1, <1>2, <1>3, PageFreed DEF gone

ForkCall(c) == [M!User EXCEPT !.op = "fork", !.at = "copy", !.child = c, !.todo = M!Virtual]

\* What a task knows that begins to copy its entries.
LEMMA ForkTypes ==
  ASSUME NEW c \in Spaces
  PROVE  /\ ForkCall(c) \in M!Call /\ ForkCall(c).new = 0 /\ ForkCall(c).nr = 0
         /\ ForkCall(c).op = "fork" /\ ForkCall(c).at = "copy" /\ ForkCall(c).child = c /\ ForkCall(c).todo = M!Virtual
<1>1. ForkCall(c) \in M!Call
  BY UserType DEF ForkCall, M!Call
<1>2. /\ ForkCall(c).new = M!User.new /\ ForkCall(c).nr = M!User.nr
      /\ ForkCall(c).op = "fork" /\ ForkCall(c).at = "copy" /\ ForkCall(c).child = c /\ ForkCall(c).todo = M!Virtual
  BY UserType DEF ForkCall, M!Call
<1> QED
  BY <1>1, <1>2 DEF M!User

\* copy_page_tables() begins.
LEMMA PageFork == ASSUME PageInv, NEW t \in Spaces, M!fork(t) PROVE PageInv'
<1>1. PICK c \in Spaces \ used : (\A u \in Spaces : fault[u].child # c) /\ fault' = [fault EXCEPT ![t] = ForkCall(c)] /\ cpu' = t
  BY DEF M!fork, M!Goto, ForkCall
<1>2. /\ M!InUser(t) /\ entry' = entry /\ mem_map' = mem_map /\ swap_bitmap' = swap_bitmap /\ used' = used
      /\ io' = io /\ page' = page /\ swap' = swap /\ mine' = mine
  BY DEF M!fork, M!contents
<1> DEFINE k == ForkCall(c)
<1>3. /\ k \in M!Call /\ k.new = 0 /\ k.nr = 0 /\ k.op = "fork" /\ k.at = "copy" /\ k.child = c /\ k.todo = M!Virtual
  BY ForkTypes
<1> HIDE DEF k
<1>4. t \in used /\ fault[t] = M!User /\ fault[t].at = "user" /\ fault[t].new = 0 /\ fault[t].child = NULL
  BY <1>2, InUserFacts DEF M!User
<1>5. entry \in Tables /\ fault \in Calls
  BY PageTypes DEF PageInv
<1>6. CallResult(entry, fault, t, k, fault')
  BY <1>1, <1>3, <1>5, PutFault DEF k
<1>7. fault' \in Calls /\ \A u \in Spaces : fault'[u] = IF u = t THEN k ELSE fault[u]
  BY <1>6 DEF CallResult
<1>8. Tally(Has(entry', fault'), mem_map', Alone(entry', fault'))
  BY <1>2, <1>3, <1>4, <1>6 DEF CallResult, PageInv
<1>9. M!TypeOK'
  BY <1>1, <1>2, <1>5, <1>7, PageTypes, PageTypesNext DEF PageInv
<1>10. Fits(t, k, entry'[t][k.v], used)
  BY <1>3, <1>4 DEF Fits
<1>11. \A u \in Spaces : FaultOK(u)'
  BY <1>1, <1>2, <1>3, <1>10, OthersFit DEF k
<1>12. ChildrenOK'
  <2>1. ChildrenOK
    BY DEF PageInv
  <2>2. ASSUME NEW a \in Spaces, NEW b \in Spaces, fault'[a].child # NULL, fault'[a].child = fault'[b].child
        PROVE  a = b
    BY <1>1, <1>3, <1>7, <2>1, <2>2 DEF ChildrenOK
  <2>3. ASSUME NEW d \in Spaces \ used, NEW w \in M!Virtual,
               \A a \in Spaces : fault'[a].child = d => w \in fault'[a].todo
        PROVE  entry[d][w] = M!Zero
    <3>1. \A a \in Spaces : fault[a].child = d => w \in fault[a].todo
      BY <1>1, <1>4, <1>7, <2>3, PageAssumption
    <3> QED
      BY <2>1, <3>1 DEF ChildrenOK
  <2> QED
    BY <1>2, <2>2, <2>3 DEF ChildrenOK
<1>13. IoOK'
  <2>1. fault[t].at \notin {"write", "read"}
    BY <1>4
  <2> QED
    BY <1>1, <1>2, <1>3, <2>1, IoStays DEF k
<1> QED
  BY <1>2, <1>8, <1>9, <1>11, <1>12, <1>13 DEF PageInv

\* What is known of a task in the loop of copy_page_tables().
LEMMA CopyFacts ==
  ASSUME PageInv, NEW t \in Spaces, fault[t].at = "copy"
  PROVE  /\ t \in used /\ fault[t].op = "fork" /\ fault[t].child \in Spaces \ used /\ fault[t].new = 0
         /\ fault[t].nr = 0 /\ fault[t] \in M!Call /\ fault[t].todo \subseteq M!Virtual
         /\ fault[fault[t].child] = M!User
         /\ \A v \in fault[t].todo : entry[fault[t].child][v] = M!Zero
<1>1. /\ t \in used /\ fault[t].op = "fork" /\ fault[t].child \in Spaces \ used /\ fault[t].new = 0 /\ fault[t].nr = 0
  BY DEF PageInv, FaultOK, Fits
<1>2. fault[t] \in M!Call /\ fault[t].todo \subseteq M!Virtual
  <2>1. fault[t] \in M!Call
    BY PageTypes DEF PageInv, Calls
  <2> QED
    BY <2>1 DEF M!Call
<1>3. fault[fault[t].child] = M!User
  BY <1>1 DEF PageInv, FaultOK, Fits
<1>4. ASSUME NEW v \in fault[t].todo PROVE entry[fault[t].child][v] = M!Zero
  <2>1. \A u \in Spaces : fault[u].child = fault[t].child => u = t
    BY <1>1, PageAssumption DEF PageInv, ChildrenOK
  <2>2. v \in M!Virtual
    BY <1>2
  <2> QED
    BY <1>1, <2>1, <2>2 DEF PageInv, ChildrenOK
<1> QED
  BY <1>1, <1>2, <1>3, <1>4

\* The fork is done, and the child runs.
LEMMA PageForked ==
  ASSUME PageInv, NEW t \in Spaces, fault[t].at = "copy", fault[t].todo = {},
         used' = used \cup {fault[t].child}, mine' = [mine EXCEPT ![fault[t].child] = mine[t]],
         fault' = [fault EXCEPT ![t] = M!User], cpu' = NULL,
         entry' = entry, mem_map' = mem_map, swap_bitmap' = swap_bitmap, io' = io, page' = page, swap' = swap
  PROVE  PageInv'
<1> DEFINE c == fault[t].child
<1>1. t \in used /\ c \in Spaces \ used /\ fault[t].new = 0 /\ M!User.new = 0 /\ M!User.child = NULL
  BY CopyFacts DEF M!User
<1> HIDE DEF c
<1>2. entry \in Tables /\ fault \in Calls
  BY PageTypes DEF PageInv
<1>3. CallResult(entry, fault, t, M!User, fault')
  BY <1>2, UserType, PutFault
<1>4. fault' \in Calls /\ \A u \in Spaces : fault'[u] = IF u = t THEN M!User ELSE fault[u]
  BY <1>3 DEF CallResult
<1>5. Tally(Has(entry', fault'), mem_map', Alone(entry', fault'))
  BY <1>1, <1>3 DEF CallResult, PageInv
<1>6. M!TypeOK'
  <2>1. used' \subseteq Spaces /\ mine' \in [Spaces -> SUBSET M!Virtual]
    BY <1>1, PageTypes DEF PageInv, c
  <2> QED
    BY <1>2, <1>4, <2>1, PageTypes, PageTypesNext DEF PageInv
<1>7. ASSUME NEW u \in Spaces PROVE FaultOK(u)'
  <2>1. CASE u = t
    BY <1>4, <2>1, UserFits DEF FaultOK
  <2>2. CASE u # t
    <3>1. fault'[u] = fault[u] /\ Fits(u, fault[u], entry[u][fault[u].v], used)
      BY <1>4, <2>2 DEF PageInv, FaultOK
    <3>2. fault[u].child # c
      BY <1>1, <2>2, PageAssumption DEF PageInv, ChildrenOK, c
    <3>3. Fits(u, fault[u], entry[u][fault[u].v], used')
      BY ONLY <3>1, <3>2, used' = used \cup {fault[t].child} DEF Fits, c
    <3> QED
      BY <3>1, <3>3 DEF FaultOK
  <2> QED
    BY <2>1, <2>2
<1>8. ChildrenOK'
  <2>1. ChildrenOK
    BY DEF PageInv
  <2>2. ASSUME NEW a \in Spaces, NEW b \in Spaces, fault'[a].child # NULL, fault'[a].child = fault'[b].child
        PROVE  a = b
    BY <1>1, <1>4, <2>1, <2>2 DEF ChildrenOK
  <2>3. ASSUME NEW d \in Spaces \ used', NEW w \in M!Virtual,
               \A a \in Spaces : fault'[a].child = d => w \in fault'[a].todo
        PROVE  entry[d][w] = M!Zero
    <3>1. d \in Spaces \ used /\ d # c
      BY DEF c
    <3>2. \A a \in Spaces : fault[a].child = d => w \in fault[a].todo
      BY <1>4, <2>3, <3>1 DEF c
    <3> QED
      BY <2>1, <3>1, <3>2 DEF ChildrenOK
  <2> QED
    BY <2>2, <2>3 DEF ChildrenOK
<1>9. IoOK'
  BY UserType, IoStays
<1> QED
  BY <1>5, <1>6, <1>7, <1>8, <1>9 DEF PageInv

\* An entry is copied; a page is shared.
LEMMA PageCopied ==
  ASSUME PageInv, NEW t \in Spaces, fault[t].at = "copy", NEW v \in fault[t].todo, NEW n \in M!Entry, NEW k \in M!Call,
         entry[t][v].nr = 0, n.frame = entry[t][v].frame, n.nr = 0, ~n.rw, n.dirty = entry[t][v].dirty,
         k.at = "copy", k.op = fault[t].op, k.new = fault[t].new, k.nr = fault[t].nr, k.v = fault[t].v,
         k.child = fault[t].child, k.todo = fault[t].todo \ {v},
         entry' = Put(Put(entry, t, v, n), fault[t].child, v, n),
         mem_map' = [f \in M!Frames |-> IF f = n.frame THEN mem_map[f] + 1 ELSE mem_map[f]],
         fault' = [fault EXCEPT ![t] = k], cpu' = t,
         swap_bitmap' = swap_bitmap, used' = used, io' = io, page' = page, swap' = swap, mine' = mine
  PROVE  PageInv'
<1> DEFINE c == fault[t].child
<1>1. /\ entry \in Tables /\ fault \in Calls /\ t \in used /\ c \in Spaces \ used /\ t # c
      /\ v \in M!Virtual /\ entry[c][v] = M!Zero /\ fault[c] = M!User /\ k.op = "fork" /\ k.new = 0 /\ k.nr = 0
  BY CopyFacts, PageTypes DEF PageInv
<1> HIDE DEF c
<1>2. entry[t][v] \in M!Entry /\ EntryOK(entry[t][v]) /\ M!Zero.frame = 0
  <2>1. t \in Spaces
    OBVIOUS
  <2>2. entry[t][v] \in M!Entry /\ EntryOK(entry[t][v])
    BY <1>1, HasType DEF PageInv
  <2> QED
    BY <2>2 DEF M!Zero
<1>3. /\ entry' \in Tables
      /\ \A a \in Spaces, w \in M!Virtual : entry'[a][w] = IF w = v /\ a \in {t, c} THEN n ELSE entry[a][w]
      /\ Tally(Has(entry', fault), mem_map', Alone(entry', fault))
  <2>1. Tally(Has(entry, fault), mem_map, Alone(entry, fault)) /\ mem_map \in [M!Frames -> Nat]
    BY PageTypes DEF PageInv
  <2>2. CASE n.frame # 0
    <3>1. ShareResult(entry, fault, mem_map, t, c, v, n, Put(Put(entry, t, v, n), c, v, n))
      BY <1>1, <1>2, <2>1, <2>2, ShareEntry
    <3>2. ShareResult(entry, fault, mem_map, t, c, v, n, entry')
      BY <3>1 DEF c
    <3>3. mem_map' = [mem_map EXCEPT ![n.frame] = @ + 1]
      BY <2>1
    <3> QED
      BY <3>2, <3>3 DEF ShareResult
  <2>3. CASE n.frame = 0
    <3>1. n = M!Zero
      BY <1>2, <2>3 DEF EntryOK, M!Zero, M!Entry
    <3>2. entry[t][v] = M!Zero
      BY <1>2, <2>3 DEF EntryOK, M!Zero, M!Entry
    <3>3. Put(entry, t, v, M!Zero) = entry
      BY <1>1, <3>2 DEF Put, Tables
    <3>4. Put(entry, c, v, M!Zero) = entry
      BY <1>1 DEF Put, Tables
    <3>5. entry' = entry
      BY <3>1, <3>3, <3>4 DEF c
    <3>6. mem_map' = mem_map
      BY <2>1, <2>3, PlaceTypes
    <3>7. \A a \in Spaces, w \in M!Virtual : entry'[a][w] = IF w = v /\ a \in {t, c} THEN n ELSE entry[a][w]
      BY <1>1, <3>1, <3>2, <3>5
    <3> QED
      BY <1>1, <2>1, <3>5, <3>6, <3>7
  <2> QED
    BY <2>2, <2>3
<1>4. CallResult(entry', fault, t, k, fault')
  BY <1>1, <1>3, PutFault
<1>5. fault' \in Calls /\ \A u \in Spaces : fault'[u] = IF u = t THEN k ELSE fault[u]
  BY <1>4 DEF CallResult
<1>6. Tally(Has(entry', fault'), mem_map', Alone(entry', fault'))
  BY <1>3, <1>4 DEF CallResult
<1>7. M!TypeOK'
  <2>1. mem_map' \in [M!Frames -> Nat]
    BY <1>6 DEF Tally
  <2>2. entry' \in Tables
    BY <1>3
  <2>3. /\ swap_bitmap' \subseteq 1 .. NrSwap
        /\ used' \subseteq Spaces /\ cpu' \in Spaces \cup {NULL}
        /\ \A i \in DOMAIN io' : io'[i] \in Spaces
        /\ page' \in [M!Frames -> BOOLEAN] /\ swap' \in [1 .. NrSwap -> BOOLEAN]
        /\ mine' \in [Spaces -> SUBSET M!Virtual]
    BY PageTypes DEF PageInv
  <2> QED
    BY ONLY <1>5, <2>1, <2>2, <2>3, PageTypesNext
<1>8. \A a \in Spaces, w \in M!Virtual : EntryOK(entry'[a][w])
  <2>1. EntryOK(n)
    BY <1>2 DEF EntryOK
  <2>2. \A a \in Spaces, w \in M!Virtual : EntryOK(entry[a][w])
    BY DEF PageInv
  <2> QED
    BY ONLY <2>1, <2>2, <1>3
<1>9. SlotsOK(entry', swap_bitmap')
  <2>1. M!Zero.nr = 0
    BY DEF M!Zero
  <2>2. \A a \in Spaces, w \in M!Virtual : entry'[a][w].nr = entry[a][w].nr
    BY <1>1, <1>3, <2>1
  <2> QED
    BY <2>2, SlotsStay
<1>10. \A u \in Spaces : FaultOK(u)'
  <2>0. k.at = "copy" /\ k.op = "fork" /\ k.new = 0 /\ k.nr = 0 /\ k.child \in Spaces \ used /\ t \in used
    BY <1>1 DEF c
  <2>1. Fits(t, k, entry'[t][k.v], used)
    BY ONLY <2>0 DEF Fits
  <2>2. ASSUME NEW u \in Spaces \ {t}, fault[u].at \notin {"user", "copy"} PROVE entry'[u][fault[u].v] = entry[u][fault[u].v]
    <3>1. u \in used /\ fault[u].v \in M!Virtual
      BY <2>2 DEF PageInv, FaultOK, Fits
    <3>2. u # c
      BY <1>1, <3>1
    <3> QED
      BY <1>3, <3>1, <3>2
  <2> QED
    BY <2>1, <2>2, OthersFit
<1>11. ChildrenOK'
  <2>1. ChildrenOK
    BY DEF PageInv
  <2>2. ASSUME NEW a \in Spaces, NEW b \in Spaces, fault'[a].child # NULL, fault'[a].child = fault'[b].child
        PROVE  a = b
    BY <1>5, <2>1, <2>2 DEF ChildrenOK
  <2>3. ASSUME NEW d \in Spaces \ used, NEW w \in M!Virtual,
               \A a \in Spaces : fault'[a].child = d => w \in fault'[a].todo
        PROVE  entry'[d][w] = M!Zero
    <3>1. \A a \in Spaces : fault[a].child = d => w \in fault[a].todo
      BY <1>5, <2>3
    <3>2. entry[d][w] = M!Zero
      BY <2>1, <3>1 DEF ChildrenOK
    <3>3. ~(d = c /\ w = v)
      BY <1>5, <2>3 DEF c
    <3>4. d # t
      BY <1>1
    <3> QED
      BY <1>3, <3>2, <3>3, <3>4
  <2> QED
    BY <2>2, <2>3 DEF ChildrenOK
<1>12. IoOK'
  BY IoStays
<1> QED
  BY <1>6, <1>7, <1>8, <1>9, <1>10, <1>11, <1>12 DEF PageInv

\* The loop of copy_page_tables().
LEMMA PageCopyEntry == ASSUME PageInv, NEW t \in Spaces, M!CopyEntry(t) PROVE PageInv'
<1> DEFINE k == fault[t]
           v == CHOOSE w \in k.todo : TRUE
           n == [entry[t][v] EXCEPT !.rw = FALSE]
           k2 == [k EXCEPT !.todo = @ \ {v}]
           k3 == [k EXCEPT !.at = "get", !.v = v]
<1>1. k.at = "copy" /\ swap_bitmap' = swap_bitmap /\ io' = io /\ page' = page /\ swap' = swap
  BY DEF M!CopyEntry, M!At
<1>2. \/ /\ k.todo = {} /\ used' = used \cup {k.child} /\ mine' = [mine EXCEPT ![k.child] = mine[t]]
         /\ fault' = [fault EXCEPT ![t] = M!User] /\ cpu' = NULL /\ entry' = entry /\ mem_map' = mem_map
      \/ /\ k.todo # {} /\ entry[t][v].nr = 0
         /\ entry' = [entry EXCEPT ![t][v] = n, ![k.child][v] = n]
         /\ mem_map' = [f \in M!Frames |-> IF f = n.frame THEN mem_map[f] + 1 ELSE mem_map[f]]
         /\ fault' = [fault EXCEPT ![t] = k2] /\ cpu' = t /\ used' = used /\ mine' = mine
      \/ /\ k.todo # {} /\ entry[t][v].nr # 0
         /\ fault' = [fault EXCEPT ![t] = k3] /\ cpu' = t
         /\ entry' = entry /\ mem_map' = mem_map /\ used' = used /\ mine' = mine
  BY DEF M!CopyEntry, M!Leave, M!Goto
<1>3. CASE /\ k.todo = {} /\ used' = used \cup {k.child} /\ mine' = [mine EXCEPT ![k.child] = mine[t]]
           /\ fault' = [fault EXCEPT ![t] = M!User] /\ cpu' = NULL /\ entry' = entry /\ mem_map' = mem_map
  BY <1>1, <1>3, PageForked
<1>4. k \in M!Call /\ k.todo \subseteq M!Virtual /\ (k.todo # {} => v \in k.todo /\ v \in M!Virtual)
  BY <1>1, CopyFacts
<1>5. CASE /\ k.todo # {} /\ entry[t][v].nr = 0
           /\ entry' = [entry EXCEPT ![t][v] = n, ![k.child][v] = n]
           /\ mem_map' = [f \in M!Frames |-> IF f = n.frame THEN mem_map[f] + 1 ELSE mem_map[f]]
           /\ fault' = [fault EXCEPT ![t] = k2] /\ cpu' = t /\ used' = used /\ mine' = mine
  <2>1. v \in k.todo /\ v \in M!Virtual
    BY <1>4, <1>5
  <2> HIDE DEF v
  <2>2. entry[t][v] \in M!Entry
    BY <2>1, HasType, PageTypes DEF PageInv
  <2>3. n \in M!Entry /\ n.frame = entry[t][v].frame /\ n.nr = 0 /\ ~n.rw /\ n.dirty = entry[t][v].dirty
    BY <1>5, <2>2 DEF M!Entry
  <2>4. /\ k2 \in M!Call /\ k2.at = "copy" /\ k2.op = k.op /\ k2.new = k.new /\ k2.nr = k.nr /\ k2.v = k.v
        /\ k2.child = k.child /\ k2.todo = k.todo \ {v}
    BY <1>1, <1>4 DEF M!Call
  <2>5. entry' = Put(Put(entry, t, v, n), k.child, v, n)
    BY <1>5 DEF Put
  <2> HIDE DEF n, k2
  <2> QED
    BY <1>1, <1>5, <2>1, <2>3, <2>4, <2>5, PageCopied
<1>6. CASE /\ k.todo # {} /\ entry[t][v].nr # 0
           /\ fault' = [fault EXCEPT ![t] = k3] /\ cpu' = t
           /\ entry' = entry /\ mem_map' = mem_map /\ used' = used /\ mine' = mine
  <2>1. v \in k.todo /\ v \in M!Virtual
    BY <1>4, <1>6
  <2> HIDE DEF v
  <2>2. /\ k3 \in M!Call /\ k3.at = "get" /\ k3.op = k.op /\ k3.new = k.new /\ k3.nr = k.nr /\ k3.v = v
        /\ k3.child = k.child /\ k3.todo = k.todo
    BY <1>4, <2>1 DEF M!Call
  <2> HIDE DEF k3
  <2>3. Fits(t, k3, entry[t][k3.v], used)
    BY <1>1, <1>6, <2>1, <2>2, CopyFacts DEF Fits
  <2>4. IoOK'
    BY <1>1, <1>6, <2>2, IoStays
  <2>5. page' \in [M!Frames -> BOOLEAN] /\ swap' \in [1 .. NrSwap -> BOOLEAN] /\ mine' \in [Spaces -> SUBSET M!Virtual]
        /\ \A i \in DOMAIN io' : io'[i] \in Spaces /\ cpu' \in Spaces \cup {NULL}
    BY <1>1, <1>6, PageTypes DEF PageInv
  <2>6. cpu' \in Spaces \cup {NULL}
    BY <1>6
  <2> QED
    BY <1>1, <1>6, <2>2, <2>3, <2>4, <2>5, <2>6, PageStepQuiet
<1> QED
  BY <1>2, <1>3, <1>5, <1>6

\* get_free_page() takes a page that is free.
LEMMA LastPage == M!FreePages # {} => M!Max(M!FreePages) \in M!FreePages
<1> SUFFICES ASSUME M!FreePages # {} PROVE M!Max(M!FreePages) \in M!FreePages
  OBVIOUS
<1> DEFINE X == {n \in Nat : NrPages - n \in M!FreePages}
<1>1. M!FreePages \subseteq 1 .. NrPages /\ NrPages \in Nat
  BY PlaceTypes DEF M!FreePages, M!Frames
<1>2. X \in SUBSET Nat /\ X # {}
  <2>1. PICK f \in M!FreePages : TRUE
    OBVIOUS
  <2>2. NrPages - f \in Nat /\ NrPages - (NrPages - f) = f
    BY <1>1, <2>1
  <2>3. NrPages - f \in X
    BY <2>2
  <2> QED
    BY <2>3
<1> HIDE DEF X
<1>3. PICK n \in X : \A m \in X : n <= m
  BY <1>2, LeastNat
<1>4. NrPages - n \in M!FreePages
  BY <1>3 DEF X
<1>5. ASSUME NEW f \in M!FreePages PROVE NrPages - n >= f
  <2>1. NrPages - f \in Nat /\ NrPages - (NrPages - f) = f
    BY <1>1
  <2>2. NrPages - f \in X
    BY <2>1 DEF X
  <2>3. n <= NrPages - f /\ n \in Nat /\ f \in Nat
    BY <1>1, <1>2, <1>3, <2>2
  <2> QED
    BY <1>1, <2>3
<1> QED
  BY <1>4, <1>5 DEF M!Max

\* get_swap_page() takes a page of the swap device that is free.
LEMMA FirstSlot == ASSUME swap_bitmap \subseteq 1 .. NrSwap, swap_bitmap # {} PROVE M!Min(swap_bitmap) \in swap_bitmap
<1>1. swap_bitmap \in SUBSET Nat
  BY PlaceTypes
<1>2. PICK n \in swap_bitmap : \A m \in swap_bitmap : n <= m
  BY <1>1, LeastNat
<1> QED
  BY <1>2 DEF M!Min

\* Where a task stands that waits for a page.
LEMMA GetFacts ==
  ASSUME PageInv, NEW t \in Spaces, fault[t].at = "get"
  PROVE  /\ t \in used /\ fault[t].new = 0 /\ fault[t].nr = 0 /\ fault[t].op # "none"
         /\ fault[t].v \in M!Virtual /\ fault[t] \in M!Call /\ Fits(t, fault[t], entry[t][fault[t].v], used)
<1>1. FaultOK(t) /\ fault[t] \in M!Call
  BY PageTypes DEF PageInv, Calls
<1> QED
  BY <1>1 DEF FaultOK, Fits

\* get_free_page().
LEMMA PageGetPage == ASSUME PageInv, NEW t \in Spaces, M!GetPage(t) PROVE PageInv'
<1> DEFINE f == M!Max(M!FreePages)
           k == [fault[t] EXCEPT !.at = "got", !.new = f]
<1>1. /\ fault[t].at = "get" /\ M!FreePages # {} /\ mem_map' = [mem_map EXCEPT ![f] = 1]
      /\ page' = [page EXCEPT ![f] = FALSE] /\ fault' = [fault EXCEPT ![t] = k] /\ cpu' = t
      /\ entry' = entry /\ swap_bitmap' = swap_bitmap /\ used' = used /\ io' = io /\ swap' = swap /\ mine' = mine
  BY DEF M!GetPage, M!At, M!Goto
<1>2. f \in M!Frames /\ mem_map[f] = 0 /\ f # 0
  BY <1>1, LastPage, PlaceTypes DEF M!FreePages
<1> HIDE DEF f
<1>3. fault[t] \in M!Call /\ fault[t].new = 0 /\ fault[t].nr = 0 /\ t \in used
  BY <1>1, GetFacts
<1>4. /\ k \in M!Call /\ k.at = "got" /\ k.new = f /\ k.op = fault[t].op /\ k.v = fault[t].v /\ k.nr = 0
      /\ k.frame = fault[t].frame /\ k.child = fault[t].child /\ k.todo = fault[t].todo
  BY <1>2, <1>3 DEF M!Call
<1> HIDE DEF k
<1>5. entry \in Tables /\ fault \in Calls
  BY PageTypes DEF PageInv
<1>6. Tally(Has(entry', fault'), mem_map', Alone(entry', fault'))
  <2>1. Tally(Has(entry, fault), mem_map, Alone(entry, fault))
    BY DEF PageInv
  <2>2. Tally(Has(entry, [fault EXCEPT ![t] = k]), [mem_map EXCEPT ![k.new] = 1], Alone(entry, [fault EXCEPT ![t] = k]))
    BY <1>2, <1>3, <1>4, <1>5, <2>1, TakeNew
  <2> QED
    BY <1>1, <1>4, <2>2
<1>7. CallResult(entry, fault, t, k, fault')
  BY <1>1, <1>4, <1>5, PutFault
<1>8. M!TypeOK'
  <2>1. mem_map' \in [M!Frames -> Nat]
    BY <1>6 DEF Tally
  <2>2. fault' \in Calls
    BY <1>7 DEF CallResult
  <2>3. page' \in [M!Frames -> BOOLEAN]
    BY <1>1, PageTypes DEF PageInv
  <2> QED
    BY <1>1, <1>3, <1>5, <2>1, <2>2, <2>3, PageTypes, PageTypesNext DEF PageInv
<1>9. Fits(t, k, entry'[t][k.v], used)
  <2>1. Fits(t, fault[t], entry[t][fault[t].v], used) /\ fault[t].v \in M!Virtual
    BY <1>1, GetFacts
  <2> QED
    BY ONLY <1>1, <1>2, <1>3, <1>4, <2>1 DEF Fits
<1>10. \A u \in Spaces : FaultOK(u)'
  BY <1>1, <1>4, <1>9, OthersFit
<1>11. ChildrenOK'
  BY <1>1, <1>4, ChildrenStay
<1>12. IoOK'
  BY <1>1, <1>4, IoStays
<1> QED
  BY <1>1, <1>6, <1>8, <1>10, <1>11, <1>12 DEF PageInv

\* The page that has been written to the swap device is freed.
LEMMA PageWritten == ASSUME PageInv, NEW t \in Spaces, M!Written(t) PROVE PageInv'
<1> DEFINE k == [fault[t] EXCEPT !.at = "get", !.new = 0, !.nr = 0]
<1>1. /\ fault[t].at = "written" /\ mem_map' = [mem_map EXCEPT ![fault[t].new] = @ - 1]
      /\ fault' = [fault EXCEPT ![t] = k] /\ cpu' = t
      /\ entry' = entry /\ swap_bitmap' = swap_bitmap /\ used' = used /\ io' = io
      /\ page' = page /\ swap' = swap /\ mine' = mine
  BY DEF M!Written, M!At, M!Goto, M!contents
<1>2. entry \in Tables /\ fault \in Calls /\ fault[t] \in M!Call
  BY PageTypes DEF PageInv, Calls
<1>3. fault[t].new # 0 /\ Fits(t, fault[t], entry[t][fault[t].v], used)
  BY <1>1 DEF PageInv, FaultOK, Fits
<1>4. /\ k \in M!Call /\ k.at = "get" /\ k.new = 0 /\ k.op = fault[t].op /\ k.v = fault[t].v /\ k.nr = 0
      /\ k.frame = fault[t].frame /\ k.child = fault[t].child /\ k.todo = fault[t].todo
  <2>1. 0 \in 0 .. NrSwap /\ 0 \in M!Frames \cup {0}
    BY PlaceTypes
  <2> QED
    BY ONLY <1>2, <2>1 DEF M!Call
<1> HIDE DEF k
<1>6. Tally(Has(entry', fault'), mem_map', Alone(entry', fault'))
  <2>1. Tally(Has(entry, fault), mem_map, Alone(entry, fault))
    BY DEF PageInv
  <2> QED
    BY <1>1, <1>2, <1>3, <1>4, <2>1, DropNew
<1>7. CallResult(entry, fault, t, k, fault')
  BY <1>1, <1>2, <1>4, PutFault
<1>8. M!TypeOK'
  <2>1. mem_map' \in [M!Frames -> Nat]
    BY <1>6 DEF Tally
  <2>2. fault' \in Calls
    BY <1>7 DEF CallResult
  <2> QED
    BY <1>1, <1>2, <2>1, <2>2, PageTypes, PageTypesNext DEF PageInv
<1>9. Fits(t, k, entry'[t][k.v], used)
  BY ONLY <1>1, <1>3, <1>4 DEF Fits
<1>10. \A u \in Spaces : FaultOK(u)'
  BY <1>1, <1>4, <1>9, OthersFit
<1>11. ChildrenOK'
  BY <1>1, <1>4, ChildrenStay
<1>12. IoOK'
  BY <1>1, <1>4, IoStays
<1> QED
  BY <1>1, <1>6, <1>8, <1>10, <1>11, <1>12 DEF PageInv

\* The first task in the queue of the swap device.
LEMMA IoHead ==
  ASSUME IoOK, io # << >>
  PROVE  Head(io) \in Spaces /\ fault[Head(io)].at \in {"write", "read"}
<1>1. io \in Seq(Spaces) /\ Len(io) \in Nat
  BY LenProperties DEF IoOK
<1>2. 1 \in 1 .. Len(io) /\ Head(io) = io[1]
  BY <1>1, EmptySeq, HeadTailProperties
<1>3. io[1] \in Spaces
  BY <1>1, <1>2, ElementOfSeq
<1> QED
  BY <1>2, <1>3 DEF IoOK

\* It leaves the queue.
LEMMA IoShrinks ==
  ASSUME PageInv, io # << >>, NEW k \in M!Call, fault' = [fault EXCEPT ![Head(io)] = k], io' = Tail(io)
  PROVE  IoOK'
<1>1. io \in Seq(Spaces) /\ Len(io) \in Nat
  BY LenProperties DEF PageInv, IoOK
<1>2. /\ Head(io) = io[1] /\ Tail(io) \in Seq(Spaces) /\ Len(Tail(io)) = Len(io) - 1
      /\ \A i \in 1 .. Len(Tail(io)) : Tail(io)[i] = io[i + 1]
  BY <1>1, HeadTailProperties
<1>3. Len(io) >= 1
  BY <1>1, EmptySeq
<1>4. ASSUME NEW i \in 1 .. Len(io')
      PROVE  i + 1 \in 1 .. Len(io) /\ io'[i] = io[i + 1] /\ io[i + 1] \in Spaces /\ io[i + 1] # io[1]
  <2>1. i + 1 \in 1 .. Len(io) /\ 1 \in 1 .. Len(io) /\ i + 1 # 1
    BY <1>1, <1>2, <1>3, <1>4
  <2>2. io[i + 1] \in Spaces
    BY <1>1, <2>1, ElementOfSeq
  <2>3. io[i + 1] # io[1]
    BY <2>1 DEF PageInv, IoOK
  <2> QED
    BY <1>2, <2>1, <2>2, <2>3
<1>5. \A u \in Spaces : u # Head(io) => fault'[u] = fault[u]
  BY PageTypes DEF PageInv, Calls
<1>6. ASSUME NEW i \in 1 .. Len(io') PROVE fault'[io'[i]].at \in {"write", "read"}
  BY <1>2, <1>4, <1>5 DEF PageInv, IoOK
<1>7. ASSUME NEW i \in 1 .. Len(io'), NEW j \in 1 .. Len(io'), io'[i] = io'[j] PROVE i = j
  <2>1. io[i + 1] = io[j + 1] /\ i + 1 \in 1 .. Len(io) /\ j + 1 \in 1 .. Len(io)
    BY <1>4, <1>7
  <2>2. i + 1 = j + 1
    BY <2>1 DEF PageInv, IoOK
  <2> QED
    BY <2>2
<1> QED
  BY <1>2, <1>6, <1>7 DEF IoOK

\* The swap device has written or read a page.
LEMMA PageIoDone == ASSUME PageInv, M!IoDone PROVE PageInv'
<1> DEFINE t == Head(io)
           k == [fault[t] EXCEPT !.at = IF fault[t].at = "write" THEN "written" ELSE "done"]
<1>1. /\ io # << >> /\ io' = Tail(io) /\ fault' = [fault EXCEPT ![t].at = IF fault[t].at = "write" THEN "written" ELSE "done"]
      /\ IF fault[t].at = "write"
         THEN swap' = [swap EXCEPT ![fault[t].nr] = page[fault[t].new]] /\ page' = page
         ELSE page' = [page EXCEPT ![fault[t].new] = swap[fault[t].nr]] /\ swap' = swap
      /\ entry' = entry /\ mem_map' = mem_map /\ swap_bitmap' = swap_bitmap /\ used' = used /\ cpu' = cpu /\ mine' = mine
  BY DEF M!IoDone
<1>2. t \in Spaces /\ fault[t].at \in {"write", "read"}
  BY <1>1, IoHead DEF PageInv
<1>3. fault \in Calls /\ fault[t] \in M!Call
  BY <1>2, PageTypes DEF PageInv, Calls
<1>4. fault' = [fault EXCEPT ![t] = k]
  BY <1>1, <1>2, <1>3 DEF Calls
<1>5. /\ k \in M!Call /\ k.at \in {"written", "done"} /\ (k.at = "done" <=> fault[t].at = "read")
      /\ k.new = fault[t].new /\ k.op = fault[t].op /\ k.v = fault[t].v /\ k.nr = fault[t].nr
      /\ k.frame = fault[t].frame /\ k.child = fault[t].child /\ k.todo = fault[t].todo
  <2>1. CASE fault[t].at = "write"
    BY <1>3, <2>1 DEF M!Call
  <2>2. CASE fault[t].at = "read"
    BY <1>3, <2>2 DEF M!Call
  <2> QED
    BY <1>2, <2>1, <2>2
<1> HIDE DEF k
<1>6. Fits(t, fault[t], entry[t][fault[t].v], used)
  BY <1>2 DEF PageInv, FaultOK
<1>7. Fits(t, k, entry[t][k.v], used)
  BY ONLY <1>2, <1>5, <1>6 DEF Fits
<1>8. fault[t].new \in M!Frames /\ fault[t].nr \in 1 .. NrSwap
  <2>1. fault[t].new # 0 /\ fault[t].nr # 0
    BY <1>2, <1>6 DEF Fits
  <2> QED
    BY <1>3, <2>1, PlaceTypes DEF M!Call
<1>9. page' \in [M!Frames -> BOOLEAN] /\ swap' \in [1 .. NrSwap -> BOOLEAN]
  <2>1. page \in [M!Frames -> BOOLEAN] /\ swap \in [1 .. NrSwap -> BOOLEAN]
    BY PageTypes DEF PageInv
  <2> HIDE DEF t
  <2>2. CASE fault[t].at = "write"
    BY <1>1, <1>8, <2>1, <2>2
  <2>3. CASE fault[t].at # "write"
    BY <1>1, <1>8, <2>1, <2>3
  <2> QED
    BY <2>2, <2>3
<1>10. IoOK'
  BY <1>1, <1>4, <1>5, IoShrinks
<1>11. \A i \in DOMAIN io' : io'[i] \in Spaces
  <2>1. io' \in Seq(Spaces) /\ DOMAIN io' = 1 .. Len(io')
    BY <1>10, LenProperties DEF IoOK
  <2> QED
    BY <2>1, ElementOfSeq
<1>12. cpu' \in Spaces \cup {NULL} /\ mine' \in [Spaces -> SUBSET M!Virtual]
  BY <1>1, PageTypes DEF PageInv
<1> HIDE DEF t
<1> QED
  BY <1>1, <1>2, <1>4, <1>5, <1>7, <1>9, <1>10, <1>11, <1>12, PageStepQuiet

\* The victim of swap_out() is not an entry that another task is going to
\* change.
LEMMA VictimFacts ==
  ASSUME PageInv, "unshare" \notin Overlaps, NEW u \in Spaces, NEW w \in M!Virtual, <<u, w>> \in M!Victims
  PROVE  /\ entry[u][w] \in M!Entry /\ EntryOK(entry[u][w]) /\ entry[u][w].frame # 0 /\ entry[u][w].nr = 0
         /\ entry[u][w].dirty => mem_map[entry[u][w].frame] = 1 /\ swap_bitmap # {}
         /\ \A a \in Spaces : fault[a].at \in {"user", "copy"} \/ (fault[a].v \in M!Virtual /\ ~(a = u /\ fault[a].v = w))
<1>1. entry[u][w] \in M!Entry /\ EntryOK(entry[u][w])
  BY HasType, PageTypes DEF PageInv
<1>2. /\ entry[u][w].frame # 0 /\ (entry[u][w].dirty => mem_map[entry[u][w].frame] = 1 /\ swap_bitmap # {})
      /\ ~(fault[u].op = "unshare" /\ fault[u].v = w)
  BY DEF M!Victims, M!Swappable
<1>3. entry[u][w].nr = 0
  BY <1>1, <1>2 DEF EntryOK
<1>4. ASSUME NEW a \in Spaces, fault[a].at \notin {"user", "copy"}
      PROVE  fault[a].v \in M!Virtual /\ ~(a = u /\ fault[a].v = w)
  <2>1. FaultOK(a)
    BY DEF PageInv
  <2>2. /\ fault[a].v \in M!Virtual /\ fault[a].op # "none"
        /\ fault[a].op \in {"in", "fork"} => entry[a][fault[a].v].nr # 0
        /\ fault[a].op \in {"load", "empty"} => entry[a][fault[a].v] = M!Zero
    BY ONLY <1>4, <2>1 DEF FaultOK, Fits
  <2>3. fault[a].op \in {"in", "load", "empty", "unshare", "fork"}
    <3>1. fault[a] \in M!Call
      BY PageTypes DEF PageInv, Calls
    <3> QED
      BY <2>2, <3>1 DEF M!Call
  <2>4. M!Zero.frame = 0
    BY DEF M!Zero
  <2> QED
    BY ONLY <1>2, <1>3, <2>2, <2>3, <2>4
<1> QED
  BY <1>1, <1>2, <1>3, <1>4

\* Only the entry x of a victim changes, so all tasks are still where they were.
LEMMA VictimsFit ==
  ASSUME PageInv, "unshare" \notin Overlaps, NEW u \in Spaces, NEW w \in M!Virtual, <<u, w>> \in M!Victims,
         \A a \in Spaces, v \in M!Virtual : ~(a = u /\ v = w) => entry'[a][v] = entry[a][v]
  PROVE  \A a \in Spaces : fault[a].at \in {"user", "copy"} \/ entry'[a][fault[a].v] = entry[a][fault[a].v]
BY VictimFacts

\* try_to_swap_out() of a page that has not been modified.
LEMMA PageDropped == ASSUME PageInv, "unshare" \notin Overlaps, NEW t \in Spaces, M!DropPage(t) PROVE PageInv'
<1>1. /\ fault[t].at = "get" /\ cpu' = t /\ swap_bitmap' = swap_bitmap /\ used' = used /\ io' = io
      /\ fault' = fault /\ page' = page /\ swap' = swap /\ mine' = mine
  BY DEF M!DropPage, M!At, M!contents
<1>2. PICK x \in M!Victims : /\ ~entry[x[1]][x[2]].dirty /\ entry' = [entry EXCEPT ![x[1]][x[2]] = M!Zero]
                             /\ mem_map' = [mem_map EXCEPT ![entry[x[1]][x[2]].frame] = @ - 1]
  BY DEF M!DropPage
<1> DEFINE u == x[1]
           w == x[2]
<1>3. u \in Spaces /\ w \in M!Virtual /\ <<u, w>> \in M!Victims
  BY DEF M!Victims, M!Swappable, M!Entries
<1>4. entry' = Put(entry, u, w, M!Zero) /\ mem_map' = [mem_map EXCEPT ![entry[u][w].frame] = @ - 1]
  BY <1>2 DEF Put
<1> HIDE DEF u, w
<1>5. entry[u][w].frame # 0 /\ entry[u][w].nr = 0
  BY <1>3, VictimFacts
<1>6. M!Zero \in M!Entry /\ M!Zero.frame = 0 /\ M!Zero.nr = 0 /\ ~M!Zero.rw /\ ~M!Zero.dirty
  BY PlaceTypes DEF M!Zero, M!Entry
<1>7. entry \in Tables /\ fault \in Calls
  BY PageTypes DEF PageInv
<1>8. PutResult(entry, fault, u, w, M!Zero, entry')
  BY <1>3, <1>4, <1>6, <1>7, PutEntry
<1>9. entry' \in Tables /\ \A a \in Spaces, v \in M!Virtual : entry'[a][v] = IF a = u /\ v = w THEN M!Zero ELSE entry[a][v]
  BY <1>8 DEF PutResult
<1>10. Tally(Has(entry', fault'), mem_map', Alone(entry', fault'))
  <2>1. Tally(Has(entry, fault), mem_map, Alone(entry, fault))
    BY DEF PageInv
  <2>2. Tally(Has(Put(entry, u, w, M!Zero), fault), [mem_map EXCEPT ![entry[u][w].frame] = @ - 1],
              Alone(Put(entry, u, w, M!Zero), fault))
    BY ONLY <1>3, <1>5, <1>6, <1>7, <2>1, DropEntry
  <2> QED
    BY <1>1, <1>4, <2>2
<1>11. M!TypeOK'
  <2>1. mem_map' \in [M!Frames -> Nat]
    BY <1>10 DEF Tally
  <2> QED
    BY <1>1, <1>7, <1>9, <2>1, PageTypes, PageTypesNext DEF PageInv
<1>12. \A a \in Spaces, v \in M!Virtual : EntryOK(entry'[a][v])
  <2>1. EntryOK(M!Zero)
    BY <1>6 DEF EntryOK
  <2>2. \A a \in Spaces, v \in M!Virtual : EntryOK(entry[a][v])
    BY DEF PageInv
  <2> QED
    BY ONLY <2>1, <2>2, <1>9
<1>13. SlotsOK(entry', swap_bitmap')
  <2>1. \A a \in Spaces, v \in M!Virtual : entry'[a][v].nr = entry[a][v].nr
    BY <1>5, <1>6, <1>9
  <2> QED
    BY <1>1, <2>1, SlotsStay
<1>14. ASSUME NEW a \in Spaces PROVE FaultOK(a)'
  <2>1. fault[a].at \in {"user", "copy"} \/ entry'[a][fault[a].v] = entry[a][fault[a].v]
    BY <1>3, <1>9, VictimsFit
  <2>2. CASE fault[a].at \in {"user", "copy"}
    BY <1>1, <2>2, FitsAnyEntry DEF FaultOK
  <2>3. CASE entry'[a][fault[a].v] = entry[a][fault[a].v]
    BY <1>1, <2>3 DEF FaultOK, PageInv
  <2> QED
    BY <2>1, <2>2, <2>3
<1>15. ChildrenOK'
  <2>1. ChildrenOK
    BY DEF PageInv
  <2>2. ASSUME NEW d \in Spaces \ used, NEW v \in M!Virtual, \A a \in Spaces : fault[a].child = d => v \in fault[a].todo
        PROVE  entry'[d][v] = M!Zero
    BY <1>9, <2>1, <2>2 DEF ChildrenOK
  <2> QED
    BY <1>1, <2>1, <2>2 DEF ChildrenOK
<1>16. IoOK'
  BY <1>1 DEF PageInv, IoOK
<1> QED
  BY <1>10, <1>11, <1>12, <1>13, <1>14, <1>15, <1>16 DEF PageInv

\* try_to_swap_out() of a page that has been modified.
LEMMA PageSwapOut == ASSUME PageInv, "unshare" \notin Overlaps, NEW t \in Spaces, M!SwapOut(t) PROVE PageInv'
<1> DEFINE n == M!Min(swap_bitmap)
           z == M!Swapped(n)
<1>1. /\ fault[t].at = "get" /\ cpu' = NULL /\ swap_bitmap' = swap_bitmap \ {n} /\ used' = used /\ io' = Append(io, t)
      /\ mem_map' = mem_map /\ page' = page /\ swap' = swap /\ mine' = mine
  BY DEF M!SwapOut, M!At, M!Leave, M!contents
<1>2. PICK x \in M!Victims : /\ entry[x[1]][x[2]].dirty /\ entry' = [entry EXCEPT ![x[1]][x[2]] = z]
                             /\ fault' = [fault EXCEPT ![t] = [fault[t] EXCEPT !.at = "write", !.new = entry[x[1]][x[2]].frame, !.nr = n]]
  BY DEF M!SwapOut, M!Leave
<1> DEFINE u == x[1]
           w == x[2]
           k == [fault[t] EXCEPT !.at = "write", !.new = entry[u][w].frame, !.nr = n]
<1>3. u \in Spaces /\ w \in M!Virtual /\ <<u, w>> \in M!Victims
  BY DEF M!Victims, M!Swappable, M!Entries
<1>4. entry' = Put(entry, u, w, z) /\ fault' = [fault EXCEPT ![t] = k] /\ entry[u][w].dirty
  BY <1>2 DEF Put
<1> HIDE DEF u, w
<1>5. entry[u][w].frame # 0 /\ entry[u][w].nr = 0 /\ mem_map[entry[u][w].frame] = 1 /\ swap_bitmap # {} /\ entry[u][w] \in M!Entry
  BY <1>3, <1>4, VictimFacts
<1>6. n \in swap_bitmap /\ n \in 1 .. NrSwap /\ swap_bitmap \subseteq 1 .. NrSwap
  <2>1. swap_bitmap \subseteq 1 .. NrSwap
    BY PageTypes DEF PageInv
  <2> QED
    BY <1>5, <2>1, FirstSlot
<1> HIDE DEF n
<1>7. z \in M!Entry /\ z.frame = 0 /\ z.nr = n /\ ~z.rw /\ ~z.dirty
  <2>1. M!Zero \in M!Entry /\ M!Zero.frame = 0 /\ ~M!Zero.rw /\ ~M!Zero.dirty /\ n \in 0 .. NrSwap
    BY <1>6, PlaceTypes DEF M!Zero, M!Entry
  <2> QED
    BY ONLY <2>1 DEF M!Swapped, M!Entry, z
<1> HIDE DEF z
<1>8. entry \in Tables /\ fault \in Calls /\ fault[t] \in M!Call /\ fault[t].new = 0 /\ fault[t].nr = 0
  BY <1>1, GetFacts, PageTypes DEF PageInv
<1>9. /\ k \in M!Call /\ k.at = "write" /\ k.new = entry[u][w].frame /\ k.nr = n /\ k.op = fault[t].op /\ k.v = fault[t].v
      /\ k.frame = fault[t].frame /\ k.child = fault[t].child /\ k.todo = fault[t].todo
  <2>1. n \in 0 .. NrSwap /\ entry[u][w].frame \in M!Frames \cup {0}
    BY <1>5, <1>6, PlaceTypes DEF M!Entry
  <2> QED
    BY <1>8, <2>1 DEF M!Call
<1> HIDE DEF k
<1>10. PutResult(entry, fault, u, w, z, entry')
  BY <1>3, <1>4, <1>7, <1>8, PutEntry
<1>11. entry' \in Tables /\ \A a \in Spaces, v \in M!Virtual : entry'[a][v] = IF a = u /\ v = w THEN z ELSE entry[a][v]
  BY <1>10 DEF PutResult
<1>12. CallResult(entry, fault, t, k, fault')
  BY <1>4, <1>8, <1>9, PutFault
<1>13. fault' \in Calls /\ \A a \in Spaces : fault'[a] = IF a = t THEN k ELSE fault[a]
  BY <1>12 DEF CallResult
<1>14. Tally(Has(entry', fault'), mem_map', Alone(entry', fault'))
  <2>1. Tally(Has(entry, fault), mem_map, Alone(entry, fault))
    BY DEF PageInv
  <2>2. k.new = entry[u][w].frame /\ k.new # 0 /\ mem_map[k.new] = 1
    BY <1>5, <1>9
  <2>3. t \in Spaces /\ k \in M!Call
    BY <1>9
  <2>4. Tally(Has(Put(entry, u, w, z), [fault EXCEPT ![t] = k]), mem_map, Alone(Put(entry, u, w, z), [fault EXCEPT ![t] = k]))
    BY ONLY <1>3, <1>7, <1>8, <2>1, <2>2, <2>3, LeavePage
  <2> QED
    BY <1>1, <1>4, <2>4
<1>15. M!TypeOK'
  <2>1. mem_map' \in [M!Frames -> Nat]
    BY <1>14 DEF Tally
  <2>2. IoOK'
    BY <1>1, <1>4, <1>9, IoGrows
  <2>3. \A i \in DOMAIN io' : io'[i] \in Spaces
    <3>1. io' \in Seq(Spaces) /\ DOMAIN io' = 1 .. Len(io')
      BY <2>2, LenProperties DEF IoOK
    <3> QED
      BY <3>1, ElementOfSeq
  <2>4. swap_bitmap' \subseteq 1 .. NrSwap /\ cpu' \in Spaces \cup {NULL}
    BY <1>1, <1>6
  <2> QED
    BY <1>1, <1>11, <1>13, <2>1, <2>3, <2>4, PageTypes, PageTypesNext DEF PageInv
<1>16. \A a \in Spaces, v \in M!Virtual : EntryOK(entry'[a][v])
  <2>1. EntryOK(z)
    BY <1>7 DEF EntryOK
  <2>2. \A a \in Spaces, v \in M!Virtual : EntryOK(entry[a][v])
    BY DEF PageInv
  <2> QED
    BY ONLY <2>1, <2>2, <1>11
<1>17. SlotsOK(entry', swap_bitmap')
  <2>1. SlotsOK(entry, swap_bitmap)
    BY DEF PageInv
  <2>2. \A a \in Spaces, v \in M!Virtual : entry'[a][v].nr = IF a = u /\ v = w THEN n ELSE entry[a][v].nr
    BY <1>7, <1>11
  <2>3. \A a \in Spaces, v \in M!Virtual : entry[a][v].nr # n
    BY <1>6, <2>1, PlaceTypes DEF SlotsOK
  <2>4. ASSUME NEW a \in Spaces, NEW v \in M!Virtual, entry'[a][v].nr # 0 PROVE entry'[a][v].nr \notin swap_bitmap'
    BY <1>1, <2>1, <2>2, <2>4 DEF SlotsOK
  <2>5. ASSUME NEW a \in Spaces, NEW b \in Spaces, NEW v \in M!Virtual, NEW y \in M!Virtual,
               entry'[a][v].nr # 0, entry'[a][v].nr = entry'[b][y].nr
        PROVE  a = b /\ v = y
    BY <2>1, <2>2, <2>3, <2>5 DEF SlotsOK
  <2>6. ASSUME NEW i \in 1 .. NrSwap, i \notin swap_bitmap' PROVE \E a \in Spaces, v \in M!Virtual : entry'[a][v].nr = i
    <3>1. CASE i = n
      BY <1>3, <2>2, <3>1
    <3>2. CASE i # n
      <4>1. i \notin swap_bitmap
        BY <1>1, <2>6, <3>2
      <4>2. PICK a \in Spaces, v \in M!Virtual : entry[a][v].nr = i
        BY <2>1, <4>1 DEF SlotsOK
      <4>3. i # 0
        BY PlaceTypes
      <4>4. ~(a = u /\ v = w)
        BY <1>5, <4>2, <4>3
      <4> QED
        BY <2>2, <4>2, <4>4
    <3> QED
      BY <3>1, <3>2
  <2> QED
    BY <2>4, <2>5, <2>6 DEF SlotsOK
<1>18. \A a \in Spaces : fault[a].at \in {"user", "copy"} \/ entry'[a][fault[a].v] = entry[a][fault[a].v]
  BY <1>3, <1>11, VictimsFit
<1>19. Fits(t, k, entry'[t][k.v], used)
  <2>1. Fits(t, fault[t], entry[t][fault[t].v], used)
    BY <1>1, GetFacts
  <2>2. entry'[t][k.v] = entry[t][fault[t].v]
    BY <1>1, <1>9, <1>18
  <2>3. k.new # 0 /\ k.nr # 0
    BY <1>5, <1>6, <1>9, PlaceTypes
  <2> QED
    BY ONLY <1>1, <1>9, <2>1, <2>2, <2>3 DEF Fits
<1>20. \A a \in Spaces : FaultOK(a)'
  BY <1>1, <1>4, <1>9, <1>18, <1>19, OthersFit
<1>21. ChildrenOK'
  <2>1. \A c \in Spaces \ used, v \in M!Virtual : entry'[c][v] = entry[c][v] \/ entry[c][v] # M!Zero
    BY <1>5, <1>11 DEF M!Zero
  <2> QED
    BY <1>1, <1>4, <1>9, <2>1, ChildrenStay
<1>22. IoOK'
  BY <1>1, <1>4, <1>9, IoGrows
<1> QED
  BY <1>14, <1>15, <1>16, <1>17, <1>20, <1>21, <1>22 DEF PageInv

\* A task enters its new page: in memory instead of the page it had, in the
\* swap device or nowhere.
LEMMA PageEntered ==
  ASSUME PageInv, NEW t \in Spaces, NEW n \in M!Entry, fault[t].at \in {"got", "load", "done"},
         fault[t].op \in {"empty", "load", "in"}, n.frame = fault[t].new, n.nr = 0,
         entry' = Put(entry, t, fault[t].v, n), fault' = [fault EXCEPT ![t] = M!User], cpu' = NULL,
         swap_bitmap' = swap_bitmap \cup ({fault[t].nr} \ {0}), fault[t].op = "in" => fault[t].at = "done",
         mem_map' = mem_map, used' = used, io' = io, page' = page, swap' = swap, mine' = mine
  PROVE  PageInv'
<1> DEFINE v == fault[t].v
<1>1. entry \in Tables /\ fault \in Calls /\ fault[t] \in M!Call
  BY PageTypes DEF PageInv, Calls
<1>2. FaultOK(t) /\ M!User.child = NULL /\ M!User.todo = {} /\ M!User.new = 0
  BY DEF PageInv, M!User
<1>3. /\ v \in M!Virtual /\ fault[t].new # 0 /\ t \in used /\ fault[t].child = NULL
      /\ fault[t].op \in {"load", "empty"} => entry[t][v] = M!Zero
      /\ fault[t].op = "in" => entry[t][v].nr # 0 /\ fault[t].nr = entry[t][v].nr
      /\ fault[t].op # "in" => fault[t].nr = 0
  BY <1>2 DEF FaultOK, Fits
<1> HIDE DEF v
<1>4. entry[t][v].frame = 0 /\ fault[t].nr = entry[t][v].nr
  <2>1. EntryOK(entry[t][v])
    BY <1>3 DEF PageInv
  <2> QED
    BY <1>3, <2>1 DEF EntryOK, M!Zero
<1>5. PutResult(entry, fault, t, v, n, entry')
  BY <1>1, <1>3, PutEntry DEF v
<1>6. entry' \in Tables /\ \A a \in Spaces, w \in M!Virtual : entry'[a][w] = IF a = t /\ w = v THEN n ELSE entry[a][w]
  BY <1>5 DEF PutResult
<1>7. CallResult(entry, fault, t, M!User, fault')
  BY <1>1, UserType, PutFault
<1>8. fault' \in Calls /\ \A a \in Spaces : fault'[a] = IF a = t THEN M!User ELSE fault[a]
  BY <1>7 DEF CallResult
<1>9. Tally(Has(entry', fault'), mem_map', Alone(entry', fault'))
  <2>1. Tally(Has(entry, fault), mem_map, Alone(entry, fault))
    BY DEF PageInv
  <2>2. Tally(Has(Put(entry, t, v, n), [fault EXCEPT ![t] = M!User]), mem_map, Alone(Put(entry, t, v, n), [fault EXCEPT ![t] = M!User]))
    BY <1>1, <1>2, <1>3, <1>4, <2>1, UserType, EnterPage
  <2> QED
    BY <2>2 DEF v
<1>10. swap_bitmap' \subseteq 1 .. NrSwap
  <2>1. swap_bitmap \subseteq 1 .. NrSwap
    BY PageTypes DEF PageInv
  <2>2. fault[t].nr \in 0 .. NrSwap
    BY <1>1 DEF M!Call
  <2> QED
    BY <2>1, <2>2, PlaceTypes
<1>11. M!TypeOK'
  <2>1. mem_map' \in [M!Frames -> Nat]
    BY <1>9 DEF Tally
  <2> QED
    BY <1>6, <1>8, <1>10, <2>1, PageTypes, PageTypesNext DEF PageInv
<1>12. \A a \in Spaces, w \in M!Virtual : EntryOK(entry'[a][w])
  <2>1. EntryOK(n)
    BY <1>3 DEF EntryOK
  <2>2. \A a \in Spaces, w \in M!Virtual : EntryOK(entry[a][w])
    BY DEF PageInv
  <2> QED
    BY ONLY <2>1, <2>2, <1>6
<1>13. SlotsOK(entry', swap_bitmap')
  <2>1. SlotsOK(entry, swap_bitmap)
    BY DEF PageInv
  <2>2. ASSUME NEW a \in Spaces, NEW w \in M!Virtual, entry'[a][w].nr # 0
        PROVE  ~(a = t /\ w = v) /\ entry'[a][w] = entry[a][w]
    BY <1>6, <2>2
  <2>3. ASSUME NEW a \in Spaces, NEW w \in M!Virtual, entry'[a][w].nr # 0 PROVE entry'[a][w].nr \notin swap_bitmap'
    <3>1. ~(a = t /\ w = v) /\ entry'[a][w] = entry[a][w] /\ entry[a][w].nr # 0
      BY <2>2, <2>3
    <3>2. entry[a][w].nr \notin swap_bitmap /\ entry[a][w].nr # entry[t][v].nr
      BY <1>3, <2>1, <3>1 DEF SlotsOK
    <3> QED
      BY <1>4, <3>1, <3>2
  <2>4. ASSUME NEW a \in Spaces, NEW b \in Spaces, NEW w \in M!Virtual, NEW y \in M!Virtual,
               entry'[a][w].nr # 0, entry'[a][w].nr = entry'[b][y].nr
        PROVE  a = b /\ w = y
    <3>1. entry'[a][w] = entry[a][w] /\ entry'[b][y] = entry[b][y]
      BY <2>2, <2>4
    <3> QED
      BY <2>1, <2>4, <3>1 DEF SlotsOK
  <2>5. ASSUME NEW i \in 1 .. NrSwap, i \notin swap_bitmap' PROVE \E a \in Spaces, w \in M!Virtual : entry'[a][w].nr = i
    <3>0. i # 0
      BY PlaceTypes
    <3>1. i \notin swap_bitmap /\ i # fault[t].nr
      BY <2>5, <3>0
    <3>2. PICK a \in Spaces, w \in M!Virtual : entry[a][w].nr = i
      BY <2>1, <3>1 DEF SlotsOK
    <3>3. ~(a = t /\ w = v)
      BY <1>4, <3>1, <3>2
    <3> QED
      BY <1>6, <3>2, <3>3
  <2> QED
    BY <2>3, <2>4, <2>5 DEF SlotsOK
<1>14. \A a \in Spaces : FaultOK(a)'
  <2>1. Fits(t, M!User, entry'[t][M!User.v], used)
    BY UserFits
  <2>2. ASSUME NEW a \in Spaces \ {t}, fault[a].at \notin {"user", "copy"} PROVE entry'[a][fault[a].v] = entry[a][fault[a].v]
    <3>1. fault[a].v \in M!Virtual
      BY <2>2 DEF PageInv, FaultOK, Fits
    <3> QED
      BY <1>6, <3>1
  <2> QED
    BY <2>1, <2>2, UserType, OthersFit
<1>15. ChildrenOK'
  <2>1. ChildrenOK /\ NULL \notin Spaces
    BY PageAssumption DEF PageInv
  <2>2. ASSUME NEW a \in Spaces, NEW b \in Spaces, fault'[a].child # NULL, fault'[a].child = fault'[b].child
        PROVE  a = b
    BY <1>2, <1>8, <2>1, <2>2 DEF ChildrenOK
  <2>3. ASSUME NEW d \in Spaces \ used, NEW w \in M!Virtual,
               \A a \in Spaces : fault'[a].child = d => w \in fault'[a].todo
        PROVE  entry'[d][w] = M!Zero
    <3>1. \A a \in Spaces : fault[a].child = d => w \in fault[a].todo
      BY <1>3, <1>8, <2>1, <2>3
    <3>2. d # t
      BY <1>3
    <3> QED
      BY <1>6, <2>1, <3>1, <3>2 DEF ChildrenOK
  <2> QED
    BY <2>2, <2>3 DEF ChildrenOK
<1>16. IoOK'
  BY UserType, IoStays
<1> QED
  BY <1>9, <1>11, <1>12, <1>13, <1>14, <1>15, <1>16 DEF PageInv

\* An entry with a new page, ...
LEMMA PresentType ==
  ASSUME NEW f \in M!Frames \cup {0}, NEW d \in BOOLEAN
  PROVE  M!Present(f, d) \in M!Entry /\ M!Present(f, d).frame = f /\ M!Present(f, d).nr = 0 /\ M!Present(f, d).dirty = d /\ M!Present(f, d).rw
<1>1. 0 \in 0 .. NrSwap
  BY PlaceTypes
<1> QED
  BY <1>1 DEF M!Present, M!Entry

\* ... which the task has.
LEMMA NewType == ASSUME PageInv, NEW t \in Spaces PROVE fault[t].new \in M!Frames \cup {0} /\ fault[t] \in M!Call
<1>1. fault[t] \in M!Call
  BY PageTypes DEF PageInv, Calls
<1> QED
  BY <1>1 DEF M!Call

\* get_empty_page() enters the page.
LEMMA PageEmptied == ASSUME PageInv, NEW t \in Spaces, M!EmptyPage(t) PROVE PageInv'
<1> DEFINE n == M!Present(fault[t].new, FALSE)
<1>1. /\ fault[t].at = "got" /\ fault[t].op = "empty" /\ entry' = Put(entry, t, fault[t].v, n)
      /\ fault' = [fault EXCEPT ![t] = M!User] /\ cpu' = NULL
      /\ mem_map' = mem_map /\ swap_bitmap' = swap_bitmap /\ used' = used /\ io' = io
      /\ page' = page /\ swap' = swap /\ mine' = mine
  BY DEF M!EmptyPage, M!At, M!Leave, Put, M!contents
<1>2. n \in M!Entry /\ n.frame = fault[t].new /\ n.nr = 0
  BY NewType, PresentType
<1> HIDE DEF n
<1>3. fault[t].nr = 0
  BY <1>1 DEF PageInv, FaultOK, Fits
<1>4. swap_bitmap' = swap_bitmap \cup ({fault[t].nr} \ {0})
  BY <1>1, <1>3
<1> QED
  BY <1>1, <1>2, <1>4, PageEntered

\* do_no_page() enters the page that bread_page() has read.
LEMMA PageLoaded == ASSUME PageInv, NEW t \in Spaces, M!Loaded(t) PROVE PageInv'
<1> DEFINE n == M!Present(fault[t].new, FALSE)
<1>1. /\ fault[t].at = "load" /\ entry' = Put(entry, t, fault[t].v, n)
      /\ fault' = [fault EXCEPT ![t] = M!User] /\ cpu' = NULL
      /\ mem_map' = mem_map /\ swap_bitmap' = swap_bitmap /\ used' = used /\ io' = io
      /\ page' = page /\ swap' = swap /\ mine' = mine
  BY DEF M!Loaded, M!At, M!Leave, Put, M!contents
<1>2. n \in M!Entry /\ n.frame = fault[t].new /\ n.nr = 0
  BY NewType, PresentType
<1> HIDE DEF n
<1>3. fault[t].nr = 0 /\ fault[t].op = "load"
  BY <1>1 DEF PageInv, FaultOK, Fits
<1>4. swap_bitmap' = swap_bitmap \cup ({fault[t].nr} \ {0})
  BY <1>1, <1>3
<1> QED
  BY <1>1, <1>2, <1>3, <1>4, PageEntered

\* do_no_page() sleeps in bread_page().
LEMMA PageLoads == ASSUME PageInv, NEW t \in Spaces, M!LoadPage(t) PROVE PageInv'
<1> DEFINE k == [fault[t] EXCEPT !.at = "load"]
<1>1. /\ fault[t].at = "got" /\ fault[t].op = "load" /\ fault' = [fault EXCEPT ![t] = k] /\ cpu' = NULL
      /\ entry' = entry /\ mem_map' = mem_map /\ swap_bitmap' = swap_bitmap /\ used' = used /\ io' = io
      /\ page' = page /\ swap' = swap /\ mine' = mine
  BY DEF M!LoadPage, M!At, M!Leave, M!contents
<1>2. fault[t] \in M!Call /\ Fits(t, fault[t], entry[t][fault[t].v], used)
  BY NewType DEF PageInv, FaultOK
<1>3. /\ k \in M!Call /\ k.at = "load" /\ k.new = fault[t].new /\ k.op = fault[t].op /\ k.v = fault[t].v
      /\ k.nr = fault[t].nr /\ k.frame = fault[t].frame /\ k.child = fault[t].child /\ k.todo = fault[t].todo
  BY <1>2 DEF M!Call
<1> HIDE DEF k
<1>4. Fits(t, k, entry[t][k.v], used)
  BY ONLY <1>1, <1>2, <1>3 DEF Fits
<1>5. IoOK'
  BY <1>1, <1>3, IoStays
<1>6. page' \in [M!Frames -> BOOLEAN] /\ swap' \in [1 .. NrSwap -> BOOLEAN] /\ mine' \in [Spaces -> SUBSET M!Virtual]
      /\ cpu' \in Spaces \cup {NULL} /\ \A i \in DOMAIN io' : io'[i] \in Spaces
  BY <1>1, PageTypes DEF PageInv
<1> QED
  BY <1>1, <1>3, <1>4, <1>5, <1>6, PageStepQuiet

\* A task sleeps in read_swap_page().
LEMMA PageReads == ASSUME PageInv, NEW t \in Spaces, M!ReadPage(t) PROVE PageInv'
<1> DEFINE k == [fault[t] EXCEPT !.at = "read", !.nr = entry[t][fault[t].v].nr]
<1>1. /\ fault[t].at = "got" /\ fault[t].op \in {"in", "fork"} /\ fault' = [fault EXCEPT ![t] = k] /\ cpu' = NULL
      /\ io' = Append(io, t)
      /\ entry' = entry /\ mem_map' = mem_map /\ swap_bitmap' = swap_bitmap /\ used' = used
      /\ page' = page /\ swap' = swap /\ mine' = mine
  BY DEF M!ReadPage, M!At, M!Leave, M!Mine, M!contents
<1>2. fault[t] \in M!Call /\ Fits(t, fault[t], entry[t][fault[t].v], used)
  BY NewType DEF PageInv, FaultOK
<1>3. fault[t].v \in M!Virtual /\ entry[t][fault[t].v].nr # 0
  BY <1>1, <1>2 DEF Fits
<1>4. entry[t][fault[t].v].nr \in 0 .. NrSwap
  <2>1. entry[t][fault[t].v] \in M!Entry
    BY <1>3, HasType, PageTypes DEF PageInv
  <2> QED
    BY <2>1 DEF M!Entry
<1>5. /\ k \in M!Call /\ k.at = "read" /\ k.new = fault[t].new /\ k.op = fault[t].op /\ k.v = fault[t].v
      /\ k.nr = entry[t][fault[t].v].nr /\ k.frame = fault[t].frame /\ k.child = fault[t].child /\ k.todo = fault[t].todo
  BY <1>2, <1>4 DEF M!Call
<1> HIDE DEF k
<1>6. Fits(t, k, entry[t][k.v], used)
  BY ONLY <1>1, <1>2, <1>3, <1>5 DEF Fits
<1>7. IoOK'
  BY <1>1, <1>5, IoGrows
<1>8. \A i \in DOMAIN io' : io'[i] \in Spaces
  <2>1. io' \in Seq(Spaces) /\ DOMAIN io' = 1 .. Len(io')
    BY <1>7, LenProperties DEF IoOK
  <2> QED
    BY <2>1, ElementOfSeq
<1>9. page' \in [M!Frames -> BOOLEAN] /\ swap' \in [1 .. NrSwap -> BOOLEAN] /\ mine' \in [Spaces -> SUBSET M!Virtual]
      /\ cpu' \in Spaces \cup {NULL}
  BY <1>1, PageTypes DEF PageInv
<1> QED
  BY <1>1, <1>5, <1>6, <1>7, <1>8, <1>9, PageStepQuiet

\* un_wp_page() has copied the page and lets the other one go.
LEMMA PageUnshared == ASSUME PageInv, NEW t \in Spaces, M!CopyPage(t) PROVE PageInv'
<1> DEFINE v == fault[t].v
           f == fault[t].frame
           n == M!Present(fault[t].new, FALSE)
           e1 == Put(entry, t, v, M!Zero)
<1>1. /\ fault[t].at = "got" /\ fault[t].op = "unshare" /\ mem_map' = [mem_map EXCEPT ![f] = @ - 1]
      /\ page' = [page EXCEPT ![fault[t].new] = page[f]] /\ entry' = Put(entry, t, v, n)
      /\ fault' = [fault EXCEPT ![t] = M!User] /\ cpu' = NULL
      /\ swap_bitmap' = swap_bitmap /\ used' = used /\ io' = io /\ swap' = swap /\ mine' = mine
  BY DEF M!CopyPage, M!At, M!Leave, Put
<1>2. n \in M!Entry /\ n.frame = fault[t].new /\ n.nr = 0
  BY NewType, PresentType
<1> HIDE DEF n
<1>3. entry \in Tables /\ fault \in Calls /\ fault[t] \in M!Call
  BY PageTypes DEF PageInv, Calls
<1>4. FaultOK(t) /\ M!User.child = NULL /\ M!User.todo = {} /\ M!User.new = 0
  BY DEF PageInv, M!User
<1>5. v \in M!Virtual /\ fault[t].new # 0 /\ t \in used /\ fault[t].child = NULL /\ entry[t][v].frame = f /\ f # 0
  BY <1>1, <1>4 DEF FaultOK, Fits
<1>6. fault[t].new \in M!Frames /\ page \in [M!Frames -> BOOLEAN] /\ f \in M!Frames
  BY <1>3, <1>5, PageTypes DEF PageInv, M!Call
<1> HIDE DEF v, f
<1>7. entry[t][v].nr = 0
  <2>1. EntryOK(entry[t][v])
    BY <1>5 DEF PageInv
  <2> QED
    BY <1>5, <2>1 DEF EntryOK
<1>8. M!Zero \in M!Entry /\ M!Zero.frame = 0 /\ ~M!Zero.rw
  BY PlaceTypes DEF M!Zero, M!Entry
<1>9. e1 \in Tables /\ e1[t][v] = M!Zero /\ entry' = Put(e1, t, v, n)
  <2>1. PutResult(entry, fault, t, v, M!Zero, e1)
    BY <1>3, <1>5, <1>8, PutEntry
  <2>2. e1 \in Tables /\ e1[t][v] = M!Zero
    BY <1>5, <2>1 DEF PutResult
  <2>3. Put(e1, t, v, n) = Put(entry, t, v, n)
    BY <1>3, <1>5 DEF Put, Tables
  <2> QED
    BY <1>1, <2>2, <2>3
<1>10. PutResult(entry, fault, t, v, n, entry')
  BY <1>1, <1>2, <1>3, <1>5, PutEntry
<1>11. entry' \in Tables /\ \A a \in Spaces, w \in M!Virtual : entry'[a][w] = IF a = t /\ w = v THEN n ELSE entry[a][w]
  BY <1>10 DEF PutResult
<1>12. CallResult(entry, fault, t, M!User, fault')
  BY <1>1, <1>3, UserType, PutFault
<1>13. fault' \in Calls /\ \A a \in Spaces : fault'[a] = IF a = t THEN M!User ELSE fault[a]
  BY <1>12 DEF CallResult
<1>14. Tally(Has(entry', fault'), mem_map', Alone(entry', fault'))
  <2>1. Tally(Has(entry, fault), mem_map, Alone(entry, fault))
    BY DEF PageInv
  <2>2. entry[t][v].frame # 0
    BY <1>5
  <2>3. Tally(Has(Put(entry, t, v, M!Zero), fault), [mem_map EXCEPT ![entry[t][v].frame] = @ - 1], Alone(Put(entry, t, v, M!Zero), fault))
    BY ONLY t \in Spaces, <1>3, <1>5, <1>8, <2>1, <2>2, DropEntry
  <2>4. mem_map' = [mem_map EXCEPT ![entry[t][v].frame] = @ - 1]
    BY <1>1, <1>5
  <2>5. Tally(Has(e1, fault), mem_map', Alone(e1, fault))
    BY <2>3, <2>4
  <2>6. e1[t][v].frame = 0 /\ n.frame # 0
    BY <1>2, <1>5, <1>8, <1>9
  <2>7. e1 \in Tables
    BY <1>9
  <2> HIDE DEF e1
  <2>8. Tally(Has(Put(e1, t, v, n), [fault EXCEPT ![t] = M!User]), mem_map', Alone(Put(e1, t, v, n), [fault EXCEPT ![t] = M!User]))
    BY ONLY t \in Spaces, <1>2, <1>3, <1>4, <1>5, <2>5, <2>6, <2>7, UserType, EnterPage
  <2> QED
    BY <1>1, <1>9, <2>8 DEF e1
<1>15. M!TypeOK'
  <2>1. mem_map' \in [M!Frames -> Nat]
    BY <1>14 DEF Tally
  <2>2. page' \in [M!Frames -> BOOLEAN]
    BY <1>1, <1>6
  <2> QED
    BY <1>1, <1>11, <1>13, <2>1, <2>2, PageTypes, PageTypesNext DEF PageInv
<1>16. \A a \in Spaces, w \in M!Virtual : EntryOK(entry'[a][w])
  <2>1. EntryOK(n)
    BY <1>2, <1>5 DEF EntryOK
  <2>2. \A a \in Spaces, w \in M!Virtual : EntryOK(entry[a][w])
    BY DEF PageInv
  <2> QED
    BY ONLY <2>1, <2>2, <1>11
<1>17. SlotsOK(entry', swap_bitmap')
  <2>1. \A a \in Spaces, w \in M!Virtual : entry'[a][w].nr = entry[a][w].nr
    BY <1>2, <1>7, <1>11
  <2> QED
    BY <1>1, <2>1, SlotsStay
<1>18. \A a \in Spaces : FaultOK(a)'
  <2>1. Fits(t, M!User, entry'[t][M!User.v], used)
    BY UserFits
  <2>2. ASSUME NEW a \in Spaces \ {t}, fault[a].at \notin {"user", "copy"} PROVE entry'[a][fault[a].v] = entry[a][fault[a].v]
    <3>1. fault[a].v \in M!Virtual
      BY <2>2 DEF PageInv, FaultOK, Fits
    <3> QED
      BY <1>11, <3>1
  <2> QED
    BY <1>1, <2>1, <2>2, UserType, OthersFit
<1>19. ChildrenOK'
  <2>1. ChildrenOK /\ NULL \notin Spaces
    BY PageAssumption DEF PageInv
  <2>2. ASSUME NEW a \in Spaces, NEW b \in Spaces, fault'[a].child # NULL, fault'[a].child = fault'[b].child
        PROVE  a = b
    BY <1>4, <1>13, <2>1, <2>2 DEF ChildrenOK
  <2>3. ASSUME NEW d \in Spaces \ used, NEW w \in M!Virtual,
               \A a \in Spaces : fault'[a].child = d => w \in fault'[a].todo
        PROVE  entry'[d][w] = M!Zero
    <3>1. \A a \in Spaces : fault[a].child = d => w \in fault[a].todo
      BY <1>5, <1>13, <2>1, <2>3
    <3>2. d # t
      BY <1>5
    <3> QED
      BY <1>11, <2>1, <3>1, <3>2 DEF ChildrenOK
  <2> QED
    BY <1>1, <2>2, <2>3 DEF ChildrenOK
<1>20. IoOK'
  BY <1>1, UserType, IoStays
<1> QED
  BY <1>14, <1>15, <1>16, <1>17, <1>18, <1>19, <1>20 DEF PageInv

\* The page is back in memory for the parent, and its copy in the swap device
\* is the child's.
LEMMA PageCopiedIn ==
  ASSUME PageInv, NEW t \in Spaces, fault[t].at = "done", fault[t].op = "fork", NEW n \in M!Entry, NEW k \in M!Call,
         n.frame = fault[t].new, n.nr = 0,
         k.op = "fork", k.at = "copy", k.new = 0, k.nr = 0, k.child = fault[t].child, k.todo = fault[t].todo \ {fault[t].v},
         entry' = Put(Put(entry, t, fault[t].v, n), fault[t].child, fault[t].v, entry[t][fault[t].v]),
         fault' = [fault EXCEPT ![t] = k], cpu' = t, swap_bitmap' = swap_bitmap,
         mem_map' = mem_map, used' = used, io' = io, page' = page, swap' = swap, mine' = mine
  PROVE  PageInv'
<1> DEFINE v == fault[t].v
           c == fault[t].child
           z == entry[t][v]
           e1 == Put(entry, t, v, n)
<1>1. entry \in Tables /\ fault \in Calls /\ fault[t] \in M!Call
  BY PageTypes DEF PageInv, Calls
<1>2. FaultOK(t) /\ ChildrenOK /\ NULL \notin Spaces
  BY PageAssumption DEF PageInv
<1>3. /\ v \in M!Virtual /\ fault[t].new # 0 /\ t \in used /\ c \in Spaces \ used /\ v \in fault[t].todo /\ z.nr # 0
  BY <1>2 DEF FaultOK, Fits
<1>4. k.child = c /\ k.todo = fault[t].todo \ {v} /\ t # c
  BY <1>3
<1>5. entry[c][v] = M!Zero /\ M!Zero.frame = 0 /\ M!Zero.nr = 0
  <2>1. \A a \in Spaces : fault[a].child = c => a = t
    BY <1>2, <1>3 DEF ChildrenOK
  <2>2. entry[c][v] = M!Zero
    BY <1>2, <1>3, <2>1 DEF ChildrenOK
  <2> QED
    BY <2>2 DEF M!Zero
<1>6. z \in M!Entry /\ EntryOK(z)
  BY <1>1, <1>3, HasType DEF PageInv
<1>7. z.frame = 0 /\ ~z.rw
  BY <1>3, <1>6 DEF EntryOK
<1>8. entry' = Put(e1, c, v, z)
  OBVIOUS
<1> HIDE DEF v, c, z
<1>9. PutResult(entry, fault, t, v, n, e1)
  BY <1>1, <1>3, PutEntry
<1>10. e1 \in Tables /\ \A a \in Spaces, w \in M!Virtual : e1[a][w] = IF a = t /\ w = v THEN n ELSE entry[a][w]
  BY <1>9 DEF PutResult
<1>11. CallResult(entry, fault, t, k, fault')
  BY <1>1, PutFault
<1>12. fault' \in Calls /\ \A a \in Spaces : fault'[a] = IF a = t THEN k ELSE fault[a]
  BY <1>11 DEF CallResult
<1>13. Tally(Has(e1, fault'), mem_map, Alone(e1, fault'))
  <2>1. Tally(Has(entry, fault), mem_map, Alone(entry, fault))
    BY DEF PageInv
  <2>2. n.frame # 0 /\ entry[t][v].frame = 0
    BY <1>3, <1>7 DEF z
  <2>3. Tally(Has(Put(entry, t, v, n), [fault EXCEPT ![t] = k]), mem_map, Alone(Put(entry, t, v, n), [fault EXCEPT ![t] = k]))
    BY <1>1, <1>3, <2>1, <2>2, EnterPage
  <2> QED
    BY <2>3
<1> HIDE DEF e1
<1>14. PutResult(e1, fault', c, v, z, entry')
  BY <1>3, <1>6, <1>8, <1>10, <1>12, PutEntry
<1>15. entry' \in Tables /\ \A a \in Spaces, w \in M!Virtual :
                              entry'[a][w] = IF w = v /\ a = c THEN z ELSE IF w = v /\ a = t THEN n ELSE entry[a][w]
  <2>1. entry' \in Tables /\ \A a \in Spaces, w \in M!Virtual : entry'[a][w] = IF a = c /\ w = v THEN z ELSE e1[a][w]
    BY <1>14 DEF PutResult
  <2> QED
    BY <1>10, <2>1
<1>16. Tally(Has(entry', fault'), mem_map', Alone(entry', fault'))
  <2> DEFINE H == Has(e1, fault')
             s == Alone(e1, fault')
             s2 == Alone(entry', fault')
  <2>1. Has(entry', fault') = [H EXCEPT ![<<c, v>>] = 0] /\ s2 \subseteq s
    BY <1>7, <1>14 DEF PutResult
  <2>2. e1[c][v].frame = 0
    BY <1>3, <1>4, <1>5, <1>10
  <2>3. H \in [Places -> Frames0] /\ H[<<c, v>>] = 0 /\ s2 \in SUBSET Places /\ <<c, v>> \in Places
    <3>1. c \in Spaces /\ v \in M!Virtual
      BY <1>3
    <3>2. e1 \in Tables /\ entry' \in Tables /\ fault' \in Calls
      BY <1>10, <1>12, <1>15
    <3>3. H \in [Places -> Frames0] /\ H[<<c, v>>] = e1[c][v].frame
      BY ONLY <3>1, <3>2, HasType
    <3>4. s2 \in SUBSET Places
      BY ONLY <3>2, HasType
    <3>5. <<c, v>> \in Places
      BY <3>1, PlaceTypes
    <3> QED
      BY <2>2, <3>3, <3>4, <3>5
  <2> HIDE DEF H, s, s2
  <2>4. Has(entry', fault') = H
    BY <2>1, <2>3
  <2>5. Tally(H, mem_map, s2)
    BY <1>13, <2>1, <2>3, MayWrite DEF H, s
  <2> QED
    BY <2>4, <2>5 DEF s2
<1>17. M!TypeOK'
  <2>1. mem_map' \in [M!Frames -> Nat]
    BY <1>16 DEF Tally
  <2> QED
    BY <1>12, <1>15, <2>1, PageTypes, PageTypesNext DEF PageInv
<1>18. \A a \in Spaces, w \in M!Virtual : EntryOK(entry'[a][w])
  <2>1. EntryOK(n) /\ EntryOK(z)
    BY <1>3, <1>6 DEF EntryOK
  <2>2. \A a \in Spaces, w \in M!Virtual : EntryOK(entry[a][w])
    BY DEF PageInv
  <2> QED
    BY ONLY <2>1, <2>2, <1>15
<1>19. SlotsOK(entry', swap_bitmap')
  <2>1. SlotsOK(entry, swap_bitmap)
    BY DEF PageInv
  <2> DEFINE Owner(a, w) == IF a = c /\ w = v THEN t ELSE a
  <2>2. ASSUME NEW a \in Spaces, NEW w \in M!Virtual, entry'[a][w].nr # 0
        PROVE  Owner(a, w) \in Spaces /\ entry'[a][w].nr = entry[Owner(a, w)][w].nr /\ ~(a = t /\ w = v)
    <3>1. entry'[a][w] = IF w = v /\ a = c THEN z ELSE IF w = v /\ a = t THEN n ELSE entry[a][w]
      BY <1>15
    <3>2. CASE a = c /\ w = v
      BY <1>4, <3>1, <3>2 DEF z
    <3>3. CASE ~(a = c /\ w = v)
      BY <2>2, <3>1, <3>3
    <3> QED
      BY <3>2, <3>3
  <2>6. ASSUME NEW a \in Spaces, NEW b \in Spaces, NEW w \in M!Virtual, NEW y \in M!Virtual,
               ~(a = t /\ w = v), ~(b = t /\ y = v), Owner(a, w) = Owner(b, y), w = y
        PROVE  a = b
    BY <1>4, <2>6
  <2> HIDE DEF Owner
  <2>3. ASSUME NEW a \in Spaces, NEW w \in M!Virtual, entry'[a][w].nr # 0 PROVE entry'[a][w].nr \notin swap_bitmap'
    <3>1. Owner(a, w) \in Spaces /\ entry'[a][w].nr = entry[Owner(a, w)][w].nr
      BY <2>2, <2>3
    <3>2. entry[Owner(a, w)][w].nr \notin swap_bitmap
      BY ONLY <2>1, <2>3, <3>1, w \in M!Virtual DEF SlotsOK
    <3> QED
      BY <3>1, <3>2
  <2>4. ASSUME NEW a \in Spaces, NEW b \in Spaces, NEW w \in M!Virtual, NEW y \in M!Virtual,
               entry'[a][w].nr # 0, entry'[a][w].nr = entry'[b][y].nr
        PROVE  a = b /\ w = y
    <3>1. /\ Owner(a, w) \in Spaces /\ entry'[a][w].nr = entry[Owner(a, w)][w].nr /\ ~(a = t /\ w = v)
          /\ Owner(b, y) \in Spaces /\ entry'[b][y].nr = entry[Owner(b, y)][y].nr /\ ~(b = t /\ y = v)
      BY <2>2, <2>4
    <3>2. /\ entry[Owner(a, w)][w].nr # 0
          /\ entry[Owner(a, w)][w].nr = entry[Owner(b, y)][y].nr
      BY <2>4, <3>1
    <3>3. Owner(a, w) = Owner(b, y) /\ w = y
      BY ONLY <2>1, <3>1, <3>2, w \in M!Virtual, y \in M!Virtual DEF SlotsOK
    <3> QED
      BY <2>6, <3>1, <3>3, SMTT(30)
  <2>5. ASSUME NEW i \in 1 .. NrSwap, i \notin swap_bitmap' PROVE \E a \in Spaces, w \in M!Virtual : entry'[a][w].nr = i
    <3>1. PICK a \in Spaces, w \in M!Virtual : entry[a][w].nr = i
      BY <2>1, <2>5 DEF SlotsOK
    <3>2. i # 0
      BY PlaceTypes
    <3>3. CASE a = t /\ w = v
      BY <1>3, <1>15, <3>1, <3>3 DEF z
    <3>4. CASE ~(a = t /\ w = v)
      <4>1. ~(a = c /\ w = v)
        BY <1>5, <3>1, <3>2
      <4> QED
        BY <1>15, <3>1, <3>4, <4>1
    <3> QED
      BY <3>3, <3>4
  <2> QED
    BY ONLY <2>3, <2>4, <2>5 DEF SlotsOK
<1>20. \A a \in Spaces : FaultOK(a)'
  <2>1. Fits(t, k, entry'[t][k.v], used)
    BY <1>3, <1>4 DEF Fits
  <2>2. ASSUME NEW a \in Spaces \ {t}, fault[a].at \notin {"user", "copy"} PROVE entry'[a][fault[a].v] = entry[a][fault[a].v]
    <3>1. fault[a].v \in M!Virtual /\ a \in used
      BY <2>2 DEF PageInv, FaultOK, Fits
    <3> QED
      BY <1>3, <1>15, <3>1
  <2> QED
    BY <2>1, <2>2, OthersFit
<1>21. ChildrenOK'
  <2>2. ASSUME NEW a \in Spaces, NEW b \in Spaces, fault'[a].child # NULL, fault'[a].child = fault'[b].child
        PROVE  a = b
    BY <1>2, <1>12, <2>2 DEF ChildrenOK
  <2>3. ASSUME NEW d \in Spaces \ used, NEW w \in M!Virtual,
               \A a \in Spaces : fault'[a].child = d => w \in fault'[a].todo
        PROVE  entry'[d][w] = M!Zero
    <3>1. \A a \in Spaces : fault[a].child = d => w \in fault[a].todo
      BY <1>12, <2>3
    <3>2. entry[d][w] = M!Zero
      BY <1>2, <3>1 DEF ChildrenOK
    <3>3. d # t /\ ~(d = c /\ w = v)
      BY <1>3, <1>4, <1>12, <2>3
    <3> QED
      BY <1>15, <3>2, <3>3
  <2> QED
    BY <2>2, <2>3 DEF ChildrenOK
<1>22. IoOK'
  BY IoStays
<1> QED
  BY <1>16, <1>17, <1>18, <1>19, <1>20, <1>21, <1>22 DEF PageInv

\* swap_in() and the loop of copy_page_tables() have got the page.
LEMMA PageSwappedIn == ASSUME PageInv, NEW t \in Spaces, M!SwappedIn(t) PROVE PageInv'
<1> DEFINE v == fault[t].v
           n == M!Present(fault[t].new, TRUE)
           k == [fault[t] EXCEPT !.at = "copy", !.v = NULL, !.new = 0, !.nr = 0, !.todo = @ \ {v}]
<1>1. /\ fault[t].at = "done" /\ mem_map' = mem_map /\ used' = used /\ io' = io /\ page' = page /\ swap' = swap /\ mine' = mine
  BY DEF M!SwappedIn, M!At, M!contents
<1>2. \/ /\ fault[t].op = "in" /\ entry' = Put(entry, t, v, n) /\ swap_bitmap' = swap_bitmap \cup {fault[t].nr}
         /\ fault' = [fault EXCEPT ![t] = M!User] /\ cpu' = NULL
      \/ /\ fault[t].op = "fork" /\ entry' = Put(Put(entry, t, v, n), fault[t].child, v, entry[t][v])
         /\ fault' = [fault EXCEPT ![t] = k] /\ cpu' = t /\ swap_bitmap' = swap_bitmap
  BY DEF M!SwappedIn, M!Leave, M!Goto, Put
<1>3. n \in M!Entry /\ n.frame = fault[t].new /\ n.nr = 0
  BY NewType, PresentType
<1> HIDE DEF n
<1>4. CASE /\ fault[t].op = "in" /\ entry' = Put(entry, t, v, n) /\ swap_bitmap' = swap_bitmap \cup {fault[t].nr}
           /\ fault' = [fault EXCEPT ![t] = M!User] /\ cpu' = NULL
  <2>1. fault[t].nr # 0
    BY <1>1 DEF PageInv, FaultOK, Fits
  <2>2. swap_bitmap' = swap_bitmap \cup ({fault[t].nr} \ {0})
    BY <1>4, <2>1
  <2> QED
    BY <1>1, <1>3, <1>4, <2>2, PageEntered
<1>5. CASE /\ fault[t].op = "fork" /\ entry' = Put(Put(entry, t, v, n), fault[t].child, v, entry[t][v])
           /\ fault' = [fault EXCEPT ![t] = k] /\ cpu' = t /\ swap_bitmap' = swap_bitmap
  <2>1. fault[t] \in M!Call /\ 0 \in M!Frames \cup {0} /\ 0 \in 0 .. NrSwap
    BY NewType, PlaceTypes
  <2>2. /\ k \in M!Call /\ k.op = "fork" /\ k.at = "copy" /\ k.new = 0 /\ k.nr = 0 /\ k.child = fault[t].child
        /\ k.todo = fault[t].todo \ {v}
    BY ONLY <1>5, <2>1 DEF M!Call, k
  <2> HIDE DEF k
  <2> QED
    BY <1>1, <1>3, <1>5, <2>2, PageCopiedIn
<1> QED
  BY <1>2, <1>4, <1>5

\* Every step of the table of pages.
LEMMA PageStep == ASSUME PageInv, "unshare" \notin Overlaps, [M!Next]_mvars PROVE PageInv'
<1>1. CASE M!IoDone
  BY <1>1, PageIoDone
<1>2. ASSUME NEW t \in Spaces, NEW v \in M!Virtual, M!NoPage(t, v) \/ M!Write(t, v) \/ M!un_wp_page(t, v) PROVE PageInv'
  BY <1>2, PageNoPage, PageWrite, PageUnshare
<1>3. ASSUME NEW t \in Spaces,
             \/ M!exit(t) \/ M!fork(t) \/ M!CopyEntry(t) \/ M!GetPage(t) \/ M!DropPage(t)
             \/ M!SwapOut(t) \/ M!Written(t) \/ M!OutOfMemory(t)
      PROVE PageInv'
  BY <1>3, PageExit, PageFork, PageCopyEntry, PageGetPage, PageDropped, PageSwapOut, PageWritten, PageOutOfMemory
<1>4. ASSUME NEW t \in Spaces,
             \/ M!EmptyPage(t) \/ M!LoadPage(t) \/ M!Loaded(t) \/ M!CopyPage(t) \/ M!ReadPage(t) \/ M!SwappedIn(t)
      PROVE PageInv'
  BY <1>4, PageEmptied, PageLoads, PageLoaded, PageUnshared, PageReads, PageSwappedIn
<1>5. CASE UNCHANGED mvars
  <2>1. /\ entry' = entry /\ mem_map' = mem_map /\ swap_bitmap' = swap_bitmap /\ used' = used /\ cpu' = cpu /\ io' = io
        /\ fault' = fault /\ page' = page /\ swap' = swap /\ mine' = mine
    BY <1>5 DEF mvars
  <2> QED
    BY <2>1 DEF PageInv, M!TypeOK, FaultOK, ChildrenOK, IoOK
<1> QED
  BY <1>1, <1>2, <1>3, <1>4, <1>5 DEF M!Next

\* The places of a page are its entries and those who hold it.
LEMMA PageInvIsEnough == PageInv => M!PagesCounted
<1> SUFFICES ASSUME PageInv PROVE M!PagesCounted
  OBVIOUS
<1>1. entry \in Tables /\ fault \in Calls /\ swap_bitmap \subseteq 1 .. NrSwap
  BY PageTypes DEF PageInv
<1>2. ASSUME NEW f \in M!Frames
      PROVE  mem_map[f] = M!Cardinality({x \in M!Entries : entry[x[1]][x[2]].frame = f})
                          + M!Cardinality({t \in Spaces : fault[t].new = f})
  <2> DEFINE H == Has(entry, fault)
             A == {x \in M!Entries : entry[x[1]][x[2]].frame = f}
             B == {x \in Places : x[2] = NULL /\ H[x] = f}
             C == {t \in Spaces : fault[t].new = f}
  <2>1. mem_map[f] = Cardinality(With(H, f)) /\ IsFiniteSet(With(H, f))
    BY WithFinite DEF PageInv, Tally, Counts
  <2>2. A \subseteq With(H, f)
    <3> SUFFICES ASSUME NEW x \in A PROVE x \in With(H, f)
      OBVIOUS
    <3>1. x \in Places /\ x[2] # NULL /\ entry[x[1]][x[2]].frame = f
      BY PageAssumption DEF M!Entries, Places, M!Virtual
    <3>2. H[x] = f
      BY <3>1, HasIsFunction
    <3> QED
      BY <3>1, <3>2 DEF With
  <2>3. B = With(H, f) \ A
    <3> SUFFICES ASSUME NEW x \in Places PROVE x \in B <=> (H[x] = f /\ x \notin A)
      BY DEF With
    <3>1. CASE x[2] = NULL
      <4>1. x \notin A
        BY <3>1, PageAssumption DEF M!Entries, M!Virtual
      <4> QED
        BY <3>1, <4>1
    <3>2. CASE x[2] # NULL
      <4>1. x \in M!Entries /\ H[x] = entry[x[1]][x[2]].frame
        BY <3>2, PlaceTypes, HasIsFunction DEF M!Entries
      <4> QED
        BY <3>2, <4>1
    <3> QED
      BY <3>1, <3>2
  <2>4. Cardinality(B) = Cardinality(With(H, f)) - Cardinality(A)
    BY ONLY <2>1, <2>2, <2>3, SomeLess
  <2>5. Cardinality(B) = Cardinality(C)
    <3> DEFINE b == [x \in B |-> x[1]]
    <3>0. IsFiniteSet(B)
      BY PlacesFinite, FS_Subset
    <3>1. \A x \in Places : x[2] = NULL => H[x] = fault[x[1]].new /\ x[1] \in Spaces /\ x = <<x[1], NULL>>
      BY HasIsFunction, PlaceTypes
    <3>2. b \in [B -> C]
      BY <3>1
    <3>3. \A x, y \in B : b[x] = b[y] => x = y
      BY <3>1
    <3>4. ASSUME NEW t \in C PROVE \E x \in B : b[x] = t
      <4>1. <<t, NULL>> \in B
        BY <3>1, PlaceTypes
      <4> QED
        BY <4>1
    <3>5. b \in Bijection(B, C)
      BY <3>2, <3>3, <3>4 DEF Bijection, Injection, Surjection, IsInjective
    <3> QED
      BY <3>0, <3>5, FS_Bijection DEF ExistsBijection
  <2>6. Cardinality(A) \in Nat /\ Cardinality(With(H, f)) \in Nat
    BY <2>1, <2>2, FS_Subset, FS_CardinalityType
  <2> HIDE DEF H, A, B, C
  <2>7. mem_map[f] = Cardinality(A) + Cardinality(C)
    BY <2>1, <2>4, <2>5, <2>6
  <2> QED
    BY <2>7, PageCardinality DEF A, C
<1>3. ASSUME NEW n \in 1 .. NrSwap
      PROVE  LET owners == {x \in M!Entries : entry[x[1]][x[2]].nr = n}
             IN  IF n \in swap_bitmap THEN owners = {} ELSE M!Cardinality(owners) = 1
  <2> DEFINE owners == {x \in M!Entries : entry[x[1]][x[2]].nr = n}
  <2>1. SlotsOK(entry, swap_bitmap) /\ n # 0
    BY PlaceTypes DEF PageInv
  <2>2. \A x \in M!Entries : x[1] \in Spaces /\ x[2] \in M!Virtual /\ x = <<x[1], x[2]>>
    BY DEF M!Entries
  <2>3. CASE n \in swap_bitmap
    BY <2>1, <2>2, <2>3 DEF SlotsOK
  <2>4. CASE n \notin swap_bitmap
    <3>1. PICK a \in Spaces, w \in M!Virtual : entry[a][w].nr = n
      BY <2>1, <2>4 DEF SlotsOK
    <3>2. <<a, w>> \in owners
      BY <3>1 DEF M!Entries
    <3>3. \A x \in owners : x = <<a, w>>
      <4> SUFFICES ASSUME NEW x \in owners PROVE x = <<a, w>>
        OBVIOUS
      <4>1. x[1] \in Spaces /\ x[2] \in M!Virtual /\ x = <<x[1], x[2]>> /\ entry[x[1]][x[2]].nr = n
        BY <2>2
      <4>2. x[1] = a /\ x[2] = w
        BY <2>1, <3>1, <4>1 DEF SlotsOK
      <4> QED
        BY <4>1, <4>2
    <3>4. owners = {<<a, w>>}
      BY <3>2, <3>3
    <3>5. M!Cardinality(owners) = 1
      BY <3>4, FS_Singleton, PageCardinality
    <3> QED
      BY <2>4, <3>5
  <2> QED
    BY <2>3, <2>4
<1> QED
  BY <1>2, <1>3 DEF M!PagesCounted

\* mem_map[] counts the references to every page of memory, and a page of the
\* swap device is free or in one entry (Memory): for any numbers of address
\* spaces, of their pages, and of pages of memory and of the swap device.  An
\* entry that un_wp_page() is about to change must not be swapped out
\* meanwhile, which the code does not prevent (Overlaps).
THEOREM PagesAreCounted == ASSUME "unshare" \notin Overlaps PROVE TablesSpec => []PagesCounted
<1>1. TablesInit => PageInv
  BY PageStart DEF TablesInit
<1>2. PageInv /\ [TablesNext]_<<vars, pvars, svars, tvars, mvars, lvars, yvars, table>> => PageInv'
  BY EachTable, PageStep
<1>3. PageInv => PagesCounted
  BY PageInvIsEnough DEF PagesCounted
<1> QED
  BY <1>1, <1>2, <1>3, PTL DEF TablesSpec
-----------------------------------------------------------------------------
\* What an entry z of the page v tells: it has been modified if v is in own.
Fine(z, pg, v, own) ==
  /\ z.frame # 0 => (pg[z.frame] <=> v \in own)
  /\ z.nr # 0 => v \in own
  /\ z.frame = 0 /\ z.nr = 0 => v \notin own

\* Task a has to find in page v what b has left there: it is b, or its child,
\* for which the page has been copied.
Owned(a, v, b) ==
  \/ a \in used /\ b = a
  \/ fault[b].op = "fork" /\ a = fault[b].child /\ v \notin fault[b].todo
PagesKept ==
  \A a, b \in Spaces, v \in M!Virtual : Owned(a, v, b) => Fine(entry[a][v], page, v, mine[b])

\* Modified pages are marked, or were when they were written to the swap
\* device; a page that is read from there has been written or will be before.
DirtyOK == \A a \in Spaces, v \in M!Virtual : entry[a][v].dirty => page[entry[a][v].frame]
NewOK ==
  \A t \in Spaces : /\ fault[t].at \in {"write", "done"} => page[fault[t].new]
                    /\ fault[t].at \in {"got", "load"} => ~page[fault[t].new]
                    /\ fault[t].at \in {"write", "read"} => \E i \in 1 .. Len(io) : io[i] = t
Writes(u, n) == fault[u].at = "write" /\ fault[u].nr = n
SwapOK ==
  \A a \in Spaces, v \in M!Virtual :
    entry[a][v].nr # 0 => swap[entry[a][v].nr] \/ \E u \in Spaces : Writes(u, entry[a][v].nr)
Reads(i) == fault[io[i]].at = "read"
OrderOK ==
  \A i \in 1 .. Len(io) :
    Reads(i) => swap[fault[io[i]].nr] \/ \E j \in 1 .. i - 1 : Writes(io[j], fault[io[i]].nr)

ContentInv == PagesKept /\ DirtyOK /\ NewOK /\ SwapOK /\ OrderOK

\* At the start nothing has been modified.
LEMMA ContentStart == M!Init => ContentInv
<1> SUFFICES ASSUME M!Init PROVE ContentInv
  OBVIOUS
<1>1. \A a \in Spaces, v \in M!Virtual : entry[a][v] = M!Zero /\ mine[a] = {} /\ fault[a] = M!User
  BY DEF M!Init
<1>2. /\ M!Zero.frame = 0 /\ M!Zero.nr = 0 /\ ~M!Zero.dirty
      /\ M!User.op = "none" /\ M!User.at = "user"
  BY DEF M!Zero, M!User
<1>3. PagesKept
  BY <1>1, <1>2 DEF PagesKept, Owned, Fine
<1>4. DirtyOK /\ SwapOK
  BY <1>1, <1>2 DEF DirtyOK, SwapOK
<1>5. NewOK
  <2> SUFFICES ASSUME NEW t \in Spaces PROVE fault[t].at = "user"
    BY DEF NewOK
  <2> QED
    BY <1>2 DEF M!Init
<1>6. OrderOK
  BY DEF OrderOK, M!Init
<1> QED
  BY <1>3, <1>4, <1>5, <1>6 DEF ContentInv

\* The types.
LEMMA ContentTypes ==
  ASSUME PageInv
  PROVE  /\ \A a \in Spaces, v \in M!Virtual :
              /\ entry[a][v] \in M!Entry /\ EntryOK(entry[a][v])
              /\ entry[a][v].frame \in M!Frames \cup {0} /\ entry[a][v].nr \in 0 .. NrSwap
         /\ \A a \in Spaces : fault[a] \in M!Call /\ FaultOK(a)
         /\ entry \in Tables /\ fault \in Calls /\ used \subseteq Spaces /\ NULL \notin Spaces
         /\ page \in [M!Frames -> BOOLEAN] /\ mine \in [Spaces -> SUBSET M!Virtual]
         /\ swap \in [1 .. NrSwap -> BOOLEAN]
         /\ Len(io) \in Nat /\ \A i \in 1 .. Len(io) : io[i] \in Spaces
<1>1. /\ entry \in Tables /\ fault \in Calls /\ used \subseteq Spaces /\ NULL \notin Spaces
      /\ page \in [M!Frames -> BOOLEAN] /\ mine \in [Spaces -> SUBSET M!Virtual]
      /\ swap \in [1 .. NrSwap -> BOOLEAN]
  BY PageTypes, PageAssumption DEF PageInv
<1>2. \A a \in Spaces, v \in M!Virtual : entry[a][v] \in M!Entry
  BY <1>1 DEF Tables
<1>3. \A a \in Spaces, v \in M!Virtual : entry[a][v].frame \in M!Frames \cup {0} /\ entry[a][v].nr \in 0 .. NrSwap
  BY <1>2 DEF M!Entry
<1>4. \A a \in Spaces : fault[a] \in M!Call
  BY <1>1 DEF Calls
<1>5. Len(io) \in Nat /\ \A i \in 1 .. Len(io) : io[i] \in Spaces
  BY ElementOfSeq, LenProperties DEF PageInv, IoOK
<1> QED
  BY <1>1, <1>2, <1>3, <1>4, <1>5 DEF PageInv

\* An entry is owned by its task, or by the one that is making that task.
LEMMA OwnedFacts ==
  ASSUME PageInv, NEW a \in Spaces, NEW b \in Spaces, NEW v, Owned(a, v, b)
  PROVE  /\ b \in used
         /\ a = b \/ (a \notin used /\ fault[b].op = "fork" /\ fault[b].child = a /\ v \notin fault[b].todo)
<1>1. CASE a \in used /\ b = a
  BY <1>1
<1>2. CASE fault[b].op = "fork" /\ a = fault[b].child /\ v \notin fault[b].todo
  <2>1. FaultOK(b)
    BY DEF PageInv
  <2>2. fault[b].child \notin used
    BY <1>2, <2>1 DEF FaultOK, Fits
  <2>3. fault[b].at # "user"
    BY <1>2, <2>1 DEF FaultOK, Fits, M!User
  <2>4. b \in used
    BY <2>1, <2>3 DEF FaultOK, Fits
  <2> QED
    BY <1>2, <2>2, <2>4
<1> QED
  BY <1>1, <1>2 DEF Owned

\* Nobody else has the page that a task has in the kernel, ...
LEMMA NewIsAlone ==
  ASSUME PageInv, NEW t \in Spaces, fault[t].new # 0
  PROVE  /\ \A a \in Spaces, v \in M!Virtual : entry[a][v].frame # fault[t].new
         /\ \A u \in Spaces : fault[u].new = fault[t].new => u = t
<1> DEFINE H == Has(entry, fault)
           s == Alone(entry, fault)
<1>1. Tally(H, mem_map, s) /\ entry \in Tables /\ fault \in Calls
  BY ContentTypes DEF PageInv
<1>2. <<t, NULL>> \in s /\ H[<<t, NULL>>] = fault[t].new
  BY <1>1, HasType
<1>3. mem_map[fault[t].new] = 1 /\ <<t, NULL>> \in Places
  BY <1>1, <1>2 DEF Tally, Sole
<1>4. H[<<t, NULL>>] \in M!Frames
  BY <1>1, <1>2, <1>3, HasType DEF Frames0
<1>5. \A y \in Places : H[y] = fault[t].new => y = <<t, NULL>>
  BY <1>1, <1>2, <1>3, <1>4, OnePlace
<1>6. ASSUME NEW a \in Spaces, NEW v \in M!Virtual PROVE entry[a][v].frame # fault[t].new
  <2>1. <<a, v>> \in Places /\ v # NULL /\ H[<<a, v>>] = entry[a][v].frame
    BY <1>1, HasType, PlaceTypes
  <2> HIDE DEF H
  <2> QED
    BY <1>5, <2>1
<1>7. ASSUME NEW u \in Spaces, fault[u].new = fault[t].new PROVE u = t
  <2>1. <<u, NULL>> \in Places /\ H[<<u, NULL>>] = fault[u].new
    BY <1>1, HasType, PlaceTypes
  <2> HIDE DEF H
  <2> QED
    BY <1>5, <1>7, <2>1
<1> QED
  BY <1>6, <1>7

\* ... or that it may write, ...
LEMMA WritableIsAlone ==
  ASSUME PageInv, NEW t \in Spaces, NEW v \in M!Virtual, entry[t][v].rw
  PROVE  /\ \A a \in Spaces, w \in M!Virtual : entry[a][w].frame = entry[t][v].frame => a = t /\ w = v
         /\ \A u \in Spaces : fault[u].new # entry[t][v].frame
<1> DEFINE H == Has(entry, fault)
           s == Alone(entry, fault)
           f == entry[t][v].frame
<1>1. Tally(H, mem_map, s) /\ entry \in Tables /\ fault \in Calls
  BY ContentTypes DEF PageInv
<1>2. <<t, v>> \in s /\ H[<<t, v>>] = f
  <2>1. <<t, v>> \in s
    BY PlaceTypes DEF Alone
  <2> QED
    BY <1>1, <2>1, HasType
<1>3. mem_map[f] = 1 /\ <<t, v>> \in Places /\ H[<<t, v>>] # 0
  BY <1>1, <1>2 DEF Tally, Sole
<1>4. H[<<t, v>>] \in M!Frames
  BY <1>1, <1>2, <1>3, HasType DEF Frames0
<1>5. \A y \in Places : H[y] = f => y = <<t, v>>
  BY <1>1, <1>2, <1>3, <1>4, OnePlace
<1>6. ASSUME NEW a \in Spaces, NEW w \in M!Virtual, entry[a][w].frame = f PROVE a = t /\ w = v
  <2>1. <<a, w>> \in Places /\ H[<<a, w>>] = entry[a][w].frame
    BY <1>1, HasType, PlaceTypes
  <2> HIDE DEF H, f
  <2>2. <<a, w>> = <<t, v>>
    BY <1>5, <1>6, <2>1
  <2> QED
    BY <2>2
<1>7. ASSUME NEW u \in Spaces PROVE fault[u].new # f
  <2>1. <<u, NULL>> \in Places /\ H[<<u, NULL>>] = fault[u].new /\ v # NULL
    BY <1>1, HasType, PlaceTypes
  <2> HIDE DEF H, f
  <2>2. <<u, NULL>> # <<t, v>>
    BY <2>1
  <2> QED
    BY <1>5, <2>1, <2>2
<1> QED
  BY <1>6, <1>7

\* ... and nobody has one that is free.
LEMMA FreeIsFree ==
  ASSUME PageInv, NEW f \in M!Frames, mem_map[f] = 0
  PROVE  /\ \A a \in Spaces, v \in M!Virtual : entry[a][v].frame # f
         /\ \A u \in Spaces : fault[u].new # f
<1> DEFINE H == Has(entry, fault)
<1>1. Tally(H, mem_map, Alone(entry, fault)) /\ entry \in Tables /\ fault \in Calls
  BY ContentTypes DEF PageInv
<1>2. \A y \in Places : H[y] # f
  BY <1>1, HadCounts
<1>3. ASSUME NEW a \in Spaces, NEW v \in M!Virtual PROVE entry[a][v].frame # f
  <2>1. <<a, v>> \in Places /\ H[<<a, v>>] = entry[a][v].frame
    BY <1>1, HasType, PlaceTypes
  <2> HIDE DEF H
  <2> QED
    BY <1>2, <2>1
<1>4. ASSUME NEW u \in Spaces PROVE fault[u].new # f
  <2>1. <<u, NULL>> \in Places /\ H[<<u, NULL>>] = fault[u].new
    BY <1>1, HasType, PlaceTypes
  <2> HIDE DEF H
  <2> QED
    BY <1>2, <2>1
<1> QED
  BY <1>3, <1>4

\* The entry keeps its page, and its content.
Kept(a, v) ==
  /\ entry'[a][v].frame = entry[a][v].frame /\ entry'[a][v].nr = entry[a][v].nr
  /\ entry[a][v].frame # 0 => (page'[entry[a][v].frame] <=> page[entry[a][v].frame])
OwnersKeep ==
  \A a, b \in Spaces, v \in M!Virtual :
    Owned(a, v, b)' => \/ Fine(entry'[a][v], page', v, mine'[b])
                       \/ Owned(a, v, b) /\ Kept(a, v) /\ (v \in mine'[b] <=> v \in mine[b])
DirtStays ==
  \A a \in Spaces, v \in M!Virtual :
    entry'[a][v].dirty => page'[entry'[a][v].frame] \/ (entry[a][v].dirty /\ Kept(a, v))

\* What is left of the pages of the tasks.
LEMMA PagesStay == ASSUME PageInv, ContentInv, OwnersKeep, DirtStays PROVE PagesKept' /\ DirtyOK'
<1>1. PagesKept'
  <2> SUFFICES ASSUME NEW a \in Spaces, NEW b \in Spaces, NEW v \in M!Virtual, Owned(a, v, b)'
               PROVE  Fine(entry'[a][v], page', v, mine'[b])
    BY DEF PagesKept
  <2>1. CASE Owned(a, v, b) /\ Kept(a, v) /\ (v \in mine'[b] <=> v \in mine[b])
    <3>1. Fine(entry[a][v], page, v, mine[b])
      BY <2>1 DEF ContentInv, PagesKept
    <3> QED
      BY <2>1, <3>1 DEF Fine, Kept
  <2> QED
    BY <2>1 DEF OwnersKeep
<1>2. DirtyOK'
  <2> SUFFICES ASSUME NEW a \in Spaces, NEW v \in M!Virtual, entry'[a][v].dirty
               PROVE  page'[entry'[a][v].frame]
    BY DEF DirtyOK
  <2>1. CASE entry[a][v].dirty /\ Kept(a, v)
    <3>1. page[entry[a][v].frame]
      BY <2>1 DEF ContentInv, DirtyOK
    <3>2. entry[a][v].frame # 0
      BY <2>1, ContentTypes DEF EntryOK
    <3> QED
      BY <2>1, <3>1, <3>2 DEF Kept
  <2> QED
    BY <2>1 DEF DirtStays
<1> QED
  BY <1>1, <1>2

\* Task t goes on to k, and the queue of the swap device stays as it is.
Moves(t, k) == \A u \in Spaces : fault'[u] = IF u = t THEN k ELSE fault[u]
NewStays(t, k) ==
  /\ \A u \in Spaces \ {t} : fault[u].new # 0 => (page'[fault[u].new] <=> page[fault[u].new])
  /\ k.at = "done" => page'[k.new]
  /\ k.at \in {"got", "load"} => ~page'[k.new]
SlotsWere ==
  \A a \in Spaces, v \in M!Virtual :
    entry'[a][v].nr # 0 => \E b \in Spaces, w \in M!Virtual : entry[b][w].nr = entry'[a][v].nr

\* A step that leaves the queue alone.
LEMMA QueueStays ==
  ASSUME PageInv, ContentInv, NEW t \in Spaces, NEW k, Moves(t, k), NewStays(t, k), SlotsWere,
         io' = io, swap' = swap, fault[t].at \notin {"write", "read"}, k.at \notin {"write", "read"}
  PROVE  NewOK' /\ SwapOK' /\ OrderOK'
<1>1. NewOK'
  <2> SUFFICES ASSUME NEW u \in Spaces
               PROVE  /\ fault'[u].at \in {"write", "done"} => page'[fault'[u].new]
                      /\ fault'[u].at \in {"got", "load"} => ~page'[fault'[u].new]
                      /\ fault'[u].at \in {"write", "read"} => \E i \in 1 .. Len(io) : io[i] = u
    BY DEF NewOK
  <2>1. CASE u = t
    BY <2>1 DEF Moves, NewStays
  <2>2. CASE u # t
    <3>1. FaultOK(u) /\ fault'[u] = fault[u]
      BY <2>2, ContentTypes DEF Moves
    <3>2. fault[u].at \in {"write", "done", "got", "load"} => fault[u].new # 0
      BY <3>1 DEF FaultOK, Fits
    <3>3. fault[u].new # 0 => (page'[fault[u].new] <=> page[fault[u].new])
      BY <2>2 DEF NewStays
    <3>4. /\ fault[u].at \in {"write", "done"} => page[fault[u].new]
          /\ fault[u].at \in {"got", "load"} => ~page[fault[u].new]
          /\ fault[u].at \in {"write", "read"} => \E i \in 1 .. Len(io) : io[i] = u
      BY DEF ContentInv, NewOK
    <3> QED
      BY <3>1, <3>2, <3>3, <3>4
  <2> QED
    BY <2>1, <2>2
<1>2. \A u \in Spaces : fault[u].at = "write" => fault'[u] = fault[u]
  BY DEF Moves
<1>3. SwapOK'
  <2> SUFFICES ASSUME NEW a \in Spaces, NEW v \in M!Virtual, entry'[a][v].nr # 0
               PROVE  \/ swap[entry'[a][v].nr]
                      \/ \E u \in Spaces : fault'[u].at = "write" /\ fault'[u].nr = entry'[a][v].nr
    BY DEF SwapOK, Writes
  <2>1. PICK b \in Spaces, w \in M!Virtual : entry[b][w].nr = entry'[a][v].nr
    BY DEF SlotsWere
  <2>2. swap[entry[b][w].nr] \/ \E u \in Spaces : Writes(u, entry[b][w].nr)
    BY <2>1 DEF ContentInv, SwapOK
  <2> QED
    BY <1>2, <2>1, <2>2 DEF Writes
<1>4. OrderOK'
  <2>1. \A i \in 1 .. Len(io) : io[i] \in Spaces /\ io[i] # t
    BY ContentTypes DEF PageInv, IoOK
  <2>2. \A i \in 1 .. Len(io) : fault'[io[i]] = fault[io[i]]
    BY <2>1 DEF Moves
  <2> SUFFICES ASSUME NEW i \in 1 .. Len(io), Reads(i)'
               PROVE  \/ swap[fault[io[i]].nr]
                      \/ \E j \in 1 .. i - 1 : fault'[io[j]].at = "write" /\ fault'[io[j]].nr = fault[io[i]].nr
    BY <2>2 DEF OrderOK, Writes
  <2>3. Reads(i)
    BY <2>2 DEF Reads
  <2>4. swap[fault[io[i]].nr] \/ \E j \in 1 .. i - 1 : Writes(io[j], fault[io[i]].nr)
    BY <2>3 DEF ContentInv, OrderOK
  <2>5. \A j \in 1 .. i - 1 : j \in 1 .. Len(io)
    BY ContentTypes
  <2> QED
    BY <2>2, <2>4, <2>5 DEF Writes
<1> QED
  BY <1>1, <1>3, <1>4

\* One entry changes, and one task's place in the kernel.
LEMMA EntryPut ==
  ASSUME PageInv, NEW t \in Spaces, NEW v \in M!Virtual, NEW n
  PROVE  \A a \in Spaces, w \in M!Virtual : Put(entry, t, v, n)[a][w] = IF a = t /\ w = v THEN n ELSE entry[a][w]
BY ContentTypes DEF Put, Tables

\* ... is all that changes.
LEMMA FaultPut ==
  ASSUME PageInv, NEW t \in Spaces, NEW k, fault' = [fault EXCEPT ![t] = k]
  PROVE  Moves(t, k)
BY ContentTypes DEF Moves, Calls

\* A task in user mode goes on to k, which is no fork, and no entry changes.
LEMMA ContentStarts ==
  ASSUME PageInv, ContentInv, NEW t \in Spaces, NEW k,
         fault' = [fault EXCEPT ![t] = k], fault[t].at \notin {"write", "read"},
         k.at \in {"user", "get", "load"} \/ (k.at = "copy" /\ k.todo = M!Virtual),
         k.at = "load" => fault[t].at = "got" /\ k.new = fault[t].new,
         k.op = "fork" => k.todo = M!Virtual \/ (fault[t].op = "fork" /\ k.child = fault[t].child /\ k.todo = fault[t].todo),
         entry' = entry, used' = used, io' = io, page' = page, swap' = swap, mine' = mine
  PROVE  ContentInv'
<1>1. Moves(t, k)
  BY FaultPut
<1>2. \A a \in Spaces, v \in M!Virtual : Kept(a, v)
  BY DEF Kept
<1>3. OwnersKeep
  <2> SUFFICES ASSUME NEW a \in Spaces, NEW b \in Spaces, NEW v \in M!Virtual, Owned(a, v, b)'
               PROVE  Owned(a, v, b)
    BY <1>2 DEF OwnersKeep
  <2>1. CASE b = t
    BY <1>1, <2>1 DEF Owned, Moves
  <2>2. CASE b # t
    BY <1>1, <2>2 DEF Owned, Moves
  <2> QED
    BY <2>1, <2>2
<1>4. DirtStays
  BY <1>2 DEF DirtStays
<1>5. k.at = "load" => ~page[k.new]
  BY DEF ContentInv, NewOK
<1>6. NewStays(t, k) /\ SlotsWere
  BY <1>5 DEF NewStays, SlotsWere
<1> QED
  BY <1>1, <1>3, <1>4, <1>6, PagesStay, QueueStays DEF ContentInv

\* do_no_page() shares a page that has not been modified, or goes on.
LEMMA ContentNoPage ==
  ASSUME PageInv, ContentInv, "copy" \notin Overlaps, NEW t \in Spaces, NEW v \in M!Virtual, M!NoPage(t, v)
  PROVE  ContentInv'
<1>1. t \in used /\ fault[t] = M!User /\ fault[t].at = "user" /\ entry[t][v].frame = 0
  BY InUserFacts DEF M!NoPage
<1>2. io' = io /\ used' = used /\ page' = page /\ swap' = swap /\ mine' = mine
  BY DEF M!NoPage, M!contents
<1>3. ASSUME NEW u \in used \ {t}, entry[u][v].frame # 0, ~entry[u][v].dirty, ~page[entry[u][v].frame], entry[t][v].nr = 0,
             entry' = [entry EXCEPT ![u][v] = [entry[u][v] EXCEPT !.rw = FALSE], ![t][v] = [entry[u][v] EXCEPT !.rw = FALSE]],
             fault' = fault
      PROVE  ContentInv'
  <2> DEFINE n == [entry[u][v] EXCEPT !.rw = FALSE]
  <2>1. u \in Spaces /\ u # t
    BY ContentTypes
  <2>2. n.frame = entry[u][v].frame /\ n.nr = 0 /\ ~n.dirty /\ entry[u][v].nr = 0
    <3>1. entry[u][v] \in M!Entry /\ EntryOK(entry[u][v])
      BY <2>1, ContentTypes
    <3> QED
      BY <1>3, <3>1 DEF M!Entry, EntryOK
  <2>3. \A a \in Spaces, w \in M!Virtual : entry'[a][w] = IF w = v /\ a \in {t, u} THEN n ELSE entry[a][w]
    <3> HIDE DEF n
    <3>1. entry' = [entry EXCEPT ![u][v] = n, ![t][v] = n]
      BY <1>3 DEF n
    <3> QED
      BY <2>1, <3>1, ContentTypes DEF Tables
  <2>4. Fine(entry[t][v], page, v, mine[t]) /\ Owned(t, v, t)
    BY <1>1 DEF ContentInv, PagesKept, Owned
  <2>5. Fine(n, page, v, mine[t])
    BY <1>1, <1>3, <2>2, <2>4 DEF Fine
  <2> HIDE DEF n
  <2>6. \A a \in Spaces, w \in M!Virtual : (a = t /\ w = v) \/ Kept(a, w)
    <3> SUFFICES ASSUME NEW a \in Spaces, NEW w \in M!Virtual, ~(a = t /\ w = v) PROVE Kept(a, w)
      OBVIOUS
    <3>1. CASE a = u /\ w = v
      BY <1>2, <2>2, <2>3, <3>1 DEF Kept
    <3>2. CASE ~(a = u /\ w = v)
      BY <1>2, <2>3, <3>2 DEF Kept
    <3> QED
      BY <3>1, <3>2
  <2>7. OwnersKeep
    <3> SUFFICES ASSUME NEW a \in Spaces, NEW b \in Spaces, NEW w \in M!Virtual, Owned(a, w, b)'
                 PROVE  Fine(entry'[a][w], page', w, mine'[b]) \/ (Owned(a, w, b) /\ Kept(a, w) /\ mine' = mine)
      BY DEF OwnersKeep
    <3>1. Owned(a, w, b)
      BY <1>2, <1>3 DEF Owned
    <3>2. CASE a = t /\ w = v
      <4>1. b = t
        BY <1>1, <3>1, <3>2, OwnedFacts
      <4> QED
        BY <1>2, <2>3, <2>5, <3>2, <4>1
    <3> QED
      BY <1>2, <2>6, <3>1, <3>2
  <2>8. DirtStays
    <3> SUFFICES ASSUME NEW a \in Spaces, NEW w \in M!Virtual, entry'[a][w].dirty PROVE entry[a][w].dirty /\ Kept(a, w)
      BY DEF DirtStays
    <3>1. ~(w = v /\ a \in {t, u})
      BY <2>2, <2>3
    <3> QED
      BY <2>3, <2>6, <3>1
  <2>9. Moves(t, fault[t]) /\ NewStays(t, fault[t])
    BY <1>1, <1>2, <1>3 DEF Moves, NewStays
  <2>10. SlotsWere
    BY <2>2, <2>3 DEF SlotsWere
  <2> QED
    BY <1>1, <1>2, <2>7, <2>8, <2>9, <2>10, PagesStay, QueueStays DEF ContentInv
<1>4. ASSUME NEW op \in {"in", "load", "empty"}, M!Start(t, v, op), entry' = entry
      PROVE  ContentInv'
  <2> DEFINE k == StartCall(v, op)
  <2>1. fault' = [fault EXCEPT ![t] = k]
    BY <1>4 DEF M!Start, M!Goto, StartCall
  <2>2. k.at = "get" /\ k.op = op
    BY StartTypes
  <2> HIDE DEF k
  <2> QED
    BY <1>1, <1>2, <1>4, <2>1, <2>2, ContentStarts
<1> DEFINE sharers == {u \in used \ {t} : /\ entry[u][v].frame # 0 /\ ~entry[u][v].dirty
                                          /\ "copy" \in Overlaps \/ ~page[entry[u][v].frame]}
<1>5. CASE entry[t][v].nr = 0 /\ v \in FilePages /\ sharers # {}
  <2>1. PICK u \in sharers : entry' = [entry EXCEPT ![u][v] = [entry[u][v] EXCEPT !.rw = FALSE],
                                                    ![t][v] = [entry[u][v] EXCEPT !.rw = FALSE]]
    BY <1>5 DEF M!NoPage
  <2>2. fault' = fault
    BY <1>5 DEF M!NoPage
  <2> QED
    BY <1>3, <1>5, <2>1, <2>2
<1>6. CASE ~(entry[t][v].nr = 0 /\ v \in FilePages /\ sharers # {})
  <2>1. M!Start(t, v, IF entry[t][v].nr # 0 THEN "in" ELSE IF v \in FilePages THEN "load" ELSE "empty") /\ entry' = entry
    BY <1>6 DEF M!NoPage
  <2> QED
    BY <1>4, <2>1
<1> QED
  BY <1>5, <1>6

\* A task modifies a page that nobody else has.
LEMMA ContentWrite == ASSUME PageInv, ContentInv, NEW t \in Spaces, NEW v \in M!Virtual, M!Write(t, v) PROVE ContentInv'
<1> DEFINE f == entry[t][v].frame
<1>1. t \in used /\ fault[t] = M!User /\ fault[t].at = "user" /\ f # 0 /\ entry[t][v].rw
  BY InUserFacts DEF M!Write
<1>2. /\ io' = io /\ used' = used /\ swap' = swap /\ fault' = fault
      /\ mine' = [mine EXCEPT ![t] = @ \cup {v}] /\ page' = [page EXCEPT ![f] = TRUE]
      /\ entry' = [entry EXCEPT ![t][v].dirty = TRUE]
  BY DEF M!Write
<1>3. /\ \A a \in Spaces, w \in M!Virtual : entry[a][w].frame = f => a = t /\ w = v
      /\ \A u \in Spaces : fault[u].new # f
  BY <1>1, WritableIsAlone
<1>4. /\ \A a \in Spaces, w \in M!Virtual : entry'[a][w].frame = entry[a][w].frame /\ entry'[a][w].nr = entry[a][w].nr
      /\ \A a \in Spaces, w \in M!Virtual : ~(a = t /\ w = v) => entry'[a][w] = entry[a][w]
  <2>1. entry' = Put(entry, t, v, [entry[t][v] EXCEPT !.dirty = TRUE])
    BY <1>2 DEF Put
  <2>2. /\ [entry[t][v] EXCEPT !.dirty = TRUE].frame = entry[t][v].frame
        /\ [entry[t][v] EXCEPT !.dirty = TRUE].nr = entry[t][v].nr
    OBVIOUS
  <2>3. \A a \in Spaces, w \in M!Virtual :
          entry'[a][w] = IF a = t /\ w = v THEN [entry[t][v] EXCEPT !.dirty = TRUE] ELSE entry[a][w]
    BY <2>1, EntryPut
  <2> QED
    BY <2>2, <2>3
<1>5. /\ \A g \in M!Frames : page'[g] = IF g = f THEN TRUE ELSE page[g]
      /\ \A a \in Spaces : mine'[a] = IF a = t THEN mine[t] \cup {v} ELSE mine[a]
      /\ f \in M!Frames
  BY <1>1, <1>2, ContentTypes
<1>6. \A a \in Spaces, w \in M!Virtual : (a = t /\ w = v) \/ Kept(a, w)
  <2> SUFFICES ASSUME NEW a \in Spaces, NEW w \in M!Virtual, ~(a = t /\ w = v) PROVE Kept(a, w)
    OBVIOUS
  <2>1. entry[a][w].frame # f /\ (entry[a][w].frame # 0 => entry[a][w].frame \in M!Frames)
    BY <1>3, ContentTypes
  <2> HIDE DEF f
  <2> QED
    BY <1>4, <1>5, <2>1 DEF Kept
<1>7. entry[t][v].nr = 0
  BY <1>1, ContentTypes DEF EntryOK
<1> HIDE DEF f
<1>8. OwnersKeep
  <2> SUFFICES ASSUME NEW a \in Spaces, NEW b \in Spaces, NEW w \in M!Virtual, Owned(a, w, b)'
               PROVE  Fine(entry'[a][w], page', w, mine'[b]) \/ (Owned(a, w, b) /\ Kept(a, w) /\ (w \in mine'[b] <=> w \in mine[b]))
    BY DEF OwnersKeep
  <2>1. Owned(a, w, b)
    BY <1>2 DEF Owned
  <2>2. a = t => b = t
    BY <1>1, <2>1, OwnedFacts
  <2>3. b = t => a = t
    <3>1. M!User.op # "fork"
      BY DEF M!User
    <3> QED
      BY <1>1, <2>1, <3>1 DEF Owned
  <2>4. CASE a = t /\ w = v
    BY <1>1, <1>4, <1>5, <1>7, <2>2, <2>4 DEF Fine, f
  <2>5. CASE ~(a = t /\ w = v)
    BY <1>5, <1>6, <2>1, <2>3, <2>5
  <2> QED
    BY <2>4, <2>5
<1>9. DirtStays
  <2> SUFFICES ASSUME NEW a \in Spaces, NEW w \in M!Virtual, entry'[a][w].dirty
               PROVE  page'[entry'[a][w].frame] \/ (entry[a][w].dirty /\ Kept(a, w))
    BY DEF DirtStays
  <2>1. CASE a = t /\ w = v
    BY <1>4, <1>5, <2>1 DEF f
  <2>2. CASE ~(a = t /\ w = v)
    BY <1>4, <1>6, <2>2
  <2> QED
    BY <2>1, <2>2
<1>10. Moves(t, fault[t])
  BY <1>2 DEF Moves
<1>11. NewStays(t, fault[t])
  <2> SUFFICES ASSUME NEW u \in Spaces, fault[u].new # 0 PROVE page'[fault[u].new] = page[fault[u].new]
    BY <1>1 DEF NewStays
  <2>1. fault[u].new \in M!Frames
    BY ContentTypes DEF M!Call
  <2> QED
    BY <1>3, <1>5, <2>1
<1>12. SlotsWere
  BY <1>4 DEF SlotsWere
<1> QED
  BY <1>1, <1>2, <1>8, <1>9, <1>10, <1>11, <1>12, PagesStay, QueueStays DEF ContentInv

\* un_wp_page().
LEMMA ContentUnshare ==
  ASSUME PageInv, ContentInv, NEW t \in Spaces, NEW v \in M!Virtual, M!un_wp_page(t, v)
  PROVE  ContentInv'
<1>1. fault[t] = M!User /\ fault[t].at = "user"
  BY InUserFacts DEF M!un_wp_page
<1>2. io' = io /\ used' = used /\ page' = page /\ swap' = swap /\ mine' = mine
  BY DEF M!un_wp_page, M!contents
<1>3. CASE entry' = [entry EXCEPT ![t][v].rw = TRUE] /\ fault' = fault
  <2> DEFINE n == [entry[t][v] EXCEPT !.rw = TRUE]
  <2>1. n.frame = entry[t][v].frame /\ n.nr = entry[t][v].nr /\ n.dirty = entry[t][v].dirty
    <3>1. entry[t][v] \in M!Entry
      BY ContentTypes
    <3> QED
      BY <3>1 DEF M!Entry
  <2>2. entry' = Put(entry, t, v, n)
    BY <1>3 DEF Put
  <2> HIDE DEF n
  <2>3. \A a \in Spaces, w \in M!Virtual : entry'[a][w] = IF a = t /\ w = v THEN n ELSE entry[a][w]
    BY <2>2, EntryPut
  <2>4. \A a \in Spaces, w \in M!Virtual : Kept(a, w) /\ entry'[a][w].dirty = entry[a][w].dirty
    BY <1>2, <2>1, <2>3 DEF Kept
  <2>5. OwnersKeep /\ DirtStays
    BY <1>2, <1>3, <2>4 DEF OwnersKeep, DirtStays, Owned
  <2>6. Moves(t, fault[t]) /\ NewStays(t, fault[t]) /\ SlotsWere
    BY <1>1, <1>2, <1>3, <2>4 DEF Moves, NewStays, SlotsWere, Kept
  <2> QED
    BY <1>1, <1>2, <2>5, <2>6, PagesStay, QueueStays DEF ContentInv
<1>4. ASSUME NEW k, k.at = "get", k.op = "unshare", fault' = [fault EXCEPT ![t] = k], entry' = entry
      PROVE  ContentInv'
  BY <1>1, <1>2, <1>4, ContentStarts
<1> DEFINE k == [M!User EXCEPT !.op = "unshare", !.at = "get", !.v = v, !.frame = entry[t][v].frame]
<1>5. k.at = "get" /\ k.op = "unshare"
  BY UserType DEF M!Call
<1>6. \/ entry' = [entry EXCEPT ![t][v].rw = TRUE] /\ fault' = fault
      \/ fault' = [fault EXCEPT ![t] = k] /\ entry' = entry
  BY DEF M!un_wp_page, M!Goto
<1> HIDE DEF k
<1> QED
  BY <1>3, <1>4, <1>5, <1>6

\* A task ends, or a fork fails: nobody looks for the content of its pages.
LEMMA ContentFreed ==
  ASSUME PageInv, ContentInv, NEW t \in used, NEW g \in Spaces, RowResult(g),
         fault[t].at \in {"user", "get"}, g = IF fault[t].op = "fork" THEN fault[t].child ELSE t,
         fault' = [fault EXCEPT ![t] = M!User],
         used' = used \ {g}, mine' = [mine EXCEPT ![g] = {}],
         io' = io, page' = page, swap' = swap
  PROVE  ContentInv'
<1>1. t \in Spaces /\ M!User.op = "none" /\ M!User.at = "user"
  BY ContentTypes DEF M!User
<1>2. Moves(t, M!User)
  BY <1>1, FaultPut
<1>3. \A a \in Spaces, w \in M!Virtual : entry'[a][w] = IF a = g THEN M!Zero ELSE entry[a][w]
  BY DEF RowResult
<1>4. M!Zero.nr = 0 /\ ~M!Zero.dirty
  BY DEF M!Zero
<1>5. OwnersKeep
  <2> SUFFICES ASSUME NEW a \in Spaces, NEW b \in Spaces, NEW v \in M!Virtual, Owned(a, v, b)'
               PROVE  Owned(a, v, b) /\ Kept(a, v) /\ (v \in mine'[b] <=> v \in mine[b])
    BY DEF OwnersKeep
  <2>1. Owned(a, v, b) /\ (b = t => a = t)
    BY <1>1, <1>2 DEF Owned, Moves
  <2>2. b \in used /\ (a = b \/ (a \notin used /\ fault[b].op = "fork" /\ fault[b].child = a))
    BY <2>1, OwnedFacts
  <2>3. a # g /\ b # g
    <3>1. CASE fault[t].op = "fork"
      <4>1. g = fault[t].child /\ g \notin used /\ fault[t].child # NULL
        <5>1. FaultOK(t) /\ NULL \notin Spaces
          BY <1>1, ContentTypes
        <5> QED
          BY <3>1, <5>1 DEF FaultOK, Fits
      <4>2. a = g => b = t
        BY <1>1, <2>2, <4>1 DEF PageInv, ChildrenOK
      <4> QED
        BY <2>1, <2>2, <4>1, <4>2
    <3>2. CASE fault[t].op # "fork"
      <4>1. g = t
        BY <3>2
      <4>2. a = t => b = t
        BY <2>2
      <4>3. b = t => a = t /\ t \in used'
        BY <1>1, <1>2, <2>1, <2>2 DEF Owned, Moves
      <4> QED
        BY <4>1, <4>2, <4>3
    <3> QED
      BY <3>1, <3>2
  <2>4. mine'[b] = mine[b]
    BY <2>3, ContentTypes
  <2> QED
    BY <1>3, <2>1, <2>3, <2>4 DEF Kept
<1>6. DirtStays
  BY <1>3, <1>4 DEF DirtStays, Kept
<1>7. NewStays(t, M!User) /\ SlotsWere
  BY <1>1, <1>3, <1>4 DEF NewStays, SlotsWere
<1> QED
  BY <1>1, <1>2, <1>5, <1>6, <1>7, PagesStay, QueueStays DEF ContentInv

\* exit().
LEMMA ContentExit == ASSUME PageInv, ContentInv, NEW t \in Spaces, M!exit(t) PROVE ContentInv'
<1>1. /\ M!InUser(t) /\ M!free_page_tables(t) /\ used' = used \ {t} /\ mine' = [mine EXCEPT ![t] = {}]
      /\ io' = io /\ fault' = fault /\ page' = page /\ swap' = swap
  BY DEF M!exit
<1>2. t \in used /\ fault[t] = M!User /\ fault[t].at = "user" /\ fault[t].op = "none"
  BY <1>1, InUserFacts DEF M!User
<1>3. fault' = [fault EXCEPT ![t] = M!User]
  BY <1>1, <1>2, PageTypes DEF PageInv, Calls
<1> QED
  BY <1>1, <1>2, <1>3, RowFreed, ContentFreed

\* oom() and a fork that fails.
LEMMA ContentOutOfMemory == ASSUME PageInv, ContentInv, NEW t \in Spaces, M!OutOfMemory(t) PROVE ContentInv'
<1> DEFINE gone == IF fault[t].op = "fork" THEN fault[t].child ELSE t
<1>1. /\ fault[t].at = "get" /\ M!free_page_tables(gone) /\ used' = used \ {gone} /\ mine' = [mine EXCEPT ![gone] = {}]
      /\ io' = io /\ fault' = [fault EXCEPT ![t] = M!User] /\ page' = page /\ swap' = swap
  BY DEF M!OutOfMemory, M!At, M!Leave
<1>2. t \in used /\ gone \in Spaces
  BY <1>1 DEF PageInv, FaultOK, Fits
<1> HIDE DEF gone
<1>3. RowResult(gone)
  BY <1>1, <1>2, RowFreed
<1> QED
  BY <1>1, <1>2, <1>3, ContentFreed DEF gone

\* copy_page_tables() begins.
LEMMA ContentFork == ASSUME PageInv, ContentInv, NEW t \in Spaces, M!fork(t) PROVE ContentInv'
<1>1. PICK c \in Spaces \ used : fault' = [fault EXCEPT ![t] = ForkCall(c)]
  BY DEF M!fork, M!Goto, ForkCall
<1>2. /\ M!InUser(t) /\ entry' = entry /\ used' = used
      /\ io' = io /\ page' = page /\ swap' = swap /\ mine' = mine
  BY DEF M!fork, M!contents
<1>3. ForkCall(c).op = "fork" /\ ForkCall(c).at = "copy" /\ ForkCall(c).todo = M!Virtual
  BY ForkTypes
<1>4. fault[t].at = "user"
  BY <1>2, InUserFacts
<1> DEFINE k == ForkCall(c)
<1>5. fault' = [fault EXCEPT ![t] = k] /\ k.op = "fork" /\ k.at = "copy" /\ k.todo = M!Virtual
  BY <1>1, <1>3
<1> HIDE DEF k
<1> QED
  BY <1>2, <1>4, <1>5, ContentStarts

\* The loop of copy_page_tables() is over, and the child has what its parent
\* has, ...
LEMMA ContentForked ==
  ASSUME PageInv, ContentInv, NEW t \in Spaces, fault[t].at = "copy", fault[t].todo = {},
         used' = used \cup {fault[t].child}, mine' = [mine EXCEPT ![fault[t].child] = mine[t]],
         fault' = [fault EXCEPT ![t] = M!User], entry' = entry, io' = io, page' = page, swap' = swap
  PROVE  ContentInv'
<1> DEFINE c == fault[t].child
<1>1. t \in used /\ c \in Spaces \ used /\ fault[t].op = "fork" /\ M!User.op = "none" /\ M!User.at = "user" /\ NULL \notin Spaces
  BY CopyFacts, ContentTypes DEF M!User
<1>2. Moves(t, M!User)
  BY FaultPut
<1>3. \A a \in Spaces : mine'[a] = IF a = c THEN mine[t] ELSE mine[a]
  BY <1>1, ContentTypes
<1>4. \A a \in Spaces, v \in M!Virtual : Kept(a, v)
  BY DEF Kept
<1>5. OwnersKeep
  <2> SUFFICES ASSUME NEW a \in Spaces, NEW b \in Spaces, NEW v \in M!Virtual, Owned(a, v, b)'
               PROVE  Fine(entry[a][v], page, v, mine'[b]) \/ (Owned(a, v, b) /\ mine'[b] = mine[b])
    BY <1>4 DEF OwnersKeep
  <2>1. CASE a = c /\ b = c
    <3>1. Owned(c, v, t)
      BY <1>1 DEF Owned
    <3>2. Fine(entry[c][v], page, v, mine[t])
      BY <1>1, <3>1 DEF ContentInv, PagesKept
    <3> QED
      BY <1>1, <1>3, <2>1, <3>2
  <2>2. CASE ~(a = c /\ b = c)
    <3>1. Owned(a, v, b)
      BY <1>1, <1>2, <2>2 DEF Owned, Moves
    <3>2. b # c
      BY <1>1, <3>1, OwnedFacts
    <3> QED
      BY <1>3, <3>1, <3>2
  <2> QED
    BY <2>1, <2>2
<1>6. DirtStays
  BY <1>4 DEF DirtStays
<1>7. NewStays(t, M!User) /\ SlotsWere
  BY <1>1 DEF NewStays, SlotsWere
<1> QED
  BY <1>1, <1>2, <1>5, <1>6, <1>7, PagesStay, QueueStays DEF ContentInv

\* ... or an entry is copied.
LEMMA ContentCopied ==
  ASSUME PageInv, ContentInv, NEW t \in Spaces, fault[t].at = "copy", NEW v \in fault[t].todo, NEW n, NEW k,
         entry[t][v].nr = 0, n.frame = entry[t][v].frame, n.nr = 0, n.dirty = entry[t][v].dirty,
         k.at = "copy", k.op = "fork", k.child = fault[t].child, k.todo = fault[t].todo \ {v},
         entry' = Put(Put(entry, t, v, n), fault[t].child, v, n), fault' = [fault EXCEPT ![t] = k],
         used' = used, io' = io, page' = page, swap' = swap, mine' = mine
  PROVE  ContentInv'
<1> DEFINE c == fault[t].child
<1>1. t \in used /\ c \in Spaces \ used /\ v \in M!Virtual /\ fault[t].op = "fork" /\ entry[c][v] = M!Zero
  BY CopyFacts
<1> HIDE DEF c
<1>2. Moves(t, k)
  BY FaultPut
<1>3. \A a \in Spaces, w \in M!Virtual : entry'[a][w] = IF w = v /\ a \in {t, c} THEN n ELSE entry[a][w]
  <2>1. entry' = Put(Put(entry, t, v, n), c, v, n)
    BY DEF c
  <2> QED
    BY <1>1, <2>1, ContentTypes DEF Put, Tables
<1>4. \A a \in Spaces, w \in M!Virtual : ~(a = c /\ w = v) => Kept(a, w)
  BY <1>3 DEF Kept
<1>5. Fine(n, page, v, mine[t])
  <2>1. Owned(t, v, t)
    BY <1>1 DEF Owned
  <2>2. Fine(entry[t][v], page, v, mine[t])
    BY <1>1, <2>1 DEF ContentInv, PagesKept
  <2> QED
    BY <2>2 DEF Fine
<1>6. OwnersKeep
  <2> SUFFICES ASSUME NEW a \in Spaces, NEW b \in Spaces, NEW w \in M!Virtual, Owned(a, w, b)'
               PROVE  Fine(entry'[a][w], page', w, mine'[b]) \/ (Owned(a, w, b) /\ Kept(a, w) /\ mine' = mine)
    BY DEF OwnersKeep
  <2>1. CASE a = c /\ w = v
    <3>1. b = t
      <4>1. fault'[b].child = c
        BY <1>1, <2>1 DEF Owned
      <4>2. fault[b].child = c /\ c # NULL
        BY <1>1, <1>2, <4>1, ContentTypes DEF Moves, c
      <4> QED
        BY <4>2 DEF PageInv, ChildrenOK, c
    <3> QED
      BY <1>1, <1>3, <1>5, <2>1, <3>1
  <2>2. CASE ~(a = c /\ w = v)
    <3>1. Owned(a, w, b)
      BY <1>1, <1>2, <2>2 DEF Owned, Moves, c
    <3> QED
      BY <1>4, <2>2, <3>1
  <2> QED
    BY <2>1, <2>2
<1>7. DirtStays
  <2> SUFFICES ASSUME NEW a \in Spaces, NEW w \in M!Virtual, entry'[a][w].dirty
               PROVE  page'[entry'[a][w].frame] \/ (entry[a][w].dirty /\ Kept(a, w))
    BY DEF DirtStays
  <2>1. CASE w = v /\ a \in {t, c}
    <3>1. entry[t][v].dirty /\ entry'[a][w].frame = entry[t][v].frame
      BY <1>3, <2>1
    <3>2. page[entry[t][v].frame]
      BY <1>1, <3>1 DEF ContentInv, DirtyOK
    <3> QED
      BY <3>1, <3>2
  <2>2. CASE ~(w = v /\ a \in {t, c})
    BY <1>3, <1>4, <2>2
  <2> QED
    BY <2>1, <2>2
<1>8. NewStays(t, k) /\ SlotsWere
  BY <1>3 DEF NewStays, SlotsWere
<1> QED
  BY <1>2, <1>6, <1>7, <1>8, PagesStay, QueueStays DEF ContentInv

\* The loop of copy_page_tables().
LEMMA ContentCopyEntry == ASSUME PageInv, ContentInv, NEW t \in Spaces, M!CopyEntry(t) PROVE ContentInv'
<1> DEFINE k == fault[t]
           v == CHOOSE w \in k.todo : TRUE
           n == [entry[t][v] EXCEPT !.rw = FALSE]
           k2 == [k EXCEPT !.todo = @ \ {v}]
           k3 == [k EXCEPT !.at = "get", !.v = v]
<1>1. k.at = "copy" /\ io' = io /\ page' = page /\ swap' = swap
  BY DEF M!CopyEntry, M!At
<1>2. \/ /\ k.todo = {} /\ used' = used \cup {k.child} /\ mine' = [mine EXCEPT ![k.child] = mine[t]]
         /\ fault' = [fault EXCEPT ![t] = M!User] /\ entry' = entry
      \/ /\ k.todo # {} /\ entry[t][v].nr = 0
         /\ entry' = [entry EXCEPT ![t][v] = n, ![k.child][v] = n]
         /\ fault' = [fault EXCEPT ![t] = k2] /\ used' = used /\ mine' = mine
      \/ /\ k.todo # {} /\ entry[t][v].nr # 0
         /\ fault' = [fault EXCEPT ![t] = k3] /\ entry' = entry /\ used' = used /\ mine' = mine
  BY DEF M!CopyEntry, M!Leave, M!Goto
<1>3. CASE /\ k.todo = {} /\ used' = used \cup {k.child} /\ mine' = [mine EXCEPT ![k.child] = mine[t]]
           /\ fault' = [fault EXCEPT ![t] = M!User] /\ entry' = entry
  BY <1>1, <1>3, ContentForked
<1>4. k \in M!Call /\ k.op = "fork" /\ k.todo \subseteq M!Virtual /\ (k.todo # {} => v \in k.todo /\ v \in M!Virtual)
  BY <1>1, CopyFacts
<1>5. CASE /\ k.todo # {} /\ entry[t][v].nr = 0
           /\ entry' = [entry EXCEPT ![t][v] = n, ![k.child][v] = n]
           /\ fault' = [fault EXCEPT ![t] = k2] /\ used' = used /\ mine' = mine
  <2>1. v \in k.todo /\ v \in M!Virtual
    BY <1>4, <1>5
  <2> HIDE DEF v
  <2>2. entry[t][v] \in M!Entry
    BY <2>1, ContentTypes
  <2>3. n.frame = entry[t][v].frame /\ n.nr = 0 /\ n.dirty = entry[t][v].dirty
    BY <1>5, <2>2 DEF M!Entry
  <2>4. k2.at = "copy" /\ k2.op = "fork" /\ k2.child = k.child /\ k2.todo = k.todo \ {v}
    BY <1>1, <1>4 DEF M!Call
  <2>5. entry' = Put(Put(entry, t, v, n), k.child, v, n)
    BY <1>5 DEF Put
  <2> HIDE DEF n, k2
  <2> QED
    BY <1>1, <1>5, <2>1, <2>3, <2>4, <2>5, ContentCopied
<1>6. CASE /\ k.todo # {} /\ entry[t][v].nr # 0
           /\ fault' = [fault EXCEPT ![t] = k3] /\ entry' = entry /\ used' = used /\ mine' = mine
  <2> HIDE DEF v
  <2>1. k3.at = "get" /\ k3.op = "fork" /\ k3.child = k.child /\ k3.todo = k.todo
    BY <1>4 DEF M!Call
  <2> HIDE DEF k3
  <2> QED
    BY <1>1, <1>4, <1>6, <2>1, ContentStarts
<1> QED
  BY <1>2, <1>3, <1>5, <1>6

\* get_free_page(): nobody had the page that is cleared.
LEMMA ContentGetPage == ASSUME PageInv, ContentInv, NEW t \in Spaces, M!GetPage(t) PROVE ContentInv'
<1> DEFINE f == M!Max(M!FreePages)
           k == [fault[t] EXCEPT !.at = "got", !.new = f]
<1>1. /\ fault[t].at = "get" /\ page' = [page EXCEPT ![f] = FALSE] /\ fault' = [fault EXCEPT ![t] = k]
      /\ entry' = entry /\ used' = used /\ io' = io /\ swap' = swap /\ mine' = mine
  BY DEF M!GetPage, M!At, M!Goto
<1>2. f \in M!Frames /\ mem_map[f] = 0
  <2>1. f \in M!FreePages
    BY LastPage DEF M!GetPage
  <2> QED
    BY <2>1 DEF M!FreePages
<1> HIDE DEF f
<1>3. k.at = "got" /\ k.new = f /\ k.op = fault[t].op /\ k.child = fault[t].child /\ k.todo = fault[t].todo
  BY ContentTypes DEF M!Call
<1> HIDE DEF k
<1>4. Moves(t, k)
  BY <1>1, FaultPut
<1>5. /\ \A a \in Spaces, v \in M!Virtual : entry[a][v].frame # f
      /\ \A u \in Spaces : fault[u].new # f
  BY <1>2, FreeIsFree
<1>6. /\ \A g \in M!Frames : page'[g] = IF g = f THEN FALSE ELSE page[g]
  BY <1>1, <1>2, ContentTypes
<1>7. \A a \in Spaces, v \in M!Virtual : Kept(a, v)
  <2> SUFFICES ASSUME NEW a \in Spaces, NEW v \in M!Virtual PROVE Kept(a, v)
    OBVIOUS
  <2>1. entry[a][v].frame \in M!Frames \cup {0} /\ entry[a][v].frame # f
    BY <1>5, ContentTypes
  <2> QED
    BY <1>1, <1>6, <2>1 DEF Kept
<1>8. OwnersKeep
  <2> SUFFICES ASSUME NEW a \in Spaces, NEW b \in Spaces, NEW v \in M!Virtual, Owned(a, v, b)'
               PROVE  Owned(a, v, b)
    BY <1>1, <1>7 DEF OwnersKeep
  <2> QED
    BY <1>1, <1>3, <1>4 DEF Owned, Moves
<1>9. DirtStays
  BY <1>1, <1>7 DEF DirtStays
<1>10. NewStays(t, k)
  <2>1. ASSUME NEW u \in Spaces, fault[u].new # 0 PROVE page'[fault[u].new] = page[fault[u].new]
    <3>1. fault[u].new \in M!Frames
      BY <2>1, ContentTypes DEF M!Call
    <3> QED
      BY <1>5, <1>6, <3>1
  <2> QED
    BY <1>2, <1>3, <1>6, <2>1 DEF NewStays
<1>11. SlotsWere
  BY <1>1 DEF SlotsWere
<1> QED
  BY <1>1, <1>3, <1>4, <1>8, <1>9, <1>10, <1>11, PagesStay, QueueStays DEF ContentInv

\* A task is appended to the queue of the swap device: it writes a page, which
\* is a modified one, or reads one that has been written or will be before.
LEMMA QueueGrows ==
  ASSUME PageInv, ContentInv, NEW t \in Spaces, NEW k, Moves(t, k), io' = Append(io, t), swap' = swap, page' = page,
         fault[t].at \notin {"write", "read"},
         \/ k.at = "write" /\ page[k.new] /\ \A a \in Spaces, v \in M!Virtual :
                                               entry'[a][v].nr \in {entry[a][v].nr, k.nr}
         \/ k.at = "read" /\ (swap[k.nr] \/ \E u \in Spaces : Writes(u, k.nr)) /\ entry' = entry
  PROVE  NewOK' /\ SwapOK' /\ OrderOK'
<1>1. Len(io) \in Nat /\ \A i \in 1 .. Len(io) : io[i] \in Spaces /\ io[i] # t
  BY ContentTypes DEF PageInv, IoOK
<1>2. Len(io') = Len(io) + 1 /\ (\A i \in 1 .. Len(io) : io'[i] = io[i]) /\ io'[Len(io) + 1] = t
  BY AppendProperties DEF PageInv, IoOK
<1>3. \A i \in 1 .. Len(io) : fault'[io'[i]] = fault[io[i]]
  BY <1>1, <1>2 DEF Moves
<1>4. fault'[t] = k /\ \A u \in Spaces : u # t => fault'[u] = fault[u]
  BY DEF Moves
<1>5. NewOK'
  <2> SUFFICES ASSUME NEW u \in Spaces
               PROVE  /\ fault'[u].at \in {"write", "done"} => page'[fault'[u].new]
                      /\ fault'[u].at \in {"got", "load"} => ~page'[fault'[u].new]
                      /\ fault'[u].at \in {"write", "read"} => \E i \in 1 .. Len(io') : io'[i] = u
    BY DEF NewOK
  <2>1. CASE u = t
    <3>1. Len(io) + 1 \in 1 .. Len(io')
      BY <1>1, <1>2
    <3> QED
      BY <1>2, <1>4, <2>1, <3>1
  <2>2. CASE u # t
    <3>1. /\ fault[u].at \in {"write", "done"} => page[fault[u].new]
          /\ fault[u].at \in {"got", "load"} => ~page[fault[u].new]
          /\ fault[u].at \in {"write", "read"} => \E i \in 1 .. Len(io) : io[i] = u
      BY DEF ContentInv, NewOK
    <3>2. \A i \in 1 .. Len(io) : i \in 1 .. Len(io')
      BY <1>1, <1>2
    <3> QED
      BY <1>2, <1>4, <2>2, <3>1, <3>2
  <2> QED
    BY <2>1, <2>2
<1>6. SwapOK'
  <2> SUFFICES ASSUME NEW a \in Spaces, NEW v \in M!Virtual, entry'[a][v].nr # 0
               PROVE  \/ swap[entry'[a][v].nr]
                      \/ \E u \in Spaces : fault'[u].at = "write" /\ fault'[u].nr = entry'[a][v].nr
    BY DEF SwapOK, Writes
  <2>1. CASE entry'[a][v].nr = entry[a][v].nr
    <3>1. swap[entry[a][v].nr] \/ \E u \in Spaces : Writes(u, entry[a][v].nr)
      BY <2>1 DEF ContentInv, SwapOK
    <3> QED
      BY <1>4, <2>1, <3>1 DEF Writes
  <2>2. CASE k.at = "write" /\ entry'[a][v].nr = k.nr
    BY <1>4, <2>2
  <2> QED
    BY <2>1, <2>2
<1>7. OrderOK'
  <2> SUFFICES ASSUME NEW i \in 1 .. Len(io'), fault'[io'[i]].at = "read"
               PROVE  \/ swap[fault'[io'[i]].nr]
                      \/ \E j \in 1 .. i - 1 : fault'[io'[j]].at = "write" /\ fault'[io'[j]].nr = fault'[io'[i]].nr
    BY DEF OrderOK, Writes, Reads
  <2>1. CASE i \in 1 .. Len(io)
    <3>1. swap[fault[io[i]].nr] \/ \E j \in 1 .. i - 1 : Writes(io[j], fault[io[i]].nr)
      BY <1>3, <2>1 DEF ContentInv, OrderOK, Reads
    <3>2. \A j \in 1 .. i - 1 : j \in 1 .. Len(io)
      BY <1>1, <2>1
    <3> QED
      BY <1>3, <2>1, <3>1, <3>2 DEF Writes
  <2>2. CASE i = Len(io) + 1
    <3>1. k.at = "read" /\ fault'[io'[i]] = k
      BY <1>2, <1>4, <2>2
    <3>2. swap[k.nr] \/ \E u \in Spaces : Writes(u, k.nr)
      BY <3>1
    <3>3. ASSUME NEW u \in Spaces, Writes(u, k.nr)
          PROVE  \E j \in 1 .. i - 1 : fault'[io'[j]].at = "write" /\ fault'[io'[j]].nr = k.nr
      <4>1. PICK j \in 1 .. Len(io) : io[j] = u
        BY <3>3 DEF ContentInv, NewOK, Writes
      <4>2. j \in 1 .. i - 1
        BY <1>1, <2>2
      <4> QED
        BY <1>3, <3>3, <4>1, <4>2 DEF Writes
    <3> QED
      BY <3>1, <3>2, <3>3
  <2> QED
    BY <1>1, <1>2, <2>1, <2>2, SMTT(30)
<1> QED
  BY <1>5, <1>6, <1>7

\* try_to_swap_out() of a page that has not been modified since it was loaded.
LEMMA ContentDropped ==
  ASSUME PageInv, ContentInv, Overlaps = {}, NEW t \in Spaces, M!DropPage(t)
  PROVE  ContentInv'
<1>1. PICK x \in M!Victims : ~entry[x[1]][x[2]].dirty /\ entry' = [entry EXCEPT ![x[1]][x[2]] = M!Zero]
  BY DEF M!DropPage
<1> DEFINE u == x[1]
           w == x[2]
<1>2. u \in Spaces /\ w \in M!Virtual /\ x = <<u, w>>
  BY DEF M!Victims, M!Swappable, M!Entries
<1>3. entry[u][w].frame # 0 /\ ~page[entry[u][w].frame]
  BY <1>1 DEF M!Victims, M!Swappable
<1>4. entry' = Put(entry, u, w, M!Zero)
  BY <1>1 DEF Put
<1>5. fault[t].at = "get" /\ fault' = fault /\ used' = used /\ io' = io /\ page' = page /\ swap' = swap /\ mine' = mine
  BY DEF M!DropPage, M!At, M!contents
<1>6. M!Zero.frame = 0 /\ M!Zero.nr = 0 /\ ~M!Zero.dirty
  BY DEF M!Zero
<1> HIDE DEF u, w
<1>7. \A a \in Spaces, v \in M!Virtual : entry'[a][v] = IF a = u /\ v = w THEN M!Zero ELSE entry[a][v]
  BY <1>2, <1>4, EntryPut
<1>8. \A a \in Spaces, v \in M!Virtual : ~(a = u /\ v = w) => Kept(a, v)
  BY <1>5, <1>7 DEF Kept
<1>9. OwnersKeep
  <2> SUFFICES ASSUME NEW a \in Spaces, NEW b \in Spaces, NEW v \in M!Virtual, Owned(a, v, b)'
               PROVE  Fine(entry'[a][v], page', v, mine'[b]) \/ (Owned(a, v, b) /\ Kept(a, v) /\ mine' = mine)
    BY DEF OwnersKeep
  <2>1. Owned(a, v, b)
    BY <1>5 DEF Owned
  <2>2. CASE a = u /\ v = w
    <3>1. Fine(entry[a][v], page, v, mine[b])
      BY <2>1 DEF ContentInv, PagesKept
    <3>2. v \notin mine[b]
      BY <1>3, <2>2, <3>1 DEF Fine
    <3> QED
      BY <1>5, <1>6, <1>7, <2>2, <3>2 DEF Fine
  <2> QED
    BY <1>5, <1>8, <2>1, <2>2
<1>10. DirtStays
  BY <1>6, <1>7, <1>8 DEF DirtStays
<1>11. Moves(t, fault[t]) /\ NewStays(t, fault[t]) /\ SlotsWere
  BY <1>5, <1>6, <1>7 DEF Moves, NewStays, SlotsWere
<1> QED
  BY <1>5, <1>9, <1>10, <1>11, PagesStay, QueueStays DEF ContentInv

\* try_to_swap_out() of one that has.
LEMMA ContentSwapOut ==
  ASSUME PageInv, ContentInv, NEW t \in Spaces, M!SwapOut(t)
  PROVE  ContentInv'
<1> DEFINE n == M!Min(swap_bitmap)
<1>1. PICK x \in M!Victims : /\ entry[x[1]][x[2]].dirty /\ entry' = [entry EXCEPT ![x[1]][x[2]] = M!Swapped(n)]
                             /\ fault' = [fault EXCEPT ![t] = [fault[t] EXCEPT !.at = "write",
                                                               !.new = entry[x[1]][x[2]].frame, !.nr = n]]
  BY DEF M!SwapOut, M!Leave
<1> DEFINE u == x[1]
           w == x[2]
           k == [fault[t] EXCEPT !.at = "write", !.new = entry[u][w].frame, !.nr = n]
<1>2. u \in Spaces /\ w \in M!Virtual /\ entry[u][w].frame # 0 /\ swap_bitmap # {}
  BY <1>1 DEF M!Victims, M!Swappable, M!Entries
<1>3. n \in 1 .. NrSwap /\ n # 0
  BY <1>2, FirstSlot, PageTypes, PlaceTypes DEF PageInv
<1>4. /\ fault[t].at = "get" /\ used' = used /\ io' = Append(io, t) /\ page' = page /\ swap' = swap /\ mine' = mine
      /\ fault' = [fault EXCEPT ![t] = k] /\ entry' = Put(entry, u, w, M!Swapped(n)) /\ entry[u][w].dirty
  BY <1>1 DEF M!SwapOut, M!At, M!contents, Put
<1>5. M!Swapped(n).frame = 0 /\ M!Swapped(n).nr = n /\ ~M!Swapped(n).dirty
  BY DEF M!Swapped, M!Zero
<1>6. /\ k.at = "write" /\ k.new = entry[u][w].frame /\ k.nr = n /\ k.op = fault[t].op
      /\ k.child = fault[t].child /\ k.todo = fault[t].todo
  BY ContentTypes DEF M!Call
<1> HIDE DEF n, u, w, k
<1>7. Moves(t, k)
  BY <1>4, FaultPut
<1>8. \A a \in Spaces, v \in M!Virtual : entry'[a][v] = IF a = u /\ v = w THEN M!Swapped(n) ELSE entry[a][v]
  BY <1>2, <1>4, EntryPut
<1>9. \A a \in Spaces, v \in M!Virtual : ~(a = u /\ v = w) => Kept(a, v)
  BY <1>4, <1>8 DEF Kept
<1>10. page[entry[u][w].frame]
  BY <1>2, <1>4 DEF ContentInv, DirtyOK
<1>11. OwnersKeep
  <2> SUFFICES ASSUME NEW a \in Spaces, NEW b \in Spaces, NEW v \in M!Virtual, Owned(a, v, b)'
               PROVE  Fine(entry'[a][v], page', v, mine'[b]) \/ (Owned(a, v, b) /\ Kept(a, v) /\ mine' = mine)
    BY DEF OwnersKeep
  <2>1. Owned(a, v, b)
    BY <1>4, <1>6, <1>7 DEF Owned, Moves
  <2>2. CASE a = u /\ v = w
    <3>1. Fine(entry[a][v], page, v, mine[b])
      BY <2>1 DEF ContentInv, PagesKept
    <3>2. v \in mine[b]
      BY <1>2, <1>10, <2>2, <3>1 DEF Fine
    <3> QED
      BY <1>3, <1>4, <1>5, <1>8, <2>2, <3>2 DEF Fine
  <2> QED
    BY <1>4, <1>9, <2>1, <2>2
<1>12. DirtStays
  BY <1>5, <1>8, <1>9 DEF DirtStays
<1>13. \A a \in Spaces, v \in M!Virtual : entry'[a][v].nr \in {entry[a][v].nr, k.nr}
  BY <1>5, <1>6, <1>8
<1> QED
  BY <1>4, <1>6, <1>7, <1>10, <1>11, <1>12, <1>13, PagesStay, QueueGrows DEF ContentInv

\* A page of the swap device is read into a page that is then a modified one.
LEMMA ContentReads == ASSUME PageInv, ContentInv, NEW t \in Spaces, M!ReadPage(t) PROVE ContentInv'
<1> DEFINE k == [fault[t] EXCEPT !.at = "read", !.nr = M!Mine(t).nr]
<1>1. /\ fault[t].at = "got" /\ fault[t].op \in {"in", "fork"} /\ fault' = [fault EXCEPT ![t] = k]
      /\ entry' = entry /\ used' = used /\ io' = Append(io, t) /\ page' = page /\ swap' = swap /\ mine' = mine
  BY DEF M!ReadPage, M!At, M!Leave, M!contents
<1>2. /\ k.at = "read" /\ k.nr = entry[t][fault[t].v].nr /\ k.op = fault[t].op
      /\ k.child = fault[t].child /\ k.todo = fault[t].todo
  BY ContentTypes DEF M!Call, M!Mine
<1> HIDE DEF k
<1>3. Moves(t, k)
  BY <1>1, FaultPut
<1>4. \A a \in Spaces, v \in M!Virtual : Kept(a, v)
  BY <1>1 DEF Kept
<1>5. OwnersKeep
  <2> SUFFICES ASSUME NEW a \in Spaces, NEW b \in Spaces, NEW v \in M!Virtual, Owned(a, v, b)' PROVE Owned(a, v, b)
    BY <1>1, <1>4 DEF OwnersKeep
  <2> QED
    BY <1>1, <1>2, <1>3 DEF Owned, Moves
<1>6. DirtStays
  BY <1>1, <1>4 DEF DirtStays
<1>7. swap[k.nr] \/ \E u \in Spaces : Writes(u, k.nr)
  <2>1. FaultOK(t)
    BY ContentTypes
  <2>2. fault[t].v \in M!Virtual /\ entry[t][fault[t].v].nr # 0
    BY <1>1, <2>1 DEF FaultOK, Fits
  <2> QED
    BY <1>2, <2>2 DEF ContentInv, SwapOK
<1> QED
  BY <1>1, <1>2, <1>3, <1>5, <1>6, <1>7, PagesStay, QueueGrows DEF ContentInv

\* A page has been written to the swap device, and is freed.
LEMMA ContentWritten == ASSUME PageInv, ContentInv, NEW t \in Spaces, M!Written(t) PROVE ContentInv'
<1> DEFINE k == [fault[t] EXCEPT !.at = "get", !.new = 0, !.nr = 0]
<1>1. /\ fault[t].at = "written" /\ fault' = [fault EXCEPT ![t] = k]
      /\ entry' = entry /\ used' = used /\ io' = io /\ page' = page /\ swap' = swap /\ mine' = mine
  BY DEF M!Written, M!At, M!Goto, M!contents
<1>2. k.at = "get" /\ k.op = fault[t].op /\ k.child = fault[t].child /\ k.todo = fault[t].todo
  BY ContentTypes DEF M!Call
<1> HIDE DEF k
<1> QED
  BY <1>1, <1>2, ContentStarts

\* do_no_page() sleeps in bread_page().
LEMMA ContentLoads == ASSUME PageInv, ContentInv, NEW t \in Spaces, M!LoadPage(t) PROVE ContentInv'
<1> DEFINE k == [fault[t] EXCEPT !.at = "load"]
<1>1. /\ fault[t].at = "got" /\ fault[t].op = "load" /\ fault' = [fault EXCEPT ![t] = k]
      /\ entry' = entry /\ used' = used /\ io' = io /\ page' = page /\ swap' = swap /\ mine' = mine
  BY DEF M!LoadPage, M!At, M!Leave, M!contents
<1>2. k.at = "load" /\ k.new = fault[t].new /\ k.op = fault[t].op /\ k.child = fault[t].child /\ k.todo = fault[t].todo
  BY ContentTypes DEF M!Call
<1> HIDE DEF k
<1> QED
  BY <1>1, <1>2, ContentStarts

\* A task enters its new page and returns to user mode.
Enters(t, n) ==
  /\ n.frame = fault[t].new /\ n.nr = 0 /\ (n.dirty => page'[n.frame])
  /\ page'[n.frame] <=> fault[t].v \in mine[t]
  /\ \A f \in M!Frames : f # fault[t].new => page'[f] = page[f]

\* What it has left in the page is in the new one.
LEMMA ContentEntered ==
  ASSUME PageInv, ContentInv, NEW t \in Spaces, NEW n, Enters(t, n),
         fault[t].at \in {"got", "load", "done"}, fault[t].op # "fork",
         entry' = Put(entry, t, fault[t].v, n), fault' = [fault EXCEPT ![t] = M!User],
         used' = used, io' = io, swap' = swap, mine' = mine
  PROVE  ContentInv'
<1> DEFINE v == fault[t].v
           f == fault[t].new
<1>0. /\ n.frame = f /\ n.nr = 0 /\ (n.dirty => page'[n.frame])
      /\ page'[n.frame] <=> v \in mine[t]
      /\ \A g \in M!Frames : g # f => page'[g] = page[g]
  BY DEF Enters
<1>1. t \in used /\ v \in M!Virtual /\ f # 0 /\ M!User.op = "none" /\ M!User.at = "user"
  <2>1. FaultOK(t)
    BY ContentTypes
  <2>2. t \in used /\ v \in M!Virtual /\ f # 0
    BY <2>1 DEF FaultOK, Fits
  <2> QED
    BY <2>2 DEF M!User
<1>2. /\ \A a \in Spaces, w \in M!Virtual : entry[a][w].frame # f
      /\ \A u \in Spaces : fault[u].new = f => u = t
  BY <1>1, NewIsAlone
<1>3. Moves(t, M!User)
  BY FaultPut
<1>4. \A a \in Spaces, w \in M!Virtual : entry'[a][w] = IF a = t /\ w = v THEN n ELSE entry[a][w]
  <2> HIDE DEF v
  <2>1. entry' = Put(entry, t, v, n)
    BY DEF v
  <2> QED
    BY <1>1, <2>1, EntryPut
<1> HIDE DEF v, f
<1>5. \A a \in Spaces, w \in M!Virtual : ~(a = t /\ w = v) => Kept(a, w)
  <2> SUFFICES ASSUME NEW a \in Spaces, NEW w \in M!Virtual, ~(a = t /\ w = v) PROVE Kept(a, w)
    OBVIOUS
  <2>1. entry[a][w].frame \in M!Frames \cup {0} /\ entry[a][w].frame # f
    BY <1>2, ContentTypes
  <2>2. entry[a][w].frame # 0 => page'[entry[a][w].frame] = page[entry[a][w].frame]
    BY <1>0, <2>1
  <2> QED
    BY <1>4, <2>2 DEF Kept
<1>6. OwnersKeep
  <2> SUFFICES ASSUME NEW a \in Spaces, NEW b \in Spaces, NEW w \in M!Virtual, Owned(a, w, b)'
               PROVE  Fine(entry'[a][w], page', w, mine'[b]) \/ (Owned(a, w, b) /\ Kept(a, w) /\ mine' = mine)
    BY DEF OwnersKeep
  <2>1. Owned(a, w, b)
    BY <1>1, <1>3 DEF Owned, Moves
  <2>2. CASE a = t /\ w = v
    <3>1. b = t
      BY <1>1, <2>1, <2>2, OwnedFacts
    <3> QED
      BY <1>0, <1>1, <1>4, <2>2, <3>1 DEF Fine
  <2> QED
    BY <1>5, <2>1, <2>2
<1>7. DirtStays
  BY <1>0, <1>4, <1>5 DEF DirtStays
<1>8. NewStays(t, M!User)
  <2> SUFFICES ASSUME NEW u \in Spaces \ {t}, fault[u].new # 0 PROVE page'[fault[u].new] = page[fault[u].new]
    BY <1>1 DEF NewStays
  <2>1. fault[u].new \in M!Frames /\ fault[u].new # f
    BY <1>2, ContentTypes DEF M!Call
  <2> QED
    BY <1>0, <2>1
<1>9. SlotsWere
  BY <1>0, <1>4 DEF SlotsWere
<1> QED
  BY <1>1, <1>3, <1>6, <1>7, <1>8, <1>9, PagesStay, QueueStays DEF ContentInv

\* get_empty_page(), and the page that has been read from the file.
LEMMA ContentEmptied ==
  ASSUME PageInv, ContentInv, NEW t \in Spaces, M!EmptyPage(t) \/ M!Loaded(t)
  PROVE  ContentInv'
<1> DEFINE n == M!Present(fault[t].new, FALSE)
<1>1. /\ fault[t].at \in {"got", "load"} /\ (fault[t].at = "got" => fault[t].op = "empty")
      /\ fault' = [fault EXCEPT ![t] = M!User] /\ entry' = Put(entry, t, fault[t].v, n)
      /\ used' = used /\ io' = io /\ page' = page /\ swap' = swap /\ mine' = mine
  BY DEF M!EmptyPage, M!Loaded, M!At, M!Leave, M!contents, Put
<1>2. n.frame = fault[t].new /\ n.nr = 0 /\ ~n.dirty
  BY DEF M!Present
<1> HIDE DEF n
<1>3. t \in used /\ fault[t].v \in M!Virtual /\ entry[t][fault[t].v] = M!Zero /\ fault[t].op \in {"load", "empty"}
  <2>1. FaultOK(t)
    BY ContentTypes
  <2> QED
    BY <1>1, <2>1 DEF FaultOK, Fits
<1>4. fault[t].v \notin mine[t]
  <2>1. Fine(M!Zero, page, fault[t].v, mine[t])
    BY <1>3 DEF ContentInv, PagesKept, Owned
  <2> QED
    BY <2>1 DEF Fine, M!Zero
<1>5. ~page[fault[t].new]
  BY <1>1 DEF ContentInv, NewOK
<1>6. Enters(t, n)
  BY <1>1, <1>2, <1>4, <1>5 DEF Enters
<1> QED
  BY <1>1, <1>3, <1>6, ContentEntered

\* un_wp_page() has copied the page.
LEMMA ContentUnshared == ASSUME PageInv, ContentInv, NEW t \in Spaces, M!CopyPage(t) PROVE ContentInv'
<1> DEFINE n == M!Present(fault[t].new, FALSE)
           v == fault[t].v
           f == fault[t].frame
<1>1. /\ fault[t].at = "got" /\ fault[t].op = "unshare"
      /\ fault' = [fault EXCEPT ![t] = M!User] /\ entry' = Put(entry, t, fault[t].v, n)
      /\ page' = [page EXCEPT ![fault[t].new] = page[f]]
      /\ used' = used /\ io' = io /\ swap' = swap /\ mine' = mine
  BY DEF M!CopyPage, M!At, M!Leave, M!contents, Put
<1>2. n.frame = fault[t].new /\ n.nr = 0 /\ ~n.dirty
  BY DEF M!Present
<1> HIDE DEF n
<1>3. t \in used /\ v \in M!Virtual /\ entry[t][v].frame = f /\ f # 0 /\ fault[t].new # 0
  <2>1. FaultOK(t)
    BY ContentTypes
  <2> QED
    BY <1>1, <2>1 DEF FaultOK, Fits
<1>4. page[f] <=> v \in mine[t]
  <2>1. Fine(entry[t][v], page, v, mine[t])
    BY <1>3 DEF ContentInv, PagesKept, Owned
  <2> QED
    BY <1>3, <2>1 DEF Fine
<1>5. fault[t].new \in M!Frames
  BY <1>3, ContentTypes DEF M!Call
<1> HIDE DEF f, v
<1>6. page'[fault[t].new] = page[f] /\ \A g \in M!Frames : g # fault[t].new => page'[g] = page[g]
  BY <1>1, <1>5, ContentTypes
<1>7. page'[n.frame] <=> fault[t].v \in mine[t]
  BY <1>2, <1>4, <1>6 DEF v
<1>8. Enters(t, n)
  BY <1>1, <1>2, <1>6, <1>7 DEF Enters
<1> QED
  BY <1>1, <1>8, ContentEntered

\* The page of the swap device has been read, for a fork: the task keeps the
\* page, and the child the one in the swap device.
LEMMA ContentCopiedIn ==
  ASSUME PageInv, ContentInv, NEW t \in Spaces, fault[t].at = "done", fault[t].op = "fork", NEW n, NEW k,
         n.frame = fault[t].new, n.nr = 0,
         k.at = "copy", k.op = "fork", k.child = fault[t].child, k.todo = fault[t].todo \ {fault[t].v},
         entry' = Put(Put(entry, t, fault[t].v, n), fault[t].child, fault[t].v, entry[t][fault[t].v]),
         fault' = [fault EXCEPT ![t] = k],
         used' = used, io' = io, page' = page, swap' = swap, mine' = mine
  PROVE  ContentInv'
<1> DEFINE v == fault[t].v
           c == fault[t].child
           z == entry[t][v]
<1>1. /\ v \in M!Virtual /\ fault[t].new # 0 /\ t \in used /\ c \in Spaces \ used /\ v \in fault[t].todo
      /\ z.nr # 0 /\ z.frame = 0 /\ ~z.dirty
  <2>1. FaultOK(t)
    BY ContentTypes
  <2>2. v \in M!Virtual /\ fault[t].new # 0 /\ t \in used /\ c \in Spaces \ used /\ v \in fault[t].todo /\ z.nr # 0
    BY <2>1 DEF FaultOK, Fits
  <2>3. EntryOK(z)
    BY <2>2, ContentTypes
  <2> QED
    BY <2>2, <2>3 DEF EntryOK
<1>2. k.child = c /\ k.todo = fault[t].todo \ {v} /\ n.frame = fault[t].new
  OBVIOUS
<1>3. \A a \in Spaces, w \in M!Virtual :
        entry'[a][w] = IF w = v /\ a = c THEN z ELSE IF w = v /\ a = t THEN n ELSE entry[a][w]
  <2>1. entry' = Put(Put(entry, t, v, n), c, v, z)
    OBVIOUS
  <2> HIDE DEF v, c, z
  <2> QED
    BY <1>1, <2>1, ContentTypes DEF Put, Tables
<1>4. page[fault[t].new]
  BY DEF ContentInv, NewOK
<1>5. Fine(z, page, v, mine[t])
  BY <1>1 DEF ContentInv, PagesKept, Owned
<1>6. v \in mine[t]
  BY <1>1, <1>5 DEF Fine
<1>7. Fine(n, page, v, mine[t])
  BY <1>1, <1>4, <1>6 DEF Fine
<1>8. Moves(t, k)
  BY FaultPut
<1> HIDE DEF v, c, z
<1>9. \A a \in Spaces, w \in M!Virtual : ~(w = v /\ a \in {t, c}) => Kept(a, w)
  BY <1>3 DEF Kept
<1>10. OwnersKeep
  <2> SUFFICES ASSUME NEW a \in Spaces, NEW b \in Spaces, NEW w \in M!Virtual, Owned(a, w, b)'
               PROVE  Fine(entry'[a][w], page', w, mine'[b]) \/ (Owned(a, w, b) /\ Kept(a, w) /\ mine' = mine)
    BY DEF OwnersKeep
  <2>1. CASE a = c /\ w = v
    <3>1. fault'[b].child = c
      BY <1>1, <2>1 DEF Owned
    <3>2. fault[b].child = c /\ c # NULL
      BY <1>1, <1>2, <1>8, <3>1, ContentTypes DEF Moves, c
    <3>3. b = t
      BY <3>2 DEF PageInv, ChildrenOK, c
    <3> QED
      BY <1>1, <1>3, <1>5, <2>1, <3>3
  <2>2. CASE ~(a = c /\ w = v)
    <3>1. Owned(a, w, b)
      BY <1>1, <1>2, <1>8, <2>2 DEF Owned, Moves, c
    <3>2. CASE a = t /\ w = v
      <4>1. b = t
        BY <1>1, <3>1, <3>2, OwnedFacts
      <4>2. entry'[a][w] = n
        BY <1>1, <1>3, <3>2
      <4> QED
        BY <1>7, <3>2, <4>1, <4>2
    <3>3. CASE ~(a = t /\ w = v)
      BY <1>9, <2>2, <3>1, <3>3
    <3> QED
      BY <3>2, <3>3
  <2> QED
    BY <2>1, <2>2
<1>11. DirtStays
  <2> SUFFICES ASSUME NEW a \in Spaces, NEW w \in M!Virtual, entry'[a][w].dirty
               PROVE  page'[entry'[a][w].frame] \/ (entry[a][w].dirty /\ Kept(a, w))
    BY DEF DirtStays
  <2>1. CASE w = v /\ a = c
    BY <1>1, <1>3, <2>1
  <2>2. CASE w = v /\ a = t /\ a # c
    BY <1>2, <1>3, <1>4, <2>2
  <2>3. CASE ~(w = v /\ a \in {t, c})
    BY <1>3, <1>9, <2>3
  <2> QED
    BY <2>1, <2>2, <2>3
<1>12. NewStays(t, k)
  BY DEF NewStays
<1>13. SlotsWere
  <2> SUFFICES ASSUME NEW a \in Spaces, NEW w \in M!Virtual, entry'[a][w].nr # 0
               PROVE  \E b \in Spaces, y \in M!Virtual : entry[b][y].nr = entry'[a][w].nr
    BY DEF SlotsWere
  <2>1. CASE w = v /\ a = c
    BY <1>1, <1>3, <2>1 DEF z
  <2>2. CASE ~(w = v /\ a = c)
    BY <1>3, <2>2
  <2> QED
    BY <2>1, <2>2
<1> QED
  BY <1>8, <1>10, <1>11, <1>12, <1>13, PagesStay, QueueStays DEF ContentInv

\* swap_in() and the loop of copy_page_tables() have got the page.
LEMMA ContentSwappedIn == ASSUME PageInv, ContentInv, NEW t \in Spaces, M!SwappedIn(t) PROVE ContentInv'
<1> DEFINE v == fault[t].v
           n == M!Present(fault[t].new, TRUE)
           k == [fault[t] EXCEPT !.at = "copy", !.v = NULL, !.new = 0, !.nr = 0, !.todo = @ \ {v}]
<1>1. fault[t].at = "done" /\ used' = used /\ io' = io /\ page' = page /\ swap' = swap /\ mine' = mine
  BY DEF M!SwappedIn, M!At, M!contents
<1>2. \/ /\ fault[t].op = "in" /\ entry' = Put(entry, t, v, n) /\ fault' = [fault EXCEPT ![t] = M!User]
      \/ /\ fault[t].op = "fork" /\ entry' = Put(Put(entry, t, v, n), fault[t].child, v, entry[t][v])
         /\ fault' = [fault EXCEPT ![t] = k]
  BY DEF M!SwappedIn, M!Leave, M!Goto, Put
<1>3. n.frame = fault[t].new /\ n.nr = 0
  BY DEF M!Present
<1> HIDE DEF n
<1>4. CASE fault[t].op = "in" /\ entry' = Put(entry, t, v, n) /\ fault' = [fault EXCEPT ![t] = M!User]
  <2>1. t \in used /\ v \in M!Virtual /\ entry[t][v].nr # 0
    <3>1. FaultOK(t)
      BY ContentTypes
    <3> QED
      BY <1>1, <1>4, <3>1 DEF FaultOK, Fits
  <2>2. v \in mine[t]
    BY <2>1 DEF ContentInv, PagesKept, Owned, Fine
  <2>3. page[fault[t].new]
    BY <1>1 DEF ContentInv, NewOK
  <2>4. Enters(t, n)
    BY <1>1, <1>3, <2>2, <2>3 DEF Enters
  <2> QED
    BY <1>1, <1>4, <2>4, ContentEntered
<1>5. CASE /\ fault[t].op = "fork" /\ entry' = Put(Put(entry, t, v, n), fault[t].child, v, entry[t][v])
           /\ fault' = [fault EXCEPT ![t] = k]
  <2>1. k.op = "fork" /\ k.at = "copy" /\ k.child = fault[t].child /\ k.todo = fault[t].todo \ {v}
    BY <1>5, ContentTypes DEF M!Call
  <2> HIDE DEF k
  <2> QED
    BY <1>1, <1>3, <1>5, <2>1, ContentCopiedIn
<1> QED
  BY <1>2, <1>4, <1>5

\* What is at the head of the queue of the swap device.
LEMMA QueueHead ==
  ASSUME PageInv, io # << >>
  PROVE  /\ Head(io) = io[1] /\ 1 \in 1 .. Len(io) /\ Head(io) \in Spaces
         /\ fault[Head(io)].at \in {"write", "read"} /\ FaultOK(Head(io))
         /\ fault[Head(io)].new \in M!Frames /\ fault[Head(io)].nr \in 1 .. NrSwap
         /\ Len(Tail(io)) \in Nat /\ Len(io) = Len(Tail(io)) + 1
         /\ \A i \in 1 .. Len(Tail(io)) :
              Tail(io)[i] = io[i + 1] /\ i + 1 \in 1 .. Len(io) /\ io[i + 1] \in Spaces /\ io[i + 1] # Head(io)
<1> DEFINE t == Head(io)
<1>1. io \in Seq(Spaces) /\ Len(io) \in Nat
  BY LenProperties DEF PageInv, IoOK
<1>2. /\ Head(io) = io[1] /\ Tail(io) \in Seq(Spaces) /\ Len(Tail(io)) = Len(io) - 1
      /\ \A i \in 1 .. Len(Tail(io)) : Tail(io)[i] = io[i + 1]
  BY <1>1, HeadTailProperties
<1>3. Len(io) >= 1
  BY <1>1, EmptySeq
<1>4. t \in Spaces /\ fault[t].at \in {"write", "read"} /\ FaultOK(t) /\ fault[t] \in M!Call
  BY IoHead, ContentTypes DEF PageInv
<1>5. fault[t].new \in M!Frames /\ fault[t].nr \in 1 .. NrSwap
  <2>1. fault[t].new # 0 /\ fault[t].nr # 0
    BY <1>4 DEF FaultOK, Fits
  <2> HIDE DEF t
  <2> QED
    BY <1>4, <2>1, PlaceTypes DEF M!Call
<1>6. ASSUME NEW i \in 1 .. Len(Tail(io))
      PROVE  Tail(io)[i] = io[i + 1] /\ i + 1 \in 1 .. Len(io) /\ io[i + 1] \in Spaces /\ io[i + 1] # t
  <2>1. i + 1 \in 1 .. Len(io) /\ 1 \in 1 .. Len(io) /\ i + 1 # 1
    BY <1>1, <1>2, <1>3, <1>6
  <2>2. io[i + 1] # io[1]
    BY <2>1 DEF PageInv, IoOK
  <2> QED
    BY <1>1, <1>2, <2>1, <2>2, ElementOfSeq
<1>7. 1 \in 1 .. Len(io) /\ Len(Tail(io)) \in Nat /\ Len(io) = Len(Tail(io)) + 1
  BY <1>1, <1>2, <1>3
<1> QED
  BY <1>2, <1>4, <1>5, <1>6, <1>7

\* It is served: what is written or read has been modified.
Served(t, k) ==
  /\ t = Head(io) /\ io # << >> /\ io' = Tail(io) /\ Moves(t, k)
  /\ k.at \in {"written", "done"} /\ k.op = fault[t].op /\ k.child = fault[t].child /\ k.todo = fault[t].todo
  /\ k.new = fault[t].new /\ k.nr = fault[t].nr
  /\ \A n \in 1 .. NrSwap : swap[n] => swap'[n]
  /\ fault[t].at = "write" => swap'[fault[t].nr] /\ k.at = "written"
  /\ k.at = "done" => page'[fault[t].new]
  /\ \A f \in M!Frames : f # fault[t].new => page'[f] = page[f]
  /\ fault[t].at = "write" => page' = page
  /\ entry' = entry /\ used' = used /\ mine' = mine

\* The others in the queue are as they were, one place further.
LEMMA QueueServed ==
  ASSUME PageInv, ContentInv, NEW t \in Spaces, NEW k, Served(t, k)
  PROVE  NewOK' /\ SwapOK' /\ OrderOK'
<1>1. io # << >> /\ t = Head(io) /\ io' = Tail(io) /\ fault'[t] = k /\ \A u \in Spaces : u # t => fault'[u] = fault[u]
  BY DEF Served, Moves
<1>2. /\ t = io[1] /\ 1 \in 1 .. Len(io) /\ fault[t].at \in {"write", "read"}
      /\ fault[t].new \in M!Frames /\ fault[t].nr \in 1 .. NrSwap
      /\ Len(io') \in Nat /\ Len(io) = Len(io') + 1
      /\ \A i \in 1 .. Len(io') : io'[i] = io[i + 1] /\ i + 1 \in 1 .. Len(io) /\ io[i + 1] \in Spaces /\ io[i + 1] # t
  BY <1>1, QueueHead
<1>3. /\ k.at \in {"written", "done"} /\ k.new = fault[t].new /\ (k.at = "done" => page'[fault[t].new])
      /\ \A n \in 1 .. NrSwap : swap[n] => swap'[n]
      /\ fault[t].at = "write" => swap'[fault[t].nr]
      /\ \A f \in M!Frames : f # fault[t].new => page'[f] = page[f]
      /\ entry' = entry
  BY DEF Served
<1>4. \A i \in 1 .. Len(io') : fault'[io'[i]] = fault[io[i + 1]]
  BY <1>1, <1>2
<1>5. NewOK'
  <2> SUFFICES ASSUME NEW u \in Spaces
               PROVE  /\ fault'[u].at \in {"write", "done"} => page'[fault'[u].new]
                      /\ fault'[u].at \in {"got", "load"} => ~page'[fault'[u].new]
                      /\ fault'[u].at \in {"write", "read"} => \E i \in 1 .. Len(io') : io'[i] = u
    BY DEF NewOK
  <2>1. CASE u = t
    BY <1>1, <1>3, <2>1
  <2>2. CASE u # t
    <3>1. FaultOK(u) /\ fault'[u] = fault[u] /\ fault[u].new \in M!Frames \cup {0}
      BY <1>1, <2>2, ContentTypes DEF M!Call
    <3>2. fault[u].at \in {"write", "done", "got", "load"} => fault[u].new # 0
      BY <3>1 DEF FaultOK, Fits
    <3>3. fault[u].new # fault[t].new
      <4>1. fault[t].new # 0
        BY <1>2, PlaceTypes
      <4> QED
        BY <2>2, <4>1, NewIsAlone
    <3>4. fault[u].new # 0 => page'[fault[u].new] = page[fault[u].new]
      BY <1>3, <3>1, <3>3
    <3>5. /\ fault[u].at \in {"write", "done"} => page[fault[u].new]
          /\ fault[u].at \in {"got", "load"} => ~page[fault[u].new]
          /\ fault[u].at \in {"write", "read"} => \E i \in 1 .. Len(io) : io[i] = u
      BY DEF ContentInv, NewOK
    <3>6. ASSUME NEW i \in 1 .. Len(io), io[i] = u PROVE \E j \in 1 .. Len(io') : io'[j] = u
      <4>1. i # 1
        BY <1>2, <2>2, <3>6
      <4>2. i - 1 \in 1 .. Len(io') /\ i - 1 + 1 = i
        BY <1>2, <4>1
      <4> QED
        BY <1>2, <3>6, <4>2
    <3> QED
      BY <3>1, <3>2, <3>4, <3>5, <3>6
  <2> QED
    BY <2>1, <2>2
<1>6. ASSUME NEW u \in Spaces, NEW n \in 1 .. NrSwap, Writes(u, n)
      PROVE  swap'[n] \/ (u # t /\ fault'[u].at = "write" /\ fault'[u].nr = n)
  BY <1>1, <1>3, <1>6 DEF Writes
<1>7. SwapOK'
  <2> SUFFICES ASSUME NEW a \in Spaces, NEW v \in M!Virtual, entry[a][v].nr # 0
               PROVE  swap'[entry[a][v].nr] \/ \E u \in Spaces : fault'[u].at = "write" /\ fault'[u].nr = entry[a][v].nr
    BY <1>3 DEF SwapOK, Writes
  <2>1. entry[a][v].nr \in 1 .. NrSwap
    BY ContentTypes, PlaceTypes
  <2>2. swap[entry[a][v].nr] \/ \E u \in Spaces : Writes(u, entry[a][v].nr)
    BY DEF ContentInv, SwapOK
  <2> QED
    BY <1>3, <1>6, <2>1, <2>2
<1>8. OrderOK'
  <2> SUFFICES ASSUME NEW i \in 1 .. Len(io'), fault'[io'[i]].at = "read"
               PROVE  \/ swap'[fault'[io'[i]].nr]
                      \/ \E j \in 1 .. i - 1 : fault'[io'[j]].at = "write" /\ fault'[io'[j]].nr = fault'[io'[i]].nr
    BY DEF OrderOK, Writes, Reads
  <2>0. /\ fault'[io'[i]] = fault[io[i + 1]] /\ fault[io[i + 1]].at = "read"
        /\ \A j \in 1 .. i - 1 : fault'[io'[j]] = fault[io[j + 1]]
    BY <1>2, <1>4
  <2> SUFFICES \/ swap'[fault[io[i + 1]].nr]
               \/ \E j \in 1 .. i - 1 : fault[io[j + 1]].at = "write" /\ fault[io[j + 1]].nr = fault[io[i + 1]].nr
    BY <2>0
  <2> DEFINE n == fault[io[i + 1]].nr
  <2>1. i + 1 \in 1 .. Len(io) /\ io[i + 1] \in Spaces
    BY <1>2
  <2>2. n \in 1 .. NrSwap
    <3>1. FaultOK(io[i + 1]) /\ fault[io[i + 1]] \in M!Call
      BY <2>1, ContentTypes
    <3>2. n # 0
      BY <2>0, <3>1 DEF FaultOK, Fits
    <3> QED
      BY <3>1, <3>2, PlaceTypes DEF M!Call
  <2>3. swap[n] \/ \E j \in 1 .. i + 1 - 1 : Writes(io[j], n)
    BY <2>0, <2>1 DEF ContentInv, OrderOK, Reads
  <2> HIDE DEF n
  <2>4. ASSUME NEW j \in 1 .. i + 1 - 1, Writes(io[j], n)
        PROVE  swap'[n] \/ \E m \in 1 .. i - 1 : fault[io[m + 1]].at = "write" /\ fault[io[m + 1]].nr = n
    <3>1. CASE j = 1
      BY <1>2, <1>3, <2>2, <2>4, <3>1 DEF Writes
    <3>2. CASE j # 1
      <4>1. j - 1 \in 1 .. i - 1 /\ j - 1 + 1 = j
        BY <1>2, <3>2
      <4> QED
        BY <2>4, <4>1 DEF Writes
    <3> QED
      BY <3>1, <3>2
  <2> QED
    BY <1>3, <2>2, <2>3, <2>4 DEF n
<1> QED
  BY <1>5, <1>7, <1>8

\* The swap device has written or read a page.
LEMMA ContentIoDone == ASSUME PageInv, ContentInv, M!IoDone PROVE ContentInv'
<1> DEFINE t == Head(io)
           k == [fault[t] EXCEPT !.at = IF fault[t].at = "write" THEN "written" ELSE "done"]
<1>1. /\ io # << >> /\ io' = Tail(io) /\ fault' = [fault EXCEPT ![t].at = IF fault[t].at = "write" THEN "written" ELSE "done"]
      /\ IF fault[t].at = "write"
         THEN swap' = [swap EXCEPT ![fault[t].nr] = page[fault[t].new]] /\ page' = page
         ELSE page' = [page EXCEPT ![fault[t].new] = swap[fault[t].nr]] /\ swap' = swap
      /\ entry' = entry /\ used' = used /\ mine' = mine
  BY DEF M!IoDone
<1>2. /\ t \in Spaces /\ fault[t].at \in {"write", "read"} /\ t = io[1] /\ 1 \in 1 .. Len(io)
      /\ fault[t].new \in M!Frames /\ fault[t].nr \in 1 .. NrSwap
  BY <1>1, QueueHead
<1>3. fault \in Calls /\ fault[t] \in M!Call
  BY <1>2, ContentTypes
<1>4. fault' = [fault EXCEPT ![t] = k]
  BY <1>1, <1>2, <1>3 DEF Calls
<1>5. /\ k.at = IF fault[t].at = "write" THEN "written" ELSE "done"
      /\ k.new = fault[t].new /\ k.op = fault[t].op /\ k.nr = fault[t].nr
      /\ k.child = fault[t].child /\ k.todo = fault[t].todo
  BY <1>3 DEF M!Call
<1> HIDE DEF k
<1>6. fault[t].at = "write" => page[fault[t].new]
  BY <1>2 DEF ContentInv, NewOK
<1>7. fault[t].at = "read" => swap[fault[t].nr]
  <2>1. \A j \in 1 .. 1 - 1 : FALSE
    OBVIOUS
  <2> QED
    BY <1>2, <2>1 DEF ContentInv, OrderOK, Reads
<1>8. page \in [M!Frames -> BOOLEAN] /\ swap \in [1 .. NrSwap -> BOOLEAN]
  BY ContentTypes
<1>9. Moves(t, k)
  BY <1>2, <1>4, FaultPut
<1>10. Served(t, k)
  <2> HIDE DEF t
  <2>1. /\ io # << >> /\ io' = Tail(io) /\ entry' = entry /\ used' = used /\ mine' = mine /\ k.at \in {"written", "done"}
    BY <1>1, <1>5
  <2>2. CASE fault[t].at = "write"
    <3>1. swap' = [swap EXCEPT ![fault[t].nr] = page[fault[t].new]] /\ page' = page /\ k.at = "written"
      BY <1>1, <1>5, <2>2
    <3>2. \A n \in 1 .. NrSwap : swap'[n] = IF n = fault[t].nr THEN page[fault[t].new] ELSE swap[n]
      BY <1>2, <1>8, <3>1
    <3>3. page[fault[t].new]
      BY <1>6, <2>2
    <3> QED
      BY <1>2, <1>5, <1>9, <2>1, <3>1, <3>2, <3>3 DEF Served, t
  <2>3. CASE fault[t].at = "read"
    <3>1. page' = [page EXCEPT ![fault[t].new] = swap[fault[t].nr]] /\ swap' = swap /\ k.at = "done"
      BY <1>1, <1>5, <2>3
    <3>2. \A f \in M!Frames : page'[f] = IF f = fault[t].new THEN swap[fault[t].nr] ELSE page[f]
      BY <1>2, <1>8, <3>1
    <3>3. swap[fault[t].nr]
      BY <1>7, <2>3
    <3> QED
      BY <1>2, <1>5, <1>9, <2>1, <2>3, <3>1, <3>2, <3>3 DEF Served, t
  <2> QED
    BY <1>2, <2>2, <2>3
<1> HIDE DEF t
<1>11. \A a \in Spaces, v \in M!Virtual : Kept(a, v)
  <2> SUFFICES ASSUME NEW a \in Spaces, NEW v \in M!Virtual PROVE Kept(a, v)
    OBVIOUS
  <2>1. fault[t].new # 0
    BY <1>2, PlaceTypes
  <2>2. entry[a][v].frame # fault[t].new /\ entry[a][v].frame \in M!Frames \cup {0}
    BY <1>2, <2>1, NewIsAlone, ContentTypes
  <2>3. \A f \in M!Frames : f # fault[t].new => page'[f] = page[f]
    BY <1>10 DEF Served
  <2> QED
    BY <1>1, <2>2, <2>3 DEF Kept
<1>12. OwnersKeep
  <2> SUFFICES ASSUME NEW a \in Spaces, NEW b \in Spaces, NEW v \in M!Virtual, Owned(a, v, b)' PROVE Owned(a, v, b)
    BY <1>1, <1>11 DEF OwnersKeep
  <2> QED
    BY <1>1, <1>5, <1>9 DEF Owned, Moves
<1>13. DirtStays
  BY <1>1, <1>11 DEF DirtStays
<1> QED
  BY <1>2, <1>10, <1>12, <1>13, PagesStay, QueueServed DEF ContentInv

\* Every step, if nothing overlaps that the code does not keep apart.
LEMMA ContentStep == ASSUME PageInv, ContentInv, Overlaps = {}, [M!Next]_mvars PROVE ContentInv'
<1>1. CASE M!IoDone
  BY <1>1, ContentIoDone
<1>2. ASSUME NEW t \in Spaces, NEW v \in M!Virtual, M!NoPage(t, v) \/ M!Write(t, v) \/ M!un_wp_page(t, v)
      PROVE  ContentInv'
  <2>1. "copy" \notin Overlaps
    OBVIOUS
  <2> QED
    BY <1>2, <2>1, ContentNoPage, ContentWrite, ContentUnshare
<1>3. ASSUME NEW t \in Spaces,
             \/ M!exit(t) \/ M!fork(t) \/ M!CopyEntry(t) \/ M!GetPage(t) \/ M!DropPage(t)
             \/ M!SwapOut(t) \/ M!Written(t) \/ M!OutOfMemory(t)
      PROVE  ContentInv'
  BY <1>3, ContentExit, ContentFork, ContentCopyEntry, ContentGetPage, ContentDropped, ContentSwapOut,
     ContentWritten, ContentOutOfMemory
<1>4. ASSUME NEW t \in Spaces,
             \/ M!EmptyPage(t) \/ M!LoadPage(t) \/ M!Loaded(t) \/ M!CopyPage(t) \/ M!ReadPage(t) \/ M!SwappedIn(t)
      PROVE  ContentInv'
  BY <1>4, ContentEmptied, ContentLoads, ContentUnshared, ContentReads, ContentSwappedIn
<1>5. CASE UNCHANGED mvars
  <2>1. /\ entry' = entry /\ used' = used /\ io' = io /\ fault' = fault
        /\ page' = page /\ swap' = swap /\ mine' = mine
    BY <1>5 DEF mvars
  <2> QED
    BY <2>1 DEF ContentInv, PagesKept, Owned, Fine, DirtyOK, NewOK, SwapOK, Writes, OrderOK, Reads
<1> QED
  BY <1>1, <1>2, <1>3, <1>4, <1>5 DEF M!Next

\* The content of a page is where its task looks for it.
LEMMA ContentInvIsEnough == PageInv /\ ContentInv => M!ContentsSurvive
<1> SUFFICES ASSUME PageInv, ContentInv, NEW t \in used, NEW v \in M!Virtual
             PROVE  LET e == entry[t][v]
                        Writing == {u \in Spaces : fault[u].at = "write" /\ fault[u].nr = e.nr}
                    IN  IF e.frame # 0 THEN page[e.frame] = (v \in mine[t])
                        ELSE IF e.nr = 0 THEN v \notin mine[t]
                        ELSE IF Writing = {} THEN swap[e.nr] = (v \in mine[t])
                        ELSE \A u \in Writing : page[fault[u].new] = (v \in mine[t])
  BY DEF M!ContentsSurvive
<1> DEFINE e == entry[t][v]
           Writing == {u \in Spaces : fault[u].at = "write" /\ fault[u].nr = e.nr}
<1>1. t \in Spaces /\ e.frame \in M!Frames \cup {0} /\ e.nr \in 0 .. NrSwap
  BY ContentTypes
<1>2. /\ e.frame # 0 => (page[e.frame] <=> v \in mine[t])
      /\ e.nr # 0 => v \in mine[t]
      /\ e.frame = 0 /\ e.nr = 0 => v \notin mine[t]
  BY <1>1 DEF ContentInv, PagesKept, Owned, Fine
<1>3. e.nr # 0 => swap[e.nr] \/ Writing # {}
  BY <1>1 DEF ContentInv, SwapOK, Writes
<1>4. \A u \in Writing : page[fault[u].new] /\ fault[u].new \in M!Frames
  <2> SUFFICES ASSUME NEW u \in Writing PROVE page[fault[u].new] /\ fault[u].new \in M!Frames
    OBVIOUS
  <2>1. u \in Spaces /\ fault[u].at = "write"
    OBVIOUS
  <2>2. fault[u].new # 0 /\ fault[u].new \in M!Frames \cup {0}
    <3>1. FaultOK(u) /\ fault[u] \in M!Call
      BY <2>1, ContentTypes
    <3>2. fault[u].new # 0
      BY <2>1, <3>1 DEF FaultOK, Fits
    <3> QED
      BY <3>1, <3>2 DEF M!Call
  <2> QED
    BY <2>1, <2>2 DEF ContentInv, NewOK
<1>5. page \in [M!Frames -> BOOLEAN] /\ swap \in [1 .. NrSwap -> BOOLEAN]
  BY ContentTypes
<1> HIDE DEF e, Writing
<1>6. CASE e.frame # 0
  <2>1. page[e.frame] \in BOOLEAN
    BY <1>1, <1>5, <1>6
  <2>2. page[e.frame] = (v \in mine[t])
    BY <1>2, <1>6, <2>1
  <2> QED
    BY <1>6, <2>2 DEF e
<1>7. CASE e.frame = 0 /\ e.nr = 0
  BY <1>2, <1>7 DEF e
<1>8. CASE e.frame = 0 /\ e.nr # 0
  <2>1. (v \in mine[t]) = TRUE
    BY <1>2, <1>8
  <2>2. Writing = {} => swap[e.nr] = TRUE
    <3>1. swap[e.nr] \in BOOLEAN
      BY <1>1, <1>5, <1>8
    <3> QED
      BY <1>3, <1>8, <3>1
  <2>3. \A u \in Writing : page[fault[u].new] = TRUE
    BY <1>4, <1>5
  <2> QED
    BY <1>8, <2>1, <2>2, <2>3 DEF e, Writing
<1> QED
  BY <1>1, <1>6, <1>7, <1>8

\* A task finds in its pages what it has left there (Memory), in memory and in
\* the swap device, while they are shared, copied, written and read: for any
\* numbers of address spaces and of pages.  What the code does not keep apart,
\* the change of an entry by un_wp_page() or a page that it has copied and
\* swap_out(), must not overlap (Overlaps).
THEOREM ContentsAreKept == ASSUME Overlaps = {} PROVE TablesSpec => []ContentsSurvive
<1>0. "unshare" \notin Overlaps
  OBVIOUS
<1>1. TablesInit => PageInv /\ ContentInv
  BY PageStart, ContentStart DEF TablesInit
<1>2. PageInv /\ ContentInv /\ [TablesNext]_<<vars, pvars, svars, tvars, mvars, lvars, yvars, table>>
      => (PageInv /\ ContentInv)'
  BY <1>0, EachTable, PageStep, ContentStep
<1>3. PageInv /\ ContentInv => ContentsSurvive
  BY ContentInvIsEnough DEF ContentsSurvive
<1> QED
  BY <1>1, <1>2, <1>3, PTL DEF TablesSpec
=============================================================================
