-------------------------- MODULE VariablesProofs --------------------------
(***************************************************************************)
(* Proofs about Variables for every set of variables and every graph of    *)
(* dependencies between them, however much changes and overlaps.           *)
(***************************************************************************)
EXTENDS Variables, FiniteSetTheorems, WellFoundedInduction, TLAPS

-----------------------------------------------------------------------------
(* The graph                                                               *)

\* The dependencies have an order: a dashboard that has opened is like that.
IsOrder(f) == f \in [Vars -> Nat] /\ \A v \in Vars : \A p \in Parents(v) : f[p] < f[v]
Acyclic == \E f : IsOrder(f)

\* Natural numbers have a least.
LEMMA LeastOfNaturals ==
  ASSUME NEW S \in SUBSET Nat, S # {}
  PROVE  \E n \in S : \A m \in S : n <= m
<1>1. PICK n \in S : \A m \in S : ~ (<<m, n>> \in OpToRel(<, Nat))
  BY NatLessThanWellFounded, WFMin
<1>2. \A m \in S : ~ (m < n)
  <2> SUFFICES ASSUME NEW m \in S PROVE ~ (m < n)
    OBVIOUS
  <2>1. <<m, n>> \in Nat \X Nat /\ <<m, n>>[1] = m /\ <<m, n>>[2] = n
    OBVIOUS
  <2>2. m < n => <<m, n>> \in OpToRel(<, Nat)
    BY <2>1, Zenon DEF OpToRel
  <2> QED
    BY <1>1, <2>2
<1> QED
  BY <1>2

LEMMA MinIsLeast ==
  ASSUME NEW S \in SUBSET Nat, S # {}
  PROVE  Min(S) \in S
  BY LeastOfNaturals DEF Min

\* Among some of the variables one comes first in the order.
LEMMA FirstInOrder ==
  ASSUME NEW f \in [Vars -> Nat], NEW S \in SUBSET Vars, S # {}
  PROVE  \E v \in S : \A w \in S : f[v] <= f[w]
<1> DEFINE Places == {f[w] : w \in S}
<1>1. Places \in SUBSET Nat /\ Places # {}
  OBVIOUS
<1>2. PICK n \in Places : \A m \in Places : n <= m
  <2> HIDE DEF Places
  <2> QED
    BY <1>1, LeastOfNaturals
<1> QED
  BY <1>2

LEMMA DependentsAreVars == \A u : Dependents(u) \subseteq Vars
  BY DEF Dependents

LEMMA ReachOne ==
  ASSUME NEW u, NEW v \in Dependents(u)
  PROVE  Reach(u, v)
  BY DEF Reach

LEMMA ReachMore ==
  ASSUME NEW u, NEW w, NEW v, Reach(u, w), Reach(w, v)
  PROVE  Reach(u, v)
<1> SUFFICES ASSUME NEW S \in SUBSET Vars, Dependents(u) \subseteq S,
                    \A x \in S : Dependents(x) \subseteq S
             PROVE  v \in S
  BY DEF Reach
<1>1. w \in S
  BY DEF Reach
<1> QED
  BY <1>1 DEF Reach

\* What depends on a variable comes after it, so none depends on itself.
LEMMA ReachIsLater ==
  ASSUME NEW f, IsOrder(f), NEW u \in Vars, NEW v, Reach(u, v)
  PROVE  v \in Vars /\ f[u] < f[v]
<1> DEFINE Later == {w \in Vars : f[u] < f[w]}
<1>1. Dependents(u) \subseteq Later
  BY DEF Dependents, Parents, IsOrder
<1>2. \A w \in Later : Dependents(w) \subseteq Later
  <2> SUFFICES ASSUME NEW w \in Later, NEW x \in Dependents(w)
               PROVE  x \in Later
    OBVIOUS
  <2>1. x \in Vars /\ w \in Parents(x)
    BY DEF Dependents, Parents
  <2>2. f[w] < f[x] /\ f[u] < f[w] /\ f[u] \in Nat /\ f[w] \in Nat /\ f[x] \in Nat
    BY <2>1 DEF IsOrder
  <2> QED
    BY <2>1, <2>2
<1>3. v \in Later
  BY <1>1, <1>2 DEF Reach
<1> QED
  BY <1>3

\* The cascade of a variable reaches all that depends on it.
LEMMA CascadeReaches ==
  ASSUME Acyclic, NEW u \in Vars, NEW v, Reach(u, v)
  PROVE  \E d \in Cascade(u) : d = v \/ Reach(d, v)
<1>1. PICK f : IsOrder(f)
  BY DEF Acyclic
<1> DEFINE S == {w \in Vars : \E d \in Cascade(u) : d = w \/ Reach(d, w)}
<1>2. \A w \in S : Dependents(w) \subseteq S
  <2> SUFFICES ASSUME NEW w \in S, NEW x \in Dependents(w)
               PROVE  x \in S
    OBVIOUS
  <2>1. PICK d \in Cascade(u) : d = w \/ Reach(d, w)
    OBVIOUS
  <2>2. Reach(d, x)
    BY <2>1, ReachOne, ReachMore
  <2> QED
    BY <2>2, DependentsAreVars
<1>3. Dependents(u) \subseteq S
  <2> SUFFICES ASSUME Dependents(u) \ S # {}
               PROVE  FALSE
    OBVIOUS
  <2>1. PICK w \in Dependents(u) \ S : \A x \in Dependents(u) \ S : f[w] <= f[x]
    BY <1>1, FirstInOrder, DependentsAreVars DEF IsOrder
  <2>2. w \in Vars /\ w \notin Cascade(u)
    BY DependentsAreVars
  <2>3. PICK m \in Dependents(u) : w \in Dependents(m)
    BY <2>2 DEF Cascade
  <2>4. m \in Vars /\ m \in Parents(w)
    BY <2>2, <2>3 DEF Dependents, Parents
  <2>5. f[m] < f[w] /\ f[m] \in Nat /\ f[w] \in Nat
    BY <1>1, <2>2, <2>4 DEF IsOrder
  <2>6. m \in S
    BY <2>1, <2>5
  <2> QED
    BY <1>2, <2>3, <2>6
<1>4. v \in S
  BY <1>2, <1>3 DEF Reach
<1> QED
  BY <1>4

-----------------------------------------------------------------------------
(* The jobs                                                                *)

ParentIds ==
  {Orphan} \cup ({"load"} \X Vars) \cup ({"change"} \X ChangeIds) \cup ({"job"} \X JobIds)

\* A job has the fields of its phase.
IsJob(r) ==
  /\ r.parent \in ParentIds
  /\ \/ r = Free
     \/ r = [phase |-> "datasource", parent |-> r.parent, ahead |-> r.ahead] /\ r.ahead \in Nat
     \/ r = [phase |-> "query", parent |-> r.parent, with |-> r.with]
     \/ r = [phase |-> "selection", parent |-> r.parent]

AreJobs(js) == DOMAIN js = JobIds /\ \A j \in JobIds : IsJob(js[j])

\* The data source of a variable comes to its jobs one after the other.
Waiting(js, v) == {j \in JobIds : j[1] = v /\ js[j].phase = "datasource"}

InTurn(js) ==
  \A v \in Vars : \A i \in Waiting(js, v) :
    /\ js[i].ahead < Lookups(js, v)
    /\ \A j \in Waiting(js, v) \ {i} : js[j].ahead # js[i].ahead

Began(parent, n) == [phase |-> "datasource", parent |-> parent, ahead |-> n]

\* From js to after one job of each of the variables vs was started.
Starts(js, vs, parent, new, after) ==
  /\ new \subseteq JobIds
  /\ \A j \in new : j[1] \in vs /\ js[j].phase = "free"
  /\ \A v \in vs : \E j \in new : j[1] = v
  /\ \A i, j \in new : i[1] = j[1] => i = j
  /\ DOMAIN after = JobIds
  /\ \A j \in new : after[j] = Began(parent, Lookups(js, j[1]))
  /\ \A j \in JobIds \ new : after[j] = js[j]

LEMMA Bounds == MaxJobs \in Nat /\ MaxChanges \in Nat /\ MaxFailures \in Nat
  BY VariablesAssumption

LEMMA JobsAreFinite == IsFiniteSet(JobIds)
<1>1. IsFiniteSet(1..MaxJobs)
  BY Bounds, FS_Interval
<1> QED
  BY <1>1, VariablesAssumption, FS_Product DEF JobIds

LEMMA LookupsIsNat ==
  ASSUME NEW js, NEW v
  PROVE  /\ IsFiniteSet(Waiting(js, v)) /\ Lookups(js, v) = Cardinality(Waiting(js, v))
         /\ Lookups(js, v) \in Nat
<1>1. Waiting(js, v) \in SUBSET JobIds
  BY DEF Waiting
<1>2. IsFiniteSet(Waiting(js, v)) /\ Cardinality(Waiting(js, v)) \in Nat
  BY <1>1, JobsAreFinite, FS_Subset, FS_CardinalityType
<1> QED
  BY <1>2 DEF Lookups, Waiting

LEMMA PhasesOfJobs ==
  ASSUME NEW r, IsJob(r)
  PROVE  /\ r.phase \in {"free", "datasource", "query", "selection"}
         /\ r.phase = "datasource" => r.ahead \in Nat
         /\ r.phase = "free" => r.parent = Orphan
  BY DEF IsJob, Free, Orphan

LEMMA JobHasFields ==
  ASSUME NEW r, IsJob(r)
  PROVE  /\ IsJob([r EXCEPT !.parent = Orphan])
         /\ [r EXCEPT !.parent = Orphan].parent = Orphan
         /\ [r EXCEPT !.parent = Orphan].phase = r.phase
         /\ r.phase = "datasource" => [r EXCEPT !.parent = Orphan].ahead = r.ahead
         /\ r.phase = "query" => [r EXCEPT !.parent = Orphan].with = r.with
<1>1. Orphan \in ParentIds
  BY DEF ParentIds
<1> QED
  BY <1>1 DEF IsJob, Free, Orphan

LEMMA BeganIsJob ==
  ASSUME NEW parent \in ParentIds, NEW n \in Nat
  PROVE  /\ IsJob(Began(parent, n))
         /\ Began(parent, n).phase = "datasource" /\ Began(parent, n).parent = parent
         /\ Began(parent, n).ahead = n
  BY DEF Began, IsJob

\* A job with its selection.
Chose(parent) == [phase |-> "selection", parent |-> parent]

LEMMA ChoseIsJob ==
  ASSUME NEW parent \in ParentIds
  PROVE  IsJob(Chose(parent)) /\ Chose(parent).phase = "selection" /\ Chose(parent).parent = parent
  BY DEF Chose, IsJob

LEMMA StartedStarts ==
  ASSUME NEW js, NEW vs \in SUBSET Vars, NEW parent,
         \A v \in vs : \E n \in 1..MaxJobs : js[<<v, n>>].phase = "free"
  PROVE  \E new : Starts(js, vs, parent, new, Started(js, vs, parent))
<1> DEFINE place(v) == Min({n \in 1..MaxJobs : js[<<v, n>>].phase = "free"})
           new == {j \in JobIds : j[1] \in vs /\ j[2] = place(j[1])}
<1>1. ASSUME NEW v \in vs
      PROVE  place(v) \in 1..MaxJobs /\ js[<<v, place(v)>>].phase = "free"
  <2> DEFINE S == {n \in 1..MaxJobs : js[<<v, n>>].phase = "free"}
  <2>1. S \in SUBSET Nat /\ S # {}
    BY Bounds
  <2>2. Min(S) \in S
    <3> HIDE DEF S
    <3> QED
      BY <2>1, MinIsLeast
  <2> QED
    BY <2>2
<1> HIDE DEF place
<1>2. \A j \in JobIds : j = <<j[1], j[2]>> /\ j[1] \in Vars /\ j[2] \in 1..MaxJobs
  BY DEF JobIds
<1>3. \A j \in new : j[1] \in vs /\ js[j].phase = "free"
  BY <1>1, <1>2
<1>4. ASSUME NEW v \in vs PROVE \E j \in new : j[1] = v
  <2>1. <<v, place(v)>> \in JobIds
    BY <1>1 DEF JobIds
  <2> QED
    BY <2>1
<1>5. \A i, j \in new : i[1] = j[1] => i = j
  BY <1>2
<1>6. Started(js, vs, parent) = [j \in JobIds |-> IF j \in new THEN Began(parent, Lookups(js, j[1]))
                                                  ELSE js[j]]
  BY Zenon DEF Started, Began, place
<1> HIDE DEF new
<1>7. new \subseteq JobIds
  BY DEF new
<1> QED
  BY <1>3, <1>4, <1>5, <1>6, <1>7 DEF Starts

LEMMA SameLookups ==
  ASSUME NEW js, NEW after, NEW v,
         \A j \in JobIds : j[1] = v => (js[j].phase = "datasource" <=> after[j].phase = "datasource")
  PROVE  Waiting(after, v) = Waiting(js, v) /\ Lookups(after, v) = Lookups(js, v)
<1>1. Waiting(after, v) = Waiting(js, v)
  BY DEF Waiting
<1> QED
  BY <1>1, LookupsIsNat

\* Jobs that begin are the last in turn.
LEMMA StartsKeepsTurn ==
  ASSUME NEW js, AreJobs(js), InTurn(js), NEW vs \in SUBSET Vars, NEW parent \in ParentIds,
         NEW new, NEW after, Starts(js, vs, parent, new, after)
  PROVE  AreJobs(after) /\ InTurn(after)
<1>1. AreJobs(after)
  <2> SUFFICES ASSUME NEW j \in JobIds PROVE IsJob(after[j])
    BY DEF Starts, AreJobs
  <2>1. CASE j \in new
    BY <2>1, BeganIsJob, LookupsIsNat DEF Starts
  <2>2. CASE j \notin new
    BY <2>2 DEF Starts, AreJobs
  <2> QED
    BY <2>1, <2>2
<1>2. ASSUME NEW v \in Vars, NEW i \in Waiting(after, v)
      PROVE  /\ after[i].ahead < Lookups(after, v)
             /\ \A j \in Waiting(after, v) \ {i} : after[j].ahead # after[i].ahead
  <2>1. \A j \in Waiting(js, v) : /\ j \in JobIds /\ j \notin new /\ after[j] = js[j]
                                  /\ js[j].ahead \in Nat
    BY PhasesOfJobs DEF Waiting, Starts, AreJobs
  <2>2. \A j \in new : j[1] = v => after[j].phase = "datasource" /\ after[j].ahead = Lookups(js, v)
    BY BeganIsJob, LookupsIsNat DEF Starts
  <2>3. CASE \E j \in new : j[1] = v
    <3>1. PICK n \in new : n[1] = v
      BY <2>3
    <3>2. Waiting(after, v) = Waiting(js, v) \cup {n}
      <4>1. \A j \in Waiting(after, v) : j \in Waiting(js, v) \cup {n}
        BY <3>1 DEF Waiting, Starts
      <4>2. \A j \in Waiting(js, v) : j \in Waiting(after, v)
        BY <2>1 DEF Waiting
      <4>3. n \in Waiting(after, v)
        BY <2>2, <3>1 DEF Waiting, Starts
      <4> QED
        BY <4>1, <4>2, <4>3
    <3>3. n \notin Waiting(js, v)
      BY <2>1
    <3>4. Lookups(after, v) = Lookups(js, v) + 1
      BY <3>2, <3>3, LookupsIsNat, FS_AddElement
    <3>5. \A j \in Waiting(js, v) : js[j].ahead < Lookups(js, v)
      BY DEF InTurn
    <3>6. after[n].ahead = Lookups(js, v) /\ Lookups(js, v) \in Nat
      BY <2>2, <3>1, LookupsIsNat
    <3>7. \A j \in Waiting(js, v) : \A k \in Waiting(js, v) \ {j} : js[k].ahead # js[j].ahead
      BY DEF InTurn
    <3>8. after[i].ahead < Lookups(after, v)
      BY <2>1, <3>2, <3>4, <3>5, <3>6
    <3>9. ASSUME NEW j \in Waiting(after, v) \ {i} PROVE after[j].ahead # after[i].ahead
      <4>1. \/ i \in Waiting(js, v) /\ j \in Waiting(js, v)
            \/ i = n /\ j \in Waiting(js, v)
            \/ j = n /\ i \in Waiting(js, v)
        BY <3>2, <3>9
      <4> QED
        BY <2>1, <3>5, <3>6, <3>7, <3>9, <4>1
    <3> QED
      BY <3>8, <3>9
  <2>4. CASE \A j \in new : j[1] # v
    <3>1. \A j \in JobIds : j[1] = v => after[j] = js[j]
      BY <2>4 DEF Starts
    <3>2. Waiting(after, v) = Waiting(js, v) /\ Lookups(after, v) = Lookups(js, v)
      BY <3>1, SameLookups
    <3> QED
      BY <2>1, <3>2 DEF InTurn
  <2> QED
    BY <2>3, <2>4
<1> QED
  BY <1>1, <1>2 DEF InTurn

\* Those that wait behind the first have a place to give up.
LEMMA OthersWait ==
  ASSUME NEW js, AreJobs(js), InTurn(js), NEW j \in JobIds, js[j].phase = "datasource",
         js[j].ahead = 0
  PROVE  /\ Lookups(js, j[1]) > 0
         /\ \A i \in JobIds \ {j} : i[1] = j[1] /\ js[i].phase = "datasource"
                                      => js[i].ahead \in Nat \ {0} /\ js[i].ahead - 1 \in Nat
<1>1. j[1] \in Vars /\ j \in Waiting(js, j[1])
  BY DEF JobIds, Waiting
<1>2. Lookups(js, j[1]) > 0
  BY <1>1, LookupsIsNat DEF InTurn
<1>3. ASSUME NEW i \in JobIds \ {j}, i[1] = j[1], js[i].phase = "datasource"
      PROVE  js[i].ahead \in Nat \ {0} /\ js[i].ahead - 1 \in Nat
  <2>1. js[i].ahead \in Nat
    BY <1>3, PhasesOfJobs DEF AreJobs
  <2>2. i \in Waiting(js, j[1]) \ {j}
    BY <1>3 DEF Waiting
  <2>3. js[i].ahead # js[j].ahead
    BY <1>1, <2>2 DEF InTurn
  <2> QED
    BY <2>1, <2>3
<1> QED
  BY <1>2, <1>3

\* The data source came to j.
LEMMA NextKeepsTurn ==
  ASSUME NEW js, AreJobs(js), InTurn(js), NEW j \in JobIds, js[j].phase = "datasource",
         js[j].ahead = 0, NEW after, after[j].phase # "datasource",
         \A i \in JobIds \ {j} : js[i].phase = "datasource" <=> after[i].phase = "datasource",
         \A i \in JobIds \ {j} : js[i].phase = "datasource" =>
           after[i].ahead = IF i[1] = j[1] THEN js[i].ahead - 1 ELSE js[i].ahead
  PROVE  InTurn(after)
<1> SUFFICES ASSUME NEW v \in Vars, NEW i \in Waiting(after, v)
             PROVE  /\ after[i].ahead < Lookups(after, v)
                    /\ \A k \in Waiting(after, v) \ {i} : after[k].ahead # after[i].ahead
  BY DEF InTurn
<1>1. \A k \in Waiting(js, v) : /\ js[k].ahead \in Nat /\ js[k].ahead < Lookups(js, v)
                                /\ \A l \in Waiting(js, v) \ {k} : js[l].ahead # js[k].ahead
  BY PhasesOfJobs DEF InTurn, Waiting, AreJobs
<1>2. CASE v = j[1]
  <2>1. Waiting(after, v) = Waiting(js, v) \ {j} /\ j \in Waiting(js, v)
    BY <1>2 DEF Waiting
  <2>2. Lookups(after, v) = Lookups(js, v) - 1 /\ Lookups(js, v) \in Nat
    BY <2>1, LookupsIsNat, FS_RemoveElement
  <2>3. \A k \in Waiting(after, v) : k \in Waiting(js, v) /\ after[k].ahead = js[k].ahead - 1
    BY <1>2, <2>1 DEF Waiting
  <2> QED
    BY <1>1, <2>2, <2>3
<1>3. CASE v # j[1]
  <2>1. \A k \in JobIds : k[1] = v => (js[k].phase = "datasource" <=> after[k].phase = "datasource")
    BY <1>3
  <2>2. Waiting(after, v) = Waiting(js, v) /\ Lookups(after, v) = Lookups(js, v)
    BY <2>1, SameLookups
  <2>3. \A k \in Waiting(js, v) : after[k].ahead = js[k].ahead
    BY <1>3 DEF Waiting
  <2> QED
    BY <1>1, <2>2, <2>3
<1> QED
  BY <1>2, <1>3

LEMMA SameTurn ==
  ASSUME NEW js, InTurn(js), NEW after,
         \A i \in JobIds : js[i].phase = "datasource" <=> after[i].phase = "datasource",
         \A i \in JobIds : js[i].phase = "datasource" => after[i].ahead = js[i].ahead
  PROVE  InTurn(after)
<1>1. \A v \in Vars : Waiting(after, v) = Waiting(js, v) /\ Lookups(after, v) = Lookups(js, v)
  BY SameLookups
<1>2. \A v \in Vars : \A i \in Waiting(js, v) : after[i].ahead = js[i].ahead
  BY DEF Waiting
<1> QED
  BY <1>1, <1>2 DEF InTurn

-----------------------------------------------------------------------------
(* Types, the turns and the tree of the jobs                               *)

Kinds == {"none", "user", "time", "url", "urlOptions", "made"}
Pending(k) == changes[k].kind \in {"user", "time", "url", "urlOptions"}

Types ==
  /\ status \in {"Fetching", "Completed"}
  /\ state \in [Vars -> {"NotStarted", "Loading", "Done", "Error"}]
  /\ loading \in [Vars -> {"waiting", "options", "done"}]
  /\ DOMAIN current = Vars /\ DOMAIN asked = Vars
  /\ changes \in [ChangeIds -> [kind : Kinds, var : Vars \cup {""}, value : Values \cup {None, 0}]]
  /\ \A k \in ChangeIds : changes[k].kind \in {"user", "url", "urlOptions"} => changes[k].var \in Vars
  /\ cut \subseteq Vars /\ loose \in BOOLEAN

\* A job that started another waits with its selection, and the other is of a
\* variable that depends on its own.
ParentsRun ==
  \A i \in JobIds : jobs[i].parent[1] = "job" =>
    LET j == jobs[i].parent[2]
    IN  j \in JobIds /\ jobs[j].phase = "selection" /\ i[1] \in Dependents(j[1])

\* A variable has one query.
OneQuery ==
  \A i, j \in JobIds : i[1] = j[1] /\ jobs[i].phase = "query" /\ jobs[j].phase = "query" => i = j

BaseInv == Types /\ AreJobs(jobs) /\ InTurn(jobs) /\ ParentsRun /\ OneQuery

LEMMA JobIdsArePairs == \A j \in JobIds : j = <<j[1], j[2]>> /\ j[1] \in Vars
  BY DEF JobIds

LEMMA KindsOfParents ==
  ASSUME NEW p \in ParentIds
  PROVE  /\ p[1] = "job" => p[2] \in JobIds /\ p = <<"job", p[2]>>
         /\ p[1] = "change" => p[2] \in ChangeIds /\ p = <<"change", p[2]>>
         /\ p[1] = "load" => p = <<"load", p[2]>>
  BY DEF ParentIds, Orphan

LEMMA SomeParents ==
  /\ Orphan \in ParentIds /\ Orphan[1] = "none"
  /\ \A v \in Vars : <<"load", v>> \in ParentIds /\ <<"load", v>>[1] = "load"
  /\ \A k \in ChangeIds : /\ <<"change", k>> \in ParentIds /\ <<"change", k>>[1] = "change"
                          /\ <<"change", k>>[2] = k
  /\ \A j \in JobIds : /\ <<"job", j>> \in ParentIds /\ <<"job", j>>[1] = "job"
                       /\ <<"job", j>>[2] = j
  BY DEF ParentIds, Orphan

LEMMA FreeIsJob == IsJob(Free) /\ Free.phase = "free" /\ Free.parent[1] = "none" /\ Free.parent = Orphan
  BY SomeParents DEF IsJob, Free, Orphan

LEMMA CascadeOfDependents == \A v \in Vars : Cascade(v) \subseteq Dependents(v) /\ Cascade(v) \subseteq Vars
  BY DEF Cascade, Dependents

LEMMA UpdateOptionsStarts ==
  ASSUME Types, NEW js, NEW vs \in SUBSET Vars, NEW parent, UpdateOptions(js, vs, parent)
  PROVE  /\ \E new : Starts(js, vs, parent, new, jobs')
         /\ state' \in [Vars -> {"NotStarted", "Loading", "Done", "Error"}]
         /\ \A v \in vs : state'[v] = "Loading"
         /\ \A v \in Vars \ vs : state'[v] = state[v]
<1>1. \E new : Starts(js, vs, parent, new, jobs')
  BY StartedStarts DEF UpdateOptions
<1>2. state' = [v \in Vars |-> IF v \in vs THEN "Loading" ELSE state[v]]
  BY DEF UpdateOptions
<1> QED
  BY <1>1, <1>2 DEF Types

LEMMA StartsKeepsBase ==
  ASSUME BaseInv, NEW vs \in SUBSET Vars, NEW parent \in ParentIds, parent[1] # "job",
         NEW new, Starts(jobs, vs, parent, new, jobs'), Types'
  PROVE  BaseInv'
<1>1. AreJobs(jobs') /\ InTurn(jobs')
  BY StartsKeepsTurn DEF BaseInv
<1>2. \A i \in new : /\ jobs'[i].parent[1] # "job" /\ jobs'[i].phase = "datasource"
                     /\ jobs[i].phase = "free"
  BY BeganIsJob, LookupsIsNat DEF Starts
<1>3. \A i \in JobIds \ new : jobs'[i] = jobs[i]
  BY DEF Starts
<1>4. ParentsRun'
  BY <1>2, <1>3 DEF BaseInv, ParentsRun
<1>5. OneQuery'
  BY <1>2, <1>3 DEF BaseInv, OneQuery
<1> QED
  BY <1>1, <1>4, <1>5 DEF BaseInv

-----------------------------------------------------------------------------
(* What happens to the jobs                                                *)

\* The jobs that are cancelled when j asks its query.
Cancelled(j) ==
  {i \in JobIds \ {j} : i[1] = j[1] /\ jobs[i].phase \in {"query", "selection"}}

\* No job is where it could have been started by itself or by one of these.
LEMMA NotUnderOneself ==
  ASSUME BaseInv, Acyclic, NEW i \in JobIds, jobs[i].parent[1] = "job"
  PROVE  jobs[i].parent[2][1] # i[1]
<1>1. PICK f : IsOrder(f)
  BY DEF Acyclic
<1>2. jobs[i].parent[2] \in JobIds /\ i[1] \in Dependents(jobs[i].parent[2][1])
  BY DEF BaseInv, ParentsRun
<1> DEFINE u == jobs[i].parent[2][1]
<1>3. u \in Vars /\ i[1] \in Vars
  BY <1>2, JobIdsArePairs
<1>4. f[u] < f[i[1]]
  BY <1>1, <1>2, <1>3, ReachOne, ReachIsLater
<1>5. f[u] \in Nat
  BY <1>1, <1>3 DEF IsOrder
<1> QED
  BY <1>4, <1>5

\* The data source came to j: the others wait on, each one place further.
LEMMA NextLookupEffect ==
  ASSUME BaseInv, NEW j \in JobIds, jobs[j].phase = "datasource", jobs[j].ahead = 0,
         NEW i \in JobIds, i # j
  PROVE  LET js == NextLookup(jobs, j)
         IN  /\ IsJob(js[i]) /\ js[i].phase = jobs[i].phase /\ js[i].parent = jobs[i].parent
             /\ jobs[i].phase = "query" => js[i].with = jobs[i].with
             /\ jobs[i].phase = "datasource" =>
                  js[i].ahead = IF i[1] = j[1] THEN jobs[i].ahead - 1 ELSE jobs[i].ahead
<1> DEFINE js == NextLookup(jobs, j)
<1>1. IsJob(jobs[i])
  BY DEF BaseInv, AreJobs
<1>2. CASE i[1] = j[1] /\ jobs[i].phase = "datasource"
  <2>1. js[i] = [jobs[i] EXCEPT !.ahead = @ - 1]
    BY <1>2 DEF NextLookup
  <2>2. jobs[i].ahead - 1 \in Nat
    BY <1>2, OthersWait DEF BaseInv
  <2>3. jobs[i] = Began(jobs[i].parent, jobs[i].ahead) /\ jobs[i].parent \in ParentIds
    BY <1>1, <1>2 DEF IsJob, Began, Free
  <2>4. js[i] = Began(jobs[i].parent, jobs[i].ahead - 1)
    BY <2>1, <2>3 DEF Began
  <2> QED
    BY <1>2, <2>2, <2>3, <2>4, BeganIsJob
<1>3. CASE ~ (i[1] = j[1] /\ jobs[i].phase = "datasource")
  <2>1. js[i] = jobs[i]
    BY <1>3 DEF NextLookup
  <2> QED
    BY <1>1, <1>3, <2>1
<1> QED
  BY <1>2, <1>3

Others(j) == JobIds \ ({j} \cup Cancelled(j))

LEMMA QueueRequestEffect ==
  ASSUME BaseInv, NEW j \in JobIds, QueueRequest(j)
  PROVE  /\ AreJobs(jobs') /\ jobs[j].phase = "datasource" /\ jobs[j].ahead = 0
         /\ jobs'[j].phase = "query" /\ jobs'[j].parent = jobs[j].parent
         /\ jobs'[j].with = Question(j[1])
         /\ \A i \in Cancelled(j) : jobs'[i].phase = "selection" /\ jobs'[i].parent = jobs[i].parent
         /\ \A i \in Others(j) :
              /\ jobs'[i].phase = jobs[i].phase
              /\ jobs'[i].parent = IF jobs[i].parent[1] = "job" /\ jobs[i].parent[2] \in Cancelled(j)
                                     THEN Orphan ELSE jobs[i].parent
              /\ jobs[i].phase = "query" => jobs'[i].with = jobs[i].with
              /\ jobs[i].phase = "datasource" =>
                   jobs'[i].ahead = IF i[1] = j[1] THEN jobs[i].ahead - 1 ELSE jobs[i].ahead
<1> DEFINE js == NextLookup(jobs, j)
<1>1. jobs[j].phase = "datasource" /\ jobs[j].ahead = 0
  BY DEF QueueRequest
<1>2. jobs' = [i \in JobIds |->
        IF i = j THEN [phase |-> "query", parent |-> jobs[i].parent, with |-> Question(j[1])]
        ELSE IF i \in Cancelled(j) THEN [phase |-> "selection", parent |-> jobs[i].parent]
        ELSE IF jobs[i].parent[1] = "job" /\ jobs[i].parent[2] \in Cancelled(j)
          THEN [js[i] EXCEPT !.parent = Orphan]
          ELSE js[i]]
  <2>1. Requests(j[1], j) = Cancelled(j)
    BY DEF Requests, Cancelled
  <2>2. jobs' = [WithoutRequests(js, Cancelled(j)) EXCEPT
                   ![j] = [phase |-> "query", parent |-> jobs[j].parent, with |-> Question(j[1])]]
    BY <2>1 DEF QueueRequest
  <2>3. \A i \in JobIds : js[i].parent = jobs[i].parent
    BY DEF NextLookup
  <2> HIDE DEF js
  <2> QED
    BY <2>2, <2>3 DEF WithoutRequests
<1>3. \A i \in JobIds : IsJob(jobs[i])
  BY DEF BaseInv, AreJobs
<1>4. ASSUME NEW i \in Others(j)
      PROVE  /\ IsJob(js[i]) /\ js[i].phase = jobs[i].phase /\ js[i].parent = jobs[i].parent
             /\ jobs[i].phase = "query" => js[i].with = jobs[i].with
             /\ jobs[i].phase = "datasource" =>
                  js[i].ahead = IF i[1] = j[1] THEN jobs[i].ahead - 1 ELSE jobs[i].ahead
  <2>1. i \in JobIds /\ i # j
    BY DEF Others
  <2> QED
    BY <1>1, <2>1, NextLookupEffect
<1> HIDE DEF js
<1>5. jobs'[j] = [phase |-> "query", parent |-> jobs[j].parent, with |-> Question(j[1])]
  BY <1>2
<1>6. ASSUME NEW i \in Cancelled(j)
      PROVE  i \in JobIds /\ jobs[i].parent \in ParentIds /\ jobs'[i] = Chose(jobs[i].parent)
  BY <1>2, <1>3 DEF Cancelled, Chose, IsJob
<1>7. ASSUME NEW i \in Others(j)
      PROVE  jobs'[i] = IF jobs[i].parent[1] = "job" /\ jobs[i].parent[2] \in Cancelled(j)
                          THEN [js[i] EXCEPT !.parent = Orphan] ELSE js[i]
  BY <1>2 DEF Others
<1>8. ASSUME NEW i \in Others(j)
      PROVE  /\ IsJob(jobs'[i]) /\ jobs'[i].phase = jobs[i].phase
             /\ jobs'[i].parent = IF jobs[i].parent[1] = "job" /\ jobs[i].parent[2] \in Cancelled(j)
                                    THEN Orphan ELSE jobs[i].parent
             /\ jobs[i].phase = "query" => jobs'[i].with = jobs[i].with
             /\ jobs[i].phase = "datasource" =>
                  jobs'[i].ahead = IF i[1] = j[1] THEN jobs[i].ahead - 1 ELSE jobs[i].ahead
  <2>1. IsJob(js[i]) /\ js[i].phase = jobs[i].phase /\ js[i].parent = jobs[i].parent
    BY <1>4
  <2>2. CASE jobs[i].parent[1] = "job" /\ jobs[i].parent[2] \in Cancelled(j)
    <3>1. jobs'[i] = [js[i] EXCEPT !.parent = Orphan]
      BY <1>7, <2>2
    <3>2. /\ IsJob(jobs'[i]) /\ jobs'[i].parent = Orphan /\ jobs'[i].phase = js[i].phase
          /\ js[i].phase = "datasource" => jobs'[i].ahead = js[i].ahead
          /\ js[i].phase = "query" => jobs'[i].with = js[i].with
      BY <2>1, <3>1, JobHasFields
    <3> QED
      BY <1>4, <2>1, <2>2, <3>2
  <2>3. CASE ~ (jobs[i].parent[1] = "job" /\ jobs[i].parent[2] \in Cancelled(j))
    <3>1. jobs'[i] = js[i]
      BY <1>7, <2>3
    <3> QED
      BY <1>4, <2>1, <2>3, <3>1
  <2> QED
    BY <2>2, <2>3
<1>9. AreJobs(jobs')
  <2>1. DOMAIN jobs' = JobIds
    BY <1>2
  <2>2. IsJob(jobs'[j])
    <3>1. jobs[j].parent \in ParentIds
      BY <1>3 DEF IsJob
    <3> QED
      BY <1>5, <3>1 DEF IsJob
  <2>3. ASSUME NEW i \in Cancelled(j) PROVE IsJob(jobs'[i])
    BY <1>6, ChoseIsJob
  <2>4. ASSUME NEW i \in Others(j) PROVE IsJob(jobs'[i])
    BY <1>8
  <2> QED
    BY <2>1, <2>2, <2>3, <2>4 DEF AreJobs, Others
<1>10. ASSUME NEW i \in Cancelled(j)
       PROVE  jobs'[i].phase = "selection" /\ jobs'[i].parent = jobs[i].parent
  BY <1>6, ChoseIsJob
<1>11. jobs'[j].phase = "query" /\ jobs'[j].parent = jobs[j].parent /\ jobs'[j].with = Question(j[1])
  BY <1>5
<1> QED
  BY <1>1, <1>8, <1>9, <1>10, <1>11

LEMMA QueueRequestKeepsBase ==
  ASSUME BaseInv, NEW j \in JobIds, QueueRequest(j)
  PROVE  BaseInv'
<1> DEFINE OtherKept(i) ==
      /\ jobs'[i].phase = jobs[i].phase
      /\ jobs'[i].parent = IF jobs[i].parent[1] = "job" /\ jobs[i].parent[2] \in Cancelled(j)
                             THEN Orphan ELSE jobs[i].parent
      /\ jobs[i].phase = "datasource" =>
           jobs'[i].ahead = IF i[1] = j[1] THEN jobs[i].ahead - 1 ELSE jobs[i].ahead
<1>1. /\ AreJobs(jobs') /\ jobs[j].phase = "datasource" /\ jobs[j].ahead = 0
      /\ jobs'[j].phase = "query" /\ jobs'[j].parent = jobs[j].parent
  BY QueueRequestEffect
<1>2. \A i \in Cancelled(j) : jobs'[i].phase = "selection" /\ jobs'[i].parent = jobs[i].parent
  BY QueueRequestEffect
<1>3. \A i \in Others(j) : OtherKept(i)
  BY QueueRequestEffect
<1> HIDE DEF OtherKept
<1>4. \A i \in JobIds : i = j \/ i \in Cancelled(j) \/ i \in Others(j)
  BY DEF Others
<1>5. \A i \in Cancelled(j) : i \in JobIds /\ jobs[i].phase \in {"query", "selection"} /\ i[1] = j[1]
  BY DEF Cancelled
<1>6. Types'
  BY DEF QueueRequest, BaseInv, Types
<1>7. InTurn(jobs')
  <2>1. \A i \in JobIds \ {j} : jobs[i].phase = "datasource" <=> jobs'[i].phase = "datasource"
    BY <1>2, <1>3, <1>4, <1>5 DEF OtherKept
  <2>2. \A i \in JobIds \ {j} : jobs[i].phase = "datasource" =>
           jobs'[i].ahead = IF i[1] = j[1] THEN jobs[i].ahead - 1 ELSE jobs[i].ahead
    BY <1>3, <1>4, <1>5 DEF OtherKept
  <2> QED
    BY <1>1, <2>1, <2>2, NextKeepsTurn DEF BaseInv
<1>8. ParentsRun'
  <2> SUFFICES ASSUME NEW i \in JobIds, jobs'[i].parent[1] = "job"
               PROVE  LET p == jobs'[i].parent[2]
                      IN  p \in JobIds /\ jobs'[p].phase = "selection" /\ i[1] \in Dependents(p[1])
    BY DEF ParentsRun
  <2>1. jobs'[i].parent = jobs[i].parent
    BY <1>1, <1>2, <1>3, <1>4, SomeParents DEF OtherKept
  <2>2. LET p == jobs[i].parent[2]
        IN  p \in JobIds /\ jobs[p].phase = "selection" /\ i[1] \in Dependents(p[1])
    BY <2>1 DEF BaseInv, ParentsRun
  <2>3. \A p \in JobIds : jobs[p].phase = "selection" => jobs'[p].phase = "selection"
    BY <1>1, <1>2, <1>3, <1>4 DEF OtherKept
  <2> QED
    BY <2>1, <2>2, <2>3
<1>9. OneQuery'
  <2>1. \A i \in JobIds : jobs'[i].phase = "query" => i = j \/ (jobs[i].phase = "query" /\ i[1] # j[1])
    BY <1>2, <1>3, <1>4 DEF OtherKept, Cancelled
  <2> QED
    BY <2>1 DEF BaseInv, OneQuery
<1> QED
  BY <1>1, <1>6, <1>7, <1>8, <1>9 DEF BaseInv

\* An answer of j starts new for the variables vs.
Answered(j, vs, new) ==
  /\ new \subseteq JobIds \ {j}
  /\ \A i \in new : /\ i[1] \in vs /\ jobs[i].phase = "free"
                    /\ jobs'[i] = Began(<<"job", j>>, Lookups(jobs, i[1]))
  /\ \A v \in vs : \E i \in new : i[1] = v
  /\ \A i, k \in new : i[1] = k[1] => i = k
  /\ jobs'[j].phase = "selection" /\ jobs'[j].parent = jobs[j].parent
  /\ \A i \in JobIds \ (new \cup {j}) : jobs'[i] = jobs[i]

LEMMA AnswerEffect ==
  ASSUME BaseInv, NEW j \in JobIds, Answer(j)
  PROVE  /\ AreJobs(jobs') /\ InTurn(jobs') /\ jobs[j].phase = "query"
         /\ \E new : Answered(j, IF status = "Fetching" THEN {} ELSE Cascade(j[1]), new)
         /\ state' \in [Vars -> {"NotStarted", "Loading", "Done", "Error"}]
         /\ status = "Fetching" => state' = state
         /\ \A v \in Vars : state'[v] = state[v] \/ state'[v] = "Loading"
         /\ status # "Fetching" => \A v \in Cascade(j[1]) : state'[v] = "Loading"
         /\ \A v \in Vars \ Cascade(j[1]) : state'[v] = state[v]
         /\ asked'[j[1]] = jobs[j].with /\ \A v \in Vars \ {j[1]} : asked'[v] = asked[v]
         /\ \A v \in Vars \ {j[1]} : current'[v] = current[v]
         /\ DOMAIN asked' = Vars /\ DOMAIN current' = Vars
<1> DEFINE js == [jobs EXCEPT ![j] = [phase |-> "selection", parent |-> @.parent]]
           vs == IF status = "Fetching" THEN {} ELSE Cascade(j[1])
<1>1. jobs[j].phase = "query" /\ j[1] \in Vars /\ j \in JobIds
  BY JobIdsArePairs DEF Answer
<1>2. /\ js = [i \in JobIds |-> IF i = j THEN Chose(jobs[j].parent) ELSE jobs[i]]
      /\ jobs[j].parent \in ParentIds
  BY DEF BaseInv, AreJobs, Chose, IsJob
<1>3. /\ asked' = [asked EXCEPT ![j[1]] = jobs[j].with]
      /\ \E c : current' = [current EXCEPT ![j[1]] = c]
      /\ IF status = "Fetching" THEN jobs' = js /\ UNCHANGED state
         ELSE UpdateOptions(js, Cascade(j[1]), <<"job", j>>)
  BY Zenon DEF Answer
<1> HIDE DEF js
<1>4. /\ DOMAIN js = JobIds /\ js[j] = Chose(jobs[j].parent)
      /\ \A i \in JobIds \ {j} : js[i] = jobs[i]
  BY <1>2
<1>5. IsJob(js[j]) /\ js[j].phase = "selection" /\ js[j].parent = jobs[j].parent
  BY <1>2, <1>4, ChoseIsJob
<1>6. AreJobs(js)
  BY <1>4, <1>5 DEF BaseInv, AreJobs
<1>7. \A i \in JobIds : /\ js[i].phase = "datasource" <=> jobs[i].phase = "datasource"
                        /\ jobs[i].phase = "datasource" => js[i].ahead = jobs[i].ahead
  BY <1>1, <1>4, <1>5
<1>8. InTurn(js)
  BY <1>7, SameTurn DEF BaseInv
<1>9. \A v : Lookups(js, v) = Lookups(jobs, v)
  BY <1>7, SameLookups
<1>10. /\ state' \in [Vars -> {"NotStarted", "Loading", "Done", "Error"}]
       /\ status = "Fetching" => state' = state
       /\ status # "Fetching" => \A v \in Cascade(j[1]) : state'[v] = "Loading"
       /\ \A v \in Vars \ Cascade(j[1]) : state'[v] = state[v]
       /\ \A v \in Vars : state'[v] = state[v] \/ state'[v] = "Loading"
       /\ \E new : Starts(js, vs, <<"job", j>>, new, jobs')
  <2>1. CASE status = "Fetching"
    <3>1. Starts(js, {}, <<"job", j>>, {}, jobs')
      BY <1>3, <1>4, <2>1 DEF Starts
    <3> QED
      BY <1>3, <2>1, <3>1 DEF BaseInv, Types
  <2>2. CASE status # "Fetching"
    <3>1. Types /\ Cascade(j[1]) \in SUBSET Vars
      BY CascadeOfDependents, JobIdsArePairs DEF BaseInv
    <3> HIDE DEF vs
    <3>2. /\ \E new : Starts(js, Cascade(j[1]), <<"job", j>>, new, jobs')
          /\ state' \in [Vars -> {"NotStarted", "Loading", "Done", "Error"}]
          /\ \A v \in Cascade(j[1]) : state'[v] = "Loading"
          /\ \A v \in Vars \ Cascade(j[1]) : state'[v] = state[v]
      BY <1>3, <2>2, <3>1, UpdateOptionsStarts
    <3>3. vs = Cascade(j[1])
      BY <2>2 DEF vs
    <3> QED
      BY <2>2, <3>2, <3>3
  <2> QED
    BY <2>1, <2>2
<1> HIDE DEF vs
<1>11. PICK new : Starts(js, vs, <<"job", j>>, new, jobs')
  BY <1>10
<1>12. vs \in SUBSET Vars /\ <<"job", j>> \in ParentIds
  BY CascadeOfDependents, JobIdsArePairs, SomeParents DEF vs
<1>13. AreJobs(jobs') /\ InTurn(jobs')
  BY <1>6, <1>8, <1>11, <1>12, StartsKeepsTurn
<1>14. Answered(j, vs, new)
  <2>1. \A i \in new : i # j /\ jobs[i].phase = "free" /\ i[1] \in vs
    BY <1>4, <1>5, <1>11 DEF Starts
  <2>2. \A i \in JobIds \ (new \cup {j}) : jobs'[i] = jobs[i]
    BY <1>4, <1>11 DEF Starts
  <2>3. jobs'[j].phase = "selection" /\ jobs'[j].parent = jobs[j].parent
    BY <1>5, <1>11, <2>1 DEF Starts
  <2>4. \A i \in new : jobs'[i] = Began(<<"job", j>>, Lookups(jobs, i[1]))
    BY <1>9, <1>11 DEF Starts
  <2> QED
    BY <1>11, <2>1, <2>2, <2>3, <2>4 DEF Answered, Starts
<1>15. /\ asked'[j[1]] = jobs[j].with /\ \A v \in Vars \ {j[1]} : asked'[v] = asked[v]
       /\ \A v \in Vars \ {j[1]} : current'[v] = current[v]
       /\ DOMAIN asked' = Vars /\ DOMAIN current' = Vars
  BY <1>1, <1>3 DEF BaseInv, Types
<1> QED
  BY <1>1, <1>10, <1>13, <1>14, <1>15 DEF vs

LEMMA AnswerKeepsBase ==
  ASSUME BaseInv, NEW j \in JobIds, Answer(j)
  PROVE  BaseInv'
<1> DEFINE vs == IF status = "Fetching" THEN {} ELSE Cascade(j[1])
<1>1. /\ AreJobs(jobs') /\ InTurn(jobs') /\ jobs[j].phase = "query"
      /\ \E new : Answered(j, vs, new)
  BY AnswerEffect
<1>2. vs \subseteq Dependents(j[1])
  BY CascadeOfDependents, JobIdsArePairs
<1> HIDE DEF vs
<1>3. PICK new : Answered(j, vs, new)
  BY <1>1
<1>4. \A i \in new : /\ i \in JobIds /\ jobs'[i].phase = "datasource" /\ jobs'[i].parent = <<"job", j>>
                     /\ i[1] \in Dependents(j[1]) /\ jobs[i].phase = "free"
  BY <1>2, <1>3, BeganIsJob, LookupsIsNat, SomeParents DEF Answered
<1>5. jobs'[j].phase = "selection" /\ jobs'[j].parent = jobs[j].parent
  BY <1>3 DEF Answered
<1>6. \A i \in JobIds : i \in new \/ i = j \/ jobs'[i] = jobs[i]
  BY <1>3 DEF Answered
<1>7. Types'
  BY AnswerEffect DEF Answer, BaseInv, Types
<1>8. ParentsRun'
  <2> SUFFICES ASSUME NEW i \in JobIds, jobs'[i].parent[1] = "job"
               PROVE  LET p == jobs'[i].parent[2]
                      IN  p \in JobIds /\ jobs'[p].phase = "selection" /\ i[1] \in Dependents(p[1])
    BY DEF ParentsRun
  <2>1. CASE i \in new
    BY <1>4, <1>5, <2>1, SomeParents
  <2>2. CASE i \notin new
    <3>1. jobs'[i].parent = jobs[i].parent
      BY <1>5, <1>6, <2>2
    <3>2. LET p == jobs[i].parent[2]
          IN  p \in JobIds /\ jobs[p].phase = "selection" /\ i[1] \in Dependents(p[1])
      BY <3>1 DEF BaseInv, ParentsRun
    <3>3. \A p \in JobIds : jobs[p].phase = "selection" => jobs'[p].phase = "selection"
      BY <1>4, <1>5, <1>6
    <3> QED
      BY <3>1, <3>2, <3>3
  <2> QED
    BY <2>1, <2>2
<1>9. OneQuery'
  <2>1. \A i \in JobIds : jobs'[i].phase = "query" => jobs[i].phase = "query"
    BY <1>4, <1>5, <1>6
  <2> QED
    BY <2>1 DEF BaseInv, OneQuery
<1> QED
  BY <1>1, <1>7, <1>8, <1>9 DEF BaseInv

LEMMA NoChildren ==
  ASSUME AreJobs(jobs), NEW parent, Awaited(parent), parent # Orphan, NEW i \in JobIds
  PROVE  jobs[i].parent # parent
<1>1. jobs[i].phase = "free" => jobs[i].parent = Orphan
  BY PhasesOfJobs DEF AreJobs
<1> QED
  BY <1>1 DEF Awaited, Children, Running

LEMMA SettleJobEffect ==
  ASSUME BaseInv, NEW j \in JobIds, SettleJob(j)
  PROVE  /\ jobs[j].phase = "selection" /\ jobs'[j] = Free
         /\ \A i \in JobIds : jobs[i].parent # <<"job", j>>
         /\ \A i \in JobIds \ {j} : jobs'[i] = jobs[i]
         /\ DOMAIN jobs' = JobIds
         /\ state'[j[1]] = "Done" /\ \A v \in Vars \ {j[1]} : state'[v] = state[v]
         /\ state' \in [Vars -> {"NotStarted", "Loading", "Done", "Error"}]
<1>1. \A i \in JobIds : jobs[i].parent # <<"job", j>>
  BY NoChildren, SomeParents DEF SettleJob, BaseInv, Orphan
<1>2. jobs' = [i \in JobIds |-> IF i = j THEN Free ELSE jobs[i]]
  BY <1>1 DEF SettleJob, Ended
<1> QED
  BY <1>1, <1>2, JobIdsArePairs DEF SettleJob, BaseInv, Types

LEMMA SettleJobKeepsBase ==
  ASSUME BaseInv, NEW j \in JobIds, SettleJob(j)
  PROVE  BaseInv'
<1>1. /\ jobs[j].phase = "selection" /\ jobs'[j] = Free
      /\ \A i \in JobIds : jobs[i].parent # <<"job", j>>
      /\ \A i \in JobIds \ {j} : jobs'[i] = jobs[i]
      /\ DOMAIN jobs' = JobIds
  BY SettleJobEffect
<1>2. AreJobs(jobs')
  BY <1>1, FreeIsJob DEF BaseInv, AreJobs
<1>3. InTurn(jobs')
  <2>1. \A i \in JobIds : /\ jobs[i].phase = "datasource" <=> jobs'[i].phase = "datasource"
                          /\ jobs[i].phase = "datasource" => jobs'[i].ahead = jobs[i].ahead
    BY <1>1, FreeIsJob
  <2> QED
    BY <2>1, SameTurn DEF BaseInv
<1>4. ParentsRun'
  <2> SUFFICES ASSUME NEW i \in JobIds, jobs'[i].parent[1] = "job"
               PROVE  LET p == jobs'[i].parent[2]
                      IN  p \in JobIds /\ jobs'[p].phase = "selection" /\ i[1] \in Dependents(p[1])
    BY DEF ParentsRun
  <2>1. i # j /\ jobs'[i] = jobs[i]
    BY <1>1, FreeIsJob
  <2>2. LET p == jobs[i].parent[2]
        IN  /\ p \in JobIds /\ jobs[p].phase = "selection" /\ i[1] \in Dependents(p[1])
            /\ jobs[i].parent = <<"job", p>>
    BY <2>1, KindsOfParents DEF BaseInv, ParentsRun, AreJobs, IsJob
  <2> QED
    BY <1>1, <2>1, <2>2
<1>5. OneQuery'
  BY <1>1, FreeIsJob DEF BaseInv, OneQuery
<1>6. Types'
  BY SettleJobEffect DEF SettleJob, BaseInv, Types
<1> QED
  BY <1>2, <1>3, <1>4, <1>5, <1>6 DEF BaseInv

\* The jobs that the user cancels with an update of v.
Hit(v) == {i \in JobIds : i[1] = v /\ jobs[i].phase \in {"query", "selection"}}

LEMMA CancelEffect ==
  ASSUME BaseInv, NEW v \in Vars, Cancel(v)
  PROVE  /\ AreJobs(jobs') /\ Hit(v) # {}
         /\ \A i \in Hit(v) : jobs'[i].phase = "selection" /\ jobs'[i].parent = jobs[i].parent
         /\ \A i \in JobIds \ Hit(v) :
              /\ jobs'[i].phase = jobs[i].phase
              /\ jobs'[i].parent = IF jobs[i].parent[1] = "job" /\ jobs[i].parent[2] \in Hit(v)
                                     THEN Orphan ELSE jobs[i].parent
              /\ jobs[i].phase = "query" => jobs'[i].with = jobs[i].with
              /\ jobs[i].phase = "datasource" => jobs'[i].ahead = jobs[i].ahead
<1>1. jobs' = WithoutRequests(jobs, Hit(v)) /\ Hit(v) # {}
  BY DEF Cancel, Hit
<1>2. \A i \in JobIds : IsJob(jobs[i])
  BY DEF BaseInv, AreJobs
<1>3. ASSUME NEW i \in Hit(v)
      PROVE  i \in JobIds /\ jobs[i].parent \in ParentIds /\ jobs'[i] = Chose(jobs[i].parent)
  BY <1>1, <1>2 DEF WithoutRequests, Hit, Chose, IsJob
<1>4. ASSUME NEW i \in JobIds \ Hit(v)
      PROVE  /\ IsJob(jobs'[i]) /\ jobs'[i].phase = jobs[i].phase
             /\ jobs'[i].parent = IF jobs[i].parent[1] = "job" /\ jobs[i].parent[2] \in Hit(v)
                                    THEN Orphan ELSE jobs[i].parent
             /\ jobs[i].phase = "query" => jobs'[i].with = jobs[i].with
             /\ jobs[i].phase = "datasource" => jobs'[i].ahead = jobs[i].ahead
  <2>1. CASE jobs[i].parent[1] = "job" /\ jobs[i].parent[2] \in Hit(v)
    <3>1. jobs'[i] = [jobs[i] EXCEPT !.parent = Orphan]
      BY <1>1, <2>1 DEF WithoutRequests
    <3> QED
      BY <1>2, <2>1, <3>1, JobHasFields
  <2>2. CASE ~ (jobs[i].parent[1] = "job" /\ jobs[i].parent[2] \in Hit(v))
    <3>1. jobs'[i] = jobs[i]
      BY <1>1, <2>2 DEF WithoutRequests
    <3> QED
      BY <1>2, <2>2, <3>1
  <2> QED
    BY <2>1, <2>2
<1>5. AreJobs(jobs')
  <2>1. DOMAIN jobs' = JobIds
    BY <1>1 DEF WithoutRequests
  <2>2. ASSUME NEW i \in Hit(v) PROVE IsJob(jobs'[i])
    BY <1>3, ChoseIsJob
  <2> QED
    BY <1>4, <2>1, <2>2 DEF AreJobs
<1>6. ASSUME NEW i \in Hit(v)
      PROVE  jobs'[i].phase = "selection" /\ jobs'[i].parent = jobs[i].parent
  BY <1>3, ChoseIsJob
<1> QED
  BY <1>1, <1>4, <1>5, <1>6

LEMMA CancelKeepsBase ==
  ASSUME BaseInv, NEW v \in Vars, Cancel(v)
  PROVE  BaseInv'
<1>1. /\ AreJobs(jobs')
      /\ \A i \in Hit(v) : jobs'[i].phase = "selection" /\ jobs'[i].parent = jobs[i].parent
      /\ \A i \in JobIds \ Hit(v) :
           /\ jobs'[i].phase = jobs[i].phase
           /\ jobs'[i].parent = jobs[i].parent \/ jobs'[i].parent = Orphan
           /\ jobs[i].phase = "datasource" => jobs'[i].ahead = jobs[i].ahead
  BY CancelEffect
<1>2. \A i \in Hit(v) : i \in JobIds /\ jobs[i].phase \in {"query", "selection"}
  BY DEF Hit
<1>3. InTurn(jobs')
  <2>1. \A i \in JobIds : /\ jobs[i].phase = "datasource" <=> jobs'[i].phase = "datasource"
                          /\ jobs[i].phase = "datasource" => jobs'[i].ahead = jobs[i].ahead
    BY <1>1, <1>2
  <2> QED
    BY <2>1, SameTurn DEF BaseInv
<1>4. ParentsRun'
  <2> SUFFICES ASSUME NEW i \in JobIds, jobs'[i].parent[1] = "job"
               PROVE  LET p == jobs'[i].parent[2]
                      IN  p \in JobIds /\ jobs'[p].phase = "selection" /\ i[1] \in Dependents(p[1])
    BY DEF ParentsRun
  <2>1. jobs'[i].parent = jobs[i].parent
    BY <1>1, SomeParents
  <2>2. LET p == jobs[i].parent[2]
        IN  p \in JobIds /\ jobs[p].phase = "selection" /\ i[1] \in Dependents(p[1])
    BY <2>1 DEF BaseInv, ParentsRun
  <2> QED
    BY <1>1, <2>1, <2>2
<1>5. OneQuery'
  <2>1. \A i \in JobIds : jobs'[i].phase = "query" => jobs[i].phase = "query"
    BY <1>1
  <2> QED
    BY <2>1 DEF BaseInv, OneQuery
<1>6. Types'
  BY DEF Cancel, BaseInv, Types
<1> QED
  BY <1>1, <1>3, <1>4, <1>5, <1>6 DEF BaseInv

LEMMA FailEffect ==
  ASSUME BaseInv, NEW j \in JobIds, Fail(j)
  PROVE  /\ AreJobs(jobs') /\ InTurn(jobs') /\ jobs'[j] = Free
         /\ jobs[j].phase \in {"datasource", "query"}
         /\ \A i \in JobIds \ {j} :
              /\ jobs'[i].phase = jobs[i].phase
              /\ jobs[i].phase = "query" => jobs'[i].with = jobs[i].with
              /\ jobs'[i].parent # jobs[i].parent =>
                   jobs[i].parent = jobs[j].parent /\ jobs[j].parent[1] = "change"
                     /\ jobs'[i].parent = Orphan
         /\ state'[j[1]] = "Error" /\ \A v \in Vars \ {j[1]} : state'[v] = state[v]
         /\ state' \in [Vars -> {"NotStarted", "Loading", "Done", "Error"}]
         /\ cut' = IF status = "Completed" THEN cut \cup {j[1]} ELSE cut
         /\ loose' = (loose \/ status = "Completed")
         /\ changes' # changes => jobs[j].parent[1] = "change"
<1> DEFINE above == jobs[j].parent
           stops == above[1] = "change" /\ changes[above[2]].kind = "time"
           moved == IF jobs[j].phase = "query" THEN jobs ELSE NextLookup(jobs, j)
           js == Ended(moved, j)
<1>1. /\ jobs[j].phase = "query" \/ (jobs[j].phase = "datasource" /\ jobs[j].ahead = 0)
      /\ jobs' = [i \in JobIds |-> IF stops /\ js[i].parent = above
                                     THEN [js[i] EXCEPT !.parent = Orphan] ELSE js[i]]
      /\ changes' = IF stops THEN [changes EXCEPT ![above[2]].kind = "made"] ELSE changes
      /\ state' = [state EXCEPT ![j[1]] = "Error"]
      /\ cut' = IF status = "Completed" THEN cut \cup {j[1]} ELSE cut
      /\ loose' = (loose \/ status = "Completed")
  BY DEF Fail
<1>2. ASSUME NEW i \in JobIds, i # j
      PROVE  /\ IsJob(moved[i]) /\ moved[i].phase = jobs[i].phase
             /\ moved[i].parent = jobs[i].parent /\ moved[i].parent # <<"job", j>>
             /\ jobs[i].phase = "query" => moved[i].with = jobs[i].with
             /\ jobs[i].phase = "datasource" =>
                  moved[i].ahead = IF jobs[j].phase = "datasource" /\ i[1] = j[1]
                                     THEN jobs[i].ahead - 1 ELSE jobs[i].ahead
  <2>1. jobs[i].parent # <<"job", j>>
    BY <1>1, SomeParents DEF BaseInv, ParentsRun
  <2>2. CASE jobs[j].phase = "query"
    BY <2>1, <2>2 DEF BaseInv, AreJobs
  <2>3. CASE jobs[j].phase # "query"
    BY <1>1, <1>2, <2>1, <2>3, NextLookupEffect
  <2> QED
    BY <2>2, <2>3
<1> HIDE DEF moved
<1>3. js[j] = Free
  BY DEF Ended
<1>4. ASSUME NEW i \in JobIds, i # j PROVE js[i] = moved[i]
  BY <1>2, <1>4 DEF Ended
<1> HIDE DEF js
<1>5. ASSUME NEW i \in JobIds, i # j
      PROVE  /\ IsJob(jobs'[i]) /\ jobs'[i].phase = jobs[i].phase
             /\ jobs[i].phase = "query" => jobs'[i].with = jobs[i].with
             /\ jobs[i].phase = "datasource" =>
                  jobs'[i].ahead = IF jobs[j].phase = "datasource" /\ i[1] = j[1]
                                     THEN jobs[i].ahead - 1 ELSE jobs[i].ahead
             /\ jobs'[i].parent # jobs[i].parent =>
                   jobs[i].parent = above /\ above[1] = "change" /\ jobs'[i].parent = Orphan
  <2>1. js[i] = moved[i] /\ IsJob(js[i])
    BY <1>2, <1>4, <1>5
  <2>2. CASE stops /\ js[i].parent = above
    <3>1. jobs'[i] = [js[i] EXCEPT !.parent = Orphan]
      BY <1>1, <2>2
    <3>2. /\ IsJob(jobs'[i]) /\ jobs'[i].parent = Orphan /\ jobs'[i].phase = js[i].phase
          /\ js[i].phase = "datasource" => jobs'[i].ahead = js[i].ahead
          /\ js[i].phase = "query" => jobs'[i].with = js[i].with
      BY <2>1, <3>1, JobHasFields
    <3> QED
      BY <1>2, <1>5, <2>1, <2>2, <3>2
  <2>3. CASE ~ (stops /\ js[i].parent = above)
    <3>1. jobs'[i] = js[i]
      BY <1>1, <2>3
    <3> QED
      BY <1>2, <1>5, <2>1, <3>1
  <2> QED
    BY <2>2, <2>3
<1>6. jobs'[j] = Free
  <2>1. above # Orphan \/ ~ stops
    BY SomeParents
  <2> QED
    BY <1>1, <1>3, <2>1, FreeIsJob
<1>7. AreJobs(jobs')
  BY <1>1, <1>5, <1>6, FreeIsJob DEF AreJobs
<1>8. InTurn(jobs')
  <2>1. jobs'[j].phase = "free"
    BY <1>6, FreeIsJob
  <2>2. CASE jobs[j].phase = "query"
    <3>1. \A i \in JobIds : /\ jobs[i].phase = "datasource" <=> jobs'[i].phase = "datasource"
                            /\ jobs[i].phase = "datasource" => jobs'[i].ahead = jobs[i].ahead
      BY <1>5, <2>1, <2>2
    <3> QED
      BY <3>1, SameTurn DEF BaseInv
  <2>3. CASE jobs[j].phase = "datasource"
    <3>1. jobs[j].ahead = 0
      BY <1>1, <2>3
    <3>2. \A i \in JobIds \ {j} : jobs[i].phase = "datasource" <=> jobs'[i].phase = "datasource"
      BY <1>5
    <3>3. \A i \in JobIds \ {j} : jobs[i].phase = "datasource" =>
             jobs'[i].ahead = IF i[1] = j[1] THEN jobs[i].ahead - 1 ELSE jobs[i].ahead
      BY <1>5, <2>3
    <3>4. jobs'[j].phase # "datasource"
      BY <2>1
    <3> QED
      BY <2>3, <3>1, <3>2, <3>3, <3>4, NextKeepsTurn DEF BaseInv
  <2> QED
    BY <1>1, <2>2, <2>3
<1>9. /\ state'[j[1]] = "Error" /\ \A v \in Vars \ {j[1]} : state'[v] = state[v]
      /\ state' \in [Vars -> {"NotStarted", "Loading", "Done", "Error"}]
  BY <1>1, JobIdsArePairs DEF BaseInv, Types
<1>10. changes' # changes => above[1] = "change"
  BY <1>1
<1> QED
  BY <1>1, <1>5, <1>6, <1>7, <1>8, <1>9, <1>10

LEMMA FailKeepsBase ==
  ASSUME BaseInv, NEW j \in JobIds, Fail(j)
  PROVE  BaseInv'
<1>1. /\ AreJobs(jobs') /\ InTurn(jobs') /\ jobs'[j] = Free
      /\ jobs[j].phase \in {"datasource", "query"}
  BY FailEffect
<1>2. \A i \in JobIds \ {j} :
        /\ jobs'[i].phase = jobs[i].phase
        /\ jobs'[i].parent = jobs[i].parent \/ jobs'[i].parent = Orphan
  BY FailEffect
<1>3. ParentsRun'
  <2> SUFFICES ASSUME NEW i \in JobIds, jobs'[i].parent[1] = "job"
               PROVE  LET p == jobs'[i].parent[2]
                      IN  p \in JobIds /\ jobs'[p].phase = "selection" /\ i[1] \in Dependents(p[1])
    BY DEF ParentsRun
  <2>1. i # j /\ jobs'[i].parent = jobs[i].parent
    BY <1>1, <1>2, FreeIsJob, SomeParents
  <2>2. LET p == jobs[i].parent[2]
        IN  p \in JobIds /\ jobs[p].phase = "selection" /\ i[1] \in Dependents(p[1])
    BY <2>1 DEF BaseInv, ParentsRun
  <2> QED
    BY <1>1, <1>2, <2>1, <2>2
<1>4. OneQuery'
  BY <1>1, <1>2, FreeIsJob DEF BaseInv, OneQuery
<1>5. Types'
  <2>1. /\ changes' \in [ChangeIds -> [kind : Kinds, var : Vars \cup {""}, value : Values \cup {None, 0}]]
        /\ \A k \in ChangeIds : changes'[k].kind \in {"user", "url", "urlOptions"} => changes'[k].var \in Vars
    <3>1. CASE changes' = changes
      BY <3>1 DEF BaseInv, Types
    <3>2. CASE changes' # changes
      <4>1. PICK k : jobs[j].parent[1] = "change" /\ k = jobs[j].parent[2]
                     /\ changes' = [changes EXCEPT ![k].kind = "made"]
        BY <3>2 DEF Fail
      <4>2. k \in ChangeIds
        BY <4>1, KindsOfParents DEF BaseInv, AreJobs, IsJob
      <4> DEFINE Records == [kind : Kinds, var : Vars \cup {""}, value : Values \cup {None, 0}]
      <4>3. changes \in [ChangeIds -> Records] /\ [changes[k] EXCEPT !.kind = "made"] \in Records
            /\ [changes[k] EXCEPT !.kind = "made"].kind = "made"
        BY <4>2 DEF BaseInv, Types, Kinds
      <4>4. /\ changes'[k].kind = "made" /\ \A i \in ChangeIds \ {k} : changes'[i] = changes[i]
            /\ changes' \in [ChangeIds -> Records]
        <5> HIDE DEF Records
        <5> QED
          BY <4>1, <4>2, <4>3
      <4> QED
        BY <4>4 DEF BaseInv, Types
    <3> QED
      BY <3>1, <3>2
  <2>2. state' \in [Vars -> {"NotStarted", "Loading", "Done", "Error"}]
    BY FailEffect
  <2>3. cut' \subseteq Vars /\ loose' \in BOOLEAN
    <3>1. j[1] \in Vars /\ cut \subseteq Vars /\ loose \in BOOLEAN
      BY JobIdsArePairs DEF BaseInv, Types
    <3> QED
      BY <3>1 DEF Fail
  <2> QED
    BY <2>1, <2>2, <2>3 DEF Fail, BaseInv, Types
<1> QED
  BY <1>1, <1>3, <1>4, <1>5 DEF BaseInv

\* The change k starts updates of the variables vs, and waits for them.
Begins(k, vs, new) ==
  /\ vs \subseteq Vars
  /\ Starts(jobs, vs, <<"change", k>>, new, jobs')
  /\ Pending(k)'
  /\ \A i \in ChangeIds \ {k} : changes'[i] = changes[i]
  /\ \A v \in vs : state'[v] = "Loading"
  /\ \A v \in Vars \ vs : state'[v] = state[v]
  /\ \A u \in Vars : current'[u] = current[u] \/ vs = Cascade(u)
  /\ time' = time \/ vs = {v \in Vars : Refresh[v] = "time"}
  /\ UNCHANGED <<status, asked, loading, cut, loose, panels>>

ChangeMade(k) ==
  \/ ChangeTime(k)
  \/ \E v \in Vars, c \in Values \cup {None} : SetValue(k, v, c) \/ ChangeUrl(k, v, c)

LEMMA ChangeBegins ==
  ASSUME BaseInv, NEW k \in ChangeIds,
         ChangeMade(k) \/ (SettleChange(k) /\ changes[k].kind = "urlOptions")
  PROVE  Types' /\ \E vs, new : Begins(k, vs, new)
<1>1. Types /\ changes[k] \in [kind : Kinds, var : Vars \cup {""}, value : Values \cup {None, 0}]
  BY DEF BaseInv, Types
<1>2. CASE ChangeTime(k)
  <2> DEFINE vs == {v \in Vars : Refresh[v] = "time"}
  <2>1. UpdateOptions(jobs, vs, <<"change", k>>) /\ vs \in SUBSET Vars
    BY <1>2 DEF ChangeTime
  <2>2. changes' = [changes EXCEPT ![k].kind = "time"]
        /\ UNCHANGED <<status, current, asked, loading, cut, loose, panels>>
    BY <1>2 DEF ChangeTime
  <2> HIDE DEF vs
  <2>3. /\ \E new : Starts(jobs, vs, <<"change", k>>, new, jobs')
        /\ state' \in [Vars -> {"NotStarted", "Loading", "Done", "Error"}]
        /\ \A v \in vs : state'[v] = "Loading"
        /\ \A v \in Vars \ vs : state'[v] = state[v]
    BY <1>1, <2>1, UpdateOptionsStarts
  <2>4. Types'
    BY <1>1, <2>2, <2>3 DEF Types, Kinds
  <2>5. PICK new : Starts(jobs, vs, <<"change", k>>, new, jobs')
    BY <2>3
  <2>6. Pending(k)' /\ \A i \in ChangeIds \ {k} : changes'[i] = changes[i]
    BY <1>1, <2>2 DEF Pending, Types
  <2>7. Begins(k, vs, new)
    BY <2>1, <2>2, <2>3, <2>5, <2>6 DEF Begins, vs
  <2> QED
    BY <2>4, <2>7
<1>3. CASE \E u \in Vars, c \in Values \cup {None} : SetValue(k, u, c) \/ ChangeUrl(k, u, c)
  <2>1. PICK u \in Vars, c \in Values \cup {None} : SetValue(k, u, c) \/ ChangeUrl(k, u, c)
    BY <1>3
  <2>2. PICK vs \in SUBSET Vars, kind \in {"user", "url", "urlOptions"} :
          /\ UpdateOptions(jobs, vs, <<"change", k>>)
          /\ changes' = [changes EXCEPT ![k] = [kind |-> kind, var |-> u, value |-> c]]
          /\ current' = current \/ (vs = Cascade(u) /\ current' = [current EXCEPT ![u] = c])
          /\ UNCHANGED <<status, asked, loading, cut, loose, panels, time>>
    <3>1. CASE SetValue(k, u, c)
      BY <3>1, CascadeOfDependents DEF SetValue
    <3>2. CASE ChangeUrl(k, u, c) /\ Refresh[u] = "never"
      BY <3>2, CascadeOfDependents DEF ChangeUrl
    <3>3. CASE ChangeUrl(k, u, c) /\ Refresh[u] # "never"
      BY <3>3 DEF ChangeUrl
    <3> QED
      BY <2>1, <3>1, <3>2, <3>3
  <2>3. /\ \E new : Starts(jobs, vs, <<"change", k>>, new, jobs')
        /\ state' \in [Vars -> {"NotStarted", "Loading", "Done", "Error"}]
        /\ \A v \in vs : state'[v] = "Loading"
        /\ \A v \in Vars \ vs : state'[v] = state[v]
    BY <1>1, <2>2, UpdateOptionsStarts
  <2>4. Types'
    BY <1>1, <2>2, <2>3 DEF Types, Kinds
  <2>5. PICK new : Starts(jobs, vs, <<"change", k>>, new, jobs')
    BY <2>3
  <2>6. Pending(k)' /\ \A i \in ChangeIds \ {k} : changes'[i] = changes[i]
    BY <1>1, <2>2 DEF Pending, Types
  <2>7. \A v \in Vars : current'[v] = current[v] \/ vs = Cascade(v)
    BY <1>1, <2>2 DEF Types
  <2>8. Begins(k, vs, new)
    BY <2>2, <2>3, <2>5, <2>6, <2>7 DEF Begins
  <2> QED
    BY <2>4, <2>8
<1>4. CASE SettleChange(k) /\ changes[k].kind = "urlOptions"
  <2> DEFINE u == changes[k].var
             vs == Cascade(u)
  <2>1. u \in Vars
    BY <1>1, <1>4 DEF Types
  <2>2. /\ UpdateOptions(jobs, vs, <<"change", k>>) /\ vs \in SUBSET Vars
        /\ changes' = [changes EXCEPT ![k].kind = "url"]
        /\ current' = [current EXCEPT ![u] = changes[k].value]
        /\ UNCHANGED <<status, asked, loading, cut, loose, panels, time>>
    BY <1>4, <2>1, CascadeOfDependents DEF SettleChange
  <2> HIDE DEF vs
  <2>3. /\ \E new : Starts(jobs, vs, <<"change", k>>, new, jobs')
        /\ state' \in [Vars -> {"NotStarted", "Loading", "Done", "Error"}]
        /\ \A v \in vs : state'[v] = "Loading"
        /\ \A v \in Vars \ vs : state'[v] = state[v]
    BY <1>1, <2>2, UpdateOptionsStarts
  <2>4. Types'
    BY <1>1, <2>1, <2>2, <2>3 DEF Types, Kinds
  <2>5. PICK new : Starts(jobs, vs, <<"change", k>>, new, jobs')
    BY <2>3
  <2>6. Pending(k)' /\ \A i \in ChangeIds \ {k} : changes'[i] = changes[i]
    BY <1>1, <2>2 DEF Pending, Types
  <2>7. \A v \in Vars : current'[v] = current[v] \/ vs = Cascade(v)
    BY <1>1, <2>2 DEF Types, vs
  <2>8. Begins(k, vs, new)
    BY <2>2, <2>3, <2>5, <2>6, <2>7 DEF Begins
  <2> QED
    BY <2>4, <2>8
<1> QED
  BY <1>2, <1>3, <1>4 DEF ChangeMade

LEMMA ChangeEnds ==
  ASSUME BaseInv, NEW k \in ChangeIds, SettleChange(k), changes[k].kind # "urlOptions"
  PROVE  /\ Types' /\ Pending(k) /\ panels' = Snapshot
         /\ \A i \in JobIds : jobs[i].parent # <<"change", k>>
         /\ \A i \in ChangeIds \ {k} : changes'[i] = changes[i]
         /\ loose' \in BOOLEAN /\ loose' = (loose /\ \E j \in JobIds : Running(j))
         /\ UNCHANGED <<status, state, current, asked, loading, jobs, time, cut>>
<1>1. \A i \in JobIds : jobs[i].parent # <<"change", k>>
  BY NoChildren, SomeParents DEF SettleChange, BaseInv, Orphan
<1>2. /\ Pending(k) /\ panels' = Snapshot
      /\ changes' = [changes EXCEPT ![k] = [Unmade EXCEPT !.kind = "made"]]
      /\ loose' = (loose /\ \E j \in JobIds : Running(j))
      /\ UNCHANGED <<status, state, current, asked, loading, jobs, time, cut>>
  BY DEF SettleChange, Pending
<1>3. Types'
  BY <1>2 DEF BaseInv, Types, Kinds, Unmade
<1>4. \A i \in ChangeIds \ {k} : changes'[i] = changes[i]
  BY <1>2 DEF BaseInv, Types
<1> QED
  BY <1>1, <1>2, <1>3, <1>4

-----------------------------------------------------------------------------
(* While the dashboard is opened                                           *)

\* What was processed so far has an order.
Ordered ==
  \E f \in [Vars -> Nat], n \in Nat :
    \A v \in Vars : loading[v] # "waiting" =>
      f[v] < n /\ \A p \in Parents(v) : loading[p] # "waiting" /\ f[p] < f[v]

\* The options of v were asked for with the values its parents keep.
Loaded(v) == asked[v] = Question(v) /\ \A p \in Parents(v) : loading[p] = "done"

Loads(v) ==
  /\ loading[v] = "waiting" => state[v] = "NotStarted"
  /\ loading[v] # "waiting" => /\ state[v] # "NotStarted"
                               /\ \A p \in Parents(v) : state[p] \in {"Done", "Error"}
  /\ loading[v] = "done" => state[v] # "Loading"
  /\ state[v] = "Loading" => \E j \in JobIds : j[1] = v /\ Running(j)
  /\ state[v] = "Done" /\ Refresh[v] # "never" => Loaded(v)

\* The one job of its variable.
LoadJob(j) ==
  /\ jobs[j].parent = <<"load", j[1]>> /\ loading[j[1]] = "options" /\ state[j[1]] = "Loading"
  /\ \A i \in JobIds : i[1] = j[1] /\ Running(i) => i = j
  /\ jobs[j].phase = "query" => jobs[j].with = Question(j[1])
  /\ jobs[j].phase = "selection" => asked[j[1]] = Question(j[1])
  /\ jobs[j].phase # "datasource" => \A p \in Parents(j[1]) : loading[p] = "done"

FetchInv ==
  status = "Fetching" =>
    /\ \A k \in ChangeIds : changes[k].kind = "none"
    /\ Ordered
    /\ \A v \in Vars : Loads(v)
    /\ \A j \in JobIds : Running(j) => LoadJob(j)

LEMMA SameQuestion ==
  ASSUME NEW v, \A p \in Parents(v) : current'[p] = current[p],
         Refresh[v] = "time" => time' = time
  PROVE  Question(v)' = Question(v)
  BY DEF Question

LEMMA ParentsAreVars == \A v : Parents(v) \subseteq Vars
  BY DEF Parents

LEMMA ProcessEffect ==
  ASSUME BaseInv, NEW v \in Vars, Process(v)
  PROVE  /\ loading[v] = "waiting" /\ DependenciesSettled(v)
         /\ Types'
         /\ \A w \in Vars \ {v} : /\ loading'[w] = loading[w] /\ state'[w] = state[w]
                                  /\ current'[w] = current[w]
         /\ UNCHANGED <<status, asked, changes, time, panels, cut, loose>>
         /\ \/ /\ Refresh[v] # "never" /\ state'[v] = "Loading" /\ loading'[v] = "options"
               /\ \E new : Starts(jobs, {v}, <<"load", v>>, new, jobs')
            \/ /\ Refresh[v] = "never" /\ state'[v] = "Done" /\ loading'[v] = "done"
               /\ jobs' = jobs
<1>1. /\ loading[v] = "waiting" /\ DependenciesSettled(v)
      /\ UNCHANGED <<status, asked, changes, time, panels, cut, loose>>
  BY DEF Process
<1>2. CASE Refresh[v] # "never"
  <2>1. /\ UpdateOptions(jobs, {v}, <<"load", v>>) /\ current' = current
        /\ loading' = [loading EXCEPT ![v] = "options"]
    BY <1>2 DEF Process
  <2>2. /\ \E new : Starts(jobs, {v}, <<"load", v>>, new, jobs')
        /\ state' \in [Vars -> {"NotStarted", "Loading", "Done", "Error"}]
        /\ state'[v] = "Loading" /\ \A w \in Vars \ {v} : state'[w] = state[w]
    BY <2>1, UpdateOptionsStarts DEF BaseInv
  <2> QED
    BY <1>1, <1>2, <2>1, <2>2 DEF BaseInv, Types
<1>3. CASE Refresh[v] = "never"
  <2>1. /\ \E c : current' = IF v \in fromUrl THEN [current EXCEPT ![v] = c] ELSE current
        /\ state' = [state EXCEPT ![v] = "Done"]
        /\ loading' = [loading EXCEPT ![v] = "done"] /\ jobs' = jobs
    BY <1>3 DEF Process
  <2> QED
    BY <1>1, <1>3, <2>1 DEF BaseInv, Types
<1> QED
  BY <1>2, <1>3

LEMMA ProcessKeepsFetch ==
  ASSUME BaseInv, FetchInv, status = "Fetching", NEW v \in Vars, Process(v)
  PROVE  FetchInv'
<1>1. /\ loading[v] = "waiting" /\ DependenciesSettled(v) /\ Types'
      /\ \A w \in Vars \ {v} : /\ loading'[w] = loading[w] /\ state'[w] = state[w]
                               /\ current'[w] = current[w]
      /\ UNCHANGED <<status, asked, changes, time, panels, cut, loose>>
  BY ProcessEffect
<1>2. /\ Types
      /\ \A k \in ChangeIds : changes[k].kind = "none"
      /\ Ordered
      /\ \A w \in Vars : Loads(w)
      /\ \A j \in JobIds : Running(j) => LoadJob(j)
  BY DEF BaseInv, FetchInv
<1>3. loading'[v] # "waiting" /\ state'[v] # "NotStarted" /\ (loading'[v] = "done" => state'[v] # "Loading")
      /\ (state'[v] = "Done" => Refresh[v] = "never")
  BY ProcessEffect
<1>4. \A p \in Parents(v) : p \in Vars /\ p # v /\ state[p] \in {"Done", "Error"} /\ loading[p] # "waiting"
  <2> SUFFICES ASSUME NEW p \in Parents(v)
               PROVE  p \in Vars /\ p # v /\ state[p] \in {"Done", "Error"} /\ loading[p] # "waiting"
    OBVIOUS
  <2>1. p \in Vars /\ state[p] \notin {"NotStarted", "Loading"}
    BY <1>1, ParentsAreVars DEF DependenciesSettled
  <2>2. state[v] = "NotStarted" /\ (loading[p] = "waiting" => state[p] = "NotStarted")
    BY <1>1, <1>2, <2>1 DEF Loads
  <2> QED
    BY <1>2, <2>1, <2>2 DEF Types
<1>5. \A w \in Vars \ {v} : loading[w] # "waiting" =>
        \A p \in Parents(w) : p \in Vars /\ p # v
  BY <1>1, <1>2, ParentsAreVars DEF Loads
<1>6. Ordered'
  <2>1. PICK f \in [Vars -> Nat], n \in Nat :
          \A w \in Vars : loading[w] # "waiting" =>
            f[w] < n /\ \A p \in Parents(w) : loading[p] # "waiting" /\ f[p] < f[w]
    BY <1>2 DEF Ordered
  <2> DEFINE g == [f EXCEPT ![v] = n]
  <2>2. g \in [Vars -> Nat] /\ n + 1 \in Nat /\ g[v] = n /\ \A w \in Vars \ {v} : g[w] = f[w]
    OBVIOUS
  <2> HIDE DEF g
  <2>3. ASSUME NEW w \in Vars, loading'[w] # "waiting"
        PROVE  g[w] < n + 1 /\ \A p \in Parents(w) : loading'[p] # "waiting" /\ g[p] < g[w]
    <3>1. CASE w = v
      <4>1. \A p \in Parents(v) : loading'[p] # "waiting" /\ g[p] < n
        BY <1>1, <1>4, <2>1, <2>2
      <4> QED
        BY <2>2, <3>1, <4>1
    <3>2. CASE w # v
      <4>1. loading[w] # "waiting"
        BY <1>1, <2>3, <3>2
      <4>2. f[w] < n /\ f[w] \in Nat /\ g[w] = f[w]
        BY <2>1, <2>2, <3>2, <4>1
      <4>3. ASSUME NEW p \in Parents(w) PROVE loading'[p] # "waiting" /\ g[p] < g[w]
        <5>1. p \in Vars /\ p # v
          BY <1>5, <3>2, <4>1
        <5> QED
          BY <1>1, <2>1, <2>2, <4>1, <4>2, <5>1
      <4> QED
        BY <4>2, <4>3
    <3> QED
      BY <3>1, <3>2
  <2> QED
    BY <2>2, <2>3 DEF Ordered
<1>7. \A w \in Vars \ {v} : Loaded(w) => Loaded(w)'
  <2> SUFFICES ASSUME NEW w \in Vars \ {v}, Loaded(w) PROVE Loaded(w)'
    OBVIOUS
  <2>1. \A p \in Parents(w) : p \in Vars \ {v}
    BY <1>1, ParentsAreVars DEF Loaded
  <2>2. Question(w)' = Question(w)
    BY <1>1, <2>1, SameQuestion
  <2> QED
    BY <1>1, <2>1, <2>2 DEF Loaded
<1>8. \A j \in JobIds : Running(j) => Running(j)' /\ jobs'[j] = jobs[j]
  BY ProcessEffect DEF Starts, Running
<1>9. \A i \in JobIds : i[1] # v /\ Running(i)' => Running(i)
  <2>1. CASE \E new : Starts(jobs, {v}, <<"load", v>>, new, jobs')
    <3>1. PICK new : Starts(jobs, {v}, <<"load", v>>, new, jobs')
      BY <2>1
    <3> QED
      BY <3>1 DEF Starts, Running
  <2>2. CASE jobs' = jobs
    BY <2>2 DEF Running
  <2> QED
    BY <2>1, <2>2, ProcessEffect
<1>10. ASSUME NEW w \in Vars PROVE Loads(w)'
  <2>1. CASE w = v
    <3>1. state'[v] = "Loading" => \E j \in JobIds : j[1] = v /\ Running(j)'
      <4> SUFFICES ASSUME state'[v] = "Loading" PROVE \E j \in JobIds : j[1] = v /\ Running(j)'
        OBVIOUS
      <4>1. PICK new : Starts(jobs, {v}, <<"load", v>>, new, jobs')
        BY ProcessEffect
      <4>2. PICK j \in new : j[1] = v
        BY <4>1 DEF Starts
      <4> QED
        BY <4>1, <4>2, BeganIsJob, LookupsIsNat, SomeParents DEF Starts, Running
    <3>2. \A p \in Parents(v) : state'[p] \in {"Done", "Error"}
      BY <1>1, <1>4
    <3> QED
      BY <1>3, <2>1, <3>1, <3>2 DEF Loads
  <2>2. CASE w # v
    <3>1. Loads(w) /\ loading'[w] = loading[w] /\ state'[w] = state[w]
      BY <1>1, <1>2, <2>2
    <3>2. loading[w] # "waiting" => \A p \in Parents(w) : state'[p] \in {"Done", "Error"}
      BY <1>1, <1>5, <2>2, <3>1 DEF Loads
    <3>3. Loaded(w) => Loaded(w)'
      BY <1>7, <2>2
    <3> QED
      BY <1>8, <3>1, <3>2, <3>3 DEF Loads
  <2> QED
    BY <2>1, <2>2
<1>11. ASSUME NEW j \in JobIds, Running(j)' PROVE LoadJob(j)'
  <2>1. \A i \in JobIds : Running(i) => i[1] # v
    BY <1>1, <1>2 DEF LoadJob
  <2>2. CASE Running(j)
    <3>1. LoadJob(j) /\ jobs'[j] = jobs[j] /\ j[1] \in Vars \ {v}
      BY <1>2, <1>8, <2>1, <2>2, JobIdsArePairs
    <3>2. \A i \in JobIds : i[1] # v /\ Running(i)' => Running(i)
      BY <1>9
    <3>3. jobs[j].phase # "datasource" => Question(j[1])' = Question(j[1])
      <4> SUFFICES ASSUME jobs[j].phase # "datasource"
                   PROVE  Question(j[1])' = Question(j[1])
        OBVIOUS
      <4>1. \A p \in Parents(j[1]) : p \in Vars \ {v}
        BY <1>1, <3>1, ParentsAreVars DEF LoadJob
      <4> QED
        BY <1>1, <4>1, SameQuestion
    <3>4. jobs[j].phase # "datasource" => \A p \in Parents(j[1]) : loading'[p] = "done"
      BY <1>1, <3>1, ParentsAreVars DEF LoadJob
    <3> QED
      BY <1>1, <3>1, <3>2, <3>3, <3>4 DEF LoadJob
  <2>3. CASE ~ Running(j)
    <3>1. PICK new : /\ Starts(jobs, {v}, <<"load", v>>, new, jobs')
                     /\ state'[v] = "Loading" /\ loading'[v] = "options"
      BY <1>11, <2>3, ProcessEffect DEF Running
    <3>2. j \in new /\ j[1] = v
      BY <1>11, <2>3, <3>1 DEF Starts, Running
    <3>3. jobs'[j].phase = "datasource" /\ jobs'[j].parent = <<"load", v>>
      BY <3>1, <3>2, BeganIsJob, SomeParents, LookupsIsNat DEF Starts
    <3>4. \A i \in JobIds : i[1] = v /\ Running(i)' => i = j
      BY <2>1, <3>1, <3>2 DEF Starts, Running
    <3> QED
      BY <3>1, <3>2, <3>3, <3>4 DEF LoadJob
  <2> QED
    BY <2>2, <2>3
<1> QED
  BY <1>1, <1>2, <1>6, <1>10, <1>11 DEF FetchInv

\* A job that runs while the dashboard is opened.
LEMMA JobThatLoads ==
  ASSUME BaseInv, FetchInv, status = "Fetching", NEW j \in JobIds, Running(j)
  PROVE  /\ LoadJob(j) /\ j[1] \in Vars /\ Loads(j[1])
         /\ j[1] \notin Parents(j[1])
         /\ \A w \in Vars : loading[w] # "waiting" => j[1] \notin Parents(w)
         /\ \A i \in JobIds \ {j} : Running(i) => i[1] # j[1]
<1>1. LoadJob(j) /\ j[1] \in Vars
  BY JobIdsArePairs DEF FetchInv
<1>2. \A w \in Vars : Loads(w)
  BY DEF FetchInv
<1>3. \A w \in Vars : loading[w] # "waiting" => j[1] \notin Parents(w)
  BY <1>1, <1>2 DEF Loads, LoadJob
<1> QED
  BY <1>1, <1>2, <1>3 DEF LoadJob

\* What a job does leaves the other variables as they are.
LEMMA OthersStillLoad ==
  ASSUME BaseInv, FetchInv, status = "Fetching", NEW j \in JobIds, Running(j),
         UNCHANGED <<status, loading, changes, time>>,
         \A i \in JobIds \ {j} : /\ jobs'[i].phase = jobs[i].phase /\ jobs'[i].parent = jobs[i].parent
                                 /\ jobs[i].phase = "query" => jobs'[i].with = jobs[i].with,
         \A w \in Vars \ {j[1]} : state'[w] = state[w] /\ asked'[w] = asked[w] /\ current'[w] = current[w],
         Loads(j[1])', Running(j)' => LoadJob(j)'
  PROVE  FetchInv'
<1>1. /\ LoadJob(j) /\ j[1] \in Vars
      /\ \A w \in Vars : loading[w] # "waiting" => j[1] \notin Parents(w)
      /\ \A i \in JobIds \ {j} : Running(i) => i[1] # j[1]
  BY JobThatLoads
<1>2. /\ \A k \in ChangeIds : changes[k].kind = "none"
      /\ Ordered
      /\ \A w \in Vars : Loads(w)
      /\ \A i \in JobIds : Running(i) => LoadJob(i)
  BY DEF FetchInv
<1>3. Ordered'
  BY <1>2 DEF Ordered
<1>4. ASSUME NEW w \in Vars, \A p \in Parents(w) : loading[p] = "done" PROVE Question(w)' = Question(w)
  <2>1. \A p \in Parents(w) : p \in Vars \ {j[1]}
    BY <1>1, <1>4, ParentsAreVars DEF LoadJob
  <2> QED
    BY <2>1, SameQuestion
<1>5. ASSUME NEW w \in Vars PROVE Loads(w)'
  <2>1. CASE w = j[1]
    BY <2>1
  <2>2. CASE w # j[1]
    <3>1. Loads(w) /\ loading'[w] = loading[w] /\ state'[w] = state[w] /\ asked'[w] = asked[w]
      BY <1>2, <2>2
    <3>2. loading[w] # "waiting" => \A p \in Parents(w) : state'[p] \in {"Done", "Error"}
      BY <1>1, <3>1, ParentsAreVars DEF Loads
    <3>3. Loaded(w) => Loaded(w)'
      BY <1>4, <3>1 DEF Loaded
    <3>4. \A i \in JobIds : i[1] = w /\ Running(i) => Running(i)'
      BY <2>2 DEF Running
    <3> QED
      BY <3>1, <3>2, <3>3, <3>4 DEF Loads
  <2> QED
    BY <2>1, <2>2
<1>6. ASSUME NEW i \in JobIds, Running(i)' PROVE LoadJob(i)'
  <2>1. CASE i = j
    BY <1>6, <2>1
  <2>2. CASE i # j
    <3>1. Running(i)
      BY <1>6, <2>2 DEF Running
    <3>2. LoadJob(i) /\ i[1] # j[1] /\ i[1] \in Vars
      BY <1>1, <1>2, <2>2, <3>1, JobIdsArePairs
    <3>3. \A k \in JobIds : k[1] = i[1] /\ Running(k)' => Running(k)
      BY <3>2 DEF Running
    <3>4. jobs[i].phase # "datasource" => Question(i[1])' = Question(i[1])
      BY <1>4, <3>2 DEF LoadJob
    <3> QED
      BY <2>2, <3>2, <3>3, <3>4 DEF LoadJob
  <2> QED
    BY <2>1, <2>2
<1> QED
  BY <1>2, <1>3, <1>5, <1>6 DEF FetchInv

LEMMA QueueRequestKeepsFetch ==
  ASSUME BaseInv, FetchInv, status = "Fetching", NEW j \in JobIds, QueueRequest(j)
  PROVE  FetchInv'
<1> DEFINE u == j[1]
<1>1. jobs[j].phase = "datasource" /\ Running(j) /\ Quiet
  BY DEF QueueRequest, Running
<1>2. /\ LoadJob(j) /\ u \in Vars /\ Loads(u) /\ u \notin Parents(u)
      /\ \A i \in JobIds \ {j} : Running(i) => i[1] # u
  BY <1>1, JobThatLoads
<1>3. Cancelled(j) = {}
  BY <1>2 DEF Cancelled, Running
<1>4. Others(j) = JobIds \ {j}
  BY <1>3 DEF Others
<1>5. \A i \in JobIds \ {j} : /\ jobs'[i].phase = jobs[i].phase /\ jobs'[i].parent = jobs[i].parent
                              /\ jobs[i].phase = "query" => jobs'[i].with = jobs[i].with
  BY <1>3, <1>4, QueueRequestEffect
<1>6. jobs'[j].phase = "query" /\ jobs'[j].parent = jobs[j].parent /\ jobs'[j].with = Question(u)
  BY QueueRequestEffect
<1>7. UNCHANGED <<status, state, current, asked, loading, changes, time>>
  BY DEF QueueRequest
<1>8. ASSUME NEW p \in Parents(u) PROVE loading[p] = "done"
  <2>1. p \in Vars /\ state[p] \in {"Done", "Error"} /\ Loads(p)
    BY <1>2, ParentsAreVars DEF Loads, LoadJob, FetchInv
  <2>2. loading[p] # "waiting"
    BY <2>1 DEF Loads
  <2>3. ASSUME loading[p] = "options" PROVE FALSE
    <3>1. PICK i \in JobIds : Running(i) /\ jobs[i].parent = <<"load", p>>
      BY <1>1, <2>1, <2>3 DEF Quiet, Awaited, Children
    <3>2. LoadJob(i)
      BY <3>1 DEF FetchInv
    <3>3. i[1] = p /\ state[p] = "Loading"
      BY <3>1, <3>2 DEF LoadJob
    <3> QED
      BY <2>1, <3>3
  <2> QED
    BY <2>1, <2>2, <2>3 DEF BaseInv, Types
<1>9. Question(u)' = Question(u)
  BY <1>7 DEF Question
<1>10. LoadJob(j)'
  <2>1. \A i \in JobIds : i[1] = u /\ Running(i)' => i = j
    BY <1>2, <1>5 DEF Running
  <2> QED
    BY <1>2, <1>6, <1>7, <1>8, <1>9, <2>1 DEF LoadJob
<1>11. Loads(u)'
  <2>1. Running(j)'
    BY <1>6 DEF Running
  <2> QED
    BY <1>2, <1>7, <2>1 DEF Loads, LoadJob
<1> QED
  BY <1>1, <1>5, <1>7, <1>10, <1>11, OthersStillLoad

LEMMA AnswerKeepsFetch ==
  ASSUME BaseInv, FetchInv, status = "Fetching", NEW j \in JobIds, Answer(j)
  PROVE  FetchInv'
<1> DEFINE u == j[1]
<1>1. /\ jobs[j].phase = "query" /\ Running(j) /\ state' = state
      /\ asked'[u] = jobs[j].with /\ \A w \in Vars \ {u} : asked'[w] = asked[w] /\ current'[w] = current[w]
  BY AnswerEffect DEF Running
<1>2. /\ LoadJob(j) /\ u \in Vars /\ Loads(u) /\ u \notin Parents(u)
      /\ \A i \in JobIds \ {j} : Running(i) => i[1] # u
  BY <1>1, JobThatLoads
<1>3. PICK new : Answered(j, {}, new)
  BY AnswerEffect
<1>4. new = {}
  BY <1>3 DEF Answered
<1>5. /\ \A i \in JobIds \ {j} : jobs'[i] = jobs[i]
      /\ jobs'[j].phase = "selection" /\ jobs'[j].parent = jobs[j].parent
  BY <1>3, <1>4 DEF Answered
<1>6. UNCHANGED <<status, loading, changes, time>>
  BY DEF Answer
<1>7. Question(u)' = Question(u)
  BY <1>1, <1>2, <1>6, ParentsAreVars, SameQuestion
<1>8. LoadJob(j)'
  <2>1. \A i \in JobIds : i[1] = u /\ Running(i)' => i = j
    BY <1>2, <1>5 DEF Running
  <2> QED
    BY <1>1, <1>2, <1>5, <1>6, <1>7, <2>1 DEF LoadJob
<1>9. Loads(u)'
  <2>1. Running(j)'
    BY <1>5 DEF Running
  <2> QED
    BY <1>1, <1>2, <1>6, <2>1 DEF Loads, LoadJob
<1> QED
  BY <1>1, <1>5, <1>6, <1>8, <1>9, OthersStillLoad

LEMMA SettleJobKeepsFetch ==
  ASSUME BaseInv, FetchInv, status = "Fetching", NEW j \in JobIds, SettleJob(j)
  PROVE  FetchInv'
<1> DEFINE u == j[1]
<1>1. /\ jobs[j].phase = "selection" /\ Running(j) /\ jobs'[j] = Free
      /\ \A i \in JobIds \ {j} : jobs'[i] = jobs[i]
      /\ state'[u] = "Done" /\ \A w \in Vars \ {u} : state'[w] = state[w]
  BY SettleJobEffect DEF Running
<1>2. LoadJob(j) /\ u \in Vars /\ Loads(u) /\ u \notin Parents(u)
  BY <1>1, JobThatLoads
<1>3. UNCHANGED <<status, loading, changes, time, asked, current>>
  BY DEF SettleJob
<1>4. Question(u)' = Question(u)
  BY <1>3, SameQuestion
<1>5. Loads(u)'
  <2>1. \A p \in Parents(u) : state'[p] \in {"Done", "Error"}
    BY <1>1, <1>2, ParentsAreVars DEF Loads, LoadJob
  <2>2. Loaded(u)'
    BY <1>1, <1>2, <1>3, <1>4 DEF Loaded, LoadJob
  <2> QED
    BY <1>1, <1>2, <1>3, <2>1, <2>2 DEF Loads, LoadJob
<1>6. ~ Running(j)'
  BY <1>1, FreeIsJob DEF Running
<1> QED
  BY <1>1, <1>3, <1>5, <1>6, OthersStillLoad

LEMMA FailKeepsFetch ==
  ASSUME BaseInv, FetchInv, status = "Fetching", NEW j \in JobIds, Fail(j)
  PROVE  FetchInv'
<1> DEFINE u == j[1]
<1>1. /\ jobs[j].phase \in {"datasource", "query"} /\ jobs'[j] = Free
      /\ state'[u] = "Error" /\ \A w \in Vars \ {u} : state'[w] = state[w]
      /\ changes' # changes => jobs[j].parent[1] = "change"
  BY FailEffect
<1>2. \A i \in JobIds \ {j} :
         /\ jobs'[i].phase = jobs[i].phase
         /\ jobs[i].phase = "query" => jobs'[i].with = jobs[i].with
         /\ jobs'[i].parent # jobs[i].parent => jobs[j].parent[1] = "change"
  BY FailEffect
<1>3. Running(j)
  BY <1>1 DEF Running
<1>4. LoadJob(j) /\ u \in Vars /\ Loads(u) /\ u \notin Parents(u)
  BY <1>3, JobThatLoads
<1>5. jobs[j].parent[1] # "change"
  BY <1>4, SomeParents DEF LoadJob
<1>6. UNCHANGED <<status, loading, time, asked, current>>
  BY DEF Fail
<1>7. Loads(u)'
  <2>1. \A p \in Parents(u) : state'[p] \in {"Done", "Error"}
    BY <1>1, <1>4, ParentsAreVars DEF Loads, LoadJob
  <2> QED
    BY <1>1, <1>4, <1>6, <2>1 DEF Loads, LoadJob
<1>8. ~ Running(j)'
  BY <1>1, FreeIsJob DEF Running
<1>9. changes' = changes /\ \A i \in JobIds \ {j} : jobs'[i].parent = jobs[i].parent
  BY <1>1, <1>2, <1>5
<1> QED
  BY <1>1, <1>2, <1>3, <1>6, <1>7, <1>8, <1>9, OthersStillLoad

LEMMA ProcessedKeepsFetch ==
  ASSUME BaseInv, FetchInv, status = "Fetching", NEW v \in Vars, Processed(v)
  PROVE  Types' /\ FetchInv'
<1>1. /\ loading[v] = "options" /\ Awaited(<<"load", v>>)
      /\ loading' = [loading EXCEPT ![v] = "done"]
      /\ UNCHANGED <<status, state, asked, jobs, changes, time, cut, loose>>
  BY DEF Processed
<1>2. DOMAIN current' = Vars /\ \A w \in Vars \ {v} : current'[w] = current[w]
  BY DEF Processed, BaseInv, Types
<1>3. /\ \A k \in ChangeIds : changes[k].kind = "none"
      /\ Ordered
      /\ \A w \in Vars : Loads(w)
      /\ \A i \in JobIds : Running(i) => LoadJob(i)
  BY DEF FetchInv
<1>4. loading'[v] = "done" /\ \A w \in Vars \ {v} : loading'[w] = loading[w]
  BY <1>1 DEF BaseInv, Types
<1>5. state[v] # "Loading"
  <2> SUFFICES ASSUME state[v] = "Loading" PROVE FALSE
    OBVIOUS
  <2>1. PICK j \in JobIds : j[1] = v /\ Running(j)
    BY <1>3 DEF Loads
  <2>2. jobs[j].parent = <<"load", v>>
    BY <1>3, <2>1 DEF LoadJob
  <2> QED
    BY <1>1, <2>1, <2>2 DEF Awaited, Children
<1>6. ASSUME NEW w \in Vars, \A p \in Parents(w) : loading[p] = "done"
      PROVE  Question(w)' = Question(w) /\ \A p \in Parents(w) : loading'[p] = "done"
  <2>1. \A p \in Parents(w) : p \in Vars \ {v}
    BY <1>1, <1>6, ParentsAreVars
  <2> QED
    BY <1>1, <1>2, <1>4, <1>6, <2>1, SameQuestion
<1>7. \A w \in Vars : Loaded(w) => Loaded(w)'
  BY <1>1, <1>6 DEF Loaded
<1>8. \A w \in Vars : Loads(w)'
  BY <1>1, <1>3, <1>4, <1>5, <1>7 DEF Loads, Running
<1>9. ASSUME NEW i \in JobIds, Running(i)' PROVE LoadJob(i)'
  <2>1. LoadJob(i) /\ i[1] \in Vars
    BY <1>1, <1>3, <1>9, JobIdsArePairs DEF Running
  <2>2. i[1] # v
    BY <1>5, <2>1 DEF LoadJob
  <2>3. jobs[i].phase # "datasource" =>
          Question(i[1])' = Question(i[1]) /\ \A p \in Parents(i[1]) : loading'[p] = "done"
    BY <1>6, <2>1 DEF LoadJob
  <2> QED
    BY <1>1, <1>4, <2>1, <2>2, <2>3 DEF LoadJob, Running
<1>10. Ordered'
  <2>1. \A w \in Vars : loading'[w] = "waiting" <=> loading[w] = "waiting"
    BY <1>1, <1>4
  <2>2. \A w \in Vars : \A p \in Parents(w) : p \in Vars
    BY ParentsAreVars
  <2> QED
    BY <1>3, <2>1, <2>2 DEF Ordered
<1>11. Types'
  BY <1>1, <1>2 DEF BaseInv, Types
<1> QED
  BY <1>1, <1>3, <1>8, <1>9, <1>10, <1>11 DEF FetchInv

-----------------------------------------------------------------------------
(* The options, once the dashboard is open                                 *)

Asking(j) == jobs[j].phase \in {"datasource", "query"}

\* A job will bring v the options of now: one that has yet to ask, or has asked
\* just that, or one of a variable that v depends on.
Coming(v) ==
  \E i \in JobIds :
    \/ i[1] = v /\ (jobs[i].phase = "datasource" \/ (jobs[i].phase = "query" /\ jobs[i].with = Question(v)))
    \/ Asking(i) /\ Reach(i[1], v)

\* Or it has them, and no answer to an older question is on its way.
UpToDate(v) ==
  asked[v] = Question(v) /\ \A i \in JobIds : i[1] = v => jobs[i].phase # "query"

\* Or its last update failed, and no other is under way.
Broken(v) == state[v] = "Error" /\ \A i \in JobIds : i[1] = v => ~ Running(i)

OptionsInv ==
  \A v \in Vars : Refresh[v] # "never" => Broken(v) \/ CutOff(v) \/ Coming(v) \/ UpToDate(v)

\* The cascade of a variable gets to all that depends on it.
LEMMA CascadeComes ==
  ASSUME Acyclic, NEW u \in Vars, NEW v, Reach(u, v),
         \A d \in Cascade(u) : \E i \in JobIds : i[1] = d /\ jobs'[i].phase = "datasource"
  PROVE  Coming(v)'
<1>1. PICK d \in Cascade(u) : d = v \/ Reach(d, v)
  BY CascadeReaches
<1>2. PICK i \in JobIds : i[1] = d /\ jobs'[i].phase = "datasource"
  BY <1>1
<1> QED
  BY <1>1, <1>2 DEF Coming, Asking

LEMMA SameValues ==
  ASSUME NEW u, NEW v, ~ Reach(u, v), \A w \in Vars \ {u} : current'[w] = current[w], time' = time
  PROVE  Question(v)' = Question(v)
<1>1. v \notin Vars \/ u \notin Parents(v)
  BY ReachOne DEF Parents, Dependents
<1>2. \A p \in Parents(v) : v \in Vars => p \in Vars /\ v \in Dependents(p)
  BY DEF Parents, Dependents
<1>3. u \notin Parents(v) \/ Parents(v) = {}
  BY <1>1, VariablesAssumption DEF Parents
<1>4. \A p \in Parents(v) : current'[p] = current[p]
  BY <1>3, ParentsAreVars
<1> QED
  BY <1>4, SameQuestion

\* Jobs that begin: nothing that comes is lost.
LEMMA BegunJobs ==
  ASSUME BaseInv, NEW k \in ChangeIds, NEW vs, NEW new, Begins(k, vs, new)
  PROVE  /\ \A v \in vs : \E i \in JobIds : i[1] = v /\ jobs'[i].phase = "datasource"
         /\ \A i \in new : /\ i \in JobIds /\ i[1] \in vs /\ jobs[i].phase = "free"
                           /\ jobs'[i].phase = "datasource" /\ jobs'[i].parent = <<"change", k>>
         /\ \A i \in JobIds \ new : jobs'[i] = jobs[i]
<1>1. Starts(jobs, vs, <<"change", k>>, new, jobs') /\ <<"change", k>> \in ParentIds
  BY SomeParents DEF Begins
<1>2. \A i \in new : /\ i \in JobIds /\ i[1] \in vs /\ jobs[i].phase = "free"
                     /\ jobs'[i].phase = "datasource" /\ jobs'[i].parent = <<"change", k>>
  BY <1>1, BeganIsJob, LookupsIsNat DEF Starts
<1> QED
  BY <1>1, <1>2 DEF Starts

LEMMA BeginsKeepsOptions ==
  ASSUME BaseInv, Acyclic, OptionsInv, NEW k \in ChangeIds, NEW vs, NEW new, Begins(k, vs, new)
  PROVE  OptionsInv'
<1>1. /\ \A v \in vs : \E i \in JobIds : i[1] = v /\ jobs'[i].phase = "datasource"
      /\ \A i \in new : i \in JobIds /\ i[1] \in vs /\ jobs[i].phase = "free" /\ jobs'[i].phase = "datasource"
      /\ \A i \in JobIds \ new : jobs'[i] = jobs[i]
  BY BegunJobs
<1> SUFFICES ASSUME NEW v \in Vars, Broken(v) \/ CutOff(v) \/ Coming(v) \/ UpToDate(v)
             PROVE  Broken(v)' \/ CutOff(v)' \/ Coming(v)' \/ UpToDate(v)'
  BY DEF OptionsInv
<1>2. UNCHANGED cut
  BY DEF Begins
<1>3. CASE v \in vs
  BY <1>1, <1>3 DEF Coming
<1>4. CASE \E u \in Vars : Reach(u, v) /\ current'[u] # current[u]
  <2>1. PICK u \in Vars : Reach(u, v) /\ vs = Cascade(u)
    BY <1>4 DEF Begins
  <2>2. Coming(v)'
    BY <1>1, <2>1, CascadeComes
  <2> QED
    BY <2>2
<1>5. CASE v \notin vs /\ \A u \in Vars : Reach(u, v) => current'[u] = current[u]
  <2>1. \A p \in Parents(v) : p \in Vars /\ v \in Dependents(p)
    BY DEF Parents, Dependents
  <2>2. \A p \in Parents(v) : current'[p] = current[p]
    BY <1>5, <2>1, ReachOne
  <2>3. Question(v)' = Question(v)
    BY <1>5, <2>2, SameQuestion DEF Begins
  <2>4. asked'[v] = asked[v] /\ state'[v] = state[v]
    BY <1>5 DEF Begins
  <2>5. Coming(v) => Coming(v)'
    <3> SUFFICES ASSUME Coming(v) PROVE Coming(v)'
      OBVIOUS
    <3>1. PICK i \in JobIds :
            \/ i[1] = v /\ (jobs[i].phase = "datasource" \/ (jobs[i].phase = "query" /\ jobs[i].with = Question(v)))
            \/ Asking(i) /\ Reach(i[1], v)
      BY DEF Coming
    <3>2. jobs'[i] = jobs[i]
      BY <1>1, <3>1 DEF Asking
    <3> QED
      BY <2>3, <3>1, <3>2 DEF Coming, Asking
  <2>6. UpToDate(v) => UpToDate(v)'
    BY <1>1, <2>3, <2>4 DEF UpToDate
  <2>7. Broken(v) => Broken(v)'
    BY <1>1, <1>5, <2>4 DEF Broken, Running
  <2>8. CutOff(v) => CutOff(v)'
    BY <1>2 DEF CutOff
  <2> QED
    BY <2>5, <2>6, <2>7, <2>8
<1> QED
  BY <1>3, <1>4, <1>5

LEMMA AnswerKeepsOptions ==
  ASSUME BaseInv, Acyclic, OptionsInv, status = "Completed", NEW j \in JobIds, Answer(j)
  PROVE  OptionsInv'
<1> DEFINE u == j[1]
<1>1. /\ jobs[j].phase = "query" /\ u \in Vars
      /\ \A w \in Cascade(u) : state'[w] = "Loading"
      /\ \A w \in Vars \ Cascade(u) : state'[w] = state[w]
      /\ asked'[u] = jobs[j].with /\ \A w \in Vars \ {u} : asked'[w] = asked[w] /\ current'[w] = current[w]
  BY AnswerEffect, JobIdsArePairs
<1>2. time' = time /\ Running(j)
  BY <1>1 DEF Answer, Running
<1>3. PICK new : Answered(j, Cascade(u), new)
  BY AnswerEffect
<1>4. /\ \A i \in new : i \in JobIds /\ i[1] \in Cascade(u) /\ jobs[i].phase = "free" /\ jobs'[i].phase = "datasource"
      /\ \A w \in Cascade(u) : \E i \in new : i[1] = w
      /\ jobs'[j].phase = "selection"
      /\ \A i \in JobIds : i \in new \/ i = j \/ jobs'[i] = jobs[i]
  BY <1>3, BeganIsJob, LookupsIsNat, SomeParents DEF Answered
<1>5. \A w \in Cascade(u) : \E i \in JobIds : i[1] = w /\ jobs'[i].phase = "datasource"
  BY <1>4
<1>6. ~ Broken(u) /\ ~ Reach(u, u) /\ \A w \in Cascade(u) : Reach(u, w)
  <2>1. ~ Reach(u, u)
    <3>1. PICK f : IsOrder(f)
      BY DEF Acyclic
    <3>2. f[u] \in Nat
      BY <1>1, <3>1 DEF IsOrder
    <3> QED
      BY <1>1, <3>1, <3>2, ReachIsLater
  <2> QED
    BY <1>1, <1>2, <2>1, ReachOne, CascadeOfDependents DEF Broken
<1>7. ASSUME NEW v \in Vars, ~ Reach(u, v), NEW i \in JobIds, i # j,
             \/ i[1] = v /\ (jobs[i].phase = "datasource" \/ (jobs[i].phase = "query" /\ jobs[i].with = Question(v)))
             \/ Asking(i) /\ Reach(i[1], v)
      PROVE  Coming(v)'
  <2>1. jobs'[i] = jobs[i]
    BY <1>4, <1>7 DEF Asking
  <2>2. Question(v)' = Question(v)
    BY <1>1, <1>2, <1>7, SameValues
  <2> QED
    BY <1>7, <2>1, <2>2 DEF Coming, Asking
<1> SUFFICES ASSUME NEW v \in Vars, Broken(v) \/ CutOff(v) \/ Coming(v) \/ UpToDate(v)
             PROVE  Broken(v)' \/ CutOff(v)' \/ Coming(v)' \/ UpToDate(v)'
  BY DEF OptionsInv
<1>8. cut' = IF jobs[j].with = Question(u) THEN cut \ {u} ELSE cut
  BY DEF Answer
<1>9. CASE Reach(u, v)
  <2>1. Coming(v)'
    BY <1>1, <1>5, <1>9, CascadeComes
  <2> QED
    BY <2>1
<1>10. CASE v = u
  <2>1. Question(v)' = Question(v)
    BY <1>1, <1>2, <1>6, <1>10, SameValues
  <2>2. ~ UpToDate(v)
    BY <1>1, <1>10 DEF UpToDate
  <2>3. CASE jobs[j].with = Question(v)
    <3>1. \A i \in JobIds : i[1] = v => jobs'[i].phase # "query"
      BY <1>1, <1>4, <1>10 DEF BaseInv, OneQuery
    <3>2. UpToDate(v)'
      BY <1>1, <1>10, <2>1, <2>3, <3>1 DEF UpToDate
    <3> QED
      BY <3>2
  <2>4. CASE jobs[j].with # Question(v) /\ Coming(v)
    <3>1. PICK i \in JobIds :
            \/ i[1] = v /\ (jobs[i].phase = "datasource" \/ (jobs[i].phase = "query" /\ jobs[i].with = Question(v)))
            \/ Asking(i) /\ Reach(i[1], v)
      BY <2>4 DEF Coming
    <3>2. i # j
      BY <1>1, <1>6, <1>10, <2>4, <3>1
    <3> QED
      BY <1>6, <1>7, <1>10, <3>1, <3>2
  <2>5. CASE jobs[j].with # Question(v) /\ CutOff(v)
    BY <1>8, <1>10, <2>5 DEF CutOff
  <2> QED
    BY <1>6, <1>10, <2>2, <2>3, <2>4, <2>5
<1>11. CASE v # u /\ ~ Reach(u, v)
  <2>1. Question(v)' = Question(v) /\ asked'[v] = asked[v] /\ state'[v] = state[v]
    BY <1>1, <1>2, <1>6, <1>11, SameValues
  <2>2. Coming(v) => Coming(v)'
    <3> SUFFICES ASSUME Coming(v) PROVE Coming(v)'
      OBVIOUS
    <3>1. PICK i \in JobIds :
            \/ i[1] = v /\ (jobs[i].phase = "datasource" \/ (jobs[i].phase = "query" /\ jobs[i].with = Question(v)))
            \/ Asking(i) /\ Reach(i[1], v)
      BY DEF Coming
    <3>2. i # j
      BY <1>11, <3>1
    <3> QED
      BY <1>7, <1>11, <3>1, <3>2
  <2>3. UpToDate(v) => UpToDate(v)'
    BY <1>4, <2>1 DEF UpToDate
  <2>4. CutOff(v) => CutOff(v)'
    BY <1>8, <1>11 DEF CutOff
  <2>5. Broken(v) => Broken(v)'
    BY <1>4, <1>6, <1>11, <2>1 DEF Broken, Running
  <2> QED
    BY <2>2, <2>3, <2>4, <2>5
<1> QED
  BY <1>9, <1>10, <1>11

LEMMA QueueRequestKeepsOptions ==
  ASSUME BaseInv, OptionsInv, NEW j \in JobIds, QueueRequest(j)
  PROVE  OptionsInv'
<1> DEFINE u == j[1]
<1>1. /\ jobs[j].phase = "datasource" /\ jobs'[j].phase = "query" /\ jobs'[j].with = Question(u)
      /\ u \in Vars
  BY QueueRequestEffect, JobIdsArePairs
<1>2. \A i \in Others(j) : /\ jobs'[i].phase = jobs[i].phase
                           /\ jobs[i].phase = "query" => jobs'[i].with = jobs[i].with
  BY QueueRequestEffect
<1>3. \A i \in JobIds : i = j \/ i \in Cancelled(j) \/ i \in Others(j)
  BY DEF Others
<1>4. \A i \in Cancelled(j) : i[1] = u
  BY DEF Cancelled
<1>5. UNCHANGED <<state, current, asked, time, cut>>
  BY DEF QueueRequest
<1>6. \A v : Question(v)' = Question(v)
  BY <1>5 DEF Question
<1> SUFFICES ASSUME NEW v \in Vars, Broken(v) \/ CutOff(v) \/ Coming(v) \/ UpToDate(v)
             PROVE  Broken(v)' \/ CutOff(v)' \/ Coming(v)' \/ UpToDate(v)'
  BY DEF OptionsInv
<1>7. CASE v = u
  BY <1>1, <1>6, <1>7 DEF Coming
<1>8. CASE v # u
  <2>1. Coming(v) => Coming(v)'
    <3> SUFFICES ASSUME Coming(v) PROVE Coming(v)'
      OBVIOUS
    <3>1. PICK i \in JobIds :
            \/ i[1] = v /\ (jobs[i].phase = "datasource" \/ (jobs[i].phase = "query" /\ jobs[i].with = Question(v)))
            \/ Asking(i) /\ Reach(i[1], v)
      BY DEF Coming
    <3>2. CASE i[1] = u
      <4>1. Reach(u, v) /\ Asking(j)'
        BY <1>1, <1>8, <3>1, <3>2 DEF Asking
      <4> QED
        BY <4>1 DEF Coming
    <3>3. CASE i[1] # u
      <4>1. i \in Others(j)
        BY <1>3, <1>4, <3>3
      <4> QED
        BY <1>2, <1>6, <3>1, <4>1 DEF Coming, Asking
    <3> QED
      BY <3>2, <3>3
  <2>2. \A i \in JobIds : i[1] = v => i \in Others(j) /\ jobs'[i].phase = jobs[i].phase
    BY <1>2, <1>3, <1>4, <1>8
  <2>3. UpToDate(v) => UpToDate(v)'
    BY <1>5, <1>6, <2>2 DEF UpToDate
  <2>4. Broken(v) => Broken(v)'
    BY <1>5, <2>2 DEF Broken, Running
  <2>5. CutOff(v) => CutOff(v)'
    BY <1>5 DEF CutOff
  <2> QED
    BY <2>1, <2>3, <2>4, <2>5
<1> QED
  BY <1>7, <1>8

LEMMA SettleJobKeepsOptions ==
  ASSUME BaseInv, OptionsInv, NEW j \in JobIds, SettleJob(j)
  PROVE  OptionsInv'
<1> DEFINE u == j[1]
<1>1. /\ jobs[j].phase = "selection" /\ jobs'[j] = Free
      /\ \A i \in JobIds \ {j} : jobs'[i] = jobs[i]
      /\ state'[u] = "Done" /\ \A v \in Vars \ {u} : state'[v] = state[v]
      /\ u \in Vars
  BY SettleJobEffect, JobIdsArePairs
<1>2. UNCHANGED <<current, asked, time, cut>>
  BY DEF SettleJob
<1>3. \A v : Question(v)' = Question(v)
  BY <1>2 DEF Question
<1>4. jobs'[j].phase = "free" /\ ~ Broken(u)
  BY <1>1, FreeIsJob DEF Broken, Running
<1> SUFFICES ASSUME NEW v \in Vars, Broken(v) \/ CutOff(v) \/ Coming(v) \/ UpToDate(v)
             PROVE  Broken(v)' \/ CutOff(v)' \/ Coming(v)' \/ UpToDate(v)'
  BY DEF OptionsInv
<1>5. Coming(v) => Coming(v)'
  <2> SUFFICES ASSUME Coming(v) PROVE Coming(v)'
    OBVIOUS
  <2>1. PICK i \in JobIds :
          \/ i[1] = v /\ (jobs[i].phase = "datasource" \/ (jobs[i].phase = "query" /\ jobs[i].with = Question(v)))
          \/ Asking(i) /\ Reach(i[1], v)
    BY DEF Coming
  <2>2. jobs'[i] = jobs[i]
    BY <1>1, <2>1 DEF Asking
  <2> QED
    BY <1>3, <2>1, <2>2 DEF Coming, Asking
<1>6. UpToDate(v) => UpToDate(v)'
  BY <1>1, <1>2, <1>3, <1>4 DEF UpToDate
<1>7. Broken(v) => Broken(v)'
  BY <1>1, <1>4 DEF Broken, Running
<1>8. CutOff(v) => CutOff(v)'
  BY <1>2 DEF CutOff
<1> QED
  BY <1>5, <1>6, <1>7, <1>8

\* An update that fails is no longer to come; its variable is cut off, and
\* with it those that depend on it.
LEMMA FailKeepsOptions ==
  ASSUME BaseInv, OptionsInv, status = "Completed", NEW j \in JobIds, Fail(j)
  PROVE  OptionsInv'
<1> DEFINE u == j[1]
<1>1. /\ jobs'[j].phase = "free" /\ Running(j) /\ u \in cut'
      /\ cut \subseteq cut'
      /\ \A i \in JobIds \ {j} : /\ jobs'[i].phase = jobs[i].phase
                                 /\ jobs[i].phase = "query" => jobs'[i].with = jobs[i].with
      /\ \A v \in Vars \ {u} : state'[v] = state[v]
  BY FailEffect, FreeIsJob DEF Running
<1>2. UNCHANGED <<current, asked, time>>
  BY DEF Fail
<1>3. \A v : Question(v)' = Question(v)
  BY <1>2 DEF Question
<1> SUFFICES ASSUME NEW v \in Vars, Broken(v) \/ CutOff(v) \/ Coming(v) \/ UpToDate(v)
             PROVE  Broken(v)' \/ CutOff(v)' \/ Coming(v)' \/ UpToDate(v)'
  BY DEF OptionsInv
<1>4. Coming(v) => Coming(v)' \/ CutOff(v)'
  <2> SUFFICES ASSUME Coming(v) PROVE Coming(v)' \/ CutOff(v)'
    OBVIOUS
  <2>1. PICK i \in JobIds :
          \/ i[1] = v /\ (jobs[i].phase = "datasource" \/ (jobs[i].phase = "query" /\ jobs[i].with = Question(v)))
          \/ Asking(i) /\ Reach(i[1], v)
    BY DEF Coming
  <2>2. CASE i = j
    BY <1>1, <2>1, <2>2 DEF CutOff
  <2>3. CASE i # j
    BY <1>1, <1>3, <2>1, <2>3 DEF Coming, Asking
  <2> QED
    BY <2>2, <2>3
<1>5. UpToDate(v) => UpToDate(v)'
  BY <1>1, <1>2, <1>3 DEF UpToDate
<1>6. Broken(v) => Broken(v)'
  BY <1>1 DEF Broken, Running
<1>7. CutOff(v) => CutOff(v)'
  BY <1>1 DEF CutOff
<1> QED
  BY <1>4, <1>5, <1>6, <1>7

\* So is one that the user cancels.
LEMMA CancelKeepsOptions ==
  ASSUME BaseInv, OptionsInv, NEW u \in Vars, Cancel(u)
  PROVE  OptionsInv'
<1>1. /\ \A i \in Hit(u) : jobs'[i].phase = "selection" /\ i[1] = u /\ Running(i) /\ i \in JobIds
      /\ \E i \in Hit(u) : TRUE
      /\ \A i \in JobIds \ Hit(u) : /\ jobs'[i].phase = jobs[i].phase
                                    /\ jobs[i].phase = "query" => jobs'[i].with = jobs[i].with
  BY CancelEffect DEF Hit, Running
<1>2. /\ UNCHANGED <<state, current, asked, time>> /\ cut \subseteq cut'
      /\ (\E i \in Hit(u) : jobs[i].phase = "query") => u \in cut'
  BY DEF Cancel, Hit
<1>3. \A v : Question(v)' = Question(v)
  BY <1>2 DEF Question
<1> SUFFICES ASSUME NEW v \in Vars, Broken(v) \/ CutOff(v) \/ Coming(v) \/ UpToDate(v)
             PROVE  Broken(v)' \/ CutOff(v)' \/ Coming(v)' \/ UpToDate(v)'
  BY DEF OptionsInv
<1>4. Coming(v) => Coming(v)' \/ CutOff(v)'
  <2> SUFFICES ASSUME Coming(v) PROVE Coming(v)' \/ CutOff(v)'
    OBVIOUS
  <2>1. PICK i \in JobIds :
          \/ i[1] = v /\ (jobs[i].phase = "datasource" \/ (jobs[i].phase = "query" /\ jobs[i].with = Question(v)))
          \/ Asking(i) /\ Reach(i[1], v)
    BY DEF Coming
  <2>2. CASE i \in Hit(u)
    <3>1. jobs[i].phase = "query" /\ i[1] = u
      BY <2>1, <2>2 DEF Hit, Asking
    <3>2. u \in cut' /\ (u = v \/ Reach(u, v))
      BY <1>2, <2>1, <2>2, <3>1
    <3> QED
      BY <3>2 DEF CutOff
  <2>3. CASE i \notin Hit(u)
    BY <1>1, <1>3, <2>1, <2>3 DEF Coming, Asking
  <2> QED
    BY <2>2, <2>3
<1>5. UpToDate(v) => UpToDate(v)'
  BY <1>1, <1>2, <1>3 DEF UpToDate
<1>6. Broken(v) => Broken(v)'
  <2>1. Broken(v) => v # u
    BY <1>1 DEF Broken
  <2> QED
    BY <1>1, <1>2, <2>1 DEF Broken, Running, Hit
<1>7. CutOff(v) => CutOff(v)'
  BY <1>2 DEF CutOff
<1> QED
  BY <1>4, <1>5, <1>6, <1>7

-----------------------------------------------------------------------------
(* The panels                                                              *)

\* A job that can still change something: it asks, or waits for one it started.
Live(i) ==
  Asking(i) \/ (jobs[i].phase = "selection" /\ \E c \in JobIds : jobs[c].parent = <<"job", i>>)

\* A job of the same variable is to ask after i.
Overtaken(i) ==
  \E l \in JobIds : /\ l[1] = i[1] /\ jobs[l].phase = "datasource"
                    /\ jobs[i].phase = "datasource" => jobs[l].ahead > jobs[i].ahead

\* Or one of a variable that the one of i depends on will have it asked again.
Renewed(i) == \E l \in JobIds : Asking(l) /\ Reach(l[1], i[1])

Covered(i) ==
  \/ jobs[i].parent[1] = "change" /\ Pending(jobs[i].parent[2])
  \/ jobs[i].parent[1] = "job"
  \/ Overtaken(i) \/ Renewed(i)

PanelsInv ==
  /\ \A i \in JobIds : Live(i) => Covered(i)
  /\ panels = Snapshot \/ \E k \in ChangeIds : Pending(k)

\* Whoever covers a live job is live: somewhere there is a change.
LEMMA AChangeWaits ==
  ASSUME BaseInv, Acyclic, \A i \in JobIds : Live(i) => Covered(i),
         NEW i0 \in JobIds, Live(i0)
  PROVE  \E k \in ChangeIds : Pending(k)
<1> SUFFICES ASSUME \A k \in ChangeIds : ~ Pending(k)
             PROVE  FALSE
  OBVIOUS
<1>1. PICK f : IsOrder(f)
  BY DEF Acyclic
<1> DEFINE L == {i[1] : i \in {l \in JobIds : Live(l)}}
<1>2. L \in SUBSET Vars /\ L # {}
  BY JobIdsArePairs
<1>3. PICK u \in L : \A w \in L : f[u] <= f[w]
  <2> HIDE DEF L
  <2> QED
    BY <1>1, <1>2, FirstInOrder DEF IsOrder
<1>4. \A l \in JobIds : Live(l) => l[1] \in L /\ l[1] \in Vars /\ ~ Reach(l[1], u)
  <2> SUFFICES ASSUME NEW l \in JobIds, Live(l), Reach(l[1], u) PROVE FALSE
    BY JobIdsArePairs
  <2>1. l[1] \in L /\ l[1] \in Vars
    BY JobIdsArePairs
  <2>2. f[l[1]] < f[u] /\ f[l[1]] \in Nat /\ f[u] \in Nat
    BY <1>1, <1>2, <1>3, <2>1, ReachIsLater DEF IsOrder
  <2>3. f[u] <= f[l[1]]
    BY <1>3, <2>1
  <2> QED
    BY <2>2, <2>3
<1>5. ASSUME NEW i \in JobIds, Live(i), i[1] = u PROVE Overtaken(i)
  <2>1. ~ Renewed(i)
    BY <1>4, <1>5 DEF Renewed, Live
  <2>2. ASSUME jobs[i].parent[1] = "job" PROVE FALSE
    <3> DEFINE l == jobs[i].parent[2]
    <3>1. /\ l \in JobIds /\ jobs[l].phase = "selection" /\ u \in Dependents(l[1])
          /\ jobs[i].parent = <<"job", l>>
      BY <1>5, <2>2, KindsOfParents DEF BaseInv, ParentsRun, AreJobs, IsJob
    <3>2. Live(l) /\ Reach(l[1], u)
      BY <3>1, ReachOne DEF Live
    <3> QED
      BY <1>4, <3>1, <3>2
  <2>3. ASSUME jobs[i].parent[1] = "change" PROVE jobs[i].parent[2] \in ChangeIds
    BY <2>3, KindsOfParents DEF BaseInv, AreJobs, IsJob
  <2> QED
    BY <1>5, <2>1, <2>2, <2>3 DEF Covered
<1> DEFINE D == Waiting(jobs, u)
           Rest == {Lookups(jobs, u) - jobs[i].ahead : i \in D}
<1>6. \A i \in D : /\ i \in JobIds /\ i[1] = u /\ jobs[i].phase = "datasource"
                   /\ jobs[i].ahead \in Nat /\ jobs[i].ahead < Lookups(jobs, u)
  BY <1>2, PhasesOfJobs DEF Waiting, BaseInv, AreJobs, InTurn
<1>7. Lookups(jobs, u) \in Nat
  BY LookupsIsNat
<1>8. D # {}
  <2>1. PICK i \in JobIds : Live(i) /\ i[1] = u
    BY <1>3
  <2> QED
    BY <1>5, <2>1 DEF Overtaken, Waiting
<1> HIDE DEF D
<1>9. Rest \in SUBSET Nat /\ Rest # {}
  BY <1>6, <1>7, <1>8
<1>10. PICK n \in Rest : \A m \in Rest : n <= m
  <2> HIDE DEF Rest
  <2> QED
    BY <1>9, LeastOfNaturals
<1>11. PICK i \in D : n = Lookups(jobs, u) - jobs[i].ahead
  BY <1>10
<1>12. Overtaken(i)
  BY <1>5, <1>6 DEF Live, Asking
<1>13. PICK l \in D : jobs[l].ahead > jobs[i].ahead
  BY <1>6, <1>12 DEF Overtaken, Waiting, D
<1>14. n <= Lookups(jobs, u) - jobs[l].ahead
  BY <1>10, <1>13
<1> QED
  BY <1>6, <1>7, <1>11, <1>13, <1>14

LEMMA BeginsKeepsPanels ==
  ASSUME BaseInv, PanelsInv, NEW k \in ChangeIds, NEW vs, NEW new, Begins(k, vs, new)
  PROVE  PanelsInv'
<1>1. /\ \A i \in new : /\ i \in JobIds /\ jobs[i].phase = "free"
                        /\ jobs'[i].phase = "datasource" /\ jobs'[i].parent = <<"change", k>>
      /\ \A i \in JobIds \ new : jobs'[i] = jobs[i]
  BY BegunJobs
<1>2. Pending(k)' /\ \A i \in ChangeIds : Pending(i) => Pending(i)'
  BY DEF Begins, Pending
<1>3. ASSUME NEW i \in JobIds, Live(i)' PROVE Covered(i)'
  <2>1. CASE i \in new
    BY <1>1, <1>2, <2>1, SomeParents DEF Covered
  <2>2. CASE i \notin new
    <3>1. jobs'[i] = jobs[i]
      BY <1>1, <2>2
    <3>2. \A c \in JobIds : jobs'[c].parent = <<"job", i>> => jobs[c].parent = <<"job", i>>
      BY <1>1, SomeParents
    <3>3. Live(i)
      BY <1>3, <3>1, <3>2 DEF Live, Asking
    <3>4. Covered(i)
      BY <3>3 DEF PanelsInv
    <3>5. \A l \in JobIds : Asking(l) => jobs'[l] = jobs[l]
      BY <1>1 DEF Asking
    <3>6. Overtaken(i) => Overtaken(i)'
      BY <3>1, <3>5 DEF Overtaken, Asking
    <3>7. Renewed(i) => Renewed(i)'
      BY <3>5 DEF Renewed, Asking
    <3>8. jobs[i].parent[1] = "change" => jobs[i].parent[2] \in ChangeIds
      BY KindsOfParents DEF BaseInv, AreJobs, IsJob
    <3> QED
      BY <1>2, <3>1, <3>4, <3>6, <3>7, <3>8 DEF Covered
  <2> QED
    BY <2>1, <2>2
<1> QED
  BY <1>2, <1>3 DEF PanelsInv

LEMMA AnswerKeepsPanels ==
  ASSUME BaseInv, Acyclic, PanelsInv, status = "Completed", NEW j \in JobIds, Answer(j)
  PROVE  PanelsInv'
<1> DEFINE u == j[1]
<1>1. jobs[j].phase = "query" /\ u \in Vars /\ AreJobs(jobs) /\ InTurn(jobs)
  BY AnswerEffect, JobIdsArePairs DEF BaseInv
<1>2. PICK new : Answered(j, Cascade(u), new)
  BY AnswerEffect
<1>3. /\ \A i \in new : /\ i \in JobIds /\ i # j /\ jobs[i].phase = "free" /\ jobs'[i].phase = "datasource"
                        /\ jobs'[i].parent = <<"job", j>> /\ jobs'[i].ahead = Lookups(jobs, i[1])
      /\ \A w \in Cascade(u) : \E i \in new : i[1] = w
      /\ jobs'[j].phase = "selection" /\ jobs'[j].parent = jobs[j].parent
      /\ \A i \in JobIds : i \in new \/ i = j \/ jobs'[i] = jobs[i]
  BY <1>2, BeganIsJob, LookupsIsNat, SomeParents DEF Answered
<1>4. changes' = changes /\ panels' = panels
  BY DEF Answer
<1>5. \A k : Pending(k)' = Pending(k)
  BY <1>4 DEF Pending
<1>6. Live(j)
  BY <1>1 DEF Live, Asking
<1>7. \E k \in ChangeIds : Pending(k)'
  BY <1>5, <1>6, AChangeWaits DEF PanelsInv
<1>8. ~ Reach(u, u)
  <2>1. PICK f : IsOrder(f)
    BY DEF Acyclic
  <2>2. f[u] \in Nat
    BY <1>1, <2>1 DEF IsOrder
  <2> QED
    BY <1>1, <2>1, <2>2, ReachIsLater
<1>9. \A l \in JobIds : Asking(l) /\ l # j => jobs'[l] = jobs[l]
  BY <1>3 DEF Asking
<1>10. ASSUME NEW i \in JobIds, i \notin new, Overtaken(i) PROVE Overtaken(i)'
  <2>1. PICK l \in JobIds : /\ l[1] = i[1] /\ jobs[l].phase = "datasource"
                            /\ jobs[i].phase = "datasource" => jobs[l].ahead > jobs[i].ahead
    BY <1>10 DEF Overtaken
  <2>2. jobs'[l] = jobs[l]
    BY <1>1, <1>9, <2>1 DEF Asking
  <2>3. jobs'[i].phase = "datasource" => jobs'[i] = jobs[i]
    BY <1>3, <1>10
  <2> QED
    BY <2>1, <2>2, <2>3 DEF Overtaken
<1>11. ASSUME NEW i \in JobIds, NEW l \in JobIds, Asking(l), Reach(l[1], i[1]), l # j PROVE Renewed(i)'
  BY <1>9, <1>11 DEF Renewed, Asking
<1>12. ASSUME NEW i \in JobIds, i \notin new, i # j, Live(i), Reach(u, i[1])
       PROVE  Overtaken(i)' \/ Renewed(i)'
  <2>1. PICK d \in Cascade(u) : d = i[1] \/ Reach(d, i[1])
    BY <1>1, <1>12, CascadeReaches
  <2>2. PICK l \in new : l[1] = d
    BY <1>3
  <2>3. l \in JobIds /\ jobs'[l].phase = "datasource" /\ jobs'[l].ahead = Lookups(jobs, d)
    BY <1>3, <2>2
  <2>4. CASE d = i[1]
    <3>1. jobs'[i] = jobs[i]
      BY <1>3, <1>12
    <3>2. jobs[i].phase = "datasource" => jobs[i].ahead < Lookups(jobs, d) /\ jobs[i].ahead \in Nat
      <4> SUFFICES ASSUME jobs[i].phase = "datasource"
                   PROVE  jobs[i].ahead < Lookups(jobs, d) /\ jobs[i].ahead \in Nat
        OBVIOUS
      <4>1. i \in Waiting(jobs, d) /\ d \in Vars
        BY <2>4, JobIdsArePairs DEF Waiting
      <4> QED
        BY <1>1, <4>1, PhasesOfJobs DEF InTurn, AreJobs
    <3>3. Lookups(jobs, d) \in Nat
      BY LookupsIsNat
    <3>4. Overtaken(i)'
      BY <2>2, <2>3, <2>4, <3>1, <3>2, <3>3 DEF Overtaken
    <3> QED
      BY <3>4
  <2>5. CASE Reach(d, i[1])
    BY <2>2, <2>3, <2>5 DEF Renewed, Asking
  <2> QED
    BY <2>1, <2>4, <2>5
<1>13. ASSUME NEW i \in JobIds, Live(i)' PROVE Covered(i)'
  <2>1. CASE i \in new
    BY <1>3, <2>1, SomeParents DEF Covered
  <2>2. CASE i = j
    <3>1. Covered(j) /\ j \notin new
      BY <1>3, <1>6 DEF PanelsInv
    <3>2. Renewed(j) => Renewed(j)'
      BY <1>8, <1>11 DEF Renewed
    <3> QED
      BY <1>3, <1>5, <1>10, <2>2, <3>1, <3>2 DEF Covered
  <2>3. CASE i \notin new /\ i # j
    <3>1. jobs'[i] = jobs[i]
      BY <1>3, <2>3
    <3>2. \A c \in JobIds : jobs'[c].parent = <<"job", i>> => jobs[c].parent = <<"job", i>>
      BY <1>3, <2>3, SomeParents
    <3>3. Live(i)
      BY <1>13, <3>1, <3>2 DEF Live, Asking
    <3>4. Covered(i)
      BY <3>3 DEF PanelsInv
    <3>5. Renewed(i) => Overtaken(i)' \/ Renewed(i)'
      BY <1>11, <1>12, <2>3, <3>3 DEF Renewed
    <3> QED
      BY <1>5, <1>10, <2>3, <3>1, <3>4, <3>5 DEF Covered
  <2> QED
    BY <2>1, <2>2, <2>3
<1> QED
  BY <1>7, <1>13 DEF PanelsInv

LEMMA QueueRequestKeepsPanels ==
  ASSUME BaseInv, Acyclic, PanelsInv, NEW j \in JobIds, QueueRequest(j)
  PROVE  PanelsInv'
<1> DEFINE u == j[1]
<1>1. /\ jobs[j].phase = "datasource" /\ jobs[j].ahead = 0 /\ jobs'[j].phase = "query"
      /\ jobs'[j].parent = jobs[j].parent /\ u \in Vars
  BY QueueRequestEffect, JobIdsArePairs
<1>2. \A i \in Others(j) :
        /\ jobs'[i].phase = jobs[i].phase
        /\ jobs'[i].parent = IF jobs[i].parent[1] = "job" /\ jobs[i].parent[2] \in Cancelled(j)
                               THEN Orphan ELSE jobs[i].parent
        /\ jobs[i].phase = "datasource" =>
             jobs'[i].ahead = IF i[1] = u THEN jobs[i].ahead - 1 ELSE jobs[i].ahead
  BY QueueRequestEffect
<1>3. \A i \in Cancelled(j) : /\ i[1] = u /\ i \in JobIds /\ jobs'[i].phase = "selection"
                              /\ jobs'[i].parent = jobs[i].parent
                              /\ jobs[i].phase \in {"query", "selection"}
  BY QueueRequestEffect DEF Cancelled
<1>4. \A i \in JobIds : i = j \/ i \in Cancelled(j) \/ i \in Others(j)
  BY DEF Others
<1>5. UNCHANGED <<changes, panels, current, time>>
  BY DEF QueueRequest
<1>6. /\ \A k : Pending(k)' = Pending(k)
      /\ panels' = Snapshot' <=> panels = Snapshot
  BY <1>5 DEF Pending, Snapshot
<1>7. \A i \in JobIds : /\ IsJob(jobs[i])
                        /\ jobs[i].phase = "datasource" => jobs[i].ahead \in Nat
                        /\ jobs[i].parent[1] = "job" => /\ jobs[i].parent = <<"job", jobs[i].parent[2]>>
                                                       /\ i[1] \in Dependents(jobs[i].parent[2][1])
  BY PhasesOfJobs, KindsOfParents DEF BaseInv, AreJobs, IsJob, ParentsRun
<1>8. Asking(j)'
  BY <1>1 DEF Asking
<1>9. ASSUME NEW i \in JobIds, Renewed(i) PROVE Renewed(i)'
  <2>1. PICK l \in JobIds : Asking(l) /\ Reach(l[1], i[1])
    BY <1>9 DEF Renewed
  <2>2. CASE l = j \/ l \in Cancelled(j)
    BY <1>3, <1>8, <2>1, <2>2 DEF Renewed
  <2>3. CASE l \in Others(j)
    BY <1>2, <2>1, <2>3 DEF Renewed, Asking
  <2> QED
    BY <1>4, <2>2, <2>3
<1>10. ASSUME NEW i \in JobIds, Overtaken(i), i \in Others(j) => Live(i), i \notin Cancelled(j)
       PROVE  Overtaken(i)'
  <2>1. PICK l \in JobIds : /\ l[1] = i[1] /\ jobs[l].phase = "datasource"
                            /\ jobs[i].phase = "datasource" => jobs[l].ahead > jobs[i].ahead
    BY <1>10 DEF Overtaken
  <2>2. l # j
    <3> SUFFICES ASSUME l = j PROVE FALSE
      OBVIOUS
    <3>1. i[1] = u /\ jobs[i].phase # "datasource"
      BY <1>1, <1>7, <2>1
    <3>2. i \in Others(j) /\ Live(i)
      BY <1>1, <1>4, <1>10, <3>1
    <3> QED
      BY <1>10, <3>1, <3>2 DEF Live, Asking, Cancelled, Others
  <2>3. l \in Others(j)
    BY <1>3, <1>4, <2>1, <2>2
  <2>4. /\ jobs'[l].phase = "datasource"
        /\ jobs'[l].ahead = IF l[1] = u THEN jobs[l].ahead - 1 ELSE jobs[l].ahead
    BY <1>2, <2>1, <2>3
  <2>5. jobs'[i].phase = "datasource" => jobs'[l].ahead > jobs'[i].ahead
    <3> SUFFICES ASSUME jobs'[i].phase = "datasource" PROVE jobs'[l].ahead > jobs'[i].ahead
      OBVIOUS
    <3>1. i \in Others(j) /\ jobs[i].phase = "datasource"
      BY <1>1, <1>2, <1>3, <1>4
    <3>2. jobs'[i].ahead = IF i[1] = u THEN jobs[i].ahead - 1 ELSE jobs[i].ahead
      BY <1>2, <3>1
    <3>3. jobs[i].ahead \in Nat /\ jobs[l].ahead \in Nat /\ jobs[l].ahead > jobs[i].ahead
      BY <1>7, <2>1, <3>1
    <3> QED
      BY <2>1, <2>4, <3>2, <3>3
  <2> QED
    BY <2>1, <2>4, <2>5 DEF Overtaken
<1>11. ASSUME NEW i \in Cancelled(j), NEW c \in JobIds PROVE jobs'[c].parent # <<"job", i>>
  <2> SUFFICES ASSUME jobs'[c].parent = <<"job", i>> PROVE FALSE
    OBVIOUS
  <2>1. jobs[c].parent = <<"job", i>> /\ c \notin Others(j)
    BY <1>1, <1>2, <1>3, <1>4, SomeParents
  <2>2. c[1] = u
    BY <1>3, <1>4, <2>1
  <2> QED
    BY <1>3, <2>1, <2>2, NotUnderOneself, SomeParents
<1>12. ASSUME NEW i \in JobIds, Live(i)' PROVE Covered(i)'
  <2>1. CASE i \in Cancelled(j)
    BY <1>3, <1>11, <1>12, <2>1 DEF Live, Asking
  <2>2. CASE i = j
    <3>1. Live(j) /\ j \notin Cancelled(j) /\ j \notin Others(j)
      BY <1>1 DEF Live, Asking, Cancelled, Others
    <3>2. Covered(j)
      BY <3>1 DEF PanelsInv
    <3> QED
      BY <1>1, <1>6, <1>9, <1>10, <2>2, <3>1, <3>2 DEF Covered
  <2>3. CASE i \in Others(j)
    <3>1. \A c \in JobIds : jobs'[c].parent = <<"job", i>> => jobs[c].parent = <<"job", i>>
      BY <1>1, <1>2, <1>3, <1>4, SomeParents
    <3>2. Live(i) /\ i \notin Cancelled(j)
      BY <1>2, <1>12, <2>3, <3>1 DEF Live, Asking, Others
    <3>3. Covered(i)
      BY <3>2 DEF PanelsInv
    <3>4. CASE jobs[i].parent[1] = "job" /\ jobs[i].parent[2] \in Cancelled(j)
      <4>1. i[1] \in Dependents(u)
        BY <1>3, <1>7, <3>4
      <4>2. Renewed(i)'
        BY <1>8, <4>1, ReachOne DEF Renewed
      <4> QED
        BY <4>2 DEF Covered
    <3>5. CASE ~ (jobs[i].parent[1] = "job" /\ jobs[i].parent[2] \in Cancelled(j))
      <4>1. jobs'[i].parent = jobs[i].parent
        BY <1>2, <2>3, <3>5
      <4> QED
        BY <1>6, <1>9, <1>10, <3>2, <3>3, <4>1 DEF Covered
    <3> QED
      BY <3>4, <3>5
  <2> QED
    BY <1>4, <2>1, <2>2, <2>3
<1> QED
  BY <1>6, <1>12 DEF PanelsInv

LEMMA SettleJobKeepsPanels ==
  ASSUME BaseInv, PanelsInv, NEW j \in JobIds, SettleJob(j)
  PROVE  PanelsInv'
<1>1. /\ jobs[j].phase = "selection" /\ jobs'[j] = Free
      /\ \A i \in JobIds \ {j} : jobs'[i] = jobs[i]
  BY SettleJobEffect
<1>2. UNCHANGED <<changes, panels, current, time>>
  BY DEF SettleJob
<1>3. /\ \A k : Pending(k)' = Pending(k)
      /\ panels' = Snapshot' <=> panels = Snapshot
  BY <1>2 DEF Pending, Snapshot
<1>4. \A l \in JobIds : Asking(l) => jobs'[l] = jobs[l]
  BY <1>1 DEF Asking
<1>5. jobs'[j].phase = "free" /\ jobs'[j].parent = Orphan
  BY <1>1, FreeIsJob
<1>6. ASSUME NEW i \in JobIds, Live(i)' PROVE Covered(i)'
  <2>1. i # j /\ jobs'[i] = jobs[i]
    BY <1>1, <1>5, <1>6 DEF Live, Asking
  <2>2. \A c \in JobIds : jobs'[c].parent = <<"job", i>> => jobs[c].parent = <<"job", i>>
    BY <1>1, <1>5, SomeParents
  <2>3. Covered(i)
    BY <1>6, <2>1, <2>2 DEF PanelsInv, Live, Asking
  <2>4. Overtaken(i) => Overtaken(i)'
    BY <1>4, <2>1 DEF Overtaken, Asking
  <2>5. Renewed(i) => Renewed(i)'
    BY <1>4 DEF Renewed, Asking
  <2> QED
    BY <1>3, <2>1, <2>3, <2>4, <2>5 DEF Covered
<1> QED
  BY <1>3, <1>6 DEF PanelsInv

LEMMA ChangeEndKeepsPanels ==
  ASSUME BaseInv, PanelsInv, NEW k \in ChangeIds, SettleChange(k), changes[k].kind # "urlOptions"
  PROVE  PanelsInv'
<1>1. /\ panels' = Snapshot
      /\ \A i \in JobIds : jobs[i].parent # <<"change", k>>
      /\ \A i \in ChangeIds \ {k} : changes'[i] = changes[i]
      /\ UNCHANGED <<current, jobs, time>>
  BY ChangeEnds
<1>2. panels' = Snapshot'
  BY <1>1 DEF Snapshot
<1>3. ASSUME NEW i \in JobIds, Live(i)' PROVE Covered(i)'
  <2>1. Covered(i)
    BY <1>1, <1>3 DEF PanelsInv, Live, Asking
  <2>2. jobs[i].parent[1] = "change" =>
          jobs[i].parent[2] \in ChangeIds /\ jobs[i].parent = <<"change", jobs[i].parent[2]>>
    BY KindsOfParents DEF BaseInv, AreJobs, IsJob
  <2>3. jobs[i].parent[1] = "change" /\ Pending(jobs[i].parent[2]) => Pending(jobs[i].parent[2])'
    BY <1>1, <2>2 DEF Pending
  <2>4. (Overtaken(i) => Overtaken(i)') /\ (Renewed(i) => Renewed(i)')
    BY <1>1 DEF Overtaken, Renewed, Asking
  <2> QED
    BY <1>1, <2>1, <2>3, <2>4 DEF Covered
<1> QED
  BY <1>2, <1>3 DEF PanelsInv

-----------------------------------------------------------------------------
(* All together                                                            *)

\* Once the dashboard is open its dependencies are known to have an order;
\* what holds of the panels holds until an update fails or is cancelled.
OpenInv ==
  status = "Completed" =>
    /\ Acyclic
    /\ \A v \in Vars : loading[v] = "done"
    /\ OptionsInv
    /\ ~ loose => PanelsInv

IInv == BaseInv /\ FetchInv /\ OpenInv

LEMMA SameJobsKeepBase ==
  ASSUME BaseInv, jobs' = jobs, Types'
  PROVE  BaseInv'
<1>1. AreJobs(jobs')
  BY DEF BaseInv
<1>2. InTurn(jobs')
  BY DEF BaseInv
<1>3. ParentsRun'
  BY DEF BaseInv, ParentsRun
<1>4. OneQuery'
  BY DEF BaseInv, OneQuery
<1> QED
  BY <1>1, <1>2, <1>3, <1>4 DEF BaseInv

\* What does not touch variables and jobs keeps what is said of the options.
LEMMA SameOptions ==
  ASSUME OptionsInv, UNCHANGED <<state, current, asked, jobs, time, cut>>
  PROVE  OptionsInv'
<1>1. \A v : Question(v)' = Question(v)
  BY DEF Question
<1>2. \A i \in JobIds : Asking(i)' = Asking(i) /\ Running(i)' = Running(i)
  BY DEF Asking, Running
<1> SUFFICES ASSUME NEW v \in Vars, Broken(v) \/ CutOff(v) \/ Coming(v) \/ UpToDate(v)
             PROVE  Broken(v)' \/ CutOff(v)' \/ Coming(v)' \/ UpToDate(v)'
  BY DEF OptionsInv
<1>3. Coming(v) => Coming(v)'
  BY <1>1, <1>2 DEF Coming
<1>4. UpToDate(v) => UpToDate(v)'
  BY <1>1, <1>2 DEF UpToDate
<1>5. Broken(v) => Broken(v)'
  BY <1>2 DEF Broken
<1>6. CutOff(v) => CutOff(v)'
  BY DEF CutOff
<1> QED
  BY <1>3, <1>4, <1>5, <1>6

LEMMA InitHolds ==
  ASSUME Init
  PROVE  IInv
<1>1. /\ status = "Fetching" /\ state = [v \in Vars |-> "NotStarted"]
      /\ loading = [v \in Vars |-> "waiting"] /\ jobs = [j \in JobIds |-> Free]
      /\ changes = [k \in ChangeIds |-> Unmade] /\ cut = {} /\ loose = FALSE
      /\ DOMAIN current = Vars /\ DOMAIN asked = Vars
  BY DEF Init
<1>2. Types
  BY <1>1 DEF Types, Kinds, Unmade
<1>3. AreJobs(jobs) /\ \A j \in JobIds : jobs[j].phase = "free" /\ jobs[j].parent[1] = "none"
  BY <1>1, FreeIsJob DEF AreJobs
<1>4. BaseInv
  BY <1>2, <1>3 DEF BaseInv, InTurn, Waiting, ParentsRun, OneQuery
<1>5. Ordered
  <2> DEFINE f == [v \in Vars |-> 0]
  <2>1. f \in [Vars -> Nat] /\ 0 \in Nat
    OBVIOUS
  <2>2. \A v \in Vars : loading[v] = "waiting"
    BY <1>1
  <2> HIDE DEF f
  <2> QED
    BY <2>1, <2>2 DEF Ordered
<1>6. FetchInv
  BY <1>1, <1>3, <1>5 DEF FetchInv, Loads, Running, Unmade
<1> QED
  BY <1>1, <1>4, <1>6 DEF IInv, OpenInv

LEMMA ProcessKeeps ==
  ASSUME IInv, NEW v \in Vars, Process(v)
  PROVE  IInv'
<1>1. BaseInv /\ FetchInv /\ status \in {"Fetching", "Completed"}
  BY DEF IInv, BaseInv, Types
<1>2. Types' /\ loading[v] = "waiting" /\ status' = status
  BY <1>1, ProcessEffect
<1>3. status = "Fetching"
  BY <1>1, <1>2 DEF IInv, OpenInv
<1>4. BaseInv'
  <2>1. CASE \E new : Starts(jobs, {v}, <<"load", v>>, new, jobs')
    BY <1>1, <1>2, <2>1, SomeParents, StartsKeepsBase
  <2>2. CASE jobs' = jobs
    BY <1>1, <1>2, <2>2, SameJobsKeepBase
  <2> QED
    BY <1>1, <2>1, <2>2, ProcessEffect
<1> QED
  BY <1>1, <1>2, <1>3, <1>4, ProcessKeepsFetch DEF IInv, OpenInv

LEMMA ProcessedKeeps ==
  ASSUME IInv, NEW v \in Vars, Processed(v)
  PROVE  IInv'
<1>1. BaseInv /\ FetchInv /\ status \in {"Fetching", "Completed"}
  BY DEF IInv, BaseInv, Types
<1>2. loading[v] = "options" /\ status' = status /\ jobs' = jobs
  BY DEF Processed
<1>3. status = "Fetching"
  BY <1>1, <1>2 DEF IInv, OpenInv
<1> QED
  BY <1>1, <1>2, <1>3, ProcessedKeepsFetch, SameJobsKeepBase DEF IInv, OpenInv

\* When all is processed every options list is of now, and so are the panels.
LEMMA CompleteKeeps ==
  ASSUME IInv, Complete
  PROVE  IInv'
<1>1. /\ BaseInv /\ FetchInv /\ status = "Fetching" /\ status' = "Completed"
      /\ \A v \in Vars : loading[v] = "done"
      /\ panels' = Snapshot
      /\ UNCHANGED <<state, current, asked, loading, jobs, changes, time, cut, loose>>
  BY DEF IInv, Complete
<1>2. /\ Ordered /\ \A v \in Vars : Loads(v)
      /\ \A j \in JobIds : ~ Running(j)
  BY <1>1, JobIdsArePairs DEF FetchInv, LoadJob
<1>3. Acyclic
  BY <1>1, <1>2 DEF Ordered, Acyclic, IsOrder
<1>4. BaseInv'
  BY <1>1, SameJobsKeepBase DEF BaseInv, Types
<1>5. \A v : Question(v)' = Question(v)
  BY <1>1 DEF Question
<1>6. OptionsInv'
  <2> SUFFICES ASSUME NEW v \in Vars, Refresh[v] # "never"
               PROVE  Broken(v)' \/ UpToDate(v)'
    BY DEF OptionsInv
  <2>1. state[v] \in {"Done", "Error"}
    <3>1. state[v] \in {"NotStarted", "Loading", "Done", "Error"}
      BY <1>1 DEF BaseInv, Types
    <3>2. loading[v] = "done" /\ Loads(v)
      BY <1>1, <1>2
    <3> QED
      BY <3>1, <3>2 DEF Loads
  <2>2. Refresh[v] # "never" /\ state[v] = "Done" => asked[v] = Question(v)
    BY <1>2 DEF Loads, Loaded
  <2>3. \A i \in JobIds : jobs'[i].phase = "free"
    BY <1>1, <1>2 DEF Running
  <2> QED
    BY <1>1, <1>5, <2>1, <2>2, <2>3 DEF UpToDate, Broken, Running
<1>7. PanelsInv'
  <2>1. \A i \in JobIds : ~ Live(i)'
    BY <1>1, <1>2 DEF Live, Asking, Running
  <2>2. panels' = Snapshot'
    BY <1>1 DEF Snapshot
  <2> QED
    BY <2>1, <2>2 DEF PanelsInv
<1> QED
  BY <1>1, <1>3, <1>4, <1>6, <1>7 DEF IInv, FetchInv, OpenInv

LEMMA SettleJobKeeps ==
  ASSUME IInv, NEW j \in JobIds, SettleJob(j)
  PROVE  IInv'
<1>1. BaseInv /\ FetchInv /\ status' = status /\ loading' = loading /\ UNCHANGED <<cut, loose>>
  BY DEF IInv, SettleJob
<1>2. FetchInv'
  BY <1>1, SettleJobKeepsFetch DEF FetchInv
<1> QED
  BY <1>1, <1>2, SettleJobKeepsBase, SettleJobKeepsOptions, SettleJobKeepsPanels DEF IInv, OpenInv

LEMMA ChangeBeginsKeeps ==
  ASSUME IInv, NEW k \in ChangeIds,
         ChangeMade(k) \/ (SettleChange(k) /\ changes[k].kind = "urlOptions")
  PROVE  IInv'
<1>1. BaseInv /\ FetchInv /\ status \in {"Fetching", "Completed"}
  BY DEF IInv, BaseInv, Types
<1>2. status = "Completed"
  <2>1. CASE ChangeMade(k)
    BY <2>1 DEF ChangeMade, ChangeTime, SetValue, ChangeUrl, MayChange
  <2>2. CASE SettleChange(k) /\ changes[k].kind = "urlOptions"
    BY <1>1, <2>2 DEF FetchInv
  <2> QED
    BY <2>1, <2>2
<1>3. PICK vs, new : Types' /\ Begins(k, vs, new)
  BY <1>1, ChangeBegins
<1>4. /\ vs \in SUBSET Vars /\ Starts(jobs, vs, <<"change", k>>, new, jobs')
      /\ UNCHANGED <<status, loading, cut, loose>>
  BY <1>3 DEF Begins
<1>5. BaseInv'
  BY <1>1, <1>3, <1>4, SomeParents, StartsKeepsBase
<1>6. OptionsInv /\ Acyclic => OptionsInv'
  BY <1>1, <1>3, BeginsKeepsOptions
<1>7. PanelsInv => PanelsInv'
  BY <1>1, <1>3, BeginsKeepsPanels
<1> QED
  BY <1>2, <1>4, <1>5, <1>6, <1>7 DEF IInv, FetchInv, OpenInv

LEMMA ChangeEndKeeps ==
  ASSUME IInv, NEW k \in ChangeIds, SettleChange(k), changes[k].kind # "urlOptions"
  PROVE  IInv'
<1>1. BaseInv /\ FetchInv /\ status \in {"Fetching", "Completed"}
  BY DEF IInv, BaseInv, Types
<1>2. /\ Types' /\ Pending(k)
      /\ loose' = (loose /\ \E j \in JobIds : Running(j)) /\ panels' = Snapshot
      /\ UNCHANGED <<status, state, current, asked, loading, jobs, time, cut>>
  BY <1>1, ChangeEnds
<1>3. status = "Completed"
  BY <1>1, <1>2 DEF FetchInv, Pending
<1>4. BaseInv'
  BY <1>1, <1>2, SameJobsKeepBase
<1>5. OptionsInv => OptionsInv'
  BY <1>2, SameOptions
<1>6. PanelsInv => PanelsInv'
  BY <1>1, ChangeEndKeepsPanels
<1>7. (\A j \in JobIds : ~ Running(j)) => PanelsInv'
  <2> SUFFICES ASSUME \A j \in JobIds : ~ Running(j) PROVE PanelsInv'
    OBVIOUS
  <2>1. \A i \in JobIds : ~ Live(i)'
    BY <1>2 DEF Live, Asking, Running
  <2>2. panels' = Snapshot'
    BY <1>2 DEF Snapshot
  <2> QED
    BY <2>1, <2>2 DEF PanelsInv
<1>8. loose \in BOOLEAN
  BY <1>1 DEF BaseInv, Types
<1>9. ~ loose' => PanelsInv'
  BY <1>2, <1>3, <1>6, <1>7, <1>8 DEF IInv, OpenInv
<1> QED
  BY <1>2, <1>3, <1>4, <1>5, <1>9 DEF IInv, FetchInv, OpenInv

LEMMA WorkKeeps ==
  ASSUME IInv, NEW j \in JobIds, QueueRequest(j) \/ Answer(j) \/ Fail(j)
  PROVE  IInv'
<1>1. BaseInv /\ FetchInv /\ status \in {"Fetching", "Completed"} /\ loose \in BOOLEAN
  BY DEF IInv, BaseInv, Types
<1>2. status' = status /\ loading' = loading
  BY DEF QueueRequest, Answer, Fail
<1>3. BaseInv'
  BY <1>1, QueueRequestKeepsBase, AnswerKeepsBase, FailKeepsBase
<1>4. FetchInv'
  BY <1>1, <1>2, QueueRequestKeepsFetch, AnswerKeepsFetch, FailKeepsFetch DEF FetchInv
<1>5. OpenInv'
  <2>1. CASE status = "Fetching"
    BY <1>2, <2>1 DEF OpenInv
  <2>2. CASE status = "Completed" /\ Fail(j)
    <3>1. loose' /\ Acyclic /\ OptionsInv /\ \A v \in Vars : loading'[v] = "done"
      BY <1>1, <1>2, <2>2, FailEffect DEF IInv, OpenInv
    <3> QED
      BY <1>1, <2>2, <3>1, FailKeepsOptions DEF OpenInv
  <2>3. CASE status = "Completed" /\ (QueueRequest(j) \/ Answer(j))
    <3>1. loose' = loose /\ Acyclic /\ OptionsInv /\ \A v \in Vars : loading'[v] = "done"
      BY <1>2, <2>3 DEF IInv, OpenInv, QueueRequest, Answer
    <3>2. OptionsInv' /\ (PanelsInv => PanelsInv')
      BY <1>1, <2>3, <3>1, QueueRequestKeepsOptions, QueueRequestKeepsPanels,
         AnswerKeepsOptions, AnswerKeepsPanels
    <3> QED
      BY <2>3, <3>1, <3>2 DEF IInv, OpenInv
  <2> QED
    BY <1>1, <2>1, <2>2, <2>3
<1> QED
  BY <1>3, <1>4, <1>5 DEF IInv

LEMMA CancelKeeps ==
  ASSUME IInv, NEW v \in Vars, Cancel(v)
  PROVE  IInv'
<1>1. /\ BaseInv /\ status = "Completed" /\ status' = "Completed" /\ loading' = loading
      /\ loose' = TRUE /\ OptionsInv /\ Acyclic /\ \A w \in Vars : loading[w] = "done"
  BY DEF IInv, OpenInv, Cancel
<1>2. BaseInv' /\ OptionsInv'
  BY <1>1, CancelKeepsBase, CancelKeepsOptions
<1> QED
  BY <1>1, <1>2 DEF IInv, FetchInv, OpenInv

LEMMA StutterKeeps ==
  ASSUME IInv, UNCHANGED vars
  PROVE  IInv'
<1>1. UNCHANGED <<status, state, current, asked, loading, jobs, changes, time, panels, cut, loose>>
  BY DEF vars
<1>2. BaseInv'
  BY <1>1, SameJobsKeepBase DEF IInv, BaseInv, Types
<1>3. FetchInv'
  BY <1>1 DEF IInv, FetchInv, Ordered, Loads, Loaded, LoadJob, Question, Running
<1>4. OptionsInv => OptionsInv'
  BY <1>1, SameOptions
<1>5. PanelsInv => PanelsInv'
  BY <1>1 DEF PanelsInv, Live, Covered, Overtaken, Renewed, Asking, Pending, Snapshot
<1> QED
  BY <1>1, <1>2, <1>3, <1>4, <1>5 DEF IInv, OpenInv

LEMMA IInvHolds == Spec => []IInv
<1>1. Init => IInv
  BY InitHolds
<1>2. IInv /\ [Next]_vars => IInv'
  <2> SUFFICES ASSUME IInv, [Next]_vars PROVE IInv'
    OBVIOUS
  <2>1. ASSUME NEW v \in Vars, Process(v) \/ Processed(v) PROVE IInv'
    BY <2>1, ProcessKeeps, ProcessedKeeps
  <2>2. CASE Complete
    BY <2>2, CompleteKeeps
  <2>3. ASSUME NEW j \in JobIds, SettleJob(j) PROVE IInv'
    BY <2>3, SettleJobKeeps
  <2>4. ASSUME NEW k \in ChangeIds, SettleChange(k) \/ ChangeMade(k) PROVE IInv'
    BY <2>4, ChangeBeginsKeeps, ChangeEndKeeps
  <2>5. CASE Work
    BY <2>5, WorkKeeps DEF Work
  <2>6. CASE UNCHANGED vars \/ Done
    BY <2>6, StutterKeeps DEF Done
  <2>7. ASSUME NEW v \in Vars, Cancel(v) PROVE IInv'
    BY <2>7, CancelKeeps
  <2> QED
    BY <2>1, <2>2, <2>3, <2>4, <2>5, <2>6, <2>7 DEF Next, Settle, ChangeMade
<1> QED
  BY <1>1, <1>2, PTL DEF Spec

\* At rest no job is left to bring other options: those that are there are of
\* now, whatever was changed meanwhile and in whatever order it came, also
\* after failures and cancellations, except in what these cut off.
THEOREM OptionsSettle == Spec => []OptionsAreCurrent
<1>1. IInv => OptionsAreCurrent
  <2> SUFFICES ASSUME IInv, AtRest, NEW v \in Vars, Refresh[v] # "never", state[v] = "Done", ~ CutOff(v)
               PROVE  asked[v] = Question(v)
    BY DEF OptionsAreCurrent
  <2>1. \A i \in JobIds : ~ Asking(i)
    BY DEF AtRest, Running, Asking
  <2>2. Coming(v) \/ UpToDate(v)
    BY DEF AtRest, IInv, OpenInv, OptionsInv, Broken
  <2> QED
    BY <2>1, <2>2 DEF Coming, UpToDate, Asking
<1> QED
  BY <1>1, IInvHolds, PTL

\* At rest no change is pending, so the last one refreshed the panels after
\* all that its updates changed, when none failed or was cancelled meanwhile.
THEOREM PanelsSettle == Spec => []PanelsAreCurrent
<1>1. IInv => PanelsAreCurrent
  <2> SUFFICES ASSUME IInv, AtRest, ~ loose PROVE panels = Snapshot
    BY DEF PanelsAreCurrent
  <2>1. \A k \in ChangeIds : ~ Pending(k)
    BY DEF AtRest, Pending
  <2> QED
    BY <2>1 DEF AtRest, IInv, OpenInv, PanelsInv
<1> QED
  BY <1>1, IInvHolds, PTL

-----------------------------------------------------------------------------
(* What else follows                                                       *)

\* A dashboard of which variables depend on each other in a circle is never
\* opened: each waits for the one before it.
THEOREM OnlyOrderedOpen == Spec => [](status = "Completed" => Acyclic)
  BY IInvHolds, PTL DEF IInv, OpenInv

\* A newer update of a variable cancels the query before it, however many of
\* its updates are under way: there is never a second one whose answer could
\* come late.
THEOREM OneQueryEach == Spec => []OneQuery
  BY IInvHolds, PTL DEF IInv, BaseInv

\* While something can still change the options or the value of a variable,
\* a change is pending that refreshes the panels afterwards, even if whoever
\* awaited just that update has gone on without it, when none failed or was
\* cancelled since the last refresh that no update outlasted.
UpdatesAwaited ==
  status = "Completed" /\ ~ loose => ((\E i \in JobIds : Live(i)) => \E k \in ChangeIds : Pending(k))

\* The cascades of setOptionFromUrl, variableUpdated and onTimeRangeUpdated: each update
\* that has yet to end is followed by a refresh of the panels.
THEOREM UpdatesAreAwaited == Spec => []UpdatesAwaited
<1>1. IInv => UpdatesAwaited
  BY AChangeWaits DEF IInv, OpenInv, PanelsInv, UpdatesAwaited
<1> QED
  BY <1>1, IInvHolds, PTL

\* A data source or a query is awaited, and its answer comes or it fails.
UnderWay ==
  \E j \in JobIds : jobs[j].phase = "query" \/ (jobs[j].phase = "datasource" /\ jobs[j].ahead = 0)

\* No promise waits for another in a circle, or for one that is gone: as long
\* as the dashboard is not open, or a job or a change is not done, there is a
\* promise to settle or an answer to come, whatever failed before.
NotStuck == Acyclic /\ Quiet /\ ~ AtRest => UnderWay

\* The first in its turn has its data source.
LEMMA FirstInTurn ==
  ASSUME BaseInv, NEW j \in JobIds, jobs[j].phase = "datasource"
  PROVE  UnderWay
<1> DEFINE W == Waiting(jobs, j[1])
<1>1. \A i \in W : i \in JobIds /\ jobs[i].phase = "datasource" /\ jobs[i].ahead \in Nat
  BY PhasesOfJobs DEF Waiting, BaseInv, AreJobs
<1>2. j \in W /\ j[1] \in Vars
  BY JobIdsArePairs DEF Waiting
<1>3. \A i \in W : jobs[i].ahead < Cardinality(W)
  BY <1>2, LookupsIsNat DEF BaseInv, InTurn
<1>4. \A i, l \in W : jobs[i].ahead = jobs[l].ahead => i = l
  BY <1>2 DEF BaseInv, InTurn
<1>5. IsFiniteSet(W) /\ Cardinality(W) \in Nat
  BY LookupsIsNat
<1> HIDE DEF W
<1> SUFFICES ASSUME \A i \in W : jobs[i].ahead # 0
             PROVE  FALSE
  BY <1>1 DEF UnderWay
<1>6. Cardinality(W) # 0
  BY <1>2, <1>5, FS_EmptySet
<1> DEFINE n == Cardinality(W)
           turn == [i \in W |-> jobs[i].ahead]
<1>7. turn \in [W -> 1..(n - 1)]
  BY <1>1, <1>3, <1>5
<1>8. n \in Nat /\ n # 0 /\ 1 \in Int /\ n - 1 \in Int
  BY <1>5, <1>6
<1>9. IsFiniteSet(1..(n - 1)) /\ Cardinality(1..(n - 1)) < n
  <2> HIDE DEF n
  <2> DEFINE b == n - 1
  <2>1. b \in Int /\ b < n /\ b - 1 + 1 = b /\ 0 < n
    BY <1>8
  <2> HIDE DEF b
  <2>2. IsFiniteSet(1..b) /\ Cardinality(1..b) = IF 1 > b THEN 0 ELSE b - 1 + 1
    BY <2>1, FS_Interval
  <2>3. IsFiniteSet(1..b) /\ Cardinality(1..b) < n
    BY <2>1, <2>2
  <2> QED
    BY <2>3 DEF b
<1>10. \E i, l \in W : i # l /\ turn[i] = turn[l]
  <2> HIDE DEF turn
  <2> QED
    BY <1>5, <1>7, <1>9, FS_PigeonHole
<1> QED
  BY <1>4, <1>10

\* A job that waits for others has one of a variable further down.
LEMMA SomeoneAsks ==
  ASSUME BaseInv, Acyclic, Quiet, NEW j0 \in JobIds, Running(j0)
  PROVE  UnderWay
<1>1. PICK f : IsOrder(f)
  BY DEF Acyclic
<1> DEFINE Below(v) == {w \in Vars : f[v] < f[w]}
           g == [v \in Vars |-> Cardinality(Below(v))]
           L == {v \in Vars : \E j \in JobIds : Running(j) /\ j[1] = v}
<1>2. \A v \in Vars : IsFiniteSet(Below(v))
  <2> SUFFICES ASSUME NEW v \in Vars PROVE IsFiniteSet(Below(v))
    OBVIOUS
  <2>1. Below(v) \in SUBSET Vars
    OBVIOUS
  <2> QED
    BY <2>1, VariablesAssumption, FS_Subset
<1>3. g \in [Vars -> Nat]
  BY <1>2, FS_CardinalityType
<1>4. L \in SUBSET Vars /\ L # {}
  BY JobIdsArePairs
<1>5. PICK v \in L : \A w \in L : g[v] <= g[w]
  <2> HIDE DEF g, L
  <2> QED
    BY <1>3, <1>4, FirstInOrder
<1>6. PICK j \in JobIds : Running(j) /\ j[1] = v
  OBVIOUS
<1>7. CASE jobs[j].phase \in {"datasource", "query"}
  BY <1>7, FirstInTurn DEF UnderWay
<1>8. CASE jobs[j].phase = "selection"
  <2>1. PICK i \in JobIds : Running(i) /\ jobs[i].parent = <<"job", j>>
    BY <1>8 DEF Quiet, Awaited, Children
  <2>2. i[1] \in Dependents(v) /\ i[1] \in Vars /\ v \in Vars
    BY <1>6, <2>1, JobIdsArePairs DEF BaseInv, ParentsRun
  <2>3. f[v] < f[i[1]] /\ f[v] \in Nat /\ f[i[1]] \in Nat
    BY <1>1, <2>2 DEF IsOrder, Dependents, Parents
  <2>4. Below(i[1]) \subseteq Below(v) /\ i[1] \in Below(v) /\ i[1] \notin Below(i[1])
    <3>1. \A w \in Vars : f[w] \in Nat
      BY <1>1 DEF IsOrder
    <3> QED
      BY <2>2, <2>3, <3>1
  <2>5. Below(i[1]) \in SUBSET Below(v) /\ Below(i[1]) # Below(v)
    BY <2>4
  <2>6. Cardinality(Below(i[1])) < Cardinality(Below(v))
    <3> HIDE DEF Below
    <3> QED
      BY <1>2, <2>2, <2>5, FS_Subset, FS_CardinalityType
  <2>7. g[i[1]] < g[v] /\ g[v] <= g[i[1]] /\ g[v] \in Nat /\ g[i[1]] \in Nat
    BY <1>3, <1>5, <2>1, <2>2, <2>6
  <2> QED
    BY <2>7
<1> QED
  BY <1>6, <1>7, <1>8, PhasesOfJobs DEF Running, BaseInv, AreJobs

\* The promises of initVariablesTransaction, of the cascades and of the data sources: what
\* is left for Opens and ChangesEnd is that a promise settles and an answer comes.
THEOREM NeverStuck == Spec => []NotStuck
<1>1. IInv => NotStuck
  <2> SUFFICES ASSUME IInv, Acyclic, Quiet, ~ AtRest
               PROVE  UnderWay
    BY DEF NotStuck
  <2>1. BaseInv /\ FetchInv
    BY DEF IInv
  <2>2. CASE status = "Fetching"
    <3>1. PICK f : IsOrder(f)
      BY DEF Acyclic
    <3> DEFINE L == {w \in Vars : loading[w] # "done"}
    <3>2. L \in SUBSET Vars /\ L # {}
      BY <2>2 DEF Quiet
    <3>3. PICK v \in L : \A w \in L : f[v] <= f[w]
      BY <3>1, <3>2, FirstInOrder DEF IsOrder
    <3>4. \A p \in Parents(v) : loading[p] = "done"
      BY <3>1, <3>3, ParentsAreVars DEF IsOrder
    <3>5. DependenciesSettled(v)
      BY <2>1, <2>2, <3>4, ParentsAreVars DEF DependenciesSettled, FetchInv, Loads
    <3>6. loading[v] = "options"
      BY <2>1, <3>3, <3>5 DEF Quiet, BaseInv, Types
    <3>7. PICK j \in JobIds : Running(j) /\ jobs[j].parent = <<"load", v>>
      BY <3>3, <3>6 DEF Quiet, Awaited, Children
    <3> QED
      BY <2>1, <3>7, SomeoneAsks
  <2>3. CASE status = "Completed"
    <3>1. PICK j \in JobIds : Running(j)
      <4>1. CASE \A k \in ChangeIds : ~ Pending(k)
        BY <2>1, <2>3, <4>1 DEF AtRest, Pending, BaseInv, Types, Kinds
      <4>2. ASSUME NEW k \in ChangeIds, Pending(k) PROVE \E j \in JobIds : Running(j)
        BY <4>2 DEF Pending, Quiet, Awaited, Children
      <4> QED
        BY <4>1, <4>2
    <3> QED
      BY <2>1, <3>1, SomeoneAsks
  <2> QED
    BY <2>1, <2>2, <2>3 DEF BaseInv, Types
<1> QED
  BY <1>1, IInvHolds, PTL

=============================================================================
