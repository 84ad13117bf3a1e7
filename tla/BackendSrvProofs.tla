-------------------------- MODULE BackendSrvProofs --------------------------
(***************************************************************************)
(* Theorems about BackendSrv, for every number of requests, every sharing  *)
(* of requestIds and every limit: no wake-up of the worker is lost, nobody *)
(* waits for nothing, everyone gets one answer and answers come to an end. *)
(* While no caller waits for several requests, no more requests for data   *)
(* are in progress than may be, no place stays with a request that is gone *)
(* and the worker comes to rest.                                           *)
(***************************************************************************)
EXTENDS BackendSrv, FiniteSetTheorems, SequenceTheorems, TLAPS

-----------------------------------------------------------------------------
(* Choosing the entries of a sequence                                      *)

\* The ranks of the members of a finite set of positions are the numbers up
\* to its size, each taken once.
LEMMA Ranks ==
  ASSUME NEW m \in Nat, NEW ks \in SUBSET (1..m)
  PROVE  /\ Cardinality(ks) \in Nat
         /\ \A n \in 1..Cardinality(ks) :
              \E k \in ks : Cardinality({j \in ks : j <= k}) = n
         /\ \A k \in ks : Cardinality({j \in ks : j <= k}) \in 1..Cardinality(ks)
         /\ \A k, l \in ks : Cardinality({j \in ks : j <= k}) = Cardinality({j \in ks : j <= l}) => k = l
<1> DEFINE upto(k) == {j \in ks : j <= k}
           rank == [k \in ks |-> Cardinality(upto(k))]
           N == Cardinality(ks)
<1>1. IsFiniteSet(ks) /\ N \in Nat
  <2>1. IsFiniteSet(1..m)
    <3>1. 1 \in Int /\ m \in Int
      OBVIOUS
    <3> QED
      BY <3>1, FS_Interval
  <2>2. IsFiniteSet(ks)
    BY <2>1, FS_Subset
  <2> QED
    BY <2>2, FS_CardinalityType
<1>2. ASSUME NEW k \in ks
      PROVE  IsFiniteSet(upto(k)) /\ Cardinality(upto(k)) \in 1..N
  <2>1. upto(k) \in SUBSET ks /\ upto(k) # {}
    OBVIOUS
  <2> HIDE DEF upto
  <2>2. IsFiniteSet(upto(k)) /\ Cardinality(upto(k)) <= N
    BY <1>1, <2>1, FS_Subset
  <2>3. Cardinality(upto(k)) \in Nat /\ Cardinality(upto(k)) # 0
    BY <2>1, <2>2, FS_EmptySet, FS_CardinalityType
  <2> QED
    BY <2>2, <2>3, <1>1
<1>3. ASSUME NEW k \in ks, NEW l \in ks, k < l
      PROVE  Cardinality(upto(k)) # Cardinality(upto(l))
  <2>0. IsFiniteSet(upto(l)) /\ upto(l) \subseteq ks /\ k \in Nat /\ l \in Nat
    BY <1>2
  <2>1. upto(k) \in SUBSET upto(l) /\ upto(k) # upto(l)
    <3>1. l \in upto(l) /\ l \notin upto(k)
      BY <1>3
    <3>2. ASSUME NEW j \in upto(k) PROVE j \in upto(l)
      <4>1. j \in ks /\ j <= k /\ j \in 1..m /\ k \in 1..m /\ l \in 1..m
        OBVIOUS
      <4>2. j <= l
        BY <4>1, <1>3
      <4> QED
        BY <4>1, <4>2
    <3> QED
      BY <3>1, <3>2
  <2> QED
    BY <2>0, <2>1, FS_Subset
<1>4. \A k, l \in ks : Cardinality(upto(k)) = Cardinality(upto(l)) => k = l
  <2> SUFFICES ASSUME NEW k \in ks, NEW l \in ks, k # l
               PROVE  Cardinality(upto(k)) # Cardinality(upto(l))
    OBVIOUS
  <2> HIDE DEF upto
  <2>1. k < l \/ l < k
    OBVIOUS
  <2> QED
    BY <2>1, <1>3
<1>5. rank \in Injection(ks, 1..N)
  <2>1. rank \in [ks -> 1..N]
    BY <1>2
  <2>2. IsInjective(rank)
    BY <1>4 DEF IsInjective
  <2> QED
    BY <2>1, <2>2 DEF Injection
<1>6. rank \in Surjection(ks, 1..N)
  <2>1. IsFiniteSet(1..N) /\ Cardinality(1..N) = N
    BY <1>1, FS_Interval
  <2> HIDE DEF rank
  <2> QED
    BY <1>5, <2>1, FS_Injection
<1>7. \A n \in 1..N : \E k \in ks : Cardinality(upto(k)) = n
  BY <1>6 DEF Surjection
<1> QED
  BY <1>1, <1>2, <1>4, <1>7

\* What Among chooses: each entry of s that is in S, once.
LEMMA AmongIs ==
  ASSUME NEW T, NEW s \in Seq(T), NEW S
  PROVE  /\ Among(s, S) \in Seq(T)
         /\ \A n \in DOMAIN Among(s, S) : Among(s, S)[n] \in S /\ \E k \in DOMAIN s : Among(s, S)[n] = s[k]
         /\ \A k \in DOMAIN s : s[k] \in S => \E n \in DOMAIN Among(s, S) : Among(s, S)[n] = s[k]
         /\ IsInjective(s) => IsInjective(Among(s, S))
         /\ Len(Among(s, S)) = Cardinality({k \in DOMAIN s : s[k] \in S})
<1> DEFINE ks == {k \in DOMAIN s : s[k] \in S}
           N == Cardinality(ks)
           a == Among(s, S)
<1>1. DOMAIN s = 1..Len(s) /\ Len(s) \in Nat /\ ks \in SUBSET (1..Len(s))
  BY LenProperties
<1>2. /\ N \in Nat
      /\ \A n \in 1..N : \E k \in ks : Cardinality({j \in ks : j <= k}) = n
      /\ \A k \in ks : Cardinality({j \in ks : j <= k}) \in 1..N
      /\ \A k, l \in ks : Cardinality({j \in ks : j <= k}) = Cardinality({j \in ks : j <= l}) => k = l
  <2> HIDE DEF ks
  <2> QED
    BY <1>1, Ranks
<1>3. a = [n \in 1..N |-> s[Nth(ks, n)]]
  BY DEF Among
<1>4. \A n \in 1..N : Nth(ks, n) \in ks /\ Cardinality({j \in ks : j <= Nth(ks, n)}) = n
  <2> HIDE DEF ks
  <2> SUFFICES ASSUME NEW n \in 1..N
               PROVE  Nth(ks, n) \in ks /\ Cardinality({j \in ks : j <= Nth(ks, n)}) = n
    OBVIOUS
  <2> QED
    BY <1>2 DEF Nth
<1>5. \A k \in ks : \E n \in 1..N : Nth(ks, n) = k
  <2> SUFFICES ASSUME NEW k \in ks PROVE \E n \in 1..N : Nth(ks, n) = k
    OBVIOUS
  <2> HIDE DEF ks
  <2> DEFINE r == Cardinality({j \in ks : j <= k})
  <2>1. r \in 1..N
    BY <1>2
  <2>2. Nth(ks, r) \in ks /\ Cardinality({j \in ks : j <= Nth(ks, r)}) = r
    BY <2>1, <1>4
  <2>3. Nth(ks, r) = k
    BY <2>2, <1>2
  <2> QED
    BY <2>1, <2>3
<1>6. \A m, n \in 1..N : Nth(ks, m) = Nth(ks, n) => m = n
  <2> HIDE DEF ks
  <2> SUFFICES ASSUME NEW m \in 1..N, NEW n \in 1..N, Nth(ks, m) = Nth(ks, n)
               PROVE  m = n
    OBVIOUS
  <2>1. Cardinality({j \in ks : j <= Nth(ks, m)}) = m /\ Cardinality({j \in ks : j <= Nth(ks, n)}) = n
    BY <1>4
  <2> QED
    BY <2>1
<1>7. \A k \in ks : k \in DOMAIN s /\ s[k] \in S /\ s[k] \in T
  BY <1>1, ElementOfSeq
<1>8. DOMAIN a = 1..N /\ \A n \in 1..N : a[n] = s[Nth(ks, n)]
  BY <1>3
<1>9. a \in Seq(T) /\ Len(a) = N
  <2>1. \A n \in 1..N : s[Nth(ks, n)] \in T
    BY <1>4, <1>7
  <2> HIDE DEF ks
  <2>2. [n \in 1..N |-> s[Nth(ks, n)]] \in Seq(T)
    BY <2>1, <1>2, IsASeq
  <2>3. a \in Seq(T)
    BY <2>2, <1>3
  <2>4. DOMAIN a = 1..Len(a) /\ Len(a) \in Nat
    BY <2>3, LenProperties
  <2>5. Len(a) = N
    BY <2>4, <1>8, <1>2
  <2> QED
    BY <2>3, <2>5
<1>10. \A n \in 1..N : a[n] \in S /\ \E k \in DOMAIN s : a[n] = s[k]
  BY <1>4, <1>7, <1>8
<1>11. \A k \in DOMAIN s : s[k] \in S => \E n \in 1..N : a[n] = s[k]
  <2> SUFFICES ASSUME NEW k \in DOMAIN s, s[k] \in S PROVE \E n \in 1..N : a[n] = s[k]
    OBVIOUS
  <2>1. k \in ks
    OBVIOUS
  <2>2. PICK n \in 1..N : Nth(ks, n) = k
    BY <2>1, <1>5
  <2> QED
    BY <2>2, <1>8
<1>12. IsInjective(s) => IsInjective(a)
  <2> SUFFICES ASSUME IsInjective(s), NEW m \in 1..N, NEW n \in 1..N, a[m] = a[n]
               PROVE  m = n
    BY <1>8 DEF IsInjective
  <2>1. s[Nth(ks, m)] = s[Nth(ks, n)] /\ Nth(ks, m) \in DOMAIN s /\ Nth(ks, n) \in DOMAIN s
    BY <1>4, <1>7, <1>8
  <2>2. Nth(ks, m) = Nth(ks, n)
    BY <2>1 DEF IsInjective
  <2> QED
    BY <2>2, <1>6
<1>13. Len(Among(s, S)) = Cardinality({k \in DOMAIN s : s[k] \in S})
  BY <1>9
<1>14. Among(s, S) = a
  OBVIOUS
<1> HIDE DEF a, N
<1> QED
  BY <1>13, <1>14, <1>8, <1>9, <1>10, <1>11, <1>12

-----------------------------------------------------------------------------
(* Well-formedness: what was never fetched is nowhere in the queue or among *)
(* what ends, and the ping of a request is made once.                      *)

QueueOK ==
  /\ pending \in Seq(Ids) /\ IsInjective(pending)
  /\ inProgress \subseteq Ids \ ToSet(pending)
  /\ updates \in Seq(Nat)

Listed ==
  \A i \in Ids : stream[i] = "none" =>
    /\ outcome[i] = "none"
    /\ i \notin ToSet(pending) \cup inProgress \cup ToSet(emitting) \cup superseded \cup dropped

PingsAreNew ==
  \A r \in Retriable :
    stream[Own(r)] \in {"none", "queued", "fetching"} => stream[Ping(r)] = "none"

BaseInv == TypeOK /\ Listed /\ PingsAreNew

\* There are finitely many ids.
LEMMA IdsAreFinite == IsFiniteSet(Ids)
<1> DEFINE own == [r \in Requests |-> Own(r)]
           ping == [r \in Retriable |-> Ping(r)]
           owns == {Own(r) : r \in Requests}
           pings == {Ping(r) : r \in Retriable}
<1>1. own \in Surjection(Requests, owns)
  BY DEF Surjection
<1>2. ping \in Surjection(Retriable, pings)
  BY DEF Surjection
<1>3. IsFiniteSet(Requests) /\ IsFiniteSet(Retriable)
  BY RequestsAssumption, FS_Subset
<1> HIDE DEF own, ping
<1>4. IsFiniteSet(owns) /\ IsFiniteSet(pings)
  BY <1>1, <1>2, <1>3, FS_Surjection
<1>5. IsFiniteSet(owns \cup pings)
  <2> HIDE DEF owns, pings
  <2> QED
    BY <1>4, FS_Union
<1> QED
  BY <1>5 DEF Ids

\* The ids of a request and of its ping.
LEMMA IdParts ==
  /\ \A r \in Requests : Own(r) \in Ids
  /\ \A r \in Retriable : Own(r) \in Ids /\ Ping(r) \in Ids
  /\ \A r, s : Own(r) # Ping(s) /\ (Ping(r) = Ping(s) => r = s) /\ (Own(r) = Own(s) => r = s)
  /\ \A i \in Ids : i[2] = "own" => i = Own(i[1]) /\ i[1] \in Requests
<1>1. Retriable \subseteq Requests
  BY RequestsAssumption
<1> QED
  BY <1>1 DEF Ids, Own, Ping

\* Places in progress are a number.
LEMMA CountedPlaces ==
  ASSUME NEW S \in SUBSET Ids
  PROVE  IsFiniteSet(S) /\ Cardinality(S) \in Nat
BY IdsAreFinite, FS_Subset, FS_CardinalityType

\* What is chosen of those that wait.
LEMMA Chosen ==
  ASSUME pending \in Seq(Ids), NEW S
  PROVE  /\ Among(pending, S) \in Seq(Ids)
         /\ \A n \in DOMAIN Among(pending, S) : Among(pending, S)[n] \in S
         /\ \A n \in DOMAIN Among(pending, S) : \E k \in DOMAIN pending : Among(pending, S)[n] = pending[k]
         /\ Len(Among(pending, S)) = Cardinality({k \in DOMAIN pending : pending[k] \in S})
<1>1. /\ Among(pending, S) \in Seq(Ids)
      /\ \A n \in DOMAIN Among(pending, S) :
           Among(pending, S)[n] \in S /\ \E k \in DOMAIN pending : Among(pending, S)[n] = pending[k]
      /\ \A k \in DOMAIN pending : pending[k] \in S =>
           \E n \in DOMAIN Among(pending, S) : Among(pending, S)[n] = pending[k]
      /\ IsInjective(pending) => IsInjective(Among(pending, S))
      /\ Len(Among(pending, S)) = Cardinality({k \in DOMAIN pending : pending[k] \in S})
  BY AmongIs
<1> QED
  BY <1>1

\* Taking an entry off the list of those that wait.
LEMMA WithoutIs ==
  ASSUME pending \in Seq(Ids), NEW i
  PROVE  /\ Without(i) \in Seq(Ids)
         /\ ToSet(Without(i)) = ToSet(pending) \ {i}
         /\ IsInjective(pending) => IsInjective(Without(i))
         /\ Len(Without(i)) <= Len(pending)
<1> DEFINE S == Ids \ {i}
           w == Among(pending, S)
           ks == {k \in DOMAIN pending : pending[k] \in S}
<1>1. Without(i) = w
  BY DEF Without
<1>2. /\ w \in Seq(Ids)
      /\ \A n \in DOMAIN w : w[n] \in S /\ \E k \in DOMAIN pending : w[n] = pending[k]
      /\ \A k \in DOMAIN pending : pending[k] \in S => \E n \in DOMAIN w : w[n] = pending[k]
      /\ IsInjective(pending) => IsInjective(w)
      /\ Len(w) = Cardinality(ks)
  <2> HIDE DEF S
  <2> QED
    BY AmongIs
<1>3. \A k \in DOMAIN pending : pending[k] \in Ids
  BY ElementOfSeq, LenProperties
<1>4. DOMAIN pending = 1..Len(pending) /\ Len(pending) \in Nat
  BY LenProperties
<1>5. Cardinality(ks) <= Len(pending)
  <2>1. IsFiniteSet(1..Len(pending)) /\ Cardinality(1..Len(pending)) = Len(pending)
    <3>1. 1 \in Int /\ Len(pending) \in Int
      BY <1>4
    <3> QED
      BY <3>1, <1>4, FS_Interval
  <2>2. ks \in SUBSET (1..Len(pending))
    BY <1>4
  <2> HIDE DEF ks
  <2> QED
    BY <2>1, <2>2, FS_Subset
<1>6. ToSet(w) = ToSet(pending) \ {i}
  <2> HIDE DEF w
  <2> QED
    BY <1>2, <1>3 DEF ToSet
<1> HIDE DEF w, ks
<1> QED
  BY <1>1, <1>2, <1>5, <1>6

\* What is published: a number, last, when anything waits.
LEMMA Published ==
  ASSUME updates \in Seq(Nat), NEW p \in Seq(Ids), NEW g \in SUBSET Ids, Publish(p, g)
  PROVE  /\ pending' = p /\ inProgress' = g
         /\ updates' \in Seq(Nat)
         /\ p = <<>> => updates' = updates
         /\ p # <<>> => /\ updates' # <<>>
                        /\ Last(updates') = Cardinality(g)
                        /\ Len(updates') = Len(updates) + 1
                        /\ updates = <<>> => updates' = <<Cardinality(g)>>
                        /\ \A k \in DOMAIN updates : updates'[k] = updates[k]
<1>1. Cardinality(g) \in Nat
  BY CountedPlaces
<1>2. CASE p = <<>>
  BY <1>2 DEF Publish
<1>3. CASE p # <<>>
  <2>1. updates' = Append(updates, Cardinality(g))
    BY <1>3 DEF Publish
  <2> DEFINE c == Cardinality(g)
             u == Append(updates, c)
  <2>0. c \in Nat
    BY <1>1
  <2> HIDE DEF c
  <2>2. /\ u \in Seq(Nat) /\ u # <<>> /\ Len(u) = Len(updates) + 1
        /\ u[Len(u)] = c
        /\ \A k \in 1..Len(updates) : u[k] = updates[k]
        /\ DOMAIN updates = 1..Len(updates)
    BY <2>0
  <2>3. updates = <<>> => u = <<c>>
    OBVIOUS
  <2> HIDE DEF u
  <2>4. updates' = u /\ pending' = p /\ inProgress' = g
    BY <2>1, <1>3 DEF Publish, u, c
  <2> QED
    BY <2>2, <2>3, <2>4, <1>3 DEF Last, c
<1> QED
  BY <1>2, <1>3

\* An entry that is new joins those that wait.
LEMMA Added ==
  ASSUME QueueOK, NEW i \in Ids, i \notin ToSet(pending) \cup inProgress, Add(i)
  PROVE  /\ QueueOK'
         /\ pending' = Append(pending, i) /\ inProgress' = inProgress
         /\ ToSet(pending') = ToSet(pending) \cup {i}
         /\ Publish(pending', inProgress')
<1> USE DEF QueueOK
<1>1. Append(pending, i) \in Seq(Ids)
  OBVIOUS
<1>2. updates' \in Seq(Nat) /\ pending' = Append(pending, i) /\ inProgress' = inProgress
  <2>1. inProgress \in SUBSET Ids
    OBVIOUS
  <2> QED
    BY <1>1, <2>1, Published DEF Add
<1>3. /\ Len(Append(pending, i)) = Len(pending) + 1 /\ Len(pending) \in Nat
      /\ \A k \in 1..Len(pending) : Append(pending, i)[k] = pending[k]
      /\ Append(pending, i)[Len(pending) + 1] = i
      /\ DOMAIN pending = 1..Len(pending)
      /\ DOMAIN Append(pending, i) = 1..(Len(pending) + 1)
  OBVIOUS
<1> DEFINE q == Append(pending, i)
<1> HIDE DEF q
<1>4. ToSet(pending') = ToSet(pending) \cup {i}
  <2>1. ToSet(q) = {q[k] : k \in 1..(Len(pending) + 1)}
    BY <1>3 DEF ToSet, q
  <2>2. ToSet(pending) = {pending[k] : k \in 1..Len(pending)}
    BY <1>3 DEF ToSet
  <2>3. /\ \A k \in 1..Len(pending) : q[k] = pending[k] /\ k \in 1..(Len(pending) + 1)
        /\ q[Len(pending) + 1] = i /\ Len(pending) + 1 \in 1..(Len(pending) + 1)
        /\ \A k \in 1..(Len(pending) + 1) : k \in 1..Len(pending) \/ k = Len(pending) + 1
    BY <1>3 DEF q
  <2>4. ToSet(q) = ToSet(pending) \cup {i}
    BY <2>1, <2>2, <2>3
  <2> QED
    BY <2>4, <1>2 DEF q
<1>5. IsInjective(pending')
  <2>1. \A k \in DOMAIN pending : pending[k] # i
    BY DEF ToSet
  <2>2. \A a, b \in DOMAIN pending : pending[a] = pending[b] => a = b
    BY DEF IsInjective
  <2>3. \A a, b \in 1..(Len(pending) + 1) : Append(pending, i)[a] = Append(pending, i)[b] => a = b
    <3> SUFFICES ASSUME NEW a \in 1..(Len(pending) + 1), NEW b \in 1..(Len(pending) + 1),
                        Append(pending, i)[a] = Append(pending, i)[b]
                 PROVE  a = b
      OBVIOUS
    <3>1. CASE a \in 1..Len(pending) /\ b \in 1..Len(pending)
      BY <3>1, <1>3, <2>2
    <3>2. CASE a \notin 1..Len(pending) /\ b \in 1..Len(pending)
      <4>1. a = Len(pending) + 1 /\ b \in DOMAIN pending
        BY <3>2, <1>3
      <4>2. pending[b] = i
        BY <4>1, <1>3
      <4> QED
        BY <4>1, <4>2, <2>1
    <3>3. CASE a \in 1..Len(pending) /\ b \notin 1..Len(pending)
      <4>1. b = Len(pending) + 1 /\ a \in DOMAIN pending
        BY <3>3, <1>3
      <4>2. pending[a] = i
        BY <4>1, <1>3
      <4> QED
        BY <4>1, <4>2, <2>1
    <3>4. CASE a \notin 1..Len(pending) /\ b \notin 1..Len(pending)
      BY <3>4, <1>3
    <3> QED
      BY <3>1, <3>2, <3>3, <3>4
  <2> QED
    BY <1>2, <1>3, <2>3 DEF IsInjective
<1> QED
  BY <1>1, <1>2, <1>4, <1>5 DEF Add

\* An entry leaves those that wait, for the places or for good.
LEMMA Moved ==
  ASSUME QueueOK, NEW i \in Ids, NEW g \in SUBSET Ids, g \ {i} \subseteq inProgress,
         Publish(Without(i), g)
  PROVE  /\ QueueOK'
         /\ pending' = Without(i) /\ inProgress' = g
         /\ ToSet(pending') = ToSet(pending) \ {i}
         /\ Publish(pending', inProgress')
<1> USE DEF QueueOK
<1>1. /\ Without(i) \in Seq(Ids)
      /\ ToSet(Without(i)) = ToSet(pending) \ {i}
      /\ IsInjective(Without(i))
  BY WithoutIs
<1>2. updates' \in Seq(Nat) /\ pending' = Without(i) /\ inProgress' = g
  BY <1>1, Published
<1> QED
  BY <1>1, <1>2

\* The first m entries of d after those of a.
LEMMA AndSome ==
  ASSUME NEW T, NEW a \in Seq(T), NEW d \in Seq(T), NEW m \in Nat, m <= Len(d),
         NEW e, e = a \o SubSeq(d, 1, m)
  PROVE  /\ e \in Seq(T) /\ Len(e) = Len(a) + m
         /\ \A k \in DOMAIN e : e[k] = IF k <= Len(a) THEN a[k] ELSE d[k - Len(a)]
         /\ \A k \in DOMAIN e : ~ k <= Len(a) => k - Len(a) \in DOMAIN d
<1> DEFINE some == SubSeq(d, 1, m)
<1>1. Len(a) \in Nat /\ Len(d) \in Nat /\ DOMAIN d = 1..Len(d)
  OBVIOUS
<1>2. some \in Seq(T) /\ Len(some) = m /\ \A k \in 1..m : some[k] = d[k]
  <2>1. 1 \in 1..(Len(d) + 1) /\ m \in (1 - 1)..Len(d)
    BY <1>1
  <2> QED
    BY <2>1, SubSeqProperties
<1>3. e = a \o some
  OBVIOUS
<1> HIDE DEF some
<1>4. /\ e \in Seq(T) /\ Len(e) = Len(a) + m
      /\ \A k \in 1..(Len(a) + m) : e[k] = IF k <= Len(a) THEN a[k] ELSE some[k - Len(a)]
  BY <1>2, <1>3, ConcatProperties
<1>5. ASSUME NEW k \in DOMAIN e
      PROVE  /\ e[k] = IF k <= Len(a) THEN a[k] ELSE d[k - Len(a)]
             /\ ~ k <= Len(a) => k - Len(a) \in DOMAIN d
  <2>1. k \in 1..(Len(a) + m)
    BY <1>4
  <2>2. CASE ~ k <= Len(a)
    <3>1. k - Len(a) \in 1..m /\ k - Len(a) \in DOMAIN d
      BY <2>1, <2>2, <1>1
    <3> QED
      BY <3>1, <2>1, <2>2, <1>2, <1>4
  <2> QED
    BY <2>1, <2>2, <1>4
<1> QED
  BY <1>4, <1>5

\* What an update starts: entries that wait.
LEMMA Emitted ==
  ASSUME TypeOK, TakeUpdate
  PROVE  /\ emitting' \in Seq(Ids) /\ ToSet(emitting') \subseteq ToSet(pending)
         /\ updates' \in Seq(Nat)
<1> DEFINE apis == Among(pending, Ids \ DataIds)
           data == Among(pending, DataIds)
           n == Allowed(Head(updates), Len(apis))
           m == IF n < Len(data) THEN n ELSE Len(data)
<1>1. pending \in Seq(Ids) /\ updates \in Seq(Nat) /\ updates # <<>>
  BY DEF TypeOK, TakeUpdate
<1>2. /\ apis \in Seq(Ids) /\ data \in Seq(Ids)
      /\ \A k \in DOMAIN apis : \E l \in DOMAIN pending : apis[k] = pending[l]
      /\ \A k \in DOMAIN data : \E l \in DOMAIN pending : data[k] = pending[l]
  <2>1. /\ apis \in Seq(Ids)
        /\ \A k \in DOMAIN apis : \E l \in DOMAIN pending : apis[k] = pending[l]
    BY <1>1, Chosen
  <2>2. /\ data \in Seq(Ids)
        /\ \A k \in DOMAIN data : \E l \in DOMAIN pending : data[k] = pending[l]
    BY <1>1, Chosen
  <2> QED
    BY <2>1, <2>2
<1>3. emitting' = apis \o SubSeq(data, 1, m) /\ updates' = Tail(updates)
  BY DEF TakeUpdate
<1> HIDE DEF apis, data
<1>4. Head(updates) \in Nat /\ Len(apis) \in Nat /\ Len(data) \in Nat /\ MaxParallel \in Nat
  BY <1>1, <1>2, RequestsAssumption
<1>5. m \in Nat /\ m <= Len(data)
  BY <1>4 DEF Allowed
<1> HIDE DEF m
<1>6. emitting' = apis \o SubSeq(data, 1, m)
  BY <1>3
<1>7. /\ emitting' \in Seq(Ids)
      /\ \A k \in DOMAIN emitting' : emitting'[k] = IF k <= Len(apis) THEN apis[k] ELSE data[k - Len(apis)]
      /\ \A k \in DOMAIN emitting' : ~ k <= Len(apis) => k - Len(apis) \in DOMAIN data
  BY <1>2, <1>5, <1>6, AndSome
<1>8. ASSUME NEW k \in DOMAIN emitting'
      PROVE  \E l \in DOMAIN pending : emitting'[k] = pending[l]
  <2>1. CASE k <= Len(apis)
    <3>1. k \in DOMAIN apis
      BY <1>2, <1>7, <2>1
    <3> QED
      BY <3>1, <1>2, <1>7, <2>1
  <2>2. CASE ~ k <= Len(apis)
    BY <1>2, <1>7, <2>2
  <2> QED
    BY <2>1, <2>2
<1>9. Tail(updates) \in Seq(Nat)
  BY <1>1
<1> QED
  BY <1>3, <1>7, <1>8, <1>9 DEF ToSet

Streams == {"none", "queued", "fetching", "pinging", "refetching", "ended"}
Outcomes == {"none", "waiting", "ok", "failed", "unauthorized", "cancelled", "left"}

\* Whoever gives up with another was waiting.
LEMMA SiblingsWait ==
  \A i : Siblings(i) \subseteq Ids /\ \A j \in Siblings(i) : outcome[j] = "waiting"
BY DEF Siblings

\* Giving up changes only what those get who wait.
LEMMA GivenUp ==
  ASSUME outcome \in [Ids -> Outcomes], NEW c, NEW l, GiveUp(c, l)
  PROVE  /\ outcome' \in [Ids -> Outcomes]
         /\ \A j \in Ids : outcome[j] # "waiting" => outcome'[j] = outcome[j]
         /\ \A j \in Ids : outcome[j] = "waiting" /\ j \notin c \cup l => outcome'[j] = "waiting"
<1>1. \A j \in Ids : outcome'[j] = IF outcome[j] # "waiting" THEN outcome[j]
                                   ELSE IF j \in c THEN "cancelled"
                                   ELSE IF j \in l THEN "left" ELSE outcome[j]
  BY DEF GiveUp
<1>2. outcome' = [j \in Ids |-> outcome'[j]]
  BY DEF GiveUp
<1>3. ASSUME NEW j \in Ids
      PROVE  /\ outcome'[j] \in Outcomes
             /\ outcome[j] # "waiting" => outcome'[j] = outcome[j]
             /\ outcome[j] = "waiting" /\ j \notin c \cup l => outcome'[j] = "waiting"
  <2>1. CASE outcome[j] # "waiting"
    <3>1. outcome'[j] = outcome[j]
      BY <1>1, <2>1
    <3> QED
      BY <3>1, <2>1
  <2>2. CASE outcome[j] = "waiting" /\ j \in c
    BY <1>1, <2>2 DEF Outcomes
  <2>3. CASE outcome[j] = "waiting" /\ j \notin c /\ j \in l
    BY <1>1, <2>3 DEF Outcomes
  <2>4. CASE outcome[j] = "waiting" /\ j \notin c /\ j \notin l
    BY <1>1, <2>4 DEF Outcomes
  <2> QED
    BY <2>1, <2>2, <2>3, <2>4
<1>4. outcome' \in [Ids -> Outcomes]
  BY <1>2, <1>3
<1> QED
  BY <1>3, <1>4

\* The parts of the base invariant.
LEMMA BaseParts ==
  ASSUME BaseInv
  PROVE  /\ QueueOK /\ emitting \in Seq(Ids) /\ starting \in Ids \cup {None}
         /\ superseded \subseteq Ids /\ dropped \subseteq Ids
         /\ stream \in [Ids -> Streams] /\ outcome \in [Ids -> Outcomes]
         /\ together \subseteq Groups /\ Listed /\ PingsAreNew
BY DEF BaseInv, TypeOK, QueueOK, Streams, Outcomes

\* And putting them together in the state after.
LEMMA BaseKept ==
  ASSUME BaseInv, QueueOK', emitting' \in Seq(Ids), starting' \in Ids \cup {None},
         superseded' \subseteq Ids, dropped' \subseteq Ids,
         stream' \in [Ids -> Streams], outcome' \in [Ids -> Outcomes],
         together' = together, Listed', PingsAreNew'
  PROVE  BaseInv'
BY DEF BaseInv, TypeOK, QueueOK, Streams, Outcomes

\* Settling a request under way.
LEMMA Settled ==
  ASSUME BaseInv, NEW i \in Ids, stream[i] # "none",
         NEW result \in {"ok", "failed", "unauthorized", "cancelled"}, Settle(i, result)
  PROVE  BaseInv' /\ Publish(pending', inProgress')
<1> USE BaseParts DEF Settle
<1> DEFINE left == IF result = "ok" THEN {} ELSE Siblings(i)
<1>1. left \subseteq Ids /\ \A j \in left : outcome[j] = "waiting"
  BY SiblingsWait
<1>2. /\ dropped' = left /\ stream' = [stream EXCEPT ![i] = "ended"]
      /\ outcome' = [j \in Ids |-> IF j = i THEN result ELSE IF j \in left THEN "left" ELSE outcome[j]]
  OBVIOUS
<1> HIDE DEF left
<1>3. /\ QueueOK' /\ ToSet(pending') = ToSet(pending) \ {i}
      /\ inProgress' = inProgress \ {i}
      /\ Publish(pending', inProgress')
  <2>1. inProgress \ {i} \in SUBSET Ids /\ (inProgress \ {i}) \ {i} \subseteq inProgress
    BY DEF QueueOK
  <2> QED
    BY <2>1, Moved DEF SetDone
<1>4. outcome' \in [Ids -> Outcomes] /\ stream' \in [Ids -> Streams]
  <2>1. "ended" \in Streams /\ "left" \in Outcomes /\ result \in Outcomes
    BY DEF Streams, Outcomes
  <2> QED
    BY <1>2, <2>1
<1>5. \A j \in Ids : /\ stream'[j] = "none" => stream[j] = "none" /\ j # i
                     /\ stream[j] = "none" => stream'[j] = "none"
                     /\ j # i => stream'[j] = stream[j]
  BY <1>2
<1>6. Listed'
  <2> SUFFICES ASSUME NEW j \in Ids, stream'[j] = "none"
               PROVE  /\ outcome'[j] = "none"
                      /\ j \notin ToSet(pending') \cup inProgress' \cup ToSet(emitting') \cup superseded' \cup dropped'
    BY DEF Listed
  <2>1. stream[j] = "none" /\ j # i
    BY <1>5
  <2>2. outcome[j] = "none" /\ j \notin ToSet(pending) \cup inProgress \cup ToSet(emitting) \cup superseded
    BY <2>1 DEF Listed
  <2>3. j \notin left
    BY <2>2, <1>1
  <2>4. emitting' = emitting /\ superseded' = superseded
    BY DEF worker
  <2>5. outcome'[j] = "none"
    BY <1>2, <2>1, <2>2, <2>3
  <2>6. j \notin dropped'
    BY <1>2, <2>3
  <2>7. j \notin ToSet(pending') \cup inProgress' \cup ToSet(emitting') \cup superseded'
    BY <1>3, <2>2, <2>4
  <2> QED
    BY <2>5, <2>6, <2>7
<1>7. PingsAreNew'
  <2> SUFFICES ASSUME NEW r \in Retriable, stream'[Own(r)] \in {"none", "queued", "fetching"}
               PROVE  stream'[Ping(r)] = "none"
    BY DEF PingsAreNew
  <2>1. Own(r) \in Ids /\ Ping(r) \in Ids
    BY IdParts
  <2>2. Own(r) # i
    BY <2>1, <1>2
  <2>3. stream[Own(r)] \in {"none", "queued", "fetching"}
    BY <2>1, <2>2, <1>5
  <2>4. stream[Ping(r)] = "none"
    BY <2>3 DEF PingsAreNew
  <2> QED
    BY <2>1, <2>4, <1>5
<1>8. emitting' = emitting /\ starting' = starting /\ superseded' = superseded /\ together' = together
  BY DEF worker
<1> QED
  BY <1>1, <1>2, <1>3, <1>4, <1>6, <1>7, <1>8, BaseKept

\* A step in which no stream becomes new again keeps pings new.
LEMMA PingsStayNew ==
  ASSUME BaseInv,
         \A r \in Retriable : stream'[Own(r)] \in {"none", "queued", "fetching"} =>
           stream[Own(r)] \in {"none", "queued", "fetching"} /\ stream'[Ping(r)] = stream[Ping(r)]
  PROVE  PingsAreNew'
BY BaseParts DEF PingsAreNew

\* What every step of the code does to the base invariant.
\* A request that is fetched was nowhere before.
LEMMA FetchKeepsBase ==
  ASSUME BaseInv, NEW r \in Requests, Fetch(r)
  PROVE  BaseInv' /\ Publish(pending', inProgress') /\ inProgress' = inProgress
<1> USE BaseParts DEF Fetch
<1> DEFINE i == Own(r)
<1>1. i \in Ids /\ stream[i] = "none"
  BY IdParts
<1>2. i \notin ToSet(pending) \cup inProgress
  BY <1>1 DEF Listed
<1> HIDE DEF i
<1>3. /\ stream' = [stream EXCEPT ![i] = "queued"] /\ outcome' = [outcome EXCEPT ![i] = "waiting"]
      /\ Add(i)
      /\ emitting' = emitting /\ starting' = starting /\ superseded' = superseded
      /\ dropped' = dropped /\ together' = together
  BY DEF i, worker
<1>4. /\ QueueOK' /\ ToSet(pending') = ToSet(pending) \cup {i} /\ inProgress' = inProgress
      /\ Publish(pending', inProgress')
  BY <1>1, <1>2, <1>3, Added
<1>5. stream' \in [Ids -> Streams] /\ outcome' \in [Ids -> Outcomes]
  BY <1>3 DEF Streams, Outcomes
<1>6. Listed'
  BY <1>1, <1>3, <1>4 DEF Listed
<1>7. PingsAreNew'
  BY <1>3, <1>1, IdParts DEF PingsAreNew, i
<1> QED
  BY <1>3, <1>4, <1>5, <1>6, <1>7, BaseKept

\* A request answered 401 makes its ping, once, or is settled.
LEMMA UnauthorizedKeepsBase ==
  ASSUME BaseInv, NEW i \in Ids, AnswerUnauthorized(i)
  PROVE  BaseInv' /\ Publish(pending', inProgress')
<1> USE BaseParts
<1>1. CASE ~ (stream[i] = "fetching" /\ i[2] = "own" /\ i[1] \in Retriable)
  <2>1. stream[i] # "none" /\ Settle(i, "unauthorized")
    BY <1>1 DEF AnswerUnauthorized
  <2> QED
    BY <2>1, Settled
<1>2. CASE stream[i] = "fetching" /\ i[2] = "own" /\ i[1] \in Retriable
  <2> DEFINE p == Ping(i[1])
  <2>1. i = Own(i[1]) /\ p \in Ids /\ p # i
    BY <1>2, IdParts
  <2>2. stream[p] = "none"
    BY <1>2, <2>1 DEF PingsAreNew
  <2>3. p \notin ToSet(pending) \cup inProgress
    BY <2>1, <2>2 DEF Listed
  <2>4. /\ stream' = [stream EXCEPT ![i] = "pinging", ![p] = "queued"]
        /\ outcome' = [outcome EXCEPT ![p] = "waiting"]
        /\ Add(p)
        /\ emitting' = emitting /\ starting' = starting /\ superseded' = superseded
        /\ dropped' = dropped /\ together' = together
    BY <1>2 DEF AnswerUnauthorized, worker
  <2>5. \A r \in Retriable : p = Ping(r) => i = Own(r)
    BY <2>1, IdParts
  <2>6. \A r \in Retriable : Own(r) # p
    BY IdParts
  <2> HIDE DEF p
  <2>7. /\ QueueOK' /\ ToSet(pending') = ToSet(pending) \cup {p} /\ inProgress' = inProgress
        /\ Publish(pending', inProgress')
    BY <2>1, <2>3, <2>4, Added
  <2>8. stream' \in [Ids -> Streams] /\ outcome' \in [Ids -> Outcomes]
    BY <2>4 DEF Streams, Outcomes
  <2>9. Listed'
    BY <2>1, <2>4, <2>7 DEF Listed
  <2>10. PingsAreNew'
    <3> SUFFICES ASSUME NEW r \in Retriable, stream'[Own(r)] \in {"none", "queued", "fetching"}
                 PROVE  stream'[Ping(r)] = "none"
      BY DEF PingsAreNew
    <3>1. Own(r) \in Ids /\ Ping(r) \in Ids
      BY IdParts
    <3>2. Own(r) # i
      BY <3>1, <2>1, <2>4
    <3>3. Own(r) # p /\ Ping(r) # p /\ Ping(r) # i
      BY <3>2, <2>1, <2>5, <2>6, IdParts
    <3>4. stream'[Own(r)] = stream[Own(r)] /\ stream'[Ping(r)] = stream[Ping(r)]
      BY <3>1, <3>2, <3>3, <2>4
    <3> QED
      BY <3>4 DEF PingsAreNew
  <2> QED
    BY <2>4, <2>7, <2>8, <2>9, <2>10, BaseKept
<1> QED
  BY <1>1, <1>2

\* An update only says what to start.
LEMMA TakeKeepsBase ==
  ASSUME BaseInv, TakeUpdate
  PROVE  BaseInv'
<1> USE BaseParts
<1>1. /\ emitting' \in Seq(Ids) /\ ToSet(emitting') \subseteq ToSet(pending)
      /\ updates' \in Seq(Nat)
  BY Emitted DEF BaseInv
<1>2. /\ pending' = pending /\ inProgress' = inProgress /\ starting' = starting
      /\ superseded' = superseded /\ dropped' = dropped
      /\ stream' = stream /\ outcome' = outcome /\ together' = together
  BY DEF TakeUpdate
<1>3. QueueOK'
  BY <1>1, <1>2 DEF QueueOK
<1>4. Listed'
  BY <1>1, <1>2 DEF Listed
<1>5. PingsAreNew'
  BY <1>2 DEF PingsAreNew
<1> QED
  BY <1>1, <1>2, <1>3, <1>4, <1>5, BaseKept

\* What is started was waiting, and takes a place.
LEMMA StartKeepsBase ==
  ASSUME BaseInv, Start
  PROVE  /\ BaseInv' /\ Publish(pending', inProgress')
         /\ Head(emitting) \in ToSet(emitting)
         /\ pending' = Without(Head(emitting))
         /\ inProgress' = inProgress \cup {Head(emitting)}
<1> USE BaseParts
<1> DEFINE i == Head(emitting)
           olds == Supersedes(i)
           left == UNION {Siblings(j) : j \in olds}
<1>1. i \in Ids /\ Tail(emitting) \in Seq(Ids) /\ emitting # <<>>
  BY DEF Start
<1>2. i \in ToSet(emitting) /\ ToSet(Tail(emitting)) \subseteq ToSet(emitting)
  <2>1. /\ DOMAIN emitting = 1..Len(emitting) /\ i = emitting[1] /\ Len(emitting) \in Nat /\ Len(emitting) # 0
        /\ DOMAIN Tail(emitting) = 1..(Len(emitting) - 1)
        /\ \A k \in 1..(Len(emitting) - 1) : Tail(emitting)[k] = emitting[k + 1] /\ k + 1 \in 1..Len(emitting)
    BY <1>1
  <2>2. 1 \in DOMAIN emitting
    BY <2>1
  <2>3. i \in ToSet(emitting)
    BY <2>1, <2>2 DEF ToSet
  <2>4. ToSet(Tail(emitting)) \subseteq ToSet(emitting)
    BY <2>1 DEF ToSet
  <2> QED
    BY <2>3, <2>4
<1>3. olds \subseteq Ids /\ \A j \in olds : stream[j] # "none"
  BY DEF Supersedes, InFlight
<1>4. left \subseteq Ids /\ \A j \in left : outcome[j] = "waiting"
  BY SiblingsWait
<1>5. /\ SetInProgress(i) /\ starting' = i /\ superseded' = olds \cup left /\ GiveUp(olds, left)
      /\ emitting' = Tail(emitting) /\ dropped' = dropped /\ stream' = stream /\ together' = together
  BY DEF Start
<1> HIDE DEF i, olds, left
<1>6. /\ QueueOK' /\ ToSet(pending') = ToSet(pending) \ {i} /\ inProgress' = inProgress \cup {i}
      /\ pending' = Without(i)
      /\ Publish(pending', inProgress')
  <2>1. inProgress \cup {i} \in SUBSET Ids /\ (inProgress \cup {i}) \ {i} \subseteq inProgress
    BY <1>1 DEF QueueOK
  <2> QED
    BY <1>1, <1>5, <2>1, Moved DEF SetInProgress
<1>7. outcome' \in [Ids -> Outcomes] /\ \A j \in Ids : outcome[j] # "waiting" => outcome'[j] = outcome[j]
  BY <1>5, GivenUp
<1>8. Listed'
  <2> SUFFICES ASSUME NEW j \in Ids, stream'[j] = "none"
               PROVE  /\ outcome'[j] = "none"
                      /\ j \notin ToSet(pending') \cup inProgress' \cup ToSet(emitting') \cup superseded' \cup dropped'
    BY DEF Listed
  <2>1. stream[j] = "none"
    BY <1>5
  <2>2. outcome[j] = "none" /\ j \notin ToSet(pending) \cup inProgress \cup ToSet(emitting) \cup superseded \cup dropped
    BY <2>1 DEF Listed
  <2>3. j \notin left /\ j \notin olds
    BY <2>1, <2>2, <1>3, <1>4
  <2>4. j # i
    BY <2>2, <1>2
  <2> QED
    BY <1>2, <1>5, <1>6, <1>7, <2>2, <2>3, <2>4
<1>9. PingsAreNew'
  BY <1>5 DEF PingsAreNew
<1>10. superseded' \subseteq Ids /\ starting' \in Ids \cup {None} /\ emitting' \in Seq(Ids) /\ dropped' \subseteq Ids
  BY <1>1, <1>3, <1>4, <1>5
<1>11. BaseInv'
  BY <1>5, <1>6, <1>7, <1>8, <1>9, <1>10, BaseKept
<1> QED
  BY <1>2, <1>6, <1>11 DEF i

\* The observable of the entry goes on, when it has not ended.
LEMMA SubscribeKeepsBase ==
  ASSUME BaseInv, Subscribe
  PROVE  BaseInv'
<1> USE BaseParts
<1>1. /\ stream' = [stream EXCEPT ![starting] = IF @ = "queued" THEN "fetching" ELSE @]
      /\ starting' = None /\ starting \in Ids
      /\ pending' = pending /\ inProgress' = inProgress /\ updates' = updates /\ emitting' = emitting
      /\ superseded' = superseded /\ dropped' = dropped /\ outcome' = outcome /\ together' = together
  BY DEF Subscribe, queue
<1>2. QueueOK'
  BY <1>1 DEF QueueOK
<1>3. \A j \in Ids : stream'[j] = stream[j] \/ (stream[j] = "queued" /\ stream'[j] = "fetching")
  BY <1>1
<1>4. stream' \in [Ids -> Streams]
  <2>1. (IF stream[starting] = "queued" THEN "fetching" ELSE stream[starting]) \in Streams
    BY <1>1 DEF Streams
  <2> QED
    BY <1>1, <2>1
<1>5. Listed'
  BY <1>1, <1>3 DEF Listed
<1>6. PingsAreNew'
  <2> SUFFICES ASSUME NEW r \in Retriable, stream'[Own(r)] \in {"none", "queued", "fetching"}
               PROVE  stream'[Ping(r)] = "none"
    BY DEF PingsAreNew
  <2>1. Own(r) \in Ids /\ Ping(r) \in Ids
    BY IdParts
  <2>2. stream[Own(r)] \in {"none", "queued", "fetching"}
    BY <2>1, <1>3
  <2>3. stream[Ping(r)] = "none"
    BY <2>2 DEF PingsAreNew
  <2> QED
    BY <2>1, <2>3, <1>3
<1> QED
  BY <1>1, <1>2, <1>4, <1>5, <1>6, BaseKept

\* What ends leaves the queue and its place.
LEMMA TearDownKeepsBase ==
  ASSUME BaseInv, NEW i \in Ids, TearDown(i)
  PROVE  /\ BaseInv' /\ Publish(pending', inProgress')
         /\ pending' = Without(i) /\ inProgress' = inProgress \ {i}
<1> USE BaseParts
<1>1. /\ stream' = [stream EXCEPT ![i] = "ended"] /\ SetDone(i)
      /\ superseded' = superseded \ {i} /\ dropped' = dropped \ {i}
      /\ emitting' = emitting /\ starting' = starting
      /\ outcome' = outcome /\ together' = together
      /\ i \in superseded \cup dropped
  BY DEF TearDown, worker
<1>2. /\ QueueOK' /\ ToSet(pending') = ToSet(pending) \ {i} /\ inProgress' = inProgress \ {i}
      /\ pending' = Without(i)
      /\ Publish(pending', inProgress')
  <2>1. inProgress \ {i} \in SUBSET Ids /\ (inProgress \ {i}) \ {i} \subseteq inProgress
    BY DEF QueueOK
  <2> QED
    BY <1>1, <2>1, Moved DEF SetDone
<1>3. stream' \in [Ids -> Streams]
  BY <1>1 DEF Streams
<1>4. stream[i] # "none"
  BY <1>1 DEF Listed
<1>5. \A j \in Ids : (stream'[j] = "none" <=> stream[j] = "none") /\ (j # i => stream'[j] = stream[j])
  BY <1>1, <1>4
<1>6. Listed'
  BY <1>1, <1>2, <1>5 DEF Listed
<1>7. PingsAreNew'
  <2> SUFFICES ASSUME NEW r \in Retriable, stream'[Own(r)] \in {"none", "queued", "fetching"}
               PROVE  stream'[Ping(r)] = "none"
    BY DEF PingsAreNew
  <2>1. Own(r) \in Ids /\ Ping(r) \in Ids
    BY IdParts
  <2>2. Own(r) # i
    BY <2>1, <1>1
  <2>3. stream[Ping(r)] = "none"
    BY <2>1, <2>2, <1>5 DEF PingsAreNew
  <2> QED
    BY <2>1, <2>3, <1>5
<1>8. superseded' \subseteq Ids /\ dropped' \subseteq Ids
  BY <1>1
<1>9. BaseInv'
  BY <1>1, <1>2, <1>3, <1>6, <1>7, <1>8, BaseKept
<1> QED
  BY <1>2, <1>9

\* The request goes on after its ping, or is settled.
LEMMA PingSettledKeepsBase ==
  ASSUME BaseInv, NEW r \in Retriable, PingSettled(r)
  PROVE  BaseInv' /\ (UNCHANGED queue \/ Publish(pending', inProgress'))
<1> USE BaseParts
<1>1. Own(r) \in Ids /\ Ping(r) \in Ids /\ stream[Own(r)] = "pinging"
  BY IdParts DEF PingSettled
<1>2. CASE outcome[Ping(r)] = "ok" /\ stream' = [stream EXCEPT ![Own(r)] = "refetching"]
           /\ UNCHANGED <<queue, worker, superseded, dropped, outcome, together>>
  <2>1. /\ pending' = pending /\ inProgress' = inProgress /\ updates' = updates
        /\ emitting' = emitting /\ starting' = starting
        /\ superseded' = superseded /\ dropped' = dropped /\ outcome' = outcome /\ together' = together
    BY <1>2 DEF queue, worker
  <2>2. QueueOK'
    BY <2>1 DEF QueueOK
  <2>3. stream' \in [Ids -> Streams]
    BY <1>2 DEF Streams
  <2>4. \A j \in Ids : /\ stream'[j] = "none" <=> stream[j] = "none"
                       /\ stream'[j] \in {"none", "queued", "fetching"} => stream'[j] = stream[j]
    BY <1>1, <1>2
  <2>5. Listed'
    BY <2>1, <2>4 DEF Listed
  <2>6. PingsAreNew'
    BY <2>4, IdParts DEF PingsAreNew
  <2>7. BaseInv'
    BY <2>1, <2>2, <2>3, <2>5, <2>6, BaseKept
  <2> QED
    BY <2>7, <1>2
<1>3. CASE outcome[Ping(r)] \in {"failed", "unauthorized", "cancelled"} /\ Settle(Own(r), outcome[Ping(r)])
  BY <1>1, <1>3, Settled
<1> QED
  BY <1>2, <1>3 DEF PingSettled

\* An event that only says what ends: the queue is as it was.
LEMMA DroppingKeepsBase ==
  ASSUME BaseInv, dropped' \subseteq Ids, \A j \in dropped' : stream[j] # "none",
         outcome' \in [Ids -> Outcomes],
         \A j \in Ids : outcome[j] # "waiting" => outcome'[j] = outcome[j],
         UNCHANGED <<queue, worker, superseded, stream, together>>
  PROVE  BaseInv'
<1> USE BaseParts
<1>1. /\ pending' = pending /\ inProgress' = inProgress /\ updates' = updates
      /\ emitting' = emitting /\ starting' = starting
      /\ superseded' = superseded /\ stream' = stream /\ together' = together
  BY DEF queue, worker
<1>2. QueueOK'
  BY <1>1 DEF QueueOK
<1>3. Listed'
  <2> SUFFICES ASSUME NEW j \in Ids, stream'[j] = "none"
               PROVE  /\ outcome'[j] = "none"
                      /\ j \notin ToSet(pending') \cup inProgress' \cup ToSet(emitting') \cup superseded' \cup dropped'
    BY DEF Listed
  <2>1. /\ outcome[j] = "none"
        /\ j \notin ToSet(pending) \cup inProgress \cup ToSet(emitting) \cup superseded
    BY <1>1 DEF Listed
  <2> QED
    BY <1>1, <2>1
<1>4. PingsAreNew'
  BY <1>1 DEF PingsAreNew
<1> QED
  BY <1>1, <1>2, <1>3, <1>4, BaseKept

\* Who leaves was waiting, and so were the siblings.
LEMMA LeaveKeepsBase ==
  ASSUME BaseInv, NEW r \in Requests, Leave(r)
  PROVE  BaseInv' /\ UNCHANGED queue
<1> USE BaseParts
<1>1. /\ outcome[Own(r)] = "waiting" /\ dropped' = {Own(r)} \cup Siblings(Own(r))
      /\ GiveUp({}, dropped')
      /\ UNCHANGED <<queue, worker, superseded, stream, together>>
  BY DEF Leave
<1>2. dropped' \subseteq Ids /\ \A j \in dropped' : outcome[j] = "waiting"
  BY <1>1, SiblingsWait, IdParts
<1>3. \A j \in dropped' : stream[j] # "none"
  BY <1>2 DEF Listed
<1>4. outcome' \in [Ids -> Outcomes] /\ \A j \in Ids : outcome[j] # "waiting" => outcome'[j] = outcome[j]
  BY <1>1, GivenUp
<1> QED
  BY <1>1, <1>2, <1>3, <1>4, DroppingKeepsBase

\* What is cancelled is under way.
LEMMA CancelKeepsBase ==
  ASSUME BaseInv, NEW olds \in SUBSET InFlight, Cancel(olds)
  PROVE  BaseInv' /\ UNCHANGED queue
<1> USE BaseParts
<1> DEFINE left == UNION {Siblings(j) : j \in olds}
<1>1. /\ dropped' = olds \cup left /\ GiveUp(olds, left)
      /\ UNCHANGED <<queue, worker, superseded, stream, together>>
  BY DEF Cancel
<1>2. left \subseteq Ids /\ \A j \in left : outcome[j] = "waiting"
  BY SiblingsWait
<1>3. olds \subseteq Ids /\ \A j \in olds : stream[j] # "none"
  BY DEF InFlight
<1> HIDE DEF left
<1>4. dropped' \subseteq Ids /\ \A j \in dropped' : stream[j] # "none"
  <2>1. \A j \in left : stream[j] # "none"
    BY <1>2 DEF Listed
  <2> QED
    BY <1>1, <1>2, <1>3, <2>1
<1>5. outcome' \in [Ids -> Outcomes] /\ \A j \in Ids : outcome[j] # "waiting" => outcome'[j] = outcome[j]
  BY <1>1, GivenUp
<1> QED
  BY <1>1, <1>4, <1>5, DroppingKeepsBase

\* Before the first request there is nothing.
LEMMA InitBase == Init => BaseInv
<1> SUFFICES ASSUME Init PROVE BaseInv
  OBVIOUS
<1>1. /\ pending = <<>> /\ inProgress = {} /\ updates = <<>> /\ emitting = <<>> /\ starting = None
      /\ superseded = {} /\ dropped = {}
      /\ stream = [i \in Ids |-> "none"] /\ outcome = [i \in Ids |-> "none"]
      /\ together \subseteq Groups
  BY DEF Init
<1>2. ToSet(<<>>) = {}
  BY DEF ToSet
<1>3. IsInjective(<<>>)
  BY DEF IsInjective
<1>4. TypeOK
  BY <1>1, <1>2, <1>3 DEF TypeOK
<1>5. Listed
  BY <1>1, <1>2 DEF Listed
<1>6. PingsAreNew
  BY <1>1, IdParts DEF PingsAreNew
<1> QED
  BY <1>4, <1>5, <1>6 DEF BaseInv

\* The steps, by what they do to the queue.
LEMMA StepsOfTheQueue ==
  ASSUME BaseInv, [Next]_vars
  PROVE  \/ TakeUpdate \/ Start \/ Subscribe
         \/ \E i \in Ids : TearDown(i)
         \/ \E i \in Ids : Answer(i)
         \/ \E r \in Requests : Fetch(r) \/ Leave(r)
         \/ \E r \in Retriable : PingSettled(r)
         \/ \E olds \in SUBSET InFlight : Cancel(olds)
         \/ UNCHANGED vars
<1>1. CancelAllInFlightRequests => \E olds \in SUBSET InFlight : Cancel(olds)
  BY DEF CancelAllInFlightRequests
<1>2. ASSUME NEW id, ResolveCancelerIfExists(id)
      PROVE  \E olds \in SUBSET InFlight : Cancel(olds)
  BY <1>2 DEF ResolveCancelerIfExists
<1>3. AllSettled => UNCHANGED vars
  BY DEF AllSettled
<1> QED
  BY <1>1, <1>2, <1>3 DEF Next, Work

\* A step that publishes, or leaves the queue as it was.
LEMMA BaseStep ==
  ASSUME BaseInv, [Next]_vars
  PROVE  /\ BaseInv'
         /\ TakeUpdate \/ Publish(pending', inProgress') \/ (UNCHANGED queue /\ emitting' = emitting)
<1>1. CASE TakeUpdate
  BY <1>1, TakeKeepsBase
<1>2. CASE Start
  BY <1>2, StartKeepsBase
<1>3. CASE Subscribe
  BY <1>3, SubscribeKeepsBase DEF Subscribe
<1>4. ASSUME NEW i \in Ids, TearDown(i)
      PROVE  BaseInv' /\ Publish(pending', inProgress')
  BY <1>4, TearDownKeepsBase
<1>5. ASSUME NEW i \in Ids, Answer(i)
      PROVE  BaseInv' /\ Publish(pending', inProgress')
  <2>1. CASE AnswerOk(i)
    BY <2>1, Settled DEF AnswerOk
  <2>2. CASE AnswerError(i)
    BY <2>2, Settled DEF AnswerError
  <2>3. CASE AnswerUnauthorized(i)
    BY <2>3, UnauthorizedKeepsBase
  <2> QED
    BY <1>5, <2>1, <2>2, <2>3 DEF Answer
<1>6. ASSUME NEW r \in Requests, Fetch(r)
      PROVE  BaseInv' /\ Publish(pending', inProgress')
  BY <1>6, FetchKeepsBase
<1>7. ASSUME NEW r \in Requests, Leave(r)
      PROVE  BaseInv' /\ UNCHANGED queue /\ emitting' = emitting
  BY <1>7, LeaveKeepsBase DEF Leave, worker
<1>8. ASSUME NEW r \in Retriable, PingSettled(r)
      PROVE  BaseInv' /\ (Publish(pending', inProgress') \/ (UNCHANGED queue /\ emitting' = emitting))
  <2>1. emitting' = emitting
    BY <1>8 DEF PingSettled, Settle, worker
  <2> QED
    BY <1>8, <2>1, PingSettledKeepsBase
<1>9. ASSUME NEW olds \in SUBSET InFlight, Cancel(olds)
      PROVE  BaseInv' /\ UNCHANGED queue /\ emitting' = emitting
  BY <1>9, CancelKeepsBase DEF Cancel, worker
<1>10. CASE UNCHANGED vars
  <2>1. /\ pending' = pending /\ inProgress' = inProgress /\ updates' = updates
        /\ emitting' = emitting /\ starting' = starting
        /\ superseded' = superseded /\ dropped' = dropped
        /\ stream' = stream /\ outcome' = outcome /\ together' = together
    BY <1>10 DEF vars, queue, worker
  <2> QED
    BY <2>1 DEF queue, BaseInv, TypeOK, Listed, PingsAreNew, Ids, Own, Ping, IsInjective, ToSet
<1> QED
  BY StepsOfTheQueue, <1>1, <1>2, <1>3, <1>4, <1>5, <1>6, <1>7, <1>8, <1>9, <1>10

\* The variables of the queue, the worker and the callers stay what they are:
\* an entry is pending once or in progress, never both.
THEOREM TypeCorrect == Spec => []TypeOK
<1>1. Init => BaseInv
  BY InitBase
<1>2. BaseInv /\ [Next]_vars => BaseInv'
  BY BaseStep
<1>3. BaseInv => TypeOK
  BY DEF BaseInv
<1> QED
  BY <1>1, <1>2, <1>3, PTL DEF Spec

-----------------------------------------------------------------------------
(* No place is left idle                                                   *)

AllData == \A k \in DOMAIN pending : IsDataQuery(pending[k])

\* While something waits, the last update tells how many are in progress now.
LastUpdateCounts ==
  pending # <<>> /\ updates # <<>> => Last(updates) = Cardinality(inProgress)

\* What waits when the worker has nothing more to look at has to wait.
Served ==
  pending # <<>> /\ updates = <<>> /\ emitting = <<>> =>
    AllData /\ Cardinality(inProgress) >= MaxParallel

IdleInv == BaseInv /\ LastUpdateCounts /\ Served

\* What an update starts, by the kind of what waits.
LEMMA EmittedNumbers ==
  ASSUME BaseInv, TakeUpdate,
         NEW apis, apis = Among(pending, Ids \ DataIds),
         NEW data, data = Among(pending, DataIds),
         NEW n, n = Allowed(Head(updates), Len(apis))
  PROVE  /\ apis \in Seq(Ids) /\ data \in Seq(Ids) /\ n \in Nat
         /\ \A k \in DOMAIN apis : ~ IsDataQuery(apis[k]) /\ apis[k] \in ToSet(pending)
         /\ \A k \in DOMAIN data : IsDataQuery(data[k]) /\ data[k] \in ToSet(pending)
         /\ Len(apis) = Cardinality({k \in DOMAIN pending : ~ IsDataQuery(pending[k])})
         /\ Len(data) = Cardinality({k \in DOMAIN pending : IsDataQuery(pending[k])})
         /\ Len(emitting') = Len(apis) + (IF n < Len(data) THEN n ELSE Len(data))
         /\ \A k \in DOMAIN emitting' :
              emitting'[k] = IF k <= Len(apis) THEN apis[k] ELSE data[k - Len(apis)]
         /\ Head(updates) \in Nat
<1> DEFINE m == IF n < Len(data) THEN n ELSE Len(data)
           A == Ids \ DataIds
<1> USE BaseParts
<1>0. pending \in Seq(Ids) /\ updates \in Seq(Nat) /\ updates # <<>>
  BY DEF QueueOK, TakeUpdate
<1>1. \A k \in DOMAIN pending : pending[k] \in Ids
  BY <1>0
<1>2. /\ apis \in Seq(Ids)
      /\ \A k \in DOMAIN apis : apis[k] \in A
      /\ \A k \in DOMAIN apis : \E l \in DOMAIN pending : apis[k] = pending[l]
      /\ Len(apis) = Cardinality({k \in DOMAIN pending : pending[k] \in A})
  <2> HIDE DEF A
  <2>1. apis = Among(pending, A)
    BY DEF A
  <2> QED
    BY <1>0, <2>1, Chosen
<1>3. /\ data \in Seq(Ids)
      /\ \A k \in DOMAIN data : data[k] \in DataIds
      /\ \A k \in DOMAIN data : \E l \in DOMAIN pending : data[k] = pending[l]
      /\ Len(data) = Cardinality({k \in DOMAIN pending : pending[k] \in DataIds})
  BY <1>0, Chosen
<1>4. /\ {k \in DOMAIN pending : pending[k] \in A} = {k \in DOMAIN pending : ~ IsDataQuery(pending[k])}
      /\ {k \in DOMAIN pending : pending[k] \in DataIds} = {k \in DOMAIN pending : IsDataQuery(pending[k])}
  BY <1>1 DEF DataIds
<1>5. \A k \in DOMAIN apis : ~ IsDataQuery(apis[k]) /\ apis[k] \in ToSet(pending)
  <2>1. \A k \in DOMAIN apis : apis[k] \in Ids /\ apis[k] \notin DataIds
    BY <1>2
  <2>2. \A k \in DOMAIN apis : apis[k] \in ToSet(pending)
    BY <1>2 DEF ToSet
  <2> QED
    BY <2>1, <2>2 DEF DataIds
<1>6. \A k \in DOMAIN data : IsDataQuery(data[k]) /\ data[k] \in ToSet(pending)
  BY <1>3 DEF DataIds, ToSet
<1>7. emitting' = apis \o SubSeq(data, 1, m)
  BY DEF TakeUpdate
<1>8. Head(updates) \in Nat /\ Len(apis) \in Nat /\ Len(data) \in Nat /\ MaxParallel \in Nat
  BY <1>0, <1>2, <1>3, RequestsAssumption
<1>9. m \in Nat /\ m <= Len(data) /\ n \in Nat
  BY <1>8 DEF Allowed
<1> HIDE DEF m
<1>10. /\ Len(emitting') = Len(apis) + m
       /\ \A k \in DOMAIN emitting' : emitting'[k] = IF k <= Len(apis) THEN apis[k] ELSE data[k - Len(apis)]
  BY <1>2, <1>3, <1>7, <1>9, AndSome
<1>13. Len(emitting') = Len(apis) + (IF n < Len(data) THEN n ELSE Len(data))
  BY <1>10 DEF m
<1> HIDE DEF A
<1> QED
  BY <1>2, <1>3, <1>4, <1>5, <1>6, <1>8, <1>9, <1>10, <1>13

\* None of a kind waits exactly when there are zero of it.
LEMMA NoneOfAKind ==
  ASSUME pending \in Seq(Ids)
  PROVE  /\ Cardinality({k \in DOMAIN pending : ~ IsDataQuery(pending[k])}) = 0 <=> AllData
         /\ Cardinality({k \in DOMAIN pending : IsDataQuery(pending[k])}) = 0
              => \A k \in DOMAIN pending : ~ IsDataQuery(pending[k])
<1> DEFINE a == {k \in DOMAIN pending : ~ IsDataQuery(pending[k])}
           d == {k \in DOMAIN pending : IsDataQuery(pending[k])}
<1>1. DOMAIN pending = 1..Len(pending) /\ Len(pending) \in Nat
  OBVIOUS
<1>2. IsFiniteSet(1..Len(pending))
  <2>1. 1 \in Int /\ Len(pending) \in Int
    BY <1>1
  <2> QED
    BY <2>1, FS_Interval
<1>3. a \in SUBSET (1..Len(pending)) /\ d \in SUBSET (1..Len(pending))
  BY <1>1
<1>4. a = {} <=> AllData
  BY DEF AllData
<1>5. d = {} => \A k \in DOMAIN pending : ~ IsDataQuery(pending[k])
  OBVIOUS
<1> HIDE DEF a, d
<1>6. IsFiniteSet(a) /\ IsFiniteSet(d)
  BY <1>2, <1>3, FS_Subset
<1>7. (Cardinality(a) = 0 <=> a = {}) /\ (Cardinality(d) = 0 <=> d = {})
  BY <1>6, FS_EmptySet
<1> QED
  BY <1>4, <1>5, <1>7 DEF a, d

\* The worker looks at an update: if it starts nothing and there is no other,
\* nothing could have been started.
LEMMA TakeKeepsIdle ==
  ASSUME IdleInv, TakeUpdate
  PROVE  LastUpdateCounts' /\ Served'
<1> USE BaseParts DEF IdleInv
<1>1. /\ pending' = pending /\ inProgress' = inProgress
      /\ updates \in Seq(Nat) /\ updates # <<>> /\ updates' = Tail(updates)
      /\ pending \in Seq(Ids)
  BY DEF TakeUpdate, QueueOK
<1> DEFINE u == Len(updates)
<1>0. /\ u \in Nat /\ u # 0 /\ Len(updates') = u - 1
      /\ \A k \in 1..(u - 1) : updates'[k] = updates[k + 1]
      /\ Head(updates) = updates[1]
  BY <1>1
<1>2. updates' # <<>> => Last(updates') = Last(updates)
  <2> HAVE updates' # <<>>
  <2>1. u - 1 # 0
    <3>1. updates' \in Seq(Nat)
      BY <1>1
    <3>2. Len(updates') # 0
      BY <3>1, EmptySeq
    <3> QED
      BY <3>2, <1>0
  <2>2. u - 1 \in 1..(u - 1) /\ (u - 1) + 1 = u
    BY <2>1, <1>0
  <2>3. updates'[u - 1] = updates[u]
    BY <2>2, <1>0
  <2> QED
    BY <2>3, <1>0 DEF Last
<1>3. updates' = <<>> => Head(updates) = Last(updates)
  <2> HAVE updates' = <<>>
  <2>1. Len(updates') = 0
    OBVIOUS
  <2>2. u = 1
    BY <2>1, <1>0
  <2> QED
    BY <2>2, <1>0 DEF Last
<1>4. LastUpdateCounts'
  BY <1>1, <1>2 DEF LastUpdateCounts
<1>5. ASSUME pending # <<>>, updates' = <<>>, emitting' = <<>>
      PROVE  AllData /\ Cardinality(inProgress) >= MaxParallel
  <2>1. Head(updates) = Cardinality(inProgress)
    BY <1>1, <1>3, <1>5 DEF LastUpdateCounts
  <2> DEFINE apis == Among(pending, Ids \ DataIds)
             data == Among(pending, DataIds)
             n == Allowed(Head(updates), Len(apis))
  <2>2. /\ apis \in Seq(Ids) /\ data \in Seq(Ids) /\ n \in Nat
        /\ Len(apis) = Cardinality({k \in DOMAIN pending : ~ IsDataQuery(pending[k])})
        /\ Len(data) = Cardinality({k \in DOMAIN pending : IsDataQuery(pending[k])})
        /\ Len(emitting') = Len(apis) + (IF n < Len(data) THEN n ELSE Len(data))
        /\ Head(updates) \in Nat
    BY EmittedNumbers
  <2>3. n = Allowed(Head(updates), Len(apis))
    OBVIOUS
  <2> HIDE DEF apis, data, n
  <2>4. Len(emitting') = 0 /\ Len(apis) \in Nat /\ Len(data) \in Nat
    BY <1>5, <2>2
  <2>5. Len(apis) = 0 /\ (n = 0 \/ Len(data) = 0)
    <3> DEFINE m == IF n < Len(data) THEN n ELSE Len(data)
    <3>1. m \in Nat /\ (m = 0 => n = 0 \/ Len(data) = 0)
      BY <2>2, <2>4
    <3>2. 0 = Len(apis) + m
      BY <2>2, <2>4
    <3> HIDE DEF m
    <3>3. m = 0 /\ Len(apis) = 0
      BY <3>1, <3>2, <2>4
    <3> QED
      BY <3>1, <3>3
  <2>6. AllData
    BY <1>1, <2>2, <2>5, NoneOfAKind
  <2>7. Len(data) # 0
    <3>1. 1 \in DOMAIN pending
      BY <1>1, <1>5
    <3> QED
      BY <1>1, <2>2, <2>6, <3>1, NoneOfAKind DEF AllData
  <2>8. n = 0
    BY <2>5, <2>7
  <2>9. Head(updates) >= MaxParallel
    <3> DEFINE h == Head(updates)
    <3>1. h \in Nat /\ MaxParallel \in Nat
      BY <2>2, RequestsAssumption
    <3>2. 0 = IF h + 0 < MaxParallel THEN MaxParallel - h - 0 ELSE 0
      BY <2>3, <2>5, <2>8 DEF Allowed
    <3> HIDE DEF h
    <3>3. h >= MaxParallel
      BY <3>1, <3>2
    <3> QED
      BY <3>3 DEF h
  <2> QED
    BY <2>1, <2>6, <2>9
<1>6. Served'
  BY <1>1, <1>5 DEF Served, AllData
<1> QED
  BY <1>4, <1>6

\* Every step keeps the bookkeeping of the worker.
LEMMA IdleStep ==
  ASSUME IdleInv, [Next]_vars
  PROVE  IdleInv'
<1> USE DEF IdleInv
<1>1. /\ BaseInv'
      /\ TakeUpdate \/ Publish(pending', inProgress') \/ (UNCHANGED queue /\ emitting' = emitting)
  BY BaseStep
<1>2. CASE TakeUpdate
  BY <1>1, <1>2, TakeKeepsIdle
<1>3. CASE Publish(pending', inProgress')
  <2>1. updates \in Seq(Nat) /\ pending' \in Seq(Ids) /\ inProgress' \in SUBSET Ids
    BY <1>1 DEF BaseInv, TypeOK
  <2>2. pending' # <<>> => updates' # <<>> /\ Last(updates') = Cardinality(inProgress')
    BY <1>3, <2>1, Published
  <2> QED
    BY <1>1, <2>2 DEF LastUpdateCounts, Served
<1>4. CASE UNCHANGED queue /\ emitting' = emitting
  BY <1>1, <1>4 DEF queue, LastUpdateCounts, Served, AllData
<1> QED
  BY <1>1, <1>2, <1>3, <1>4

\* At first nothing waits.
LEMMA InitIdle == Init => IdleInv
BY InitBase DEF Init, IdleInv, LastUpdateCounts, Served

\* No wake-up is lost, with callers that leave, are cancelled, superseded or
\* wait for several: at rest nothing of the api waits, and what waits for data
\* waits because all places are taken.
THEOREM NoWakeUpIsLost == Spec => []NoIdlePlace
<1>1. Init => IdleInv
  BY InitIdle
<1>2. IdleInv /\ [Next]_vars => IdleInv'
  BY IdleStep
<1>3. IdleInv => NoIdlePlace
  <2> SUFFICES ASSUME IdleInv, AtRest
               PROVE  /\ \A k \in DOMAIN pending : IsDataQuery(pending[k])
                      /\ pending # <<>> => Cardinality(inProgress) >= MaxParallel
    BY DEF NoIdlePlace
  <2>1. updates = <<>> /\ emitting = <<>>
    BY DEF AtRest, WorkerRests
  <2>2. CASE pending = <<>>
    BY <2>2
  <2>3. CASE pending # <<>>
    BY <2>1, <2>3 DEF IdleInv, Served, AllData
  <2> QED
    BY <2>2, <2>3
<1> QED
  BY <1>1, <1>2, <1>3, PTL DEF Spec

-----------------------------------------------------------------------------
(* The limit, and who holds the places, when every request has a caller of *)
(* its own                                                                 *)

Waiting == ToSet(pending)
Places == Cardinality(inProgress)

\* What waits was not started yet, and somebody waits for it unless the
\* present event ends it; the same of what is being started.
Queued ==
  /\ \A i \in Waiting : stream[i] = "queued" /\ (outcome[i] = "waiting" \/ i \in dropped)
  /\ starting # None => stream[starting] = "queued" /\ starting \notin Waiting

\* An update starts one entry at most: all that waits of the api, or one
\* request for data when a place is free.
OneIsEmitted ==
  /\ Len(emitting) <= 1
  /\ emitting # <<>> =>
       /\ updates = <<>> /\ starting = None
       /\ emitting[1] \in Waiting
       /\ IsDataQuery(emitting[1]) => Places < MaxParallel
       /\ \A i \in Waiting : IsDataQuery(i) \/ i = emitting[1]

\* Two wait only when all places but one are taken, all of them when one of
\* the two is of the api.
Pressed ==
  \A i, j \in Waiting : i # j =>
    /\ IsDataQuery(i) \/ IsDataQuery(j)
    /\ Places >= MaxParallel - 1
    /\ AllData \/ Places >= MaxParallel

\* An update that is not the last one has no place to give.
OldUpdates ==
  pending # <<>> /\ Len(updates) > 1 =>
    AllData /\ Len(updates) = 2 /\ updates[1] >= MaxParallel

\* While an entry is being started, what still waits is for data; until the
\* one it supersedes is gone all places are taken.
Working ==
  starting # None /\ pending # <<>> =>
    /\ AllData /\ updates # <<>>
    /\ superseded # {} => Places >= MaxParallel /\ Len(updates) = 1

\* An entry supersedes one stream, which is under way.
Replacing ==
  /\ superseded \subseteq InFlight
  /\ \A i, j \in superseded : i = j
  /\ superseded # {} => starting # None

\* There is one stream under way for each requestId.
OneStreamPerId ==
  /\ \A i, j \in InFlight : SameRequestId(i, j) => i = j
  /\ starting # None => \A j \in InFlight : SameRequestId(starting, j) => j \in superseded

\* A place is of a stream under way, or about to be, that somebody waits for
\* or that is about to end.
Held ==
  \A i \in inProgress : /\ i \in InFlight \/ i = starting
                        /\ outcome[i] = "waiting" \/ i \in superseded \cup dropped

Limited == Cardinality(inProgress \cap DataIds) <= MaxParallel

CalmQueue == OneIsEmitted /\ Pressed /\ OldUpdates /\ Working /\ Limited
CalmStreams == Queued /\ Replacing /\ OneStreamPerId /\ Held
CalmInv == IdleInv /\ (together = {} => CalmQueue /\ CalmStreams)

\* Callers who wait for one request each leave no other.
LEMMA LoneCallers == together = {} => \A i : Siblings(i) = {}
BY DEF Siblings

\* An id is no absence of one.
LEMMA NoneIsNoId == None \notin Ids
BY DEF None, Ids, Own, Ping

\* The numbers the proofs below are about.
LEMMA PlaceNumbers ==
  ASSUME QueueOK
  PROVE  /\ Places \in Nat /\ IsFiniteSet(inProgress)
         /\ Cardinality(inProgress \cap DataIds) \in Nat
         /\ Cardinality(inProgress \cap DataIds) <= Places
         /\ MaxParallel \in Nat /\ MaxParallel # 0
<1>1. inProgress \in SUBSET Ids /\ inProgress \cap DataIds \in SUBSET Ids
  BY DEF QueueOK
<1>2. IsFiniteSet(inProgress) /\ Cardinality(inProgress) \in Nat /\ Cardinality(inProgress \cap DataIds) \in Nat
  BY <1>1, CountedPlaces
<1>3. inProgress \cap DataIds \in SUBSET inProgress
  OBVIOUS
<1>4. Cardinality(inProgress \cap DataIds) <= Cardinality(inProgress)
  BY <1>2, <1>3, FS_Subset
<1> QED
  BY <1>2, <1>4, RequestsAssumption DEF Places

\* The kind of all that waits, and whether anything does.
LEMMA WaitingIs ==
  ASSUME pending \in Seq(Ids)
  PROVE  /\ AllData <=> \A i \in Waiting : IsDataQuery(i)
         /\ pending = <<>> <=> Waiting = {}
         /\ Waiting \subseteq Ids
<1>1. DOMAIN pending = 1..Len(pending) /\ Len(pending) \in Nat
  OBVIOUS
<1>2. AllData <=> \A i \in Waiting : IsDataQuery(i)
  BY DEF AllData, Waiting, ToSet
<1>3. pending # <<>> => 1 \in DOMAIN pending
  BY <1>1
<1>4. pending = <<>> <=> Waiting = {}
  BY <1>3 DEF Waiting, ToSet
<1>5. Waiting \subseteq Ids
  BY DEF Waiting, ToSet
<1> QED
  BY <1>2, <1>4, <1>5

\* The same of the state after a step.
LEMMA WaitingIsAfter ==
  ASSUME pending' \in Seq(Ids)
  PROVE  /\ AllData' <=> \A i \in Waiting' : IsDataQuery(i)
         /\ pending' = <<>> <=> Waiting' = {}
         /\ Waiting' \subseteq Ids
<1>1. DOMAIN pending' = 1..Len(pending') /\ Len(pending') \in Nat
  OBVIOUS
<1>2. AllData' <=> \A i \in Waiting' : IsDataQuery(i)
  BY DEF AllData, Waiting, ToSet, IsDataQuery
<1>3. pending' # <<>> => 1 \in DOMAIN pending'
  BY <1>1
<1>4. pending' = <<>> <=> Waiting' = {}
  BY <1>3 DEF Waiting, ToSet
<1>5. Waiting' \subseteq Ids
  BY DEF Waiting, ToSet, Ids, Own, Ping
<1> QED
  BY <1>2, <1>4, <1>5

\* One place less, or none.
LEMMA OneLess ==
  ASSUME NEW S, IsFiniteSet(S), Cardinality(S) \in Nat, NEW i
  PROVE  Cardinality(S \ {i}) >= Cardinality(S) - 1
<1>1. Cardinality(S \ {i}) = IF i \in S THEN Cardinality(S) - 1 ELSE Cardinality(S)
  BY FS_RemoveElement
<1> QED
  BY <1>1

\* The only one.
LEMMA OnlyOne == \A x : Len(<<x>>) = 1 /\ ~ Len(<<x>>) > 1 /\ <<x>>[1] = x /\ <<x>> # <<>>
OBVIOUS

\* A list of one entry.
LEMMA OneLong ==
  ASSUME NEW T, NEW s \in Seq(T), s # <<>>, Len(s) <= 1
  PROVE  Len(s) = 1 /\ Head(s) = s[1] /\ Tail(s) = <<>>
<1>1. Len(s) \in Nat \ {0}
  BY EmptySeq
<1>2. Len(s) = 1
  BY <1>1
<1>3. Head(s) = s[1]
  OBVIOUS
<1>4. Tail(s) \in Seq(T) /\ Len(Tail(s)) = 0
  BY <1>2
<1>5. Tail(s) = <<>>
  BY <1>4, EmptySeq
<1> QED
  BY <1>2, <1>3, <1>5

\* An event that happens at rest puts one entry in the queue or takes one
\* out: there is one update, and no more than one place is free for it.
LEMMA EventKeepsQueueCalm ==
  ASSUME IdleInv, CalmQueue, QueueOK', WorkerRests, emitting' = emitting, starting' = starting,
         Publish(pending', inProgress'), NEW i \in Ids,
         \/ Waiting' = Waiting \cup {i} /\ inProgress' = inProgress
         \/ Waiting' = Waiting \ {i} /\ inProgress' = inProgress \ {i}
  PROVE  CalmQueue'
<1> USE BaseParts DEF IdleInv, CalmQueue
<1>1. emitting = <<>> /\ updates = <<>> /\ starting = None /\ updates \in Seq(Nat)
  BY DEF WorkerRests
<1>2. pending \in Seq(Ids) /\ pending' \in Seq(Ids) /\ inProgress' \in SUBSET Ids
  BY DEF QueueOK
<1>3. /\ pending' = <<>> => updates' = <<>>
      /\ pending' # <<>> => updates' = <<Places'>>
  BY <1>1, <1>2, Published DEF Places
<1>4. Waiting # {} => (\A j \in Waiting : IsDataQuery(j)) /\ Places >= MaxParallel
  BY <1>1, <1>2, WaitingIs DEF Served, Places
<1>5. Places \in Nat /\ Places' \in Nat /\ MaxParallel \in Nat /\ Places' >= Places - 1
  <2>1. Places \in Nat /\ MaxParallel \in Nat /\ IsFiniteSet(inProgress)
    BY PlaceNumbers
  <2>2. Places' \in Nat
    BY <1>2, CountedPlaces DEF Places
  <2>3. inProgress' = inProgress \/ inProgress' = inProgress \ {i}
    OBVIOUS
  <2>4. Cardinality(inProgress \ {i}) >= Cardinality(inProgress) - 1
    BY <2>1, OneLess DEF Places
  <2>5. Cardinality(inProgress') >= Cardinality(inProgress) - 1
    <3>1. CASE inProgress' = inProgress
      BY <3>1, <2>1 DEF Places
    <3>2. CASE inProgress' = inProgress \ {i}
      BY <3>2, <2>4
    <3> QED
      BY <3>1, <3>2, <2>3
  <2> QED
    BY <2>1, <2>2, <2>5 DEF Places
<1>6. inProgress' = inProgress => Places' = Places
  BY DEF Places
<1>7. OneIsEmitted'
  BY <1>1 DEF OneIsEmitted
<1>8. Pressed'
  <2> SUFFICES ASSUME NEW j \in Waiting', NEW k \in Waiting', j # k
               PROVE  /\ IsDataQuery(j) \/ IsDataQuery(k)
                      /\ Places' >= MaxParallel - 1
                      /\ AllData' \/ Places' >= MaxParallel
    BY DEF Pressed
  <2>1. j \in Waiting \/ k \in Waiting
    OBVIOUS
  <2>2. (\A l \in Waiting : IsDataQuery(l)) /\ Places >= MaxParallel
    BY <2>1, <1>4
  <2>3. CASE Waiting' = Waiting \cup {i} /\ inProgress' = inProgress
    BY <2>1, <2>2, <2>3, <1>5, <1>6
  <2>4. CASE Waiting' = Waiting \ {i}
    <3>1. \A l \in Waiting' : IsDataQuery(l)
      BY <2>2, <2>4
    <3>2. AllData'
      BY <3>1, <1>2, WaitingIsAfter
    <3> QED
      BY <2>2, <3>1, <3>2, <1>5
  <2> QED
    BY <2>3, <2>4
<1>9. OldUpdates'
  <2>1. pending' # <<>> => ~ Len(updates') > 1
    BY <1>3, OnlyOne
  <2> QED
    BY <2>1 DEF OldUpdates
<1>10. Working'
  BY <1>1 DEF Working
<1>11. Limited'
  <2>1. IsFiniteSet(inProgress \cap DataIds) /\ Cardinality(inProgress \cap DataIds) \in Nat
    BY CountedPlaces DEF QueueOK
  <2>2. inProgress' \cap DataIds \in SUBSET (inProgress \cap DataIds)
    OBVIOUS
  <2>3. Cardinality(inProgress' \cap DataIds) <= Cardinality(inProgress \cap DataIds)
    BY <2>1, <2>2, FS_Subset
  <2>4. Cardinality(inProgress' \cap DataIds) \in Nat
    BY <1>2, CountedPlaces
  <2>5. Cardinality(inProgress' \cap DataIds) <= MaxParallel
    BY <2>1, <2>3, <2>4, <1>5 DEF Limited
  <2>6. DataIds' = DataIds
    BY DEF DataIds, Ids, Own, Ping, IsDataQuery
  <2> QED
    BY <2>5, <2>6 DEF Limited
<1> QED
  BY <1>7, <1>8, <1>9, <1>10, <1>11

\* Starting an entry takes a place.
LEMMA StartKeepsQueueCalm ==
  ASSUME IdleInv, CalmQueue, Start
  PROVE  CalmQueue'
<1> USE BaseParts DEF IdleInv, CalmQueue
<1> DEFINE e == emitting[1]
<1>1. emitting \in Seq(Ids) /\ emitting # <<>> /\ Len(emitting) = 1 /\ Head(emitting) = e
  <2>1. emitting \in Seq(Ids) /\ emitting # <<>> /\ Len(emitting) <= 1
    BY DEF Start, OneIsEmitted
  <2> QED
    BY <2>1, OneLong
<1>2. /\ updates = <<>> /\ e \in Waiting
      /\ IsDataQuery(e) => Places < MaxParallel
      /\ \A i \in Waiting : IsDataQuery(i) \/ i = e
  BY <1>1 DEF OneIsEmitted
<1>3. /\ emitting' = Tail(emitting) /\ starting' = e
      /\ BaseInv' /\ Publish(pending', inProgress')
      /\ pending' = Without(e) /\ inProgress' = inProgress \cup {e}
  BY <1>1, StartKeepsBase DEF Start
<1>4. emitting' = <<>>
  BY <1>1, <1>3
<1>5. pending \in Seq(Ids) /\ pending' \in Seq(Ids) /\ inProgress' \in SUBSET Ids /\ e \in Ids
  <2>1. pending \in Seq(Ids)
    BY DEF QueueOK
  <2>2. pending' \in Seq(Ids) /\ inProgress' \in SUBSET Ids
    BY <1>3 DEF BaseInv, TypeOK
  <2>3. e \in Ids
    BY <2>1, <1>2, WaitingIs
  <2> QED
    BY <2>1, <2>2, <2>3
<1> HIDE DEF e
<1>6. Waiting' = Waiting \ {e}
  BY <1>3, <1>5, WithoutIs DEF Waiting
<1>7. /\ pending' = <<>> => updates' = <<>>
      /\ pending' # <<>> => updates' = <<Places'>>
  BY <1>2, <1>3, <1>5, Published DEF Places
<1>8. Places \in Nat /\ MaxParallel \in Nat /\ Places' = Places + 1
  <2>1. e \notin inProgress /\ IsFiniteSet(inProgress)
    BY <1>2, PlaceNumbers DEF QueueOK, Waiting
  <2>2. Cardinality(inProgress \cup {e}) = Cardinality(inProgress) + 1
    BY <2>1, FS_AddElement
  <2> QED
    BY <2>2, <1>3, PlaceNumbers DEF Places
<1>9. AllData'
  BY <1>2, <1>5, <1>6, WaitingIsAfter
<1>10. ASSUME NEW y \in Waiting'
       PROVE  Places' >= MaxParallel
  <2>1. y \in Waiting /\ y # e
    BY <1>6
  <2>2. Places >= MaxParallel - 1
    BY <2>1, <1>2 DEF Pressed
  <2> QED
    BY <2>2, <1>8
<1>11. OneIsEmitted'
  BY <1>4 DEF OneIsEmitted
<1>12. Pressed'
  <2> SUFFICES ASSUME NEW j \in Waiting', NEW k \in Waiting', j # k
               PROVE  /\ IsDataQuery(j) \/ IsDataQuery(k)
                      /\ Places' >= MaxParallel - 1
                      /\ AllData' \/ Places' >= MaxParallel
    BY DEF Pressed
  <2>1. IsDataQuery(j)
    BY <1>9, <1>5, WaitingIsAfter
  <2>2. Places' >= MaxParallel
    BY <1>10
  <2> QED
    BY <2>1, <2>2, <1>8, <1>9
<1>13. OldUpdates'
  <2>1. pending' # <<>> => ~ Len(updates') > 1
    BY <1>7, OnlyOne
  <2> QED
    BY <2>1 DEF OldUpdates
<1>14. Working'
  <2> SUFFICES ASSUME pending' # <<>>
               PROVE  /\ AllData' /\ updates' # <<>>
                      /\ Places' >= MaxParallel /\ Len(updates') = 1
    BY DEF Working
  <2>1. PICK y \in Waiting' : TRUE
    BY <1>5, WaitingIsAfter
  <2> QED
    BY <2>1, <1>7, <1>9, <1>10, OnlyOne
<1>15. Limited'
  <2>0. DataIds' = DataIds
    BY DEF DataIds, Ids, Own, Ping, IsDataQuery
  <2>1. CASE IsDataQuery(e)
    <3>1. Places' <= MaxParallel
      BY <2>1, <1>2, <1>8
    <3>2. Cardinality(inProgress' \cap DataIds) <= Cardinality(inProgress')
      <4>1. inProgress' \cap DataIds \in SUBSET inProgress'
        OBVIOUS
      <4>2. IsFiniteSet(inProgress')
        BY <1>5, CountedPlaces
      <4> QED
        BY <4>1, <4>2, FS_Subset
    <3>3. Cardinality(inProgress' \cap DataIds) \in Nat
      BY <1>5, CountedPlaces
    <3>4. Cardinality(inProgress' \cap DataIds) <= MaxParallel
      BY <3>1, <3>2, <3>3, <1>8 DEF Places
    <3> QED
      BY <3>4, <2>0 DEF Limited
  <2>2. CASE ~ IsDataQuery(e)
    <3>1. inProgress' \cap DataIds = inProgress \cap DataIds
      BY <2>2, <1>3 DEF DataIds
    <3> QED
      BY <3>1, <2>0 DEF Limited
  <2> QED
    BY <2>1, <2>2
<1> QED
  BY <1>11, <1>12, <1>13, <1>14, <1>15

\* The stream that is superseded gives its place back while the entry that
\* supersedes it is being started.
LEMMA ReplacedKeepsQueueCalm ==
  ASSUME IdleInv, CalmQueue, Replacing, Queued, NEW i \in superseded, TearDown(i)
  PROVE  CalmQueue'
<1> USE BaseParts DEF IdleInv, CalmQueue
<1>1. i \in Ids /\ stream[i] # "queued" /\ starting # None /\ superseded' = {}
  BY DEF Replacing, InFlight, TearDown
<1>2. /\ BaseInv' /\ Publish(pending', inProgress')
      /\ pending' = Without(i) /\ inProgress' = inProgress \ {i}
      /\ emitting' = emitting /\ starting' = starting
  BY <1>1, TearDownKeepsBase DEF TearDown, worker
<1>3. pending \in Seq(Ids) /\ pending' \in Seq(Ids) /\ inProgress' \in SUBSET Ids /\ updates \in Seq(Nat)
  BY <1>2 DEF BaseInv, TypeOK
<1>4. Waiting' = Waiting
  <2>1. i \notin Waiting
    BY <1>1 DEF Queued
  <2>2. Waiting' = Waiting \ {i}
    BY <1>2, <1>3, WithoutIs DEF Waiting
  <2> QED
    BY <2>1, <2>2
<1>5. AllData' <=> AllData
  BY <1>3, <1>4, WaitingIs, WaitingIsAfter
<1>6. pending' = <<>> <=> pending = <<>>
  BY <1>3, <1>4, WaitingIs, WaitingIsAfter
<1>7. Places \in Nat /\ MaxParallel \in Nat /\ Places' \in Nat /\ Places' >= Places - 1
  <2>1. IsFiniteSet(inProgress) /\ Places \in Nat /\ MaxParallel \in Nat
    BY PlaceNumbers
  <2>2. Places' \in Nat
    BY <1>3, CountedPlaces DEF Places
  <2>3. Cardinality(inProgress \ {i}) >= Cardinality(inProgress) - 1
    BY <2>1, OneLess DEF Places
  <2> QED
    BY <2>1, <2>2, <2>3, <1>2 DEF Places
<1>8. pending # <<>> =>
        /\ AllData /\ updates # <<>> /\ Places >= MaxParallel /\ Len(updates) = 1
        /\ updates[1] = Places
        /\ updates' # <<>> /\ Len(updates') = 2 /\ updates'[1] = updates[1]
  <2> HAVE pending # <<>>
  <2>1. AllData /\ updates # <<>> /\ Places >= MaxParallel /\ Len(updates) = 1
    BY <1>1 DEF Working
  <2>2. updates[1] = Places
    BY <2>1 DEF LastUpdateCounts, Last, Places
  <2>3. /\ updates' # <<>> /\ Len(updates') = Len(updates) + 1
        /\ \A k \in DOMAIN updates : updates'[k] = updates[k]
    BY <1>2, <1>3, <1>6, Published
  <2>4. 1 \in DOMAIN updates
    BY <2>1, <1>3
  <2> QED
    BY <2>1, <2>2, <2>3, <2>4
<1>9. emitting = <<>>
  BY <1>1 DEF OneIsEmitted
<1>10. OneIsEmitted'
  BY <1>2, <1>9 DEF OneIsEmitted
<1>11. Pressed'
  <2> SUFFICES ASSUME NEW j \in Waiting', NEW k \in Waiting', j # k
               PROVE  /\ IsDataQuery(j) \/ IsDataQuery(k)
                      /\ Places' >= MaxParallel - 1
                      /\ AllData' \/ Places' >= MaxParallel
    BY DEF Pressed
  <2>1. pending # <<>>
    BY <1>3, <1>4, WaitingIs
  <2>2. IsDataQuery(j)
    BY <2>1, <1>3, <1>4, <1>8, WaitingIs
  <2> QED
    BY <2>1, <2>2, <1>5, <1>7, <1>8
<1>12. OldUpdates'
  BY <1>5, <1>6, <1>8 DEF OldUpdates
<1>13. Working'
  BY <1>1, <1>5, <1>6, <1>8 DEF Working
<1>14. Limited'
  <2>0. DataIds' = DataIds
    BY DEF DataIds, Ids, Own, Ping, IsDataQuery
  <2>1. IsFiniteSet(inProgress \cap DataIds) /\ Cardinality(inProgress \cap DataIds) \in Nat
    BY CountedPlaces DEF QueueOK
  <2>2. inProgress' \cap DataIds \in SUBSET (inProgress \cap DataIds)
    BY <1>2
  <2>3. Cardinality(inProgress' \cap DataIds) <= Cardinality(inProgress \cap DataIds)
    BY <2>1, <2>2, FS_Subset
  <2>4. Cardinality(inProgress' \cap DataIds) \in Nat
    BY <1>3, CountedPlaces
  <2> QED
    BY <2>0, <2>1, <2>3, <2>4, <1>7 DEF Limited
<1> QED
  BY <1>10, <1>11, <1>12, <1>13, <1>14

\* Two that are not to be found make one at most.
LEMMA AtMostOne ==
  ASSUME NEW S, IsFiniteSet(S), \A a, b \in S : a = b
  PROVE  Cardinality(S) = 0 \/ Cardinality(S) = 1
<1>1. CASE S = {}
  BY <1>1, FS_EmptySet
<1>2. CASE S # {}
  <2>1. PICK x : S = {x}
    BY <1>2
  <2> QED
    BY <2>1, FS_Singleton
<1> QED
  BY <1>1, <1>2

\* One call of the api waits at most.
LEMMA OneApiWaits ==
  ASSUME QueueOK, Pressed
  PROVE  LET n == Cardinality({k \in DOMAIN pending : ~ IsDataQuery(pending[k])})
         IN  n = 0 \/ n = 1
<1> DEFINE S == {k \in DOMAIN pending : ~ IsDataQuery(pending[k])}
<1>1. DOMAIN pending = 1..Len(pending) /\ Len(pending) \in Nat
  BY DEF QueueOK
<1>2. IsFiniteSet(1..Len(pending))
  <2>1. 1 \in Int /\ Len(pending) \in Int
    BY <1>1
  <2> QED
    BY <2>1, FS_Interval
<1>3. S \in SUBSET (1..Len(pending))
  BY <1>1
<1>4. ASSUME NEW a \in S, NEW b \in S
      PROVE  a = b
  <2>1. pending[a] \in Waiting /\ pending[b] \in Waiting
    BY DEF Waiting, ToSet
  <2>2. pending[a] = pending[b]
    BY <2>1 DEF Pressed
  <2> QED
    BY <2>2 DEF QueueOK, IsInjective
<1> HIDE DEF S
<1>5. IsFiniteSet(S)
  BY <1>2, <1>3, FS_Subset
<1>6. Cardinality(S) = 0 \/ Cardinality(S) = 1
  BY <1>4, <1>5, AtMostOne
<1> QED
  BY <1>6 DEF S

\* How many an update starts, from how many there are of each kind.
LEMMA EmittedLength ==
  ASSUME NEW a \in Nat, NEW d \in Nat, NEW n \in Nat,
         NEW e, e = a + (IF n < d THEN n ELSE d)
  PROVE  /\ e \in Nat
         /\ n = 0 \/ d = 0 => e = a
         /\ a = 0 => e <= n /\ e <= d
OBVIOUS

\* An update starts one entry at most.
LEMMA TakeKeepsQueueCalm ==
  ASSUME IdleInv, CalmQueue, TakeUpdate
  PROVE  CalmQueue'
<1> USE BaseParts DEF IdleInv
<1>1. /\ pending' = pending /\ inProgress' = inProgress /\ starting' = starting
      /\ starting = None /\ updates # <<>> /\ updates' = Tail(updates)
      /\ pending \in Seq(Ids) /\ updates \in Seq(Nat)
  BY DEF TakeUpdate, QueueOK
<1>2. /\ Len(updates) \in Nat \ {0} /\ Len(updates') = Len(updates) - 1
      /\ Head(updates) = updates[1]
  <2>1. Len(updates) \in Nat \ {0}
    BY <1>1, EmptySeq
  <2> QED
    BY <1>1, <2>1
<1>3. Waiting' = Waiting /\ Places' = Places /\ (AllData' <=> AllData)
  BY <1>1 DEF Waiting, Places, AllData
<1>4. /\ AllData <=> \A i \in Waiting : IsDataQuery(i)
      /\ pending = <<>> <=> Waiting = {}
      /\ Places \in Nat /\ MaxParallel \in Nat /\ MaxParallel # 0
  BY <1>1, WaitingIs, PlaceNumbers
<1> DEFINE apis == Among(pending, Ids \ DataIds)
           data == Among(pending, DataIds)
           h == Head(updates)
           n == Allowed(h, Len(apis))
<1>5. /\ apis \in Seq(Ids) /\ data \in Seq(Ids) /\ n \in Nat
      /\ \A k \in DOMAIN apis : ~ IsDataQuery(apis[k]) /\ apis[k] \in ToSet(pending)
      /\ \A k \in DOMAIN data : IsDataQuery(data[k]) /\ data[k] \in ToSet(pending)
      /\ Len(apis) = Cardinality({k \in DOMAIN pending : ~ IsDataQuery(pending[k])})
      /\ Len(data) = Cardinality({k \in DOMAIN pending : IsDataQuery(pending[k])})
      /\ Len(emitting') = Len(apis) + (IF n < Len(data) THEN n ELSE Len(data))
      /\ \A k \in DOMAIN emitting' : emitting'[k] = IF k <= Len(apis) THEN apis[k] ELSE data[k - Len(apis)]
      /\ h \in Nat
  BY EmittedNumbers
<1>6. n = IF h + Len(apis) < MaxParallel THEN MaxParallel - h - Len(apis) ELSE 0
  BY DEF Allowed
<1> HIDE DEF apis, data, n, h
<1>7. Len(apis) = 0 \/ Len(apis) = 1
  BY <1>5, OneApiWaits DEF CalmQueue
<1>8. Len(apis) = 0 <=> AllData
  BY <1>1, <1>5, NoneOfAKind
<1>9. Len(apis) \in Nat /\ Len(data) \in Nat /\ Len(emitting') \in Nat
      /\ DOMAIN apis = 1..Len(apis) /\ DOMAIN data = 1..Len(data)
  BY <1>5, <1>7
<1>10. BaseInv' /\ emitting' \in Seq(Ids)
  BY TakeKeepsBase DEF BaseInv, TypeOK
<1> DEFINE e == Len(emitting')
<1>19. /\ e \in Nat
       /\ n = 0 \/ Len(data) = 0 => e = Len(apis)
       /\ Len(apis) = 0 => e <= n /\ e <= Len(data)
  <2>1. n \in Nat /\ e = Len(apis) + (IF n < Len(data) THEN n ELSE Len(data))
    BY <1>5
  <2> HIDE DEF e
  <2> QED
    BY <2>1, <1>9, EmittedLength
<1>20. e # 0 => emitting'[1] = IF Len(apis) = 0 THEN data[1] ELSE apis[1]
  <2> HAVE e # 0
  <2>1. 1 \in DOMAIN emitting'
    <3>1. DOMAIN emitting' = 1..e
      BY <1>10
    <3> QED
      BY <3>1, <1>19
  <2>2. emitting'[1] = IF 1 <= Len(apis) THEN apis[1] ELSE data[1 - Len(apis)]
    BY <2>1, <1>5
  <2> QED
    BY <2>2, <1>7
<1>11. Waiting = {} => Len(emitting') = 0
  <2> HAVE Waiting = {}
  <2>1. Len(apis) = 0
    BY <1>4, <1>8
  <2>2. Len(data) = 0
    <3>1. ~ 1 \in DOMAIN data
      BY <1>5 DEF Waiting
    <3> QED
      BY <3>1, <1>9
  <2> QED
    BY <2>1, <2>2, <1>19
\* An update that is not the last one starts nothing.
<1>12. Len(updates) # 1 => Len(emitting') = 0
  <2> SUFFICES ASSUME Len(updates) # 1, Waiting # {} PROVE Len(emitting') = 0
    BY <1>11
  <2>1. AllData /\ h >= MaxParallel
    BY <1>2, <1>4 DEF CalmQueue, OldUpdates, h
  <2>2. Len(apis) = 0
    BY <2>1, <1>8
  <2>3. n = 0
    <3>1. h \in Nat
      BY <1>5
    <3> QED
      BY <3>1, <2>1, <2>2, <1>4, <1>6
  <2> QED
    BY <2>2, <2>3, <1>19
\* The last one starts one entry at most.
<1>13. ASSUME Len(updates) = 1, Waiting # {}
       PROVE  /\ Len(emitting') <= 1
              /\ Len(emitting') # 0 =>
                   /\ updates' = <<>>
                   /\ emitting'[1] \in Waiting
                   /\ IsDataQuery(emitting'[1]) => Places < MaxParallel
                   /\ \A i \in Waiting : IsDataQuery(i) \/ i = emitting'[1]
  <2>1. h = Places
    BY <1>1, <1>4, <1>13 DEF LastUpdateCounts, Last, Places, h
  <2>2. updates' = <<>>
    BY <1>1, <1>13, OneLong
  <2>3. CASE Len(apis) = 1
    <3>1. apis[1] \in Waiting /\ ~ IsDataQuery(apis[1])
      BY <2>3, <1>5, <1>9 DEF Waiting
    <3>2. \A i \in Waiting : i # apis[1] => IsDataQuery(i) /\ Places >= MaxParallel
      BY <3>1, <1>4 DEF CalmQueue, Pressed
    <3>3. n = 0 \/ Len(data) = 0
      <4>1. CASE Len(data) # 0
        <5>0. 1 \in DOMAIN data
          BY <4>1, <1>9
        <5>1. data[1] \in Waiting /\ IsDataQuery(data[1])
          BY <5>0, <1>5 DEF Waiting
        <5>2. Places >= MaxParallel
          BY <5>1, <3>1, <3>2
        <5>3. h + Len(apis) >= MaxParallel
          BY <5>2, <2>1, <2>3, <1>4
        <5> QED
          BY <5>3, <2>1, <2>3, <1>4, <1>6
      <4> QED
        BY <4>1
    <3>4. Len(emitting') = 1
      BY <3>3, <2>3, <1>19
    <3>5. emitting'[1] = apis[1]
      BY <3>4, <2>3, <1>20
    <3> QED
      BY <2>2, <3>1, <3>2, <3>4, <3>5
  <2>4. CASE Len(apis) = 0
    <3>1. AllData
      BY <2>4, <1>8
    <3>2. Len(data) > 1 => Places >= MaxParallel - 1
      <4> SUFFICES ASSUME Len(data) > 1 PROVE Places >= MaxParallel - 1
        OBVIOUS
      <4>1. \E x, y \in Waiting : x # y
        <5> SUFFICES ASSUME \A x, y \in Waiting : x = y PROVE FALSE
          OBVIOUS
        <5> DEFINE S == {k \in DOMAIN pending : IsDataQuery(pending[k])}
        <5>1. DOMAIN pending = 1..Len(pending) /\ Len(pending) \in Nat
          BY <1>1
        <5>2. IsFiniteSet(1..Len(pending))
          <6>1. 1 \in Int /\ Len(pending) \in Int
            BY <5>1
          <6> QED
            BY <6>1, FS_Interval
        <5>3. S \in SUBSET (1..Len(pending))
          BY <5>1
        <5>4. ASSUME NEW a \in S, NEW b \in S
              PROVE  a = b
          <6>1. pending[a] \in Waiting /\ pending[b] \in Waiting
            BY DEF Waiting, ToSet
          <6>2. pending[a] = pending[b]
            BY <6>1
          <6> QED
            BY <6>2 DEF QueueOK, IsInjective
        <5> HIDE DEF S
        <5>5. IsFiniteSet(S)
          BY <5>2, <5>3, FS_Subset
        <5>6. Cardinality(S) = 0 \/ Cardinality(S) = 1
          BY <5>4, <5>5, AtMostOne
        <5>7. Len(data) = Cardinality(S)
          BY <1>5 DEF S
        <5> QED
          BY <5>6, <5>7
      <4> QED
        BY <4>1 DEF CalmQueue, Pressed
    <3>3. Len(data) > 1 => n <= 1
      BY <3>2, <2>1, <2>4, <1>4, <1>6
    <3>4. e <= 1
      <4>1. e <= n /\ e <= Len(data) /\ n \in Nat
        BY <2>4, <1>5, <1>19
      <4> QED
        BY <4>1, <3>3, <1>9, <1>19
    <3>6. ASSUME Len(emitting') # 0
          PROVE  emitting'[1] = data[1] /\ data[1] \in Waiting /\ Places < MaxParallel
      <4>1. n # 0 /\ Len(data) # 0 /\ n \in Nat
        BY <2>4, <3>6, <1>5, <1>9, <1>19
      <4>2. 1 \in DOMAIN data
        BY <4>1, <1>9
      <4>3. emitting'[1] = data[1]
        BY <2>4, <3>6, <1>20
      <4>4. data[1] \in Waiting
        BY <4>2, <1>5 DEF Waiting
      <4>5. Places < MaxParallel
        BY <4>1, <2>1, <2>4, <1>4, <1>6
      <4> QED
        BY <4>3, <4>4, <4>5
    <3> QED
      BY <2>2, <3>1, <3>4, <3>6, <1>4
  <2> QED
    BY <1>7, <2>3, <2>4
<1>14. OneIsEmitted'
  <2>1. /\ Len(emitting') <= 1
        /\ Len(emitting') # 0 =>
             /\ updates' = <<>>
             /\ emitting'[1] \in Waiting
             /\ IsDataQuery(emitting'[1]) => Places < MaxParallel
             /\ \A i \in Waiting : IsDataQuery(i) \/ i = emitting'[1]
    <3>1. CASE Waiting = {}
      BY <3>1, <1>11
    <3>2. CASE Len(updates) # 1
      BY <3>2, <1>12
    <3>3. CASE Len(updates) = 1 /\ Waiting # {}
      BY <3>3, <1>13
    <3> QED
      BY <3>1, <3>2, <3>3
  <2>2. emitting' # <<>> => Len(emitting') # 0
    BY <1>10, EmptySeq
  <2> QED
    BY <2>1, <2>2, <1>1, <1>3 DEF OneIsEmitted
<1>15. Pressed'
  BY <1>3 DEF CalmQueue, Pressed
<1>16. OldUpdates'
  <2>1. pending # <<>> => ~ Len(updates') > 1
    <3> SUFFICES ASSUME pending # <<>>, Len(updates') > 1 PROVE FALSE
      OBVIOUS
    <3>1. Len(updates) > 1
      BY <1>2
    <3>2. Len(updates) = 2
      BY <3>1 DEF CalmQueue, OldUpdates
    <3> QED
      BY <3>2, <1>2
  <2> QED
    BY <2>1, <1>1 DEF OldUpdates
<1>17. Working'
  BY <1>1 DEF Working
<1>18. Limited'
  <2>1. DataIds' = DataIds
    BY DEF DataIds, Ids, Own, Ping, IsDataQuery
  <2> QED
    BY <2>1, <1>1 DEF CalmQueue, Limited
<1> QED
  BY <1>14, <1>15, <1>16, <1>17, <1>18 DEF CalmQueue

\* A step that leaves the queue and the worker as they were, or ends the
\* start of an entry.
LEMMA QuietKeepsQueueCalm ==
  ASSUME IdleInv, CalmQueue, UNCHANGED queue, emitting' = emitting, superseded' = superseded,
         starting' = starting \/ starting' = None
  PROVE  CalmQueue'
<1> USE DEF CalmQueue
<1>1. pending' = pending /\ inProgress' = inProgress /\ updates' = updates
  BY DEF queue
<1>2. Waiting' = Waiting /\ Places' = Places /\ (AllData' <=> AllData)
  BY <1>1 DEF Waiting, Places, AllData
<1>3. OneIsEmitted'
  BY <1>1, <1>2 DEF OneIsEmitted
<1>4. Pressed'
  BY <1>2 DEF Pressed
<1>5. OldUpdates'
  BY <1>1, <1>2 DEF OldUpdates
<1>6. Working'
  BY <1>1, <1>2 DEF Working
<1>7. Limited'
  <2>1. DataIds' = DataIds
    BY DEF DataIds, Ids, Own, Ping, IsDataQuery
  <2> QED
    BY <2>1, <1>1 DEF Limited
<1> QED
  BY <1>3, <1>4, <1>5, <1>6, <1>7

Flying == {"fetching", "pinging", "refetching"}

\* The streams under way, before and after a step.
LEMMA InFlightIs ==
  /\ \A i : i \in InFlight <=> i \in Ids /\ stream[i] \in Flying
  /\ \A i : i \in InFlight' <=> i \in Ids /\ stream'[i] \in Flying
  /\ Ids' = Ids
<1>1. Ids' = Ids
  BY DEF Ids, Own, Ping
<1>2. \A i : i \in InFlight <=> i \in Ids /\ stream[i] \in Flying
  BY DEF InFlight, Flying
<1>3. \A i : i \in InFlight' <=> i \in Ids /\ stream'[i] \in Flying
  BY <1>1 DEF InFlight, Flying
<1> QED
  BY <1>1, <1>2, <1>3

\* Two streams with the requestId of a third have that of each other.
LEMMA SameAsEach ==
  /\ \A i, j : SameRequestId(i, j) => SameRequestId(j, i)
  /\ \A i, j, k : SameRequestId(k, i) /\ SameRequestId(k, j) => SameRequestId(i, j)
BY DEF SameRequestId

\* At rest nothing is being started or ended.
LEMMA RestIs ==
  ASSUME AtRest
  PROVE  WorkerRests /\ starting = None /\ superseded = {} /\ dropped = {}
BY DEF AtRest, WorkerRests

\* A request that is fetched is queued, and waited for.
LEMMA FetchKeepsStreamsCalm ==
  ASSUME BaseInv, CalmStreams, NEW r \in Requests, Fetch(r)
  PROVE  CalmStreams' /\ Waiting' = Waiting \cup {Own(r)}
<1> USE BaseParts DEF CalmStreams
<1> DEFINE i == Own(r)
<1>1. i \in Ids /\ stream[i] = "none" /\ AtRest
  BY IdParts DEF Fetch
<1>2. i \notin Waiting \cup inProgress
  BY <1>1 DEF Listed, Waiting
<1>3. /\ stream' = [stream EXCEPT ![i] = "queued"] /\ outcome' = [outcome EXCEPT ![i] = "waiting"]
      /\ Add(i) /\ starting' = starting /\ superseded' = superseded /\ dropped' = dropped
  BY DEF Fetch, worker
<1> HIDE DEF i
<1>4. starting = None /\ superseded = {} /\ dropped = {}
  BY <1>1, RestIs
<1>5. Waiting' = Waiting \cup {i} /\ inProgress' = inProgress
  BY <1>1, <1>2, <1>3, Added DEF Waiting
<1>6. \A j \in Ids : j # i => stream'[j] = stream[j] /\ outcome'[j] = outcome[j]
  BY <1>3
<1>7. stream'[i] = "queued" /\ outcome'[i] = "waiting"
  BY <1>1, <1>3
<1>8. \A j : j \in InFlight' <=> j \in InFlight
  BY <1>1, <1>6, <1>7, InFlightIs DEF Flying
<1>9. Waiting \subseteq Ids /\ inProgress \subseteq Ids
  BY WaitingIs DEF QueueOK
<1>10. Queued'
  BY <1>3, <1>4, <1>5, <1>6, <1>7, <1>9 DEF Queued
<1>11. Replacing'
  BY <1>3, <1>4 DEF Replacing
<1>12. OneStreamPerId'
  BY <1>3, <1>4, <1>8 DEF OneStreamPerId
<1>13. Held'
  <2> SUFFICES ASSUME NEW j \in inProgress
               PROVE  /\ j \in InFlight' \/ j = starting'
                      /\ outcome'[j] = "waiting" \/ j \in superseded' \cup dropped'
    BY <1>5 DEF Held
  <2>1. j # i /\ j \in Ids
    BY <1>2, <1>9
  <2> QED
    BY <2>1, <1>3, <1>6, <1>8 DEF Held
<1> QED
  BY <1>5, <1>10, <1>11, <1>12, <1>13 DEF i

\* What ends gives up its place in the queue or among those in progress.
LEMMA TearDownKeepsStreamsCalm ==
  ASSUME BaseInv, CalmStreams, NEW i \in Ids, TearDown(i)
  PROVE  CalmStreams' /\ Waiting' = Waiting \ {i}
<1> USE BaseParts DEF CalmStreams
<1>1. /\ stream' = [stream EXCEPT ![i] = "ended"]
      /\ superseded' = superseded \ {i} /\ dropped' = dropped \ {i}
      /\ starting' = starting /\ outcome' = outcome
      /\ pending' = Without(i) /\ inProgress' = inProgress \ {i}
  BY TearDownKeepsBase DEF TearDown, worker
<1>2. Waiting' = Waiting \ {i}
  BY <1>1, WithoutIs DEF Waiting, QueueOK
<1>3. Waiting \subseteq Ids /\ inProgress \subseteq Ids
  BY WaitingIs DEF QueueOK
<1>4. starting # i
  <2>1. CASE i \in superseded
    <3>1. stream[i] # "queued"
      BY <2>1, InFlightIs DEF Replacing, Flying
    <3>2. starting # None
      BY <2>1 DEF Replacing
    <3> QED
      BY <3>1, <3>2 DEF Queued
  <2>2. CASE i \notin superseded
    <3>1. starting = None
      BY <2>2 DEF TearDown, WorkerRests
    <3> QED
      BY <3>1, NoneIsNoId
  <2> QED
    BY <2>1, <2>2
<1>5. \A j \in Ids : j # i => stream'[j] = stream[j]
  BY <1>1
<1>6. stream'[i] = "ended"
  BY <1>1
<1>7. \A j : j \in InFlight' <=> j \in InFlight /\ j # i
  BY <1>5, <1>6, InFlightIs DEF Flying
<1>8. starting # None => starting \in Ids
  OBVIOUS
<1>9. Queued'
  BY <1>1, <1>2, <1>3, <1>4, <1>5, <1>8 DEF Queued
<1>10. Replacing'
  <2>1. superseded' \subseteq InFlight'
    BY <1>1, <1>7 DEF Replacing
  <2>2. \A j, k \in superseded' : j = k
    BY <1>1 DEF Replacing
  <2>3. superseded' # {} => starting' # None
    BY <1>1 DEF Replacing
  <2> QED
    BY <2>1, <2>2, <2>3 DEF Replacing
<1>11. OneStreamPerId'
  <2>1. \A j, k \in InFlight' : SameRequestId(j, k) => j = k
    BY <1>7 DEF OneStreamPerId
  <2>2. starting' # None => \A j \in InFlight' : SameRequestId(starting', j) => j \in superseded'
    BY <1>1, <1>7 DEF OneStreamPerId
  <2> QED
    BY <2>1, <2>2 DEF OneStreamPerId
<1>12. Held'
  <2> SUFFICES ASSUME NEW j \in inProgress'
               PROVE  /\ j \in InFlight' \/ j = starting'
                      /\ outcome'[j] = "waiting" \/ j \in superseded' \cup dropped'
    BY DEF Held
  <2>1. j \in inProgress /\ j # i
    BY <1>1
  <2> QED
    BY <2>1, <1>1, <1>7 DEF Held
<1> QED
  BY <1>2, <1>9, <1>10, <1>11, <1>12

\* A request that is settled ends alone.
LEMMA SettledKeepsStreamsCalm ==
  ASSUME BaseInv, CalmStreams, together = {}, AtRest, NEW i \in Ids, stream[i] # "none",
         NEW result \in {"ok", "failed", "unauthorized", "cancelled"}, Settle(i, result)
  PROVE  CalmStreams' /\ Waiting' = Waiting \ {i} /\ inProgress' = inProgress \ {i}
<1> USE BaseParts DEF CalmStreams
<1>1. Siblings(i) = {}
  BY LoneCallers
<1>2. /\ stream' = [stream EXCEPT ![i] = "ended"]
      /\ outcome' = [j \in Ids |-> IF j = i THEN result ELSE outcome[j]]
      /\ dropped' = {} /\ superseded' = superseded /\ starting' = starting
      /\ Publish(Without(i), inProgress \ {i})
  BY <1>1 DEF Settle, SetDone, worker
<1>3. starting = None /\ superseded = {} /\ dropped = {}
  BY RestIs
<1>4. pending' = Without(i) /\ inProgress' = inProgress \ {i}
  BY <1>2 DEF Publish
<1>5. Waiting' = Waiting \ {i}
  BY <1>4, WithoutIs DEF Waiting, QueueOK
<1>6. Waiting \subseteq Ids /\ inProgress \subseteq Ids
  BY WaitingIs DEF QueueOK
<1>7. \A j \in Ids : j # i => stream'[j] = stream[j] /\ outcome'[j] = outcome[j]
  BY <1>2
<1>8. stream'[i] = "ended"
  BY <1>2
<1>9. \A j : j \in InFlight' <=> j \in InFlight /\ j # i
  BY <1>7, <1>8, InFlightIs DEF Flying
<1>10. Queued'
  BY <1>2, <1>3, <1>5, <1>6, <1>7 DEF Queued
<1>11. Replacing'
  BY <1>2, <1>3 DEF Replacing
<1>12. OneStreamPerId'
  BY <1>2, <1>3, <1>9 DEF OneStreamPerId
<1>13. Held'
  <2> SUFFICES ASSUME NEW j \in inProgress'
               PROVE  /\ j \in InFlight' \/ j = starting'
                      /\ outcome'[j] = "waiting" \/ j \in superseded' \cup dropped'
    BY DEF Held
  <2>1. j \in inProgress /\ j # i /\ j \in Ids
    BY <1>4, <1>6
  <2> QED
    BY <2>1, <1>2, <1>3, <1>7, <1>9 DEF Held
<1> QED
  BY <1>4, <1>5, <1>10, <1>11, <1>12, <1>13

\* A request whose session is tried stays under way; the ping is queued.
LEMMA PingKeepsStreamsCalm ==
  ASSUME BaseInv, CalmStreams, AtRest, NEW i \in Ids, NEW p \in Ids, p # i,
         stream[i] = "fetching", stream[p] = "none",
         stream' = [stream EXCEPT ![i] = "pinging", ![p] = "queued"],
         outcome' = [outcome EXCEPT ![p] = "waiting"],
         Add(p), starting' = starting, superseded' = superseded, dropped' = dropped
  PROVE  CalmStreams' /\ Waiting' = Waiting \cup {p} /\ inProgress' = inProgress
<1> USE BaseParts DEF CalmStreams
<1>1. p \notin Waiting \cup inProgress
  BY DEF Listed, Waiting
<1>2. starting = None /\ superseded = {} /\ dropped = {}
  BY RestIs
<1>3. Waiting' = Waiting \cup {p} /\ inProgress' = inProgress
  BY <1>1, Added DEF Waiting
<1>4. \A j \in Ids : /\ j # i /\ j # p => stream'[j] = stream[j]
                     /\ j # p => outcome'[j] = outcome[j]
  OBVIOUS
<1>5. stream'[i] = "pinging" /\ stream'[p] = "queued" /\ outcome'[p] = "waiting"
  OBVIOUS
<1>6. \A j : j \in InFlight' <=> j \in InFlight
  BY <1>4, <1>5, InFlightIs DEF Flying
<1>7. Waiting \subseteq Ids /\ inProgress \subseteq Ids
  BY WaitingIs DEF QueueOK
<1>8. i \notin Waiting
  BY DEF Queued
<1>9. Queued'
  <2> SUFFICES ASSUME NEW j \in Waiting'
               PROVE  stream'[j] = "queued" /\ (outcome'[j] = "waiting" \/ j \in dropped')
    BY <1>2 DEF Queued
  <2>1. CASE j = p
    BY <2>1, <1>5
  <2>2. CASE j # p
    <3>1. j \in Waiting /\ j \in Ids /\ j # i
      BY <2>2, <1>3, <1>7, <1>8
    <3> QED
      BY <2>2, <3>1, <1>2, <1>4 DEF Queued
  <2> QED
    BY <2>1, <2>2
<1>10. Replacing'
  BY <1>2 DEF Replacing
<1>11. OneStreamPerId'
  BY <1>2, <1>6 DEF OneStreamPerId
<1>12. Held'
  <2> SUFFICES ASSUME NEW j \in inProgress
               PROVE  /\ j \in InFlight' \/ j = starting'
                      /\ outcome'[j] = "waiting" \/ j \in superseded' \cup dropped'
    BY <1>3 DEF Held
  <2>1. j # p /\ j \in Ids
    BY <1>1, <1>7
  <2> QED
    BY <2>1, <1>2, <1>4, <1>6 DEF Held
<1> QED
  BY <1>3, <1>9, <1>10, <1>11, <1>12

\* An entry is started: it supersedes the one stream with its requestId.
LEMMA StartKeepsStreamsCalm ==
  ASSUME BaseInv, CalmStreams, CalmQueue, together = {}, Start
  PROVE  CalmStreams'
<1> USE BaseParts DEF CalmStreams
<1> DEFINE e == emitting[1]
           olds == Supersedes(e)
<1>1. emitting \in Seq(Ids) /\ emitting # <<>> /\ Head(emitting) = e
  BY DEF Start
<1>2. e \in Waiting
  BY <1>1 DEF CalmQueue, OneIsEmitted
<1>3. UNION {Siblings(j) : j \in olds} = {}
  BY LoneCallers
<1>4. /\ starting' = e /\ superseded' = olds /\ GiveUp(olds, {})
      /\ dropped' = dropped /\ stream' = stream
      /\ pending' = Without(e) /\ inProgress' = inProgress \cup {e}
  <2>1. pending' = Without(e) /\ inProgress' = inProgress \cup {e}
    BY <1>1, StartKeepsBase
  <2>2. /\ starting' = e /\ superseded' = olds \cup {} /\ GiveUp(olds, {})
        /\ dropped' = dropped /\ stream' = stream
    BY <1>1, <1>3 DEF Start
  <2> QED
    BY <2>1, <2>2
<1> HIDE DEF e
<1>5. starting = None /\ superseded = {}
  BY DEF Start, Replacing
<1>6. Waiting \subseteq Ids /\ inProgress \subseteq Ids /\ e \in Ids
  BY <1>2, WaitingIs DEF QueueOK
<1>7. Waiting' = Waiting \ {e}
  BY <1>4, WithoutIs DEF Waiting, QueueOK
<1>8. \A j : j \in olds <=> j \in InFlight /\ j # e /\ SameRequestId(e, j)
  BY DEF Supersedes
<1> HIDE DEF olds
<1>9. \A j : j \in InFlight' <=> j \in InFlight
  BY <1>4, InFlightIs
<1>10. stream[e] = "queued" /\ e \notin InFlight
  BY <1>2, InFlightIs DEF Queued, Flying
<1>11. \A j \in Ids : outcome[j] = "waiting" /\ j \notin olds => outcome'[j] = "waiting"
  BY <1>4, GivenUp
<1>12. ASSUME NEW j \in Waiting
       PROVE  j \notin olds
  BY <1>8, InFlightIs DEF Queued, Flying
<1>13. Queued'
  <2>1. ASSUME NEW j \in Waiting'
        PROVE  stream'[j] = "queued" /\ (outcome'[j] = "waiting" \/ j \in dropped')
    <3>1. j \in Waiting /\ j \in Ids
      BY <1>6, <1>7
    <3> QED
      BY <3>1, <1>4, <1>11, <1>12 DEF Queued
  <2>2. stream'[starting'] = "queued" /\ starting' \notin Waiting'
    BY <1>4, <1>7, <1>10
  <2> QED
    BY <2>1, <2>2 DEF Queued
<1>14. Replacing'
  <2>1. superseded' \subseteq InFlight'
    BY <1>4, <1>8, <1>9
  <2>2. ASSUME NEW j \in olds, NEW k \in olds
        PROVE  j = k
    <3>1. SameRequestId(j, k)
      BY <1>8, SameAsEach
    <3> QED
      BY <3>1, <1>8 DEF OneStreamPerId
  <2>3. starting' # None
    BY <1>4, <1>6, NoneIsNoId
  <2> QED
    BY <2>1, <2>2, <2>3, <1>4 DEF Replacing
<1>15. OneStreamPerId'
  <2>1. \A j, k \in InFlight' : SameRequestId(j, k) => j = k
    BY <1>9 DEF OneStreamPerId
  <2>2. \A j \in InFlight' : SameRequestId(starting', j) => j \in superseded'
    BY <1>4, <1>8, <1>9, <1>10
  <2> QED
    BY <2>1, <2>2 DEF OneStreamPerId
<1>16. Held'
  <2> SUFFICES ASSUME NEW j \in inProgress'
               PROVE  /\ j \in InFlight' \/ j = starting'
                      /\ outcome'[j] = "waiting" \/ j \in superseded' \cup dropped'
    BY DEF Held
  <2>1. CASE j = e
    <3>1. outcome[e] = "waiting" \/ e \in dropped
      BY <1>2 DEF Queued
    <3> QED
      BY <2>1, <3>1, <1>2, <1>4, <1>6, <1>11, <1>12
  <2>2. CASE j # e
    <3>1. j \in inProgress /\ j \in Ids
      BY <2>2, <1>4, <1>6
    <3>2. j \in InFlight /\ (outcome[j] = "waiting" \/ j \in dropped)
      BY <3>1, <1>5, NoneIsNoId DEF Held
    <3> QED
      BY <3>1, <3>2, <1>4, <1>9, <1>11
  <2> QED
    BY <2>1, <2>2
<1> QED
  BY <1>13, <1>14, <1>15, <1>16

\* Its stream is under way when the superseded one is gone.
LEMMA SubscribeKeepsStreamsCalm ==
  ASSUME BaseInv, CalmStreams, Subscribe
  PROVE  CalmStreams'
<1> USE BaseParts DEF CalmStreams
<1> DEFINE e == starting
<1>1. e \in Ids /\ e # None /\ superseded = {} /\ stream[e] = "queued"
  BY DEF Subscribe, Queued
<1>2. /\ stream' = [stream EXCEPT ![e] = "fetching"]
      /\ starting' = None /\ pending' = pending /\ inProgress' = inProgress
      /\ superseded' = superseded /\ dropped' = dropped /\ outcome' = outcome
  BY <1>1 DEF Subscribe, queue
<1>3. \A j \in Ids : j # e => stream'[j] = stream[j]
  BY <1>2
<1>4. stream'[e] = "fetching"
  BY <1>1, <1>2
<1>5. \A j : j \in InFlight' <=> j \in InFlight \/ j = e
  BY <1>1, <1>3, <1>4, InFlightIs DEF Flying
<1>6. Waiting' = Waiting /\ Waiting \subseteq Ids /\ inProgress \subseteq Ids
  BY <1>2, WaitingIs DEF QueueOK, Waiting
<1>7. e \notin Waiting
  BY <1>1 DEF Queued
<1>8. Queued'
  BY <1>2, <1>3, <1>6, <1>7 DEF Queued
<1>9. Replacing'
  BY <1>1, <1>2 DEF Replacing
<1>10. OneStreamPerId'
  <2>1. \A j \in InFlight : ~ SameRequestId(e, j)
    BY <1>1 DEF OneStreamPerId
  <2>2. ASSUME NEW j \in InFlight', NEW k \in InFlight', SameRequestId(j, k)
        PROVE  j = k
    <3>1. SameRequestId(k, j)
      BY <2>2, SameAsEach
    <3> QED
      BY <2>1, <2>2, <3>1, <1>5 DEF OneStreamPerId
  <2> QED
    BY <2>2, <1>2 DEF OneStreamPerId
<1>11. Held'
  <2> SUFFICES ASSUME NEW j \in inProgress
               PROVE  /\ j \in InFlight' \/ j = starting'
                      /\ outcome'[j] = "waiting" \/ j \in superseded' \cup dropped'
    BY <1>2 DEF Held
  <2> QED
    BY <1>2, <1>5 DEF Held
<1> QED
  BY <1>8, <1>9, <1>10, <1>11

\* The request is made again, outside of the queue.
LEMMA RefetchKeepsStreamsCalm ==
  ASSUME BaseInv, CalmStreams, NEW i \in Ids, stream[i] = "pinging",
         stream' = [stream EXCEPT ![i] = "refetching"],
         UNCHANGED <<queue, worker, superseded, dropped, outcome, together>>
  PROVE  CalmStreams'
<1> USE BaseParts DEF CalmStreams
<1>1. /\ starting' = starting /\ pending' = pending /\ inProgress' = inProgress
      /\ superseded' = superseded /\ dropped' = dropped /\ outcome' = outcome
  BY DEF queue, worker
<1>2. \A j \in Ids : j # i => stream'[j] = stream[j]
  OBVIOUS
<1>3. stream'[i] = "refetching"
  OBVIOUS
<1>4. \A j : j \in InFlight' <=> j \in InFlight
  BY <1>2, <1>3, InFlightIs DEF Flying
<1>5. Waiting' = Waiting /\ Waiting \subseteq Ids
  BY <1>1, WaitingIs DEF QueueOK, Waiting
<1>6. i \notin Waiting /\ (starting # None => starting # i /\ starting \in Ids)
  BY DEF Queued
<1>7. Queued'
  BY <1>1, <1>2, <1>5, <1>6 DEF Queued
<1>8. Replacing'
  BY <1>1, <1>4 DEF Replacing
<1>9. OneStreamPerId'
  BY <1>1, <1>4 DEF OneStreamPerId
<1>10. Held'
  BY <1>1, <1>4 DEF Held
<1> QED
  BY <1>7, <1>8, <1>9, <1>10

\* Nothing that concerns the streams happens.
LEMMA StreamsStayCalm ==
  ASSUME CalmStreams, pending' = pending, inProgress' = inProgress, starting' = starting,
         superseded' = superseded, dropped' = dropped, stream' = stream, outcome' = outcome
  PROVE  CalmStreams'
<1> USE DEF CalmStreams
<1>1. \A j : j \in InFlight' <=> j \in InFlight
  BY InFlightIs
<1>2. Waiting' = Waiting
  BY DEF Waiting
<1>3. Queued'
  BY <1>2 DEF Queued
<1>4. Replacing'
  BY <1>1 DEF Replacing
<1>5. OneStreamPerId'
  BY <1>1 DEF OneStreamPerId
<1>6. Held'
  BY <1>1 DEF Held
<1> QED
  BY <1>3, <1>4, <1>5, <1>6

\* What callers give up is about to end.
LEMMA DroppingKeepsStreamsCalm ==
  ASSUME BaseInv, CalmStreams, AtRest,
         pending' = pending, inProgress' = inProgress, starting' = starting,
         superseded' = superseded, stream' = stream,
         \A j \in Ids : outcome[j] = "waiting" => outcome'[j] = "waiting" \/ j \in dropped'
  PROVE  CalmStreams'
<1> USE BaseParts DEF CalmStreams
<1>1. \A j : j \in InFlight' <=> j \in InFlight
  BY InFlightIs
<1>2. starting = None /\ superseded = {} /\ dropped = {}
  BY RestIs
<1>3. Waiting' = Waiting /\ Waiting \subseteq Ids /\ inProgress \subseteq Ids
  BY WaitingIs DEF QueueOK, Waiting
<1>4. Queued'
  BY <1>2, <1>3 DEF Queued
<1>5. Replacing'
  BY <1>2 DEF Replacing
<1>6. OneStreamPerId'
  BY <1>1, <1>2 DEF OneStreamPerId
<1>7. Held'
  BY <1>1, <1>2, <1>3 DEF Held
<1> QED
  BY <1>4, <1>5, <1>6, <1>7

\* A caller who leaves, alone.
LEMMA LeaveKeepsStreamsCalm ==
  ASSUME BaseInv, CalmStreams, NEW r \in Requests, Leave(r)
  PROVE  CalmStreams'
<1> USE BaseParts
<1>1. /\ GiveUp({}, dropped') /\ AtRest
      /\ pending' = pending /\ inProgress' = inProgress /\ starting' = starting
      /\ superseded' = superseded /\ stream' = stream
  BY DEF Leave, queue, worker
<1>2. \A j \in Ids : outcome[j] = "waiting" => outcome'[j] = "waiting" \/ j \in dropped'
  BY <1>1, GivenUp
<1> QED
  BY <1>1, <1>2, DroppingKeepsStreamsCalm

\* Streams that are cancelled.
LEMMA CancelKeepsStreamsCalm ==
  ASSUME BaseInv, CalmStreams, NEW olds, Cancel(olds)
  PROVE  CalmStreams'
<1> USE BaseParts
<1> DEFINE left == UNION {Siblings(j) : j \in olds}
<1>1. /\ GiveUp(olds, left) /\ dropped' = olds \cup left /\ AtRest
      /\ pending' = pending /\ inProgress' = inProgress /\ starting' = starting
      /\ superseded' = superseded /\ stream' = stream
  BY DEF Cancel, queue, worker
<1> HIDE DEF left
<1>2. \A j \in Ids : outcome[j] = "waiting" => outcome'[j] = "waiting" \/ j \in dropped'
  BY <1>1, GivenUp
<1> QED
  BY <1>1, <1>2, DroppingKeepsStreamsCalm

-----------------------------------------------------------------------------

\* Settling keeps the queue and the streams calm.
LEMMA SettledKeepsCalm ==
  ASSUME CalmInv, IdleInv', together = {}, AtRest, NEW i \in Ids, stream[i] # "none",
         NEW result \in {"ok", "failed", "unauthorized", "cancelled"}, Settle(i, result)
  PROVE  CalmQueue' /\ CalmStreams'
<1>1. BaseInv /\ IdleInv /\ CalmQueue /\ CalmStreams
  BY DEF CalmInv, IdleInv
<1>2. CalmStreams' /\ Waiting' = Waiting \ {i} /\ inProgress' = inProgress \ {i}
  BY <1>1, SettledKeepsStreamsCalm
<1>3. BaseInv' /\ Publish(pending', inProgress')
  BY <1>1, Settled
<1>4. emitting' = emitting /\ starting' = starting /\ WorkerRests
  BY RestIs DEF Settle, worker
<1>5. QueueOK'
  BY <1>3 DEF BaseInv, TypeOK, QueueOK
<1> QED
  BY <1>1, <1>2, <1>3, <1>4, <1>5, EventKeepsQueueCalm

\* Adding an entry does.
LEMMA AddedKeepsQueueCalm ==
  ASSUME CalmInv, BaseInv', together = {}, AtRest, NEW i \in Ids,
         Publish(pending', inProgress'), Waiting' = Waiting \cup {i}, inProgress' = inProgress,
         UNCHANGED worker
  PROVE  CalmQueue'
<1>1. IdleInv /\ CalmQueue
  BY DEF CalmInv
<1>2. emitting' = emitting /\ starting' = starting /\ WorkerRests
  BY RestIs DEF worker
<1>3. QueueOK'
  BY DEF BaseInv, TypeOK, QueueOK
<1> QED
  BY <1>1, <1>2, <1>3, EventKeepsQueueCalm

\* Nobody who calls the front end changes who waits for several.
LEMMA CallersStay ==
  ASSUME [Next]_vars
  PROVE  together' = together
BY DEF Next, Work, TakeUpdate, Start, Subscribe, TearDown, Answer, AnswerOk, AnswerError,
       AnswerUnauthorized, Settle, Fetch, Leave, PingSettled, CancelAllInFlightRequests,
       ResolveCancelerIfExists, Cancel, AllSettled, vars

\* Every step keeps the queue and the streams calm.
LEMMA CalmStep ==
  ASSUME CalmInv, [Next]_vars
  PROVE  CalmInv'
<1>1. IdleInv' /\ together' = together /\ BaseInv /\ BaseInv' /\ IdleInv
  BY IdleStep, CallersStay DEF CalmInv, IdleInv
<1> SUFFICES ASSUME together = {} PROVE CalmQueue' /\ CalmStreams'
  BY <1>1 DEF CalmInv
<1>2. CalmQueue /\ CalmStreams
  BY DEF CalmInv
<1>3. CASE TakeUpdate
  <2>1. CalmQueue'
    BY <1>1, <1>2, <1>3, TakeKeepsQueueCalm
  <2>2. CalmStreams'
    BY <1>2, <1>3, StreamsStayCalm DEF TakeUpdate
  <2> QED
    BY <2>1, <2>2
<1>4. CASE Start
  BY <1>1, <1>2, <1>4, StartKeepsQueueCalm, StartKeepsStreamsCalm
<1>5. CASE Subscribe
  <2>1. CalmStreams'
    BY <1>1, <1>2, <1>5, SubscribeKeepsStreamsCalm
  <2>2. CalmQueue'
    BY <1>1, <1>2, <1>5, QuietKeepsQueueCalm DEF Subscribe
  <2> QED
    BY <2>1, <2>2
<1>6. ASSUME NEW i \in Ids, TearDown(i)
      PROVE  CalmQueue' /\ CalmStreams'
  <2>1. CalmStreams' /\ Waiting' = Waiting \ {i}
    BY <1>1, <1>2, <1>6, TearDownKeepsStreamsCalm
  <2>2. CASE i \in superseded
    BY <1>1, <1>2, <1>6, <2>1, <2>2, ReplacedKeepsQueueCalm DEF CalmStreams
  <2>3. CASE i \notin superseded
    <3>1. WorkerRests /\ emitting' = emitting /\ starting' = starting
      BY <1>6, <2>3 DEF TearDown, worker
    <3>2. Publish(pending', inProgress') /\ inProgress' = inProgress \ {i}
      BY <1>1, <1>6, TearDownKeepsBase
    <3>3. QueueOK'
      BY <1>1 DEF BaseInv, TypeOK, QueueOK
    <3> QED
      BY <1>1, <1>2, <2>1, <3>1, <3>2, <3>3, EventKeepsQueueCalm
  <2> QED
    BY <2>2, <2>3
<1>7. ASSUME NEW i \in Ids, Answer(i)
      PROVE  CalmQueue' /\ CalmStreams'
  <2>1. CASE AnswerOk(i)
    BY <1>1, <2>1, SettledKeepsCalm DEF AnswerOk
  <2>2. CASE AnswerError(i)
    BY <1>1, <2>2, SettledKeepsCalm DEF AnswerError
  <2>3. CASE AnswerUnauthorized(i)
    <3>1. AtRest /\ stream[i] # "none"
      BY <2>3 DEF AnswerUnauthorized
    <3>2. CASE ~ (stream[i] = "fetching" /\ i[2] = "own" /\ i[1] \in Retriable)
      BY <1>1, <2>3, <3>1, <3>2, SettledKeepsCalm DEF AnswerUnauthorized
    <3>3. CASE stream[i] = "fetching" /\ i[2] = "own" /\ i[1] \in Retriable
      <4> DEFINE p == Ping(i[1])
      <4>1. i = Own(i[1]) /\ p \in Ids /\ p # i
        BY <3>3, IdParts
      <4>2. stream[p] = "none"
        BY <1>1, <3>3, <4>1, BaseParts DEF PingsAreNew
      <4>3. /\ stream' = [stream EXCEPT ![i] = "pinging", ![p] = "queued"]
            /\ outcome' = [outcome EXCEPT ![p] = "waiting"]
            /\ Add(p)
            /\ UNCHANGED worker /\ starting' = starting
            /\ superseded' = superseded /\ dropped' = dropped
        BY <2>3, <3>3 DEF AnswerUnauthorized, worker
      <4> HIDE DEF p
      <4>4. CalmStreams' /\ Waiting' = Waiting \cup {p} /\ inProgress' = inProgress
        BY <1>1, <1>2, <3>1, <3>3, <4>1, <4>2, <4>3, PingKeepsStreamsCalm
      <4>5. Publish(pending', inProgress')
        BY <1>1, <2>3, UnauthorizedKeepsBase
      <4> QED
        BY <1>1, <3>1, <4>1, <4>3, <4>4, <4>5, AddedKeepsQueueCalm
    <3> QED
      BY <3>2, <3>3
  <2> QED
    BY <1>7, <2>1, <2>2, <2>3 DEF Answer
<1>8. ASSUME NEW r \in Requests, Fetch(r)
      PROVE  CalmQueue' /\ CalmStreams'
  <2>1. CalmStreams' /\ Waiting' = Waiting \cup {Own(r)}
    BY <1>1, <1>2, <1>8, FetchKeepsStreamsCalm
  <2>2. Publish(pending', inProgress') /\ inProgress' = inProgress /\ Own(r) \in Ids
    BY <1>1, <1>8, FetchKeepsBase, IdParts
  <2>3. AtRest /\ UNCHANGED worker
    BY <1>8 DEF Fetch
  <2> QED
    BY <1>1, <2>1, <2>2, <2>3, AddedKeepsQueueCalm
<1>9. ASSUME NEW r \in Requests, Leave(r)
      PROVE  CalmQueue' /\ CalmStreams'
  <2>1. CalmStreams'
    BY <1>1, <1>2, <1>9, LeaveKeepsStreamsCalm
  <2>2. CalmQueue'
    BY <1>1, <1>2, <1>9, QuietKeepsQueueCalm DEF Leave, worker
  <2> QED
    BY <2>1, <2>2
<1>10. ASSUME NEW r \in Retriable, PingSettled(r)
       PROVE  CalmQueue' /\ CalmStreams'
  <2>1. Own(r) \in Ids /\ AtRest /\ stream[Own(r)] = "pinging"
    BY <1>10, IdParts DEF PingSettled
  <2>2. CASE outcome[Ping(r)] = "ok" /\ stream' = [stream EXCEPT ![Own(r)] = "refetching"]
             /\ UNCHANGED <<queue, worker, superseded, dropped, outcome, together>>
    <3>1. CalmStreams'
      BY <1>1, <1>2, <2>1, <2>2, RefetchKeepsStreamsCalm
    <3>2. CalmQueue'
      BY <1>1, <1>2, <2>2, QuietKeepsQueueCalm DEF worker
    <3> QED
      BY <3>1, <3>2
  <2>3. CASE outcome[Ping(r)] \in {"failed", "unauthorized", "cancelled"} /\ Settle(Own(r), outcome[Ping(r)])
    BY <1>1, <2>1, <2>3, SettledKeepsCalm
  <2> QED
    BY <1>10, <2>2, <2>3 DEF PingSettled
<1>11. ASSUME NEW olds \in SUBSET InFlight, Cancel(olds)
       PROVE  CalmQueue' /\ CalmStreams'
  <2>1. CalmStreams'
    BY <1>1, <1>2, <1>11, CancelKeepsStreamsCalm
  <2>2. CalmQueue'
    BY <1>1, <1>2, <1>11, QuietKeepsQueueCalm DEF Cancel, worker
  <2> QED
    BY <2>1, <2>2
<1>12. CASE UNCHANGED vars
  <2>1. /\ UNCHANGED queue /\ emitting' = emitting /\ starting' = starting
        /\ superseded' = superseded /\ dropped' = dropped
        /\ stream' = stream /\ outcome' = outcome
        /\ pending' = pending /\ inProgress' = inProgress
    BY <1>12 DEF vars, queue, worker
  <2> QED
    BY <1>1, <1>2, <2>1, QuietKeepsQueueCalm, StreamsStayCalm
<1> QED
  BY <1>1, StepsOfTheQueue, <1>3, <1>4, <1>5, <1>6, <1>7, <1>8, <1>9, <1>10, <1>11, <1>12

\* At first all is calm.
LEMMA InitCalm == Init => CalmInv
<1> SUFFICES ASSUME Init PROVE CalmInv
  OBVIOUS
<1>1. IdleInv
  BY InitIdle
<1>2. /\ pending = <<>> /\ inProgress = {} /\ updates = <<>> /\ emitting = <<>> /\ starting = None
      /\ superseded = {} /\ dropped = {}
      /\ stream = [i \in Ids |-> "none"] /\ outcome = [i \in Ids |-> "none"]
  BY DEF Init
<1>3. Waiting = {} /\ InFlight = {}
  <2>1. Waiting = {}
    BY <1>2 DEF Waiting, ToSet
  <2>2. \A i \in Ids : stream[i] = "none"
    BY <1>2
  <2> QED
    BY <2>1, <2>2, InFlightIs DEF Flying
<1>4. Len(emitting) = 0 /\ Len(updates) = 0
  BY <1>2
<1>5. Limited
  <2>1. inProgress \cap DataIds = {}
    BY <1>2
  <2> QED
    BY <2>1, FS_EmptySet, RequestsAssumption DEF Limited
<1>6. CalmQueue
  BY <1>2, <1>3, <1>4, <1>5 DEF CalmQueue, OneIsEmitted, Pressed, OldUpdates, Working
<1>7. CalmStreams
  BY <1>2, <1>3 DEF CalmStreams, Queued, Replacing, OneStreamPerId, Held
<1> QED
  BY <1>1, <1>6, <1>7 DEF CalmInv

\* The limit holds: with callers who wait for one request each, no more
\* requests for data are in progress than maxParallelRequests, whatever is
\* answered, cancelled, superseded or abandoned while the worker looks at an
\* update of some steps ago.
THEOREM TheLimitHolds == Spec => []DataLimit
<1>1. Init => CalmInv
  BY InitCalm
<1>2. CalmInv /\ [Next]_vars => CalmInv'
  BY CalmStep
<1>3. CalmInv => DataLimit
  BY DEF CalmInv, CalmQueue, Limited, DataLimit
<1> QED
  BY <1>1, <1>2, <1>3, PTL DEF Spec

\* No place is lost: with such callers, at rest every place in progress is of
\* a stream that is under way and that somebody waits for.
THEOREM NoPlaceIsLost == Spec => []PlacesAreHeld
<1>1. Init => CalmInv
  BY InitCalm
<1>2. CalmInv /\ [Next]_vars => CalmInv'
  BY CalmStep
<1>3. CalmInv => PlacesAreHeld
  <2> SUFFICES ASSUME CalmInv, together = {}, AtRest, NEW i \in inProgress
               PROVE  outcome[i] = "waiting" /\ i \in InFlight
    BY DEF PlacesAreHeld
  <2>1. Held /\ inProgress \subseteq Ids
    BY BaseParts DEF CalmInv, CalmStreams, IdleInv, QueueOK
  <2>2. starting = None /\ superseded = {} /\ dropped = {}
    BY RestIs
  <2> QED
    BY <2>1, <2>2, NoneIsNoId DEF Held
<1> QED
  BY <1>1, <1>2, <1>3, PTL DEF Spec
-----------------------------------------------------------------------------
(* Nobody waits for nothing                                                *)

\* A caller who waits has a stream under way, or an entry that waits or is being
\* started: none of those whose stream the present event ends.
Callers ==
  /\ \A i \in superseded \cup dropped : outcome[i] # "waiting"
  /\ \A i \in Ids : outcome[i] = "waiting" =>
       \/ stream[i] \in Flying
       \/ stream[i] = "queued" /\ (i \in Waiting \/ i = starting)

\* Who pings is a request that may, whose ping was made and that waits for it alone.
Pings ==
  /\ \A i \in Ids : stream[i] = "pinging" => \E r \in Retriable : i = Own(r)
  /\ \A r \in Retriable : /\ stream[Own(r)] = "pinging" => outcome[Ping(r)] # "none"
                          /\ outcome[Ping(r)] # "left"
                          /\ stream[Ping(r)] # "pinging"

CallersInv == BaseInv /\ Callers /\ Pings

\* The ping of a request is no request that another caller waits for.
LEMMA PingsAreAlone ==
  ASSUME NEW r \in Retriable
  PROVE  Ping(r)[2] = "ping" /\ \A i : Ping(r) \notin Siblings(i)
BY DEF Siblings, Ping

\* Pings, in a step that makes no stream ping and leaves outcomes of pings, or settles
\* them as their own.
LEMMA PingsKept ==
  ASSUME BaseInv, Pings,
         \A i \in Ids : stream'[i] = "pinging" => stream[i] = "pinging",
         \A r \in Retriable : /\ outcome[Ping(r)] # "none" => outcome'[Ping(r)] # "none"
                              /\ outcome'[Ping(r)] # "left"
  PROVE  Pings'
<1>1. \A i \in Ids : stream'[i] = "pinging" => \E r \in Retriable : i = Own(r)
  BY DEF Pings
<1>2. ASSUME NEW r \in Retriable
      PROVE  /\ stream'[Own(r)] = "pinging" => outcome'[Ping(r)] # "none"
             /\ outcome'[Ping(r)] # "left"
             /\ stream'[Ping(r)] # "pinging"
  BY IdParts DEF Pings
<1>3. Ids' = Ids
  BY InFlightIs
<1> QED
  BY <1>1, <1>2, <1>3 DEF Pings

\* Callers in the state after.
LEMMA CallersKept ==
  ASSUME \A i \in superseded' \cup dropped' : outcome'[i] # "waiting",
         \A i \in Ids : outcome'[i] = "waiting" =>
           \/ stream'[i] \in Flying
           \/ stream'[i] = "queued" /\ (i \in ToSet(pending') \/ i = starting')
  PROVE  Callers'
<1>1. Ids' = Ids
  BY InFlightIs
<1> QED
  BY <1>1 DEF Callers, Waiting

\* Settling a request.
LEMMA SettledKeepsCallers ==
  ASSUME CallersInv, AtRest, NEW i \in Ids, stream[i] # "none",
         NEW result \in {"ok", "failed", "unauthorized", "cancelled"}, Settle(i, result)
  PROVE  Callers' /\ Pings'
<1> DEFINE left == IF result = "ok" THEN {} ELSE Siblings(i)
<1>1. BaseInv /\ Callers /\ Pings /\ starting = None /\ superseded = {}
  BY RestIs DEF CallersInv
<1>2. /\ outcome' = [j \in Ids |-> IF j = i THEN result ELSE IF j \in left THEN "left" ELSE outcome[j]]
      /\ dropped' = left /\ stream' = [stream EXCEPT ![i] = "ended"]
      /\ superseded' = superseded /\ starting' = starting
      /\ pending' = Without(i)
  BY DEF Settle, SetDone, Publish, worker
<1>3. ToSet(pending') = ToSet(pending) \ {i}
  BY <1>1, <1>2, BaseParts, WithoutIs DEF QueueOK
<1>4. i \notin left /\ left \subseteq Ids
  BY SiblingsWait DEF Siblings
<1>5. \A r \in Retriable : Ping(r) \notin left /\ Ping(r) \in Ids
  BY PingsAreAlone, IdParts
<1> HIDE DEF left
<1>6. \A j \in Ids : stream'[j] = IF j = i THEN "ended" ELSE stream[j]
  BY <1>1, <1>2, BaseParts
<1>7. \A j \in Ids : outcome'[j] = "waiting" => j # i /\ j \notin left /\ outcome[j] = "waiting"
  BY <1>2
<1>8. Callers'
  <2>1. \A j \in superseded' \cup dropped' : outcome'[j] # "waiting"
    BY <1>1, <1>2, <1>4, <1>7
  <2>2. \A j \in Ids : outcome'[j] = "waiting" =>
           \/ stream'[j] \in Flying
           \/ stream'[j] = "queued" /\ (j \in ToSet(pending') \/ j = starting')
    BY <1>1, <1>2, <1>3, <1>6, <1>7 DEF Callers, Waiting
  <2> QED
    BY <2>1, <2>2, CallersKept
<1>9. Pings'
  <2>1. \A j \in Ids : stream'[j] = "pinging" => stream[j] = "pinging"
    BY <1>6
  <2>2. \A r \in Retriable : /\ outcome[Ping(r)] # "none" => outcome'[Ping(r)] # "none"
                             /\ outcome'[Ping(r)] # "left"
    BY <1>1, <1>2, <1>5 DEF Pings
  <2> QED
    BY <1>1, <2>1, <2>2, PingsKept
<1> QED
  BY <1>8, <1>9

\* Giving up: who is in c or l waits no more.
LEMMA GaveUp ==
  ASSUME BaseInv, Pings, NEW c, NEW l, GiveUp(c, l), \A r \in Retriable : Ping(r) \notin l
  PROVE  /\ \A j \in Ids : outcome'[j] = "waiting" <=> outcome[j] = "waiting" /\ j \notin c \cup l
         /\ \A r \in Retriable : /\ outcome[Ping(r)] # "none" => outcome'[Ping(r)] # "none"
                                 /\ outcome'[Ping(r)] # "left"
<1>1. \A j \in Ids : outcome'[j] = IF outcome[j] # "waiting" THEN outcome[j]
                                   ELSE IF j \in c THEN "cancelled"
                                   ELSE IF j \in l THEN "left" ELSE outcome[j]
  BY DEF GiveUp
<1>2. \A j \in Ids : outcome'[j] = "waiting" <=> outcome[j] = "waiting" /\ j \notin c \cup l
  BY <1>1
<1>3. ASSUME NEW r \in Retriable
      PROVE  /\ outcome[Ping(r)] # "none" => outcome'[Ping(r)] # "none"
             /\ outcome'[Ping(r)] # "left"
  <2>1. outcome[Ping(r)] # "left" /\ Ping(r) \in Ids
    BY IdParts DEF Pings
  <2>2. outcome'[Ping(r)] = IF outcome[Ping(r)] # "waiting" THEN outcome[Ping(r)]
                            ELSE IF Ping(r) \in c THEN "cancelled" ELSE outcome[Ping(r)]
    BY <1>1, <2>1
  <2> QED
    BY <2>1, <2>2
<1> QED
  BY <1>2, <1>3

\* An event that only says what ends.
LEMMA DroppingKeepsCallers ==
  ASSUME CallersInv, AtRest, NEW c, NEW l, GiveUp(c, l), \A r \in Retriable : Ping(r) \notin l,
         dropped' \subseteq Ids, dropped' \subseteq c \cup l,
         UNCHANGED <<queue, worker, superseded, stream, together>>
  PROVE  Callers' /\ Pings'
<1>1. /\ BaseInv /\ Callers /\ Pings /\ superseded' = {} /\ stream' = stream
      /\ pending' = pending /\ starting' = starting
  BY RestIs DEF CallersInv, queue, worker
<1>2. /\ \A j \in Ids : outcome'[j] = "waiting" <=> outcome[j] = "waiting" /\ j \notin c \cup l
      /\ \A r \in Retriable : /\ outcome[Ping(r)] # "none" => outcome'[Ping(r)] # "none"
                              /\ outcome'[Ping(r)] # "left"
  BY <1>1, GaveUp
<1>3. Callers'
  <2>1. \A j \in superseded' \cup dropped' : outcome'[j] # "waiting"
    BY <1>1, <1>2
  <2>2. \A j \in Ids : outcome'[j] = "waiting" =>
           \/ stream'[j] \in Flying
           \/ stream'[j] = "queued" /\ (j \in ToSet(pending') \/ j = starting')
    BY <1>1, <1>2 DEF Callers, Waiting
  <2> QED
    BY <2>1, <2>2, CallersKept
<1>4. Pings'
  BY <1>1, <1>2, PingsKept
<1> QED
  BY <1>3, <1>4

\* A request that is fetched, or the ping of one, waits in the queue.
LEMMA AddedKeepsCallers ==
  ASSUME CallersInv, AtRest, NEW i \in Ids, stream[i] = "none",
         ToSet(pending') = ToSet(pending) \cup {i},
         outcome' = [outcome EXCEPT ![i] = "waiting"], stream'[i] = "queued",
         \A j \in Ids \ {i} : stream'[j] = stream[j] \/ stream'[j] \in Flying,
         UNCHANGED <<worker, superseded, dropped, together>>
  PROVE  Callers'
<1>1. /\ BaseInv /\ Callers /\ starting' = starting
      /\ superseded' \cup dropped' = {}
  BY RestIs DEF CallersInv, worker
<1>2. \A j \in Ids : outcome'[j] = IF j = i THEN "waiting" ELSE outcome[j]
  BY <1>1, BaseParts
<1>3. \A j \in Ids : outcome'[j] = "waiting" =>
         \/ stream'[j] \in Flying
         \/ stream'[j] = "queued" /\ (j \in ToSet(pending') \/ j = starting')
  <2> SUFFICES ASSUME NEW j \in Ids, outcome'[j] = "waiting", stream'[j] \notin Flying
               PROVE  stream'[j] = "queued" /\ (j \in ToSet(pending') \/ j = starting')
    OBVIOUS
  <2>1. CASE j = i
    BY <2>1
  <2>2. CASE j # i
    BY <1>1, <1>2, <2>2 DEF Callers, Waiting
  <2> QED
    BY <2>1, <2>2
<1> QED
  BY <1>1, <1>3, CallersKept

\* A request that is fetched has a caller who waits.
LEMMA FetchKeepsCallers ==
  ASSUME CallersInv, NEW r \in Requests, Fetch(r)
  PROVE  Callers' /\ Pings'
<1> DEFINE i == Own(r)
<1>1. BaseInv /\ Pings /\ i \in Ids /\ stream[i] = "none" /\ AtRest
  BY IdParts DEF CallersInv, Fetch
<1>2. /\ stream' = [stream EXCEPT ![i] = "queued"] /\ outcome' = [outcome EXCEPT ![i] = "waiting"]
      /\ Add(i)
      /\ UNCHANGED <<worker, superseded, dropped, together>>
  BY DEF Fetch
<1>3. \A q \in Retriable : Ping(q) # i /\ Ping(q) \in Ids
  BY IdParts
<1> HIDE DEF i
<1>4. ToSet(pending') = ToSet(pending) \cup {i}
  <2>1. i \notin ToSet(pending) \cup inProgress
    BY <1>1, BaseParts DEF Listed
  <2> QED
    BY <1>1, <1>2, <2>1, BaseParts, Added
<1>5. \A j \in Ids : stream'[j] = IF j = i THEN "queued" ELSE stream[j]
  BY <1>1, <1>2, BaseParts
<1>6. Callers'
  BY <1>1, <1>2, <1>4, <1>5, AddedKeepsCallers
<1>7. \A q \in Retriable : outcome'[Ping(q)] = outcome[Ping(q)]
  BY <1>1, <1>2, <1>3, BaseParts
<1>8. Pings'
  BY <1>1, <1>5, <1>7, PingsKept DEF Pings
<1> QED
  BY <1>6, <1>8

\* A request answered 401 waits for its ping, which waits in the queue.
LEMMA UnauthorizedKeepsCallers ==
  ASSUME CallersInv, NEW i \in Ids, AnswerUnauthorized(i)
  PROVE  Callers' /\ Pings'
<1>1. BaseInv /\ Pings /\ AtRest /\ stream[i] # "none"
  BY DEF CallersInv, AnswerUnauthorized
<1>2. CASE ~ (stream[i] = "fetching" /\ i[2] = "own" /\ i[1] \in Retriable)
  BY <1>1, <1>2, SettledKeepsCallers DEF AnswerUnauthorized
<1>3. CASE stream[i] = "fetching" /\ i[2] = "own" /\ i[1] \in Retriable
  <2> DEFINE r == i[1]
             p == Ping(r)
  <2>1. i = Own(r) /\ r \in Retriable /\ p \in Ids /\ p # i
    BY <1>3, IdParts
  <2>2. stream[p] = "none"
    BY <1>1, <1>3, <2>1, BaseParts DEF PingsAreNew
  <2>3. p \notin ToSet(pending) \cup inProgress
    BY <1>1, <2>1, <2>2, BaseParts DEF Listed
  <2>4. /\ stream' = [stream EXCEPT ![i] = "pinging", ![p] = "queued"]
        /\ outcome' = [outcome EXCEPT ![p] = "waiting"]
        /\ Add(p)
        /\ UNCHANGED <<worker, superseded, dropped, together>>
    BY <1>3 DEF AnswerUnauthorized
  <2>5. /\ \A q \in Retriable : Ping(q) # i /\ Ping(q) \in Ids /\ Own(q) \in Ids /\ Own(q) # p
        /\ \A q \in Retriable : Ping(q) = p => q = r
    BY <2>1, IdParts
  <2> HIDE DEF p, r
  <2>6. ToSet(pending') = ToSet(pending) \cup {p}
    BY <1>1, <2>1, <2>3, <2>4, BaseParts, Added
  <2>7. \A j \in Ids : stream'[j] = IF j = p THEN "queued" ELSE IF j = i THEN "pinging" ELSE stream[j]
    BY <1>1, <2>1, <2>4, BaseParts
  <2>8. Callers'
    <3>1. \A j \in Ids \ {p} : stream'[j] = stream[j] \/ stream'[j] \in Flying
      BY <2>7 DEF Flying
    <3> QED
      BY <1>1, <2>1, <2>2, <2>4, <2>6, <2>7, <3>1, AddedKeepsCallers
  <2>9. \A j \in Ids : outcome'[j] = IF j = p THEN "waiting" ELSE outcome[j]
    BY <1>1, <2>1, <2>4, BaseParts
  <2>10. \A j \in Ids : stream'[j] = "pinging" => \E q \in Retriable : j = Own(q)
    BY <1>1, <2>1, <2>7 DEF Pings
  <2>11. ASSUME NEW q \in Retriable
         PROVE  /\ stream'[Own(q)] = "pinging" => outcome'[Ping(q)] # "none"
                /\ outcome'[Ping(q)] # "left"
                /\ stream'[Ping(q)] # "pinging"
    <3>1. Own(q) = i => q = r
      BY <2>1, IdParts
    <3>2. Own(q) # i => stream'[Own(q)] = stream[Own(q)]
      BY <2>5, <2>7
    <3>3. q = r => outcome'[Ping(q)] = "waiting"
      BY <2>5, <2>9 DEF p
    <3>4. outcome'[Ping(q)] \in {"waiting", outcome[Ping(q)]}
      BY <2>5, <2>9
    <3>5. stream'[Ping(q)] \in {"queued", stream[Ping(q)]}
      BY <2>5, <2>7
    <3> QED
      BY <1>1, <3>1, <3>2, <3>3, <3>4, <3>5 DEF Pings
  <2>12. Pings'
    <3>1. Ids' = Ids
      BY InFlightIs
    <3> QED
      BY <2>10, <2>11, <3>1 DEF Pings
  <2> QED
    BY <2>8, <2>12
<1> QED
  BY <1>2, <1>3

\* What is started is no longer in the list, but it is what is being started; whom it
\* supersedes gives up.
LEMMA StartKeepsCallers ==
  ASSUME CallersInv, Start
  PROVE  Callers' /\ Pings'
<1> DEFINE i == Head(emitting)
           olds == Supersedes(i)
           left == UNION {Siblings(j) : j \in olds}
<1>1. BaseInv /\ Callers /\ Pings /\ starting = None
  BY DEF CallersInv, Start
<1>2. \A r \in Retriable : Ping(r) \notin left
  BY PingsAreAlone
<1>3. left \subseteq Ids /\ olds \subseteq Ids
  BY SiblingsWait DEF Supersedes, InFlight
<1>4. /\ starting' = i /\ superseded' = olds \cup left /\ GiveUp(olds, left)
      /\ dropped' = dropped /\ stream' = stream
  BY DEF Start
<1>5. pending' = Without(i)
  BY <1>1, StartKeepsBase
<1> HIDE DEF i, olds, left
<1>6. ToSet(pending') = ToSet(pending) \ {i}
  BY <1>1, <1>5, BaseParts, WithoutIs DEF QueueOK
<1>7. /\ \A j \in Ids : outcome'[j] = "waiting" <=> outcome[j] = "waiting" /\ j \notin olds \cup left
      /\ \A r \in Retriable : /\ outcome[Ping(r)] # "none" => outcome'[Ping(r)] # "none"
                              /\ outcome'[Ping(r)] # "left"
  BY <1>1, <1>2, <1>4, GaveUp
<1>8. Callers'
  <2>1. \A j \in superseded' \cup dropped' : outcome'[j] # "waiting"
    <3>1. dropped \subseteq Ids
      BY <1>1, BaseParts
    <3> QED
      BY <1>1, <1>3, <1>4, <1>7, <3>1 DEF Callers
  <2>2. \A j \in Ids : outcome'[j] = "waiting" =>
           \/ stream'[j] \in Flying
           \/ stream'[j] = "queued" /\ (j \in ToSet(pending') \/ j = starting')
    BY <1>1, <1>4, <1>6, <1>7, NoneIsNoId DEF Callers, Waiting
  <2> QED
    BY <2>1, <2>2, CallersKept
<1>9. Pings'
  BY <1>1, <1>4, <1>7, PingsKept
<1> QED
  BY <1>8, <1>9

\* What is being started is under way, unless it has ended.
LEMMA SubscribeKeepsCallers ==
  ASSUME CallersInv, Subscribe
  PROVE  Callers' /\ Pings'
<1>1. /\ BaseInv /\ Callers /\ Pings
      /\ stream' = [stream EXCEPT ![starting] = IF @ = "queued" THEN "fetching" ELSE @]
      /\ pending' = pending /\ superseded' = superseded /\ dropped' = dropped /\ outcome' = outcome
  BY DEF CallersInv, Subscribe, queue
<1>2. \A j \in Ids : \/ j # starting /\ stream'[j] = stream[j]
                     \/ j = starting /\ stream'[j] = IF stream[j] = "queued" THEN "fetching" ELSE stream[j]
  BY <1>1, BaseParts
<1>3. Callers'
  <2>1. \A j \in superseded' \cup dropped' : outcome'[j] # "waiting"
    BY <1>1 DEF Callers
  <2>2. \A j \in Ids : outcome'[j] = "waiting" =>
           \/ stream'[j] \in Flying
           \/ stream'[j] = "queued" /\ (j \in ToSet(pending') \/ j = starting')
    BY <1>1, <1>2 DEF Callers, Waiting, Flying
  <2> QED
    BY <2>1, <2>2, CallersKept
<1>4. Pings'
  <2>1. \A j \in Ids : stream'[j] = "pinging" => stream[j] = "pinging"
    BY <1>2
  <2> QED
    BY <1>1, <2>1, PingsKept DEF Pings
<1> QED
  BY <1>3, <1>4

\* Nobody waits for what ends.
LEMMA TearDownKeepsCallers ==
  ASSUME CallersInv, NEW i \in Ids, TearDown(i)
  PROVE  Callers' /\ Pings'
<1>1. /\ BaseInv /\ Callers /\ Pings
      /\ stream' = [stream EXCEPT ![i] = "ended"] /\ outcome' = outcome /\ starting' = starting
      /\ superseded' = superseded \ {i} /\ dropped' = dropped \ {i} /\ i \in superseded \cup dropped
  BY DEF CallersInv, TearDown, worker
<1>2. pending' = Without(i)
  BY <1>1, TearDownKeepsBase
<1>3. ToSet(pending') = ToSet(pending) \ {i}
  BY <1>1, <1>2, BaseParts, WithoutIs DEF QueueOK
<1>4. \A j \in Ids : stream'[j] = IF j = i THEN "ended" ELSE stream[j]
  BY <1>1, BaseParts
<1>5. Callers'
  <2>1. \A j \in superseded' \cup dropped' : outcome'[j] # "waiting"
    BY <1>1 DEF Callers
  <2>2. \A j \in Ids : outcome'[j] = "waiting" =>
           \/ stream'[j] \in Flying
           \/ stream'[j] = "queued" /\ (j \in ToSet(pending') \/ j = starting')
    BY <1>1, <1>3, <1>4 DEF Callers, Waiting
  <2> QED
    BY <2>1, <2>2, CallersKept
<1>6. Pings'
  <2>1. \A j \in Ids : stream'[j] = "pinging" => stream[j] = "pinging"
    BY <1>4
  <2> QED
    BY <1>1, <2>1, PingsKept DEF Pings
<1> QED
  BY <1>5, <1>6

\* The request is made again, or settled.
LEMMA PingSettledKeepsCallers ==
  ASSUME CallersInv, NEW r \in Retriable, PingSettled(r)
  PROVE  Callers' /\ Pings'
<1>1. BaseInv /\ Callers /\ Pings /\ Own(r) \in Ids /\ stream[Own(r)] = "pinging" /\ AtRest
  BY IdParts DEF CallersInv, PingSettled
<1>2. CASE outcome[Ping(r)] = "ok" /\ stream' = [stream EXCEPT ![Own(r)] = "refetching"]
           /\ UNCHANGED <<queue, worker, superseded, dropped, outcome, together>>
  <2>1. /\ pending' = pending /\ starting' = starting
        /\ superseded' = superseded /\ dropped' = dropped /\ outcome' = outcome
    BY <1>2 DEF queue, worker
  <2>2. \A j \in Ids : stream'[j] = IF j = Own(r) THEN "refetching" ELSE stream[j]
    BY <1>1, <1>2, BaseParts
  <2>3. Callers'
    <3>1. \A j \in superseded' \cup dropped' : outcome'[j] # "waiting"
      BY <1>1, <2>1 DEF Callers
    <3>2. \A j \in Ids : outcome'[j] = "waiting" =>
             \/ stream'[j] \in Flying
             \/ stream'[j] = "queued" /\ (j \in ToSet(pending') \/ j = starting')
      BY <1>1, <2>1, <2>2 DEF Callers, Waiting, Flying
    <3> QED
      BY <3>1, <3>2, CallersKept
  <2>4. Pings'
    <3>1. \A j \in Ids : stream'[j] = "pinging" => stream[j] = "pinging"
      BY <2>2
    <3> QED
      BY <1>1, <2>1, <3>1, PingsKept DEF Pings
  <2> QED
    BY <2>3, <2>4
<1>3. CASE outcome[Ping(r)] \in {"failed", "unauthorized", "cancelled"} /\ Settle(Own(r), outcome[Ping(r)])
  BY <1>1, <1>3, SettledKeepsCallers
<1> QED
  BY <1>2, <1>3 DEF PingSettled

\* Every step keeps what is true of the callers.
LEMMA CallersStep ==
  ASSUME CallersInv, [Next]_vars
  PROVE  CallersInv'
<1>1. BaseInv /\ Callers /\ Pings /\ BaseInv'
  BY BaseStep DEF CallersInv
<1>2. CASE TakeUpdate
  <2>1. /\ stream' = stream /\ outcome' = outcome /\ pending' = pending /\ starting' = starting
        /\ superseded' = superseded /\ dropped' = dropped
    BY <1>2 DEF TakeUpdate
  <2>2. Callers' /\ Pings'
    BY <1>1, <2>1, CallersKept, PingsKept DEF Callers, Waiting, Pings
  <2> QED
    BY <1>1, <2>2 DEF CallersInv
<1>3. CASE Start \/ Subscribe
  BY <1>1, <1>3, StartKeepsCallers, SubscribeKeepsCallers DEF CallersInv
<1>4. ASSUME NEW i \in Ids, TearDown(i) \/ Answer(i)
      PROVE  Callers' /\ Pings'
  <2>1. CASE AnswerOk(i) \/ AnswerError(i)
    BY <2>1, SettledKeepsCallers DEF AnswerOk, AnswerError
  <2> QED
    BY <1>4, <2>1, TearDownKeepsCallers, UnauthorizedKeepsCallers DEF Answer
<1>5. ASSUME NEW r \in Requests, Fetch(r) \/ Leave(r)
      PROVE  Callers' /\ Pings'
  <2>1. CASE Leave(r)
    <3>1. /\ AtRest /\ dropped' = {Own(r)} \cup Siblings(Own(r)) /\ GiveUp({}, dropped')
          /\ UNCHANGED <<queue, worker, superseded, stream, together>>
      BY <2>1 DEF Leave
    <3>2. dropped' \subseteq Ids /\ \A q \in Retriable : Ping(q) \notin dropped'
      BY <3>1, SiblingsWait, IdParts, PingsAreAlone
    <3> DEFINE l == dropped'
    <3>3. GiveUp({}, l) /\ l \subseteq {} \cup l /\ \A q \in Retriable : Ping(q) \notin l
      BY <3>1, <3>2
    <3> HIDE DEF l
    <3>4. dropped' \subseteq {} \cup l
      BY DEF l
    <3> QED
      BY <3>1, <3>2, <3>3, <3>4, DroppingKeepsCallers
  <2> QED
    BY <1>5, <2>1, FetchKeepsCallers
<1>6. ASSUME NEW r \in Retriable, PingSettled(r)
      PROVE  Callers' /\ Pings'
  BY <1>6, PingSettledKeepsCallers
<1>7. ASSUME NEW olds \in SUBSET InFlight, Cancel(olds)
      PROVE  Callers' /\ Pings'
  <2> DEFINE left == UNION {Siblings(j) : j \in olds}
  <2>1. /\ AtRest /\ dropped' = olds \cup left /\ GiveUp(olds, left)
        /\ UNCHANGED <<queue, worker, superseded, stream, together>>
    BY <1>7 DEF Cancel
  <2>2. left \subseteq Ids /\ olds \subseteq Ids /\ \A q \in Retriable : Ping(q) \notin left
    BY SiblingsWait, PingsAreAlone DEF InFlight
  <2> HIDE DEF left
  <2> QED
    BY <2>1, <2>2, DroppingKeepsCallers
<1>8. CASE UNCHANGED vars
  <2>1. /\ stream' = stream /\ outcome' = outcome /\ pending' = pending /\ starting' = starting
        /\ superseded' = superseded /\ dropped' = dropped
    BY <1>8 DEF vars, queue, worker
  <2>2. Callers' /\ Pings'
    BY <1>1, <2>1, CallersKept, PingsKept DEF Callers, Waiting, Pings
  <2> QED
    BY <1>1, <2>2 DEF CallersInv
<1> QED
  BY <1>1, StepsOfTheQueue, <1>2, <1>3, <1>4, <1>5, <1>6, <1>7, <1>8 DEF CallersInv

\* The next event of i can come: the answer of the server, or that of the promise of
\* its ping.
CanGoOn(i) ==
  \/ stream[i] \in {"fetching", "refetching"}
  \/ \E r \in Retriable : /\ i = Own(r) /\ stream[i] = "pinging"
                          /\ outcome[Ping(r)] \in {"ok", "failed", "unauthorized", "cancelled"}

UnderWay(i) ==
  \/ CanGoOn(i)
  \/ \E r \in Retriable : i = Own(r) /\ stream[i] = "pinging" /\ CanGoOn(Ping(r))

\* Who waits, when the worker is through, waits for an event that can come, or for a
\* place, all of which are taken; each of these is of a request whose own event can
\* come, when every caller waits for one request.
EachInTurn ==
  AtRest => \A i \in Ids : outcome[i] = "waiting" =>
    \/ UnderWay(i)
    \/ /\ IsDataQuery(i) /\ i \in Waiting
       /\ Cardinality(inProgress) >= MaxParallel
       /\ together = {} => \A j \in inProgress : UnderWay(j)

\* A stream that is waited for and under way goes on.
LEMMA FlyingGoesOn ==
  ASSUME CallersInv, AtRest, NoIdlePlace, NEW i \in Ids, outcome[i] = "waiting", stream[i] \in Flying
  PROVE  UnderWay(i)
<1>1. CASE stream[i] # "pinging"
  BY <1>1 DEF UnderWay, CanGoOn, Flying
<1>2. CASE stream[i] = "pinging"
  <2>1. PICK r \in Retriable : i = Own(r)
    BY <1>2 DEF CallersInv, Pings
  <2>2. /\ Ping(r) \in Ids /\ Ping(r)[2] # "own"
        /\ outcome[Ping(r)] \in Outcomes \ {"none", "left"} /\ stream[Ping(r)] # "pinging"
    <3>1. Ping(r) \in Ids /\ outcome \in [Ids -> Outcomes]
      BY IdParts, BaseParts DEF CallersInv
    <3>2. outcome[Ping(r)] # "none" /\ outcome[Ping(r)] # "left" /\ stream[Ping(r)] # "pinging"
      BY <1>2, <2>1 DEF CallersInv, Pings
    <3> QED
      BY <3>1, <3>2, PingsAreAlone
  <2>3. CASE outcome[Ping(r)] # "waiting"
    BY <1>2, <2>1, <2>2, <2>3 DEF UnderWay, CanGoOn, Outcomes
  <2>4. CASE outcome[Ping(r)] = "waiting"
    <3>1. Ping(r) \notin Waiting
      <4>1. \A k \in DOMAIN pending : IsDataQuery(pending[k])
        BY DEF NoIdlePlace
      <4> QED
        BY <2>2, <4>1 DEF Waiting, ToSet, IsDataQuery
    <3>2. Ping(r) # starting
      BY <2>2, RestIs, NoneIsNoId
    <3>3. stream[Ping(r)] \in {"fetching", "refetching"}
      BY <2>2, <2>4, <3>1, <3>2 DEF CallersInv, Callers, Flying
    <3> QED
      BY <1>2, <2>1, <3>3 DEF UnderWay, CanGoOn
  <2> QED
    BY <2>3, <2>4
<1> QED
  BY <1>1, <1>2

\* At first nobody waits.
LEMMA InitCallers == Init => CallersInv
<1> SUFFICES ASSUME Init PROVE CallersInv
  OBVIOUS
<1>1. BaseInv
  BY InitBase
<1>2. /\ superseded = {} /\ dropped = {}
      /\ \A i \in Ids : stream[i] = "none" /\ outcome[i] = "none"
  BY DEF Init
<1>3. Callers /\ Pings
  BY <1>2, IdParts DEF Callers, Pings
<1> QED
  BY <1>1, <1>3 DEF CallersInv

\* Nobody waits for nothing: as long as somebody waits at all there is an event to come.
\* What remains for EverySettles is that the server answers and that the thread goes on.
THEOREM NobodyWaitsForNothing == Spec => []EachInTurn
<1>1. Init => CallersInv
  BY InitCallers
<1>2. CallersInv /\ [Next]_vars => CallersInv'
  BY CallersStep
<1>3. CallersInv /\ NoIdlePlace /\ PlacesAreHeld => EachInTurn
  <2> SUFFICES ASSUME CallersInv, NoIdlePlace, PlacesAreHeld, AtRest,
                      NEW i \in Ids, outcome[i] = "waiting", ~ UnderWay(i)
               PROVE  /\ IsDataQuery(i) /\ i \in Waiting
                      /\ Cardinality(inProgress) >= MaxParallel
                      /\ together = {} => \A j \in inProgress : UnderWay(j)
    BY DEF EachInTurn
  <2>1. i \in Waiting
    <3>1. stream[i] \notin Flying
      BY FlyingGoesOn
    <3> QED
      BY <3>1, RestIs, NoneIsNoId DEF CallersInv, Callers
  <2>2. IsDataQuery(i) /\ Cardinality(inProgress) >= MaxParallel
    BY <2>1 DEF NoIdlePlace, Waiting, ToSet
  <2>3. ASSUME together = {}, NEW j \in inProgress
        PROVE  UnderWay(j)
    <3>1. outcome[j] = "waiting" /\ j \in InFlight
      BY <2>3 DEF PlacesAreHeld
    <3> QED
      BY <3>1, InFlightIs, FlyingGoesOn
  <2> QED
    BY <2>1, <2>2, <2>3
<1> QED
  BY <1>1, <1>2, <1>3, NoWakeUpIsLost, NoPlaceIsLost, PTL DEF Spec

-----------------------------------------------------------------------------
(* The worker comes to rest                                                *)

\* What the worker has left to do, weighed by what it makes of it: an entry that waits
\* is started, which may end one stream, and whatever ends publishes an update.
WorkLeft ==
  6 * Len(pending) + 3 * (Cardinality(superseded) + Cardinality(dropped))
    + 2 * Len(updates) + Len(emitting) + (IF starting # None THEN 1 ELSE 0)

Lessens == together = {} /\ Work => WorkLeft' \in 0..WorkLeft - 1

\* The numbers it is made of.
LEMMA WorkNumbers ==
  ASSUME BaseInv
  PROVE  /\ Len(pending) \in Nat /\ Len(updates) \in Nat /\ Len(emitting) \in Nat
         /\ IsFiniteSet(superseded) /\ Cardinality(superseded) \in Nat
         /\ IsFiniteSet(dropped) /\ Cardinality(dropped) \in Nat
<1>1. pending \in Seq(Ids) /\ updates \in Seq(Nat) /\ emitting \in Seq(Ids)
  BY BaseParts DEF QueueOK
<1>2. superseded \in SUBSET Ids /\ dropped \in SUBSET Ids
  BY BaseParts
<1> QED
  BY <1>1, <1>2, CountedPlaces

\* The same of the state after a step.
LEMMA WorkNumbersAfter ==
  ASSUME BaseInv'
  PROVE  /\ Len(pending') \in Nat /\ Len(updates') \in Nat /\ Len(emitting') \in Nat
         /\ IsFiniteSet(superseded') /\ Cardinality(superseded') \in Nat
         /\ IsFiniteSet(dropped') /\ Cardinality(dropped') \in Nat
<1>1. Ids' = Ids
  BY InFlightIs
<1>2. pending' \in Seq(Ids) /\ updates' \in Seq(Nat) /\ emitting' \in Seq(Ids)
  BY <1>1 DEF BaseInv, TypeOK
<1>3. superseded' \in SUBSET Ids /\ dropped' \in SUBSET Ids
  BY <1>1 DEF BaseInv, TypeOK
<1> QED
  BY <1>2, <1>3, CountedPlaces

\* The list is shorter without an entry of it.
LEMMA WithoutIsShorter ==
  ASSUME pending \in Seq(Ids), NEW i \in Waiting
  PROVE  Len(Without(i)) < Len(pending)
<1> DEFINE S == Ids \ {i}
           ks == {k \in DOMAIN pending : pending[k] \in S}
<1>1. Len(Without(i)) = Cardinality(ks)
  BY Chosen DEF Without
<1>2. DOMAIN pending = 1..Len(pending) /\ Len(pending) \in Nat
  OBVIOUS
<1>3. PICK k \in DOMAIN pending : pending[k] = i
  BY DEF Waiting, ToSet
<1>4. ks \in SUBSET (1..Len(pending)) /\ ks # 1..Len(pending)
  BY <1>2, <1>3
<1> HIDE DEF ks
<1>5. IsFiniteSet(1..Len(pending)) /\ Cardinality(1..Len(pending)) = Len(pending)
  <2> DEFINE n == Len(pending)
  <2>1. 1 \in Int /\ n \in Int /\ n \in Nat
    BY <1>2
  <2> HIDE DEF n
  <2>2. IsFiniteSet(1..n) /\ Cardinality(1..n) = IF 1 > n THEN 0 ELSE n - 1 + 1
    BY <2>1, FS_Interval
  <2>3. IsFiniteSet(1..n) /\ Cardinality(1..n) = n
    BY <2>1, <2>2
  <2> QED
    BY <2>3 DEF n
<1>6. IsFiniteSet(ks) /\ Cardinality(ks) <= Len(pending) /\ Cardinality(ks) # Len(pending)
  BY <1>4, <1>5, FS_Subset
<1>7. Cardinality(ks) \in Nat
  BY <1>6, FS_CardinalityType
<1> QED
  BY <1>1, <1>2, <1>6, <1>7

\* A change of the queue adds one update at most.
LEMMA OneUpdateMore ==
  ASSUME updates \in Seq(Nat), NEW p \in Seq(Ids), NEW g \in SUBSET Ids, Publish(p, g)
  PROVE  Len(updates') <= Len(updates) + 1
<1>1. Len(updates) \in Nat
  OBVIOUS
<1>2. p = <<>> => updates' = updates
  BY Published
<1>3. p # <<>> => Len(updates') = Len(updates) + 1
  BY Published
<1> QED
  BY <1>1, <1>2, <1>3

\* Starting an entry.
LEMMA StartLessens ==
  ASSUME CalmInv, CalmInv', together = {}, Start
  PROVE  WorkLeft' <= WorkLeft - 1
<1>1. BaseInv /\ BaseInv' /\ CalmQueue /\ CalmStreams
  BY DEF CalmInv, IdleInv
<1>2. together' = together
  BY DEF Start
<1>3. CalmStreams'
  BY <1>2 DEF CalmInv
<1>4. /\ starting = None /\ emitting # <<>> /\ emitting' = Tail(emitting) /\ dropped' = dropped
  BY DEF Start
<1>5. Len(emitting) = 1 /\ Head(emitting) = emitting[1] /\ emitting' = <<>>
  BY <1>1, <1>4, BaseParts, OneLong DEF CalmQueue, OneIsEmitted
<1>6. Head(emitting) \in Waiting
  BY <1>1, <1>4, <1>5 DEF CalmQueue, OneIsEmitted
<1>7. pending' = Without(Head(emitting)) /\ Publish(pending', inProgress')
  BY <1>1, StartKeepsBase
<1>8. Len(pending') < Len(pending)
  BY <1>1, <1>6, <1>7, BaseParts, WithoutIsShorter DEF QueueOK
<1>9. Len(updates') <= Len(updates) + 1
  <2>1. pending' \in Seq(Ids) /\ inProgress' \in SUBSET Ids
    <3>1. Ids' = Ids
      BY InFlightIs
    <3> QED
      BY <1>1, <3>1 DEF BaseInv, TypeOK
  <2> QED
    BY <1>1, <1>7, <2>1, BaseParts, OneUpdateMore DEF QueueOK
<1>10. Cardinality(superseded') <= 1 /\ Cardinality(superseded) = 0
  <2>1. superseded = {}
    BY <1>1, <1>4 DEF CalmStreams, Replacing
  <2>2. \A a, b \in superseded' : a = b
    BY <1>3 DEF CalmStreams, Replacing
  <2>3. Cardinality(superseded') = 0 \/ Cardinality(superseded') = 1
    BY <1>1, <2>2, WorkNumbersAfter, AtMostOne
  <2> QED
    BY <2>1, <2>3, FS_EmptySet
<1>11. Len(emitting') = 0
  BY <1>5
<1> DEFINE p == Len(pending)
           u == Len(updates)
           sp == Cardinality(superseded')
           d == Cardinality(dropped)
           pp == Len(pending')
           uu == Len(updates')
<1>12. WorkLeft = 6 * p + 3 * (0 + d) + 2 * u + 1 + 0
  BY <1>4, <1>5, <1>10 DEF WorkLeft
<1>13. \E e \in {0, 1} : WorkLeft' = 6 * pp + 3 * (sp + d) + 2 * uu + 0 + e
  BY <1>4, <1>11 DEF WorkLeft
<1>14. {p, u, sp, d, pp, uu} \subseteq Nat /\ pp < p /\ uu <= u + 1 /\ sp <= 1
  BY <1>1, <1>8, <1>9, <1>10, WorkNumbers, WorkNumbersAfter
<1> HIDE DEF p, u, sp, d, pp, uu
<1> QED
  BY <1>12, <1>13, <1>14

\* Ending a stream.
LEMMA TearDownLessens ==
  ASSUME BaseInv, BaseInv', NEW i \in Ids, TearDown(i)
  PROVE  WorkLeft' <= WorkLeft - 1
<1>1. /\ superseded' = superseded \ {i} /\ dropped' = dropped \ {i} /\ i \in superseded \cup dropped
      /\ emitting' = emitting /\ starting' = starting
  BY DEF TearDown, worker
<1>2. pending' = Without(i) /\ Publish(pending', inProgress')
  BY TearDownKeepsBase
<1>3. Len(pending') <= Len(pending)
  BY <1>2, BaseParts, WithoutIs DEF QueueOK
<1>4. Len(updates') <= Len(updates) + 1
  <2>1. pending' \in Seq(Ids) /\ inProgress' \in SUBSET Ids
    <3>1. Ids' = Ids
      BY InFlightIs
    <3> QED
      BY <3>1 DEF BaseInv, TypeOK
  <2> QED
    BY <1>2, <2>1, BaseParts, OneUpdateMore DEF QueueOK
<1> DEFINE p == Len(pending)
           u == Len(updates)
           s == Cardinality(superseded)
           d == Cardinality(dropped)
           e == Len(emitting)
           pp == Len(pending')
           uu == Len(updates')
           sp == Cardinality(superseded')
           dd == Cardinality(dropped')
<1>5. /\ sp = IF i \in superseded THEN s - 1 ELSE s
      /\ dd = IF i \in dropped THEN d - 1 ELSE d
  BY <1>1, WorkNumbers, FS_RemoveElement
<1>6. {p, u, s, d, e, pp, uu, sp, dd} \subseteq Nat
  BY WorkNumbers, WorkNumbersAfter
<1>7. \E f \in {0, 1} : /\ WorkLeft = 6 * p + 3 * (s + d) + 2 * u + e + f
                        /\ WorkLeft' = 6 * pp + 3 * (sp + dd) + 2 * uu + e + f
  BY <1>1 DEF WorkLeft
<1>8. pp <= p /\ uu <= u + 1
  BY <1>3, <1>4
<1> HIDE DEF p, u, s, d, e, pp, uu, sp, dd
<1>9. sp + dd <= s + d - 1
  BY <1>1, <1>5, <1>6
<1> QED
  BY <1>6, <1>7, <1>8, <1>9

\* Taking an update, which starts one entry at most.
LEMMA TakeLessens ==
  ASSUME CalmInv, CalmInv', together = {}, TakeUpdate
  PROVE  WorkLeft' <= WorkLeft - 1
<1>1. BaseInv /\ BaseInv'
  BY DEF CalmInv, IdleInv
<1>2. /\ emitting = <<>> /\ updates # <<>> /\ updates' = Tail(updates)
      /\ pending' = pending /\ starting' = starting
      /\ superseded' = superseded /\ dropped' = dropped /\ together' = together
  BY DEF TakeUpdate
<1>3. Len(emitting') <= 1
  BY <1>2 DEF CalmInv, CalmQueue, OneIsEmitted
<1>4. Len(updates') = Len(updates) - 1 /\ Len(emitting) = 0
  BY <1>1, <1>2, BaseParts DEF QueueOK
<1> DEFINE p == Len(pending)
           u == Len(updates)
           s == Cardinality(superseded)
           d == Cardinality(dropped)
           ee == Len(emitting')
<1>5. {p, u, s, d, ee} \subseteq Nat /\ ee <= 1
  BY <1>1, <1>3, WorkNumbers, WorkNumbersAfter
<1>6. \E f \in {0, 1} : /\ WorkLeft = 6 * p + 3 * (s + d) + 2 * u + 0 + f
                        /\ WorkLeft' = 6 * p + 3 * (s + d) + 2 * (u - 1) + ee + f
  BY <1>2, <1>4 DEF WorkLeft
<1> HIDE DEF p, u, s, d, ee
<1> QED
  BY <1>5, <1>6

\* The entry is started.
LEMMA SubscribeLessens ==
  ASSUME BaseInv, Subscribe
  PROVE  WorkLeft' <= WorkLeft - 1
<1>1. /\ starting # None /\ starting' = None /\ pending' = pending /\ updates' = updates
      /\ emitting' = emitting /\ superseded' = superseded /\ dropped' = dropped
  BY DEF Subscribe, queue
<1> DEFINE w == 6 * Len(pending) + 3 * (Cardinality(superseded) + Cardinality(dropped))
                  + 2 * Len(updates) + Len(emitting)
<1>2. w \in Nat
  BY WorkNumbers
<1>3. WorkLeft = w + 1 /\ WorkLeft' = w + 0
  BY <1>1 DEF WorkLeft
<1> HIDE DEF w
<1> QED
  BY <1>2, <1>3

\* The worker comes to rest after every event, however the updates it publishes itself
\* wake it again, while every caller waits for one request: then an answer, a ping or a
\* caller has its turn.
THEOREM TheWorkerComesToRest == Spec => [][Lessens]_vars
<1>1. Init => CalmInv
  BY InitCalm
<1>2. CalmInv /\ [Next]_vars => CalmInv'
  BY CalmStep
<1>3. CalmInv /\ CalmInv' /\ [Next]_vars => [Lessens]_vars
  <2> SUFFICES ASSUME CalmInv, CalmInv', together = {}, Work PROVE WorkLeft' \in 0..WorkLeft - 1
    BY DEF Lessens
  <2>1. BaseInv /\ BaseInv'
    BY DEF CalmInv, IdleInv
  <2>2. WorkLeft' <= WorkLeft - 1
    BY <2>1, StartLessens, SubscribeLessens, TakeLessens, TearDownLessens DEF Work
  <2>3. WorkLeft \in Int
    BY <2>1, WorkNumbers DEF WorkLeft
  <2>4. WorkLeft' \in Nat
    <3> DEFINE w == 6 * Len(pending') + 3 * (Cardinality(superseded') + Cardinality(dropped'))
                      + 2 * Len(updates') + Len(emitting')
    <3>1. w \in Nat
      BY <2>1, WorkNumbersAfter
    <3>2. WorkLeft' = w + 0 \/ WorkLeft' = w + 1
      BY DEF WorkLeft
    <3> HIDE DEF w
    <3> QED
      BY <3>1, <3>2
  <2> QED
    BY <2>2, <2>3, <2>4
<1> QED
  BY <1>1, <1>2, <1>3, PTL DEF Spec

-----------------------------------------------------------------------------
(* One answer each                                                         *)

\* A stream that has not ended is waited for, or the present event ends it.
Listeners ==
  \A i \in Ids : stream[i] \in {"queued"} \cup Flying =>
    outcome[i] = "waiting" \/ i \in superseded \cup dropped

\* Streams are superseded by the entry that is being started.
Superseding == superseded # {} => starting # None

ListenersInv == BaseInv /\ Listeners /\ Superseding

\* What a caller got is what it keeps: no second answer, and no answer after it was
\* told of the cancellation or left.
OneAnswer ==
  \A i \in Ids : outcome[i] \notin {"none", "waiting"} => outcome'[i] = outcome[i]

\* Settling a request.
LEMMA SettledOnce ==
  ASSUME ListenersInv, AtRest, NEW i \in Ids, stream[i] \in Flying, NEW result, Settle(i, result)
  PROVE  Listeners' /\ OneAnswer
<1> DEFINE left == IF result = "ok" THEN {} ELSE Siblings(i)
<1>1. BaseInv /\ Listeners /\ superseded = {} /\ dropped = {}
  BY RestIs DEF ListenersInv
<1>2. /\ outcome' = [j \in Ids |-> IF j = i THEN result ELSE IF j \in left THEN "left" ELSE outcome[j]]
      /\ dropped' = left /\ stream' = [stream EXCEPT ![i] = "ended"]
      /\ Ids' = Ids
  BY InFlightIs DEF Settle
<1>3. \A j \in left : outcome[j] = "waiting"
  BY SiblingsWait
<1> HIDE DEF left
<1>4. \A j \in Ids : stream'[j] = IF j = i THEN "ended" ELSE stream[j]
  BY <1>1, <1>2, BaseParts
<1>5. Listeners'
  BY <1>1, <1>2, <1>4 DEF Listeners, Flying
<1>6. OneAnswer
  <2>1. outcome[i] = "waiting"
    BY <1>1 DEF Listeners
  <2> QED
    BY <1>2, <1>3, <2>1 DEF OneAnswer
<1> QED
  BY <1>5, <1>6

\* Giving up.
LEMMA GaveUpOnce ==
  ASSUME ListenersInv, NEW c, NEW l, GiveUp(c, l), superseded \cup dropped \cup c \cup l \subseteq superseded' \cup dropped',
         stream' = stream
  PROVE  Listeners' /\ OneAnswer
<1>1. \A j \in Ids : outcome'[j] = IF outcome[j] # "waiting" THEN outcome[j]
                                   ELSE IF j \in c THEN "cancelled"
                                   ELSE IF j \in l THEN "left" ELSE outcome[j]
  BY DEF GiveUp
<1>2. OneAnswer
  BY <1>1 DEF OneAnswer
<1>3. ASSUME NEW j \in Ids, stream'[j] \in {"queued"} \cup Flying
      PROVE  outcome'[j] = "waiting" \/ j \in superseded' \cup dropped'
  <2>1. outcome[j] = "waiting" \/ j \in superseded \cup dropped
    BY <1>3 DEF ListenersInv, Listeners
  <2> QED
    BY <1>1, <2>1
<1>4. Ids' = Ids
  BY InFlightIs
<1> QED
  BY <1>2, <1>3, <1>4 DEF Listeners

\* A stream that is new has a caller.
LEMMA AddedOnce ==
  ASSUME ListenersInv, NEW i \in Ids, stream[i] = "none",
         outcome' = [outcome EXCEPT ![i] = "waiting"],
         \A j \in Ids \ {i} : stream'[j] = stream[j] \/ stream[j] \in Flying,
         UNCHANGED <<superseded, dropped>>
  PROVE  Listeners' /\ OneAnswer
<1>1. outcome[i] = "none" /\ BaseInv
  BY BaseParts DEF ListenersInv, Listed
<1>2. \A j \in Ids : outcome'[j] = IF j = i THEN "waiting" ELSE outcome[j]
  BY <1>1, BaseParts
<1>3. OneAnswer
  BY <1>1, <1>2 DEF OneAnswer
<1>4. ASSUME NEW j \in Ids, stream'[j] \in {"queued"} \cup Flying
      PROVE  outcome'[j] = "waiting" \/ j \in superseded' \cup dropped'
  <2>1. CASE j = i
    BY <1>2, <2>1
  <2>2. CASE j # i
    <3>1. stream[j] \in {"queued"} \cup Flying
      BY <1>4, <2>2
    <3> QED
      BY <1>2, <2>2, <3>1 DEF ListenersInv, Listeners
  <2> QED
    BY <2>1, <2>2
<1>5. Ids' = Ids
  BY InFlightIs
<1> QED
  BY <1>3, <1>4, <1>5 DEF Listeners

\* A step in which nobody gets anything, and no stream begins.
LEMMA NothingGotOnce ==
  ASSUME ListenersInv, outcome' = outcome,
         \A j \in Ids : stream'[j] \in {"queued"} \cup Flying =>
           /\ stream[j] \in {"queued"} \cup Flying
           /\ j \in superseded \cup dropped => j \in superseded' \cup dropped'
  PROVE  Listeners' /\ OneAnswer
<1>1. Ids' = Ids
  BY InFlightIs
<1> QED
  BY <1>1 DEF ListenersInv, Listeners, OneAnswer

\* Every step keeps it that an entry is being started while streams are superseded.
LEMMA SupersedingStep ==
  ASSUME BaseInv, Superseding, [Next]_vars
  PROVE  Superseding'
<1>1. CASE superseded' \subseteq superseded /\ starting' = starting
  BY <1>1 DEF Superseding
<1>2. CASE TakeUpdate \/ UNCHANGED vars
  BY <1>1, <1>2 DEF TakeUpdate, vars, worker
<1>3. CASE Start
  <2>1. starting' = Head(emitting) /\ emitting # <<>>
    BY <1>3 DEF Start
  <2>2. Head(emitting) \in Ids
    BY <2>1, BaseParts
  <2> QED
    BY <2>1, <2>2, NoneIsNoId DEF Superseding
<1>4. CASE Subscribe
  BY <1>4 DEF Subscribe, Superseding
<1>5. ASSUME NEW i \in Ids, TearDown(i) \/ Answer(i)
      PROVE  Superseding'
  BY <1>1, <1>5 DEF TearDown, worker, Answer, AnswerOk, AnswerError, AnswerUnauthorized, Settle
<1>6. ASSUME NEW r \in Requests, Fetch(r) \/ Leave(r)
      PROVE  Superseding'
  BY <1>1, <1>6 DEF Fetch, Leave, worker
<1>7. ASSUME NEW r \in Retriable, PingSettled(r)
      PROVE  Superseding'
  BY <1>1, <1>7 DEF PingSettled, Settle, worker
<1>8. ASSUME NEW olds \in SUBSET InFlight, Cancel(olds)
      PROVE  Superseding'
  BY <1>1, <1>8 DEF Cancel, worker
<1> QED
  BY StepsOfTheQueue, <1>2, <1>3, <1>4, <1>5, <1>6, <1>7, <1>8

\* Every step.
LEMMA ListenersStep ==
  ASSUME ListenersInv, [Next]_vars
  PROVE  ListenersInv' /\ OneAnswer
<1>1. BaseInv /\ BaseInv' /\ Superseding' /\ stream \in [Ids -> Streams]
  BY BaseStep, BaseParts, SupersedingStep DEF ListenersInv
<1> SUFFICES Listeners' /\ OneAnswer
  BY <1>1 DEF ListenersInv
<1>2. CASE TakeUpdate \/ UNCHANGED vars
  <2>1. stream' = stream /\ outcome' = outcome /\ superseded' = superseded /\ dropped' = dropped
    BY <1>2 DEF TakeUpdate, vars
  <2> QED
    BY <2>1, NothingGotOnce
<1>3. CASE Start
  <2> DEFINE olds == Supersedes(Head(emitting))
             left == UNION {Siblings(j) : j \in olds}
  <2>1. /\ superseded' = olds \cup left /\ GiveUp(olds, left)
        /\ dropped' = dropped /\ stream' = stream /\ starting = None
    BY <1>3 DEF Start
  <2>2. superseded = {}
    BY <2>1 DEF ListenersInv, Superseding
  <2> HIDE DEF olds, left
  <2> QED
    BY <2>1, <2>2, GaveUpOnce
<1>4. CASE Subscribe
  <2>1. /\ stream' = [stream EXCEPT ![starting] = IF @ = "queued" THEN "fetching" ELSE @]
        /\ superseded' = superseded /\ dropped' = dropped /\ outcome' = outcome
    BY <1>4 DEF Subscribe
  <2>2. \A j \in Ids : stream'[j] = stream[j] \/ stream[j] = "queued"
    BY <1>1, <2>1
  <2> QED
    BY <2>1, <2>2, NothingGotOnce
<1>5. ASSUME NEW i \in Ids, TearDown(i)
      PROVE  Listeners' /\ OneAnswer
  <2>1. /\ stream' = [stream EXCEPT ![i] = "ended"] /\ outcome' = outcome
        /\ superseded' = superseded \ {i} /\ dropped' = dropped \ {i}
    BY <1>5 DEF TearDown
  <2>2. \A j \in Ids : stream'[j] = IF j = i THEN "ended" ELSE stream[j]
    BY <1>1, <2>1
  <2> QED
    BY <2>1, <2>2, NothingGotOnce DEF Flying
<1>6. ASSUME NEW i \in Ids, Answer(i)
      PROVE  Listeners' /\ OneAnswer
  <2>1. AtRest /\ stream[i] \in Flying
    BY <1>6 DEF Answer, AnswerOk, AnswerError, AnswerUnauthorized, Flying
  <2>2. CASE \E result : Settle(i, result)
    BY <2>1, <2>2, SettledOnce
  <2>3. CASE AnswerUnauthorized(i) /\ stream[i] = "fetching" /\ i[2] = "own" /\ i[1] \in Retriable
    <3> DEFINE p == Ping(i[1])
    <3>1. i = Own(i[1]) /\ p \in Ids /\ p # i
      BY <2>3, IdParts
    <3>2. stream[p] = "none"
      BY <1>1, <2>3, <3>1, BaseParts DEF PingsAreNew
    <3>3. /\ stream' = [stream EXCEPT ![i] = "pinging", ![p] = "queued"]
          /\ outcome' = [outcome EXCEPT ![p] = "waiting"]
          /\ UNCHANGED <<superseded, dropped>>
      BY <2>3 DEF AnswerUnauthorized
    <3> HIDE DEF p
    <3>4. \A j \in Ids \ {p} : stream'[j] = stream[j] \/ stream[j] \in Flying
      BY <1>1, <2>1, <3>1, <3>3
    <3> QED
      BY <3>1, <3>2, <3>3, <3>4, AddedOnce
  <2> QED
    BY <1>6, <2>2, <2>3 DEF Answer, AnswerOk, AnswerError, AnswerUnauthorized
<1>7. ASSUME NEW r \in Requests, Fetch(r)
      PROVE  Listeners' /\ OneAnswer
  <2> DEFINE i == Own(r)
  <2>1. /\ i \in Ids /\ stream[i] = "none" /\ stream' = [stream EXCEPT ![i] = "queued"]
        /\ outcome' = [outcome EXCEPT ![i] = "waiting"] /\ UNCHANGED <<superseded, dropped>>
    BY <1>7, IdParts DEF Fetch
  <2> HIDE DEF i
  <2>2. \A j \in Ids \ {i} : stream'[j] = stream[j]
    BY <1>1, <2>1
  <2> QED
    BY <2>1, <2>2, AddedOnce
<1>8. ASSUME NEW r \in Requests, Leave(r)
      PROVE  Listeners' /\ OneAnswer
  <2> DEFINE l == dropped'
  <2>1. /\ superseded = {} /\ dropped = {} /\ GiveUp({}, l) /\ stream' = stream
    BY <1>8, RestIs DEF Leave
  <2>2. superseded \cup dropped \cup {} \cup l \subseteq superseded' \cup dropped'
    BY <2>1
  <2> HIDE DEF l
  <2> QED
    BY <2>1, <2>2, GaveUpOnce
<1>9. ASSUME NEW r \in Retriable, PingSettled(r)
      PROVE  Listeners' /\ OneAnswer
  <2>1. Own(r) \in Ids /\ AtRest /\ stream[Own(r)] = "pinging"
    BY <1>9, IdParts DEF PingSettled
  <2>2. CASE \E result : Settle(Own(r), result)
    BY <2>1, <2>2, SettledOnce DEF Flying
  <2>3. CASE stream' = [stream EXCEPT ![Own(r)] = "refetching"] /\ UNCHANGED <<superseded, dropped, outcome>>
    <3>1. \A j \in Ids : stream'[j] = stream[j] \/ (j = Own(r) /\ stream[j] = "pinging")
      BY <1>1, <2>1, <2>3
    <3> QED
      BY <2>3, <3>1, NothingGotOnce DEF Flying
  <2> QED
    BY <1>9, <2>2, <2>3 DEF PingSettled
<1>10. ASSUME NEW olds \in SUBSET InFlight, Cancel(olds)
       PROVE  Listeners' /\ OneAnswer
  <2> DEFINE left == UNION {Siblings(j) : j \in olds}
  <2>1. /\ superseded = {} /\ dropped = {} /\ dropped' = olds \cup left /\ GiveUp(olds, left)
        /\ stream' = stream
    BY <1>10, RestIs DEF Cancel
  <2> HIDE DEF left
  <2> QED
    BY <2>1, GaveUpOnce
<1> QED
  BY StepsOfTheQueue, <1>2, <1>3, <1>4, <1>5, <1>6, <1>7, <1>8, <1>9, <1>10 DEF ListenersInv

\* A caller gets one answer, whatever is superseded, cancelled, abandoned and answered
\* in one event: the safety of what EverySettles promises.
THEOREM OneAnswerEach == Spec => [][OneAnswer]_vars
<1>1. Init => ListenersInv
  <2> SUFFICES ASSUME Init PROVE ListenersInv
    OBVIOUS
  <2>1. BaseInv
    BY InitBase
  <2>2. superseded = {} /\ \A i \in Ids : stream[i] = "none"
    BY DEF Init
  <2> QED
    BY <2>1, <2>2 DEF ListenersInv, Listeners, Superseding, Flying
<1>2. ListenersInv /\ [Next]_vars => ListenersInv' /\ [OneAnswer]_vars
  BY ListenersStep
<1> QED
  BY <1>1, <1>2, PTL DEF Spec

\* What a stream has gone through; it is none of these twice.
Stage(s) ==
  IF s = "none" THEN 0
  ELSE IF s = "queued" THEN 1
  ELSE IF s = "fetching" THEN 2
  ELSE IF s = "pinging" THEN 3
  ELSE IF s = "refetching" THEN 4
  ELSE 5

\* No step takes a stream back, and every answer brings one on: there are no more of
\* these than stages.
StreamsGoOn ==
  /\ \A i \in Ids : Stage(stream[i]) <= Stage(stream'[i])
  /\ \A i \in Ids : Answer(i) => Stage(stream[i]) < Stage(stream'[i])
  /\ \A r \in Retriable : PingSettled(r) => Stage(stream[Own(r)]) < Stage(stream'[Own(r)])

\* A step that changes one stream, or one and its ping.
LEMMA StagesKept ==
  ASSUME NEW S, \A i \in Ids \ S : stream'[i] = stream[i],
         \A i \in Ids \cap S : Stage(stream[i]) < Stage(stream'[i])
  PROVE  \A i \in Ids : Stage(stream[i]) <= Stage(stream'[i])
<1> SUFFICES ASSUME NEW i \in Ids PROVE Stage(stream[i]) <= Stage(stream'[i])
  OBVIOUS
<1>1. Stage(stream[i]) \in Nat /\ Stage(stream'[i]) \in Nat
  BY DEF Stage
<1>2. CASE i \in S
  <2>1. Stage(stream[i]) < Stage(stream'[i])
    BY <1>2
  <2> QED
    BY <1>1, <2>1
<1>3. CASE i \notin S
  <2>1. stream'[i] = stream[i]
    BY <1>3
  <2> QED
    BY <1>1, <2>1
<1> QED
  BY <1>2, <1>3

\* Settling ends a stream that had not ended.
LEMMA SettledStream ==
  ASSUME BaseInv, NEW i \in Ids, stream[i] \in Flying, NEW result, Settle(i, result)
  PROVE  /\ \A j \in Ids \ {i} : stream'[j] = stream[j]
         /\ Stage(stream[i]) < Stage(stream'[i])
<1>1. stream' = [stream EXCEPT ![i] = "ended"] /\ stream \in [Ids -> Streams]
  BY BaseParts DEF Settle
<1>2. stream'[i] = "ended"
  BY <1>1
<1> QED
  BY <1>1, <1>2 DEF Stage, Flying

\* An answer brings its stream on.
LEMMA AnswerGoesOn ==
  ASSUME BaseInv, NEW i \in Ids, Answer(i)
  PROVE  /\ Stage(stream[i]) < Stage(stream'[i])
         /\ \A j \in Ids : Stage(stream[j]) <= Stage(stream'[j])
<1>1. stream[i] \in {"fetching", "refetching"} /\ stream \in [Ids -> Streams]
  BY BaseParts DEF Answer, AnswerOk, AnswerError, AnswerUnauthorized
<1>2. CASE \E result : Settle(i, result)
  <2>1. /\ \A j \in Ids \ {i} : stream'[j] = stream[j]
        /\ Stage(stream[i]) < Stage(stream'[i])
    BY <1>1, <1>2, SettledStream DEF Flying
  <2>2. \A j \in Ids \cap {i} : Stage(stream[j]) < Stage(stream'[j])
    BY <2>1
  <2> QED
    BY <2>1, <2>2, StagesKept
<1>3. CASE AnswerUnauthorized(i) /\ stream[i] = "fetching" /\ i[2] = "own" /\ i[1] \in Retriable
  <2> DEFINE p == Ping(i[1])
  <2>1. p \in Ids /\ p # i
    BY <1>3, IdParts
  <2>2. stream[p] = "none"
    BY <1>3, <2>1, IdParts, BaseParts DEF PingsAreNew
  <2>3. stream' = [stream EXCEPT ![i] = "pinging", ![p] = "queued"]
    BY <1>3 DEF AnswerUnauthorized
  <2> HIDE DEF p
  <2>4. /\ stream'[i] = "pinging" /\ stream'[p] = "queued"
        /\ \A j \in Ids \ {i, p} : stream'[j] = stream[j]
    BY <1>1, <2>1, <2>3
  <2>5. Stage(stream[i]) < Stage(stream'[i]) /\ Stage(stream[p]) < Stage(stream'[p])
    BY <1>3, <2>2, <2>4 DEF Stage
  <2>6. \A j \in Ids \cap {i, p} : Stage(stream[j]) < Stage(stream'[j])
    BY <2>5
  <2> QED
    BY <2>4, <2>5, <2>6, StagesKept
<1> QED
  BY <1>2, <1>3 DEF Answer, AnswerOk, AnswerError, AnswerUnauthorized

\* The promise of a ping does.
LEMMA PingSettledGoesOn ==
  ASSUME BaseInv, NEW r \in Retriable, PingSettled(r)
  PROVE  /\ Stage(stream[Own(r)]) < Stage(stream'[Own(r)])
         /\ \A j \in Ids : Stage(stream[j]) <= Stage(stream'[j])
<1>1. Own(r) \in Ids /\ stream[Own(r)] = "pinging" /\ stream \in [Ids -> Streams]
  BY IdParts, BaseParts DEF PingSettled
<1>2. /\ \A j \in Ids \ {Own(r)} : stream'[j] = stream[j]
      /\ Stage(stream[Own(r)]) < Stage(stream'[Own(r)])
  <2>1. CASE \E result : Settle(Own(r), result)
    BY <1>1, <2>1, SettledStream DEF Flying
  <2>2. CASE stream' = [stream EXCEPT ![Own(r)] = "refetching"]
    <3>1. stream'[Own(r)] = "refetching" /\ \A j \in Ids \ {Own(r)} : stream'[j] = stream[j]
      BY <1>1, <2>2
    <3> QED
      BY <1>1, <3>1 DEF Stage
  <2> QED
    BY <2>1, <2>2 DEF PingSettled
<1>3. \A j \in Ids \cap {Own(r)} : Stage(stream[j]) < Stage(stream'[j])
  BY <1>2
<1> QED
  BY <1>2, <1>3, StagesKept

\* A step of the code, an event of a caller included, takes no stream back.
LEMMA StreamsStep ==
  ASSUME BaseInv, [Next]_vars
  PROVE  \A j \in Ids : Stage(stream[j]) <= Stage(stream'[j])
<1>1. stream \in [Ids -> Streams]
  BY BaseParts
<1>2. CASE stream' = stream
  <2>1. \A i \in Ids : Stage(stream'[i]) = Stage(stream[i]) /\ Stage(stream[i]) \in Nat
    BY <1>2 DEF Stage
  <2> QED
    BY <2>1
<1>3. CASE Subscribe
  <2>1. stream' = [stream EXCEPT ![starting] = IF @ = "queued" THEN "fetching" ELSE @]
    BY <1>3 DEF Subscribe
  <2>2. \A j \in Ids : stream'[j] = stream[j] \/ (stream[j] = "queued" /\ stream'[j] = "fetching")
    BY <1>1, <2>1
  <2> QED
    BY <2>2 DEF Stage
<1>4. ASSUME NEW i \in Ids, TearDown(i)
      PROVE  \A j \in Ids : Stage(stream[j]) <= Stage(stream'[j])
  <2>1. stream' = [stream EXCEPT ![i] = "ended"]
    BY <1>4 DEF TearDown
  <2>2. \A j \in Ids : stream'[j] = stream[j] \/ stream'[j] = "ended"
    BY <1>1, <2>1
  <2> QED
    BY <2>2 DEF Stage
<1>5. ASSUME NEW r \in Requests, Fetch(r)
      PROVE  \A j \in Ids : Stage(stream[j]) <= Stage(stream'[j])
  <2>1. Own(r) \in Ids /\ stream[Own(r)] = "none" /\ stream' = [stream EXCEPT ![Own(r)] = "queued"]
    BY <1>5, IdParts DEF Fetch
  <2>2. \A j \in Ids : stream'[j] = stream[j] \/ (stream[j] = "none" /\ stream'[j] = "queued")
    BY <1>1, <2>1
  <2> QED
    BY <2>2 DEF Stage
<1>6. TakeUpdate \/ Start \/ UNCHANGED vars => stream' = stream
  BY DEF TakeUpdate, Start, vars
<1>7. \A r \in Requests : Leave(r) => stream' = stream
  BY DEF Leave
<1>8. \A olds \in SUBSET InFlight : Cancel(olds) => stream' = stream
  BY DEF Cancel
<1> QED
  BY <1>1, StepsOfTheQueue, <1>2, <1>3, <1>4, <1>5, <1>6, <1>7, <1>8, AnswerGoesOn, PingSettledGoesOn

\* There is an end to answers and pings: with NobodyWaitsForNothing and
\* TheWorkerComesToRest no caller is put off forever.
THEOREM AnswersComeToAnEnd == Spec => [][StreamsGoOn]_vars
<1>1. Init => BaseInv
  BY InitBase
<1>2. BaseInv /\ [Next]_vars => BaseInv' /\ [StreamsGoOn]_vars
  <2> SUFFICES ASSUME BaseInv, [Next]_vars PROVE BaseInv' /\ StreamsGoOn
    OBVIOUS
  <2>1. BaseInv'
    BY BaseStep
  <2>2. \A i \in Ids : Stage(stream[i]) <= Stage(stream'[i])
    BY StreamsStep
  <2> QED
    BY <2>1, <2>2, AnswerGoesOn, PingSettledGoesOn DEF StreamsGoOn
<1> QED
  BY <1>1, <1>2, PTL DEF Spec

=============================================================================
